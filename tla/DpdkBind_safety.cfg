SPECIFICATION DpdkSpec
CONSTANTS
  Nics <- Devices
  Model <- ModelOf
  System <- ModuleOf
  MaxListed = 2
INVARIANTS DpdkTypeOK OthersUntouched DoneAsAsked LosesOnlyWhenRefused
PROPERTIES ActiveKeepsDriver
