SPECIFICATION Spec
CONSTANTS
  OnUbuntu = TRUE
  AnsibleProvision = FALSE
  EnableLbaas = FALSE
  Legacy = {"database"}
  ApiHere = FALSE
  Plans <- HostPlans
  FirstPlan <- ControllerPlan
  MaxVersion = 3
  MaxFaults = 1
INVARIANTS TypeOK NoStaleProcess CompletedMeansInstalled ProvisionedMeansServing UnbootedMeansLost UninstalledMeansGone
PROPERTIES SkippedForCause
