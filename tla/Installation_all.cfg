SPECIFICATION FairSpec
CONSTANTS
  p1 = p1
  p2 = p2
  Programs = {p1, p2}
  Plans <- MCPlans
  MaxFaults = 1
  None = None
  Torn = Torn
  Ports = {"64001"}
  HostName = "host"
  EnvMode = ""
  MaxCredentials = 2
  MaxPairs = 3
  Kinds <- MCKinds
  AutoInstall = TRUE
  Deferred = TRUE
INVARIANTS BinarySound CredentialsUsable SettingsHold
PROPERTIES ServesAgain Settles
CHECK_DEADLOCK FALSE
