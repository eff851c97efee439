\* Two processes behind one lease and around one store configuration.
SPECIFICATION FairSpec
CONSTANTS
  Procs = {p1, p2}
  Elections = TRUE
  Features = {"EnableAlphaExternalSecretStores", "EnableAlphaManagementPolicies"}
  Nobody = Nobody
  Former = Former
  Step = 5
  Delay = 5
  MaxEdits = 1
  MaxFaults = 2
INVARIANTS TypeOK 
PROPERTIES StoreConfigKept ComesBack
