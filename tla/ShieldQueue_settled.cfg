SPECIFICATION FairSpec
CONSTANTS
  MaxShield = 2
  RelayAdapt = {1}
  NoReceiptTo = {1}
  Sanctioned = {2}
  FailingStep <- AllSteps
  EventLoss = {TRUE, FALSE}
  MaxFailures = 1
  MaxCrashes = 1
INVARIANTS TypeOK OnlyAllowedShieldsGetEvents BlockedShieldsAreListed
   
