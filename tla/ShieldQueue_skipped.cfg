SPECIFICATION FairSpec
CONSTANTS
  MaxShield = 2
  RelayAdapt = {}
  NoReceiptTo = {}
  Sanctioned = {}
  FailingStep <- InsertStep
  EventLoss = {FALSE}
  MaxFailures = 1
  MaxCrashes = 0
PROPERTIES NewShieldIsQueued
