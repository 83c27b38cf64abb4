SPECIFICATION Spec
CONSTANTS
  in1 = in1
  in2 = in2
  Reports = {"regist", "alarm"}
  Inputs <- TwoInputs
  Timeout <- MCTimeout
  RegLead = 1
  WireMax = 1
  MaxEvents = 2
PROPERTIES
  AlarmsForNewTriggers
