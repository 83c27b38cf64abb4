SPECIFICATION MCSpec
CONSTANTS
  in1 = in1
  in2 = in2
  Reports = {"regist", "trigin"}
  Inputs <- OneInput
  Timeout <- MCTimeout
  RegLead = 1
  WireMax = 1
  MaxEvents = 2
INVARIANTS
  TriginFlagHonest
PROPERTIES
  InputsGetThrough
  RegistersAtLast
  StateAtLast
  AlarmAtLast
