SPECIFICATION Spec
CONSTANTS
  Locs = {"f_entry", "f_body", "foreign", "opaque"}
  Funcs = {"f", "g"}
  Lvars = {"a", "s", "x"}
  Regs = {"rcx", "rbx", "rsp"}
  Place <- MCPlace
  FuncOf <- MCFuncOf
  LvarsOf <- MCLvarsOf
  ArgHome <- MCArgHome
  Name <- MCName
  Evidence <- MCEvidence
  MaxHistory = 4
  PumpMax = 2
  MaxCount = 2
  MaxInstant = 2
  MaxSeq = 2
  MaxLoads = 1
  Mishaps = {"native", "pcfail", "wdloss", "idaloss", "inactive", "readfail"}
INVARIANTS FreshNotEarlier PendingIsCurrent AtMostOneBlindStop
