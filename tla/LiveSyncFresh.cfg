SPECIFICATION PolledSpec
CONSTANTS
  Locs = {"f_entry", "f_body", "g_entry", "foreign", "opaque"}
  Funcs = {"f", "g"}
  Lvars = {"a", "b", "s", "x", "y"}
  Regs = {"rcx", "rdx", "rbx", "rsp"}
  Place <- MCPlace
  FuncOf <- MCFuncOf
  LvarsOf <- MCLvarsOf
  ArgHome <- MCArgHome
  Name <- MCName
  Evidence <- MCEvidence
  MaxHistory = 4
  PumpMax = 2
  MaxCount = 2
  MaxInstant = 2
  MaxSeq = 2
  MaxLoads = 1
  Mishaps = {"readfail"}
INVARIANTS TypeOK FreshIsTrue StaleWasExact
PROPERTIES RequestsEnd
