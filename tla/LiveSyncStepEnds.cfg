SPECIFICATION FairSpec
CONSTANTS
  Locs = {"f_entry", "f_body"}
  Funcs = {"f", "g"}
  Lvars = {"a"}
  Regs = {"rcx", "rbx", "rsp"}
  Place <- MCPlace
  FuncOf <- MCFuncOf
  LvarsOf <- MCLvarsOf
  ArgHome <- MCArgHome
  Name <- MCName
  Evidence <- MCEvidence
  MaxHistory = 4
  PumpMax = 1
  MaxCount = 2
  MaxInstant = 2
  MaxSeq = 2
  MaxLoads = 2
  Mishaps = {"wdloss", "pcfail", "inactive", "reload", "native"}
INVARIANTS FreshNotEarlier
PROPERTIES StepEnds
