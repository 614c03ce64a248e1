SPECIFICATION Spec
CONSTANTS
  Locs = {"f_entry", "f_body"}
  Funcs = {"f", "g"}
  Lvars = {"a"}
  Regs = {"rcx", "rbx", "rsp"}
  Place <- MCPlace
  FuncOf <- MCFuncOf
  LvarsOf <- MCLvarsOf
  ArgHome <- MCArgHome
  Name <- MCName
  Evidence <- MCEvidence
  MaxHistory = 4
  PumpMax = 2
  MaxCount = 2
  MaxInstant = 2
  MaxSeq = 2
  MaxLoads = 1
  Mishaps = {"idaloss"}
INVARIANTS FreshIsTrue
