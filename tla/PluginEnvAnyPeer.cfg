SPECIFICATION EnvSpec
CONSTANTS
  Locs = {"f_entry", "f_body", "foreign", "opaque"}
  Funcs = {"f"}
  Lvars = {"s", "x", "y"}
  Regs = {"rbx", "rsp"}
  Place <- MCPlace
  FuncOf <- MCFuncOf
  LvarsOf <- MCLvarsOf
  ArgHome <- MCArgHome
  Name <- MCName
  Evidence <- MCEvidence
  MaxHistory = 1
  EnvSeqs = {1, 2}
  EnvLocs = {"f_entry", "f_body"}
  EnvAddrs <- MCAddrs
  EnvRegs <- MCRegs
INVARIANTS LocalsFromTheirHome
PROPERTIES AnswersUseUpRequests
