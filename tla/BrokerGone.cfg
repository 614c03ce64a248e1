SPECIFICATION FairSpec
CONSTANTS
  Conns = {"w1", "w2"}
  RoleOf <- MCRoleOf
  Kinds = {"hello", "foreign", "forward", "backward", "unrouted", "mismatch", "invalid", "undecodable"}
  MaxLines <- MCMaxLines
PROPERTIES GoneIsUnregistered
CHECK_DEADLOCK FALSE
