SPECIFICATION Spec
CONSTANTS
  Conns = {"w1", "w2", "i1"}
  RoleOf <- MCRoleOf
  Kinds = {"hello", "forward"}
  MaxLines <- MCMaxLines
INVARIANTS TypeOK RegistryIsServed DeliveredInOrder
CHECK_DEADLOCK FALSE
