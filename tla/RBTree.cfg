CONSTANTS
  a0 = a0
  a1 = a1
  Null = Null
  Actor <- OneActor
  KeysOf <- EightKeys
  Node <- EightNodes
SPECIFICATION Spec
INVARIANTS
    Ordered
    Is_balance
PROPERTIES
    ImplementsKeySet
