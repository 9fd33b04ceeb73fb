CONSTANTS
  a0 = a0
  a1 = a1
  Null = Null
  Actor <- TwoActors
  KeysOf <- OwnKeys
  Node <- OwnNodes
SPECIFICATION Spec
INVARIANTS
  NoCoreLost
