SPECIFICATION Spec
CONSTANTS
  P = 4
  Size <- MCSize
  ReadSize = 4
  Capacities = {4, 8}
INVARIANTS TypeOK MeshProgress NoStrayStream MeshComplete StreamInOrder
PROPERTIES AllLinked ImplementsLink DeliversLink
