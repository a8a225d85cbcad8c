\* Connections of every kind and up to two packets, in pieces of any size.
CONSTANTS
  Shapes <- SomeShapes
  MaxPackets = 2
  AskedPort = 9
SPECIFICATION Spec
INVARIANT DispatchedInOrder
PROPERTIES
  EverythingRead
  MalformedAborts
  PortGivenBack
