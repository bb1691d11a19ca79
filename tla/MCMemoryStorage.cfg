CONSTANTS
  Goroutines = {g1, g2}
  Ids = {1, 2, 3}
  Packets = {pub, rec}
  NoPacket = NoPacket
  NoOne = NoOne
SPECIFICATION Spec
INVARIANTS TypeOK UniqueIds ScanInv
PROPERTIES OrderPreserved ImplementsMap
