SPECIFICATION Spec
CONSTANTS
  Request = {r1, r2, r3}
  Task = {t1, t2}
  two = two
  one = one
  none = none
  x = x
  y = y
  Name <- MCName
  Content <- MCContent
  ChunkCount <- MCChunkCount
  File <- MCFile
  NoRow = NoRow
  Absent = Absent
  Nobody = Nobody
SYMMETRY MCSymmetry
INVARIANTS TypeOK OneRunIsSearchable ActiveHasChunks NoOrphanChunks FileOfRowIsStored
PROPERTIES SearchableUntilDeleted ImplementsIndex
CHECK_DEADLOCK FALSE
