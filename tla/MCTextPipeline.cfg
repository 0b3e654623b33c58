SPECIFICATION Spec
CONSTANTS
  Weight <- MCWeight
  NumLevels = 3
  Level <- MCLevel
  MaxLines = 5
  Kinds <- MCKinds
  MaxPages = 2
  BatchRows = 2
  MaxChunk = 3
  Overlap = 1
  SectionBreak = 2
INVARIANTS
  LinesKept
  ChunksCoverInOrder
  RepeatsOnlyOverlap
  SectionsApart
  ChunksWithinLimit
  TrailIsOfSection
  PagesAreOfText
CHECK_DEADLOCK FALSE
