SPECIFICATION FairSpec
CONSTANTS
  Turn = {t1, t2}
  Given = {g}
  Earlier = {e}
  NoSession = NoSession
INVARIANTS
  TurnIsAtomic
  StoredOnce
  CountLagsOnlyByOverlap
  CacheIsFirstHand
PROPERTIES
  TurnsEnd
CHECK_DEADLOCK FALSE
