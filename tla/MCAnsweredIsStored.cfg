SPECIFICATION Spec
CONSTANTS
  Turn = {t1, t2}
  Given = {g}
  Earlier = {e}
  NoSession = NoSession
INVARIANTS
  AnsweredIsStored
CHECK_DEADLOCK FALSE
