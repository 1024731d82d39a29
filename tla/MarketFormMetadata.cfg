SPECIFICATION Spec
CONSTANTS
  Texts = {t1, t2}
  Wide = {t2}
  MaxNow = 1
  MaxEdits = 3
  MaxAttempts = 1
INVARIANTS CreatedPublishable
CHECK_DEADLOCK FALSE
