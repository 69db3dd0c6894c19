SPECIFICATION Spec
CONSTANTS
  Threads = {t1, t2}
  Nobody = Nobody
  MayFail = FALSE
INVARIANTS
  TrueMeansDone
