SPECIFICATION TopupSpec
CONSTANTS
  Users = {u1}  Keys = {k1}  Procs = {p1, p2}
  MaxCredits = 2  LateTimeout = FALSE  MayCrash = FALSE  MayFreeze = FALSE
INVARIANTS CreditedOnce
CHECK_DEADLOCK FALSE
