SPECIFICATION Spec
CONSTANTS
  Users = {u1, u2}  Keys = {k1}  Procs = {p1, p2}
  MaxCredits = 2  LateTimeout = TRUE  MayCrash = TRUE  MayFreeze = TRUE
  Owners = {0, 1, 2}  Treasury = 0  Txs = {t1, t2, t3}
  Nobody = Nobody  Methods = {"one", "pair"}
  Callers = {c1, c2, c3}  Threshold = 2  MaxFailures = 5
  Chains = {x1, x2}  MaxRetries = 3  Restarts = 1
INVARIANTS TopupSafety  BreakerSafety RetrySafety
PROPERTIES DebitIsCredited  Retried RetrySettles
CHECK_DEADLOCK FALSE
