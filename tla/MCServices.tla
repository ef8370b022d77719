----------------------------- MODULE MCServices -----------------------------
(***************************************************************************)
(* The components with liveness properties, for TLC: recharges, wallet     *)
(* locks, the circuit breaker and the retry queue.  They share no state,   *)
(* so a behaviour is about one of them, its focus, and the others rest in  *)
(* one of their initial states.                                            *)
(***************************************************************************)
EXTENDS Topup, WalletLocks, CircuitBreaker, RetryQueue

VARIABLE focus  \* the component a behaviour is about

servicesVars == <<focus, topupVars, locksVars, breakerVars, retryVars>>

AnyUser == CHOOSE u \in Users : TRUE
AtRest == \A p \in Procs, k \in Keys : call[p].user = AnyUser /\ tx[k].user = AnyUser

Init ==
  /\ focus \in {"topup", "locks", "breaker", "retry"}
  /\ TopupInit /\ LocksInit /\ BreakerInit /\ RetryInit
  /\ focus # "topup" => AtRest

Next ==
  \/ /\ focus = "topup" /\ TopupNext
     /\ UNCHANGED <<focus, locksVars, breakerVars, retryVars>>
  \/ /\ focus = "locks" /\ LocksNext
     /\ UNCHANGED <<focus, topupVars, breakerVars, retryVars>>
  \/ /\ focus = "breaker" /\ BreakerNext
     /\ UNCHANGED <<focus, topupVars, locksVars, retryVars>>
  \/ /\ focus = "retry" /\ RetryNext
     /\ UNCHANGED <<focus, topupVars, locksVars, breakerVars>>

\* Asking is possible in the breaker's initial state, so its fairness is asked of its
\* own behaviours only; what the other conditions name is not possible at rest
BreakerTurn(A) == focus = "breaker" /\ A

Spec ==
  /\ Init /\ [][Next]_servicesVars
  /\ TopupFairness /\ LocksFairness /\ RetryFairness
  /\ WF_breakerVars(BreakerTurn(Cooldown))
  /\ \A c \in Callers : WF_breakerVars(BreakerTurn(Ask(c)))
  /\ SF_breakerVars(BreakerTurn(\E c \in Callers : CallerStep(c)))
=============================================================================
