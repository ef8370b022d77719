---------------------------- MODULE WalletLocks ----------------------------
(***************************************************************************)
(* The order in which the finance transactions take row locks on wallets   *)
(* (SELECT ... FOR UPDATE).  lockTwoWallets takes a pair in the order of   *)
(* the user ids; releaseEscrow and partialRefund take the buyer's wallet   *)
(* first and such a pair per row after it, createPayoutBatch the           *)
(* initiator's and then each item's in the order they are given.           *)
(*                                                                         *)
(* A transaction is the sequence of the locks it will ask for; a lock is   *)
(* kept until the commit.  Owners are numbers in the order of their ids;    *)
(* TREASURY_USER_ID is the smallest.                                       *)
(***************************************************************************)
EXTENDS Integers, Sequences

CONSTANTS
  Owners, Treasury,
  Txs, Nobody,  \* database transactions in progress; the owner of a free lock
  Methods       \* the finance methods a run exercises

FinanceMethods == {"one", "pair", "release", "batch"}

ASSUME LocksAssumption ==
  /\ Owners \subseteq Nat /\ Treasury \in Owners
  /\ \A u \in Owners : Treasury <= u
  /\ Nobody \notin Txs
  /\ Methods \subseteq FinanceMethods

VARIABLES
  owner,  \* who holds the lock on each wallet
  todo    \* the locks each transaction has still to take; none: it may commit

locksVars == <<owner, todo>>

\* Mutant: in the order of the arguments
Unordered(a, b) == <<a, b>>

\* lockTwoWallets
Ordered(a, b) == IF a < b THEN <<a, b>> ELSE <<b, a>>

\* Whose wallets a release concerns
Trades == {x \in [buyer : Owners, seller : Owners, driver : Owners] :
             x.buyer \notin {x.seller, x.driver} /\ Treasury \notin {x.buyer, x.seller, x.driver}}

\* Mutant: the wallet of a null beneficiary is asked for
PlansForNobody ==
  [one |-> {<<u>> : u \in Owners \cup {Nobody}},
   pair |-> {Ordered(a, b) : a, b \in Owners},
   release |-> {}, batch |-> {}]

\* What a method locks: confirmPayment, processPayout, confirmTopup, refundBuyer
\* and the deposits one wallet; forfeitReservationDeposit a pair; releaseEscrow
\* and partialRefund the buyer's, then benef and treasury for each row;
\* createPayoutBatch the initiator's and those of its items.
Plans ==
  [one     |-> {<<u>> : u \in Owners},
   pair    |-> {Ordered(a, b) : a, b \in Owners},
   release |-> UNION {{<<x.buyer>> \o Ordered(x.seller, Treasury),
                       <<x.buyer>> \o Ordered(x.seller, Treasury)
                                   \o Ordered(x.driver, Treasury)} : x \in Trades},
   batch   |-> {<<init, item>> : init, item \in Owners \ {Treasury}}]

Held(t) == {u \in Owners : owner[u] = t}

-----------------------------------------------------------------------------

Begin(t) ==
  /\ todo[t] = <<>> /\ Held(t) = {}
  /\ \E m \in Methods : \E plan \in Plans[m] : todo' = [todo EXCEPT ![t] = plan]
  /\ UNCHANGED owner

\* Mutant: a transaction waits for the lock it holds itself
LockOnce(t) ==
  /\ todo[t] # <<>>
  /\ owner[Head(todo[t])] = Nobody
  /\ owner' = [owner EXCEPT ![Head(todo[t])] = t]
  /\ todo' = [todo EXCEPT ![t] = Tail(@)]

\* lockWallet: waits while another transaction holds the row; a row already
\* held by t is taken again at once.
Lock(t) ==
  /\ todo[t] # <<>>
  /\ owner[Head(todo[t])] \in {Nobody, t}
  /\ owner' = [owner EXCEPT ![Head(todo[t])] = t]
  /\ todo' = [todo EXCEPT ![t] = Tail(@)]

\* Commit, and rollback at any point, release every lock
End(t) ==
  /\ Held(t) # {}
  /\ owner' = [u \in Owners |-> IF owner[u] = t THEN Nobody ELSE owner[u]]
  /\ todo' = [todo EXCEPT ![t] = <<>>]

Commit(t) == todo[t] = <<>> /\ End(t)
Rollback(t) == todo[t] # <<>> /\ End(t)

LocksInit ==
  /\ owner = [u \in Owners |-> Nobody]
  /\ todo = [t \in Txs |-> <<>>]

LocksNext == \E t \in Txs : Begin(t) \/ Lock(t) \/ Commit(t) \/ Rollback(t)

LocksSpec == LocksInit /\ [][LocksNext]_locksVars

\* A transaction does not wait for itself: it locks when it can and commits
\* when it has all its locks.  Nothing makes it roll back.
LocksFairness == \A t \in Txs : WF_locksVars(Commit(t)) /\ SF_locksVars(Lock(t))

LocksLiveSpec == LocksSpec /\ LocksFairness

-----------------------------------------------------------------------------

\* Types
LocksTypeOK ==
  /\ owner \in [Owners -> Txs \cup {Nobody}]
  /\ todo \in [Txs -> Seq(Owners)]

WaitsFor(s, t) ==
  s # t /\ todo[s] # <<>> /\ owner[Head(todo[s])] = t

\* No two transactions wait for each other
NoDeadlock == \A s, t \in Txs : ~(WaitsFor(s, t) /\ WaitsFor(t, s))

\* A lock is only asked for above those already held, so no set of
\* transactions can wait in a circle.
Ascending == \A t \in Txs : todo[t] # <<>> => \A u \in Held(t) : u <= Head(todo[t])

\* Every transaction that asks for a lock gets all of its locks, or rolls back
AllServed == \A t \in Txs : todo[t] # <<>> ~> todo[t] = <<>>

\* Locks are asked for in ascending order, so no two transactions wait for each other
LocksSafety == LocksTypeOK /\ Ascending /\ NoDeadlock

=============================================================================
