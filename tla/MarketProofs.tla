---------------------------- MODULE MarketProofs ----------------------------
(***************************************************************************)
(* What is proved of the market, for any number of users, rows, requests   *)
(* and jobs: the forecasts of harvests and their reservations, the timers  *)
(* of the periodic jobs, the treatments sellers declare, the lots of       *)
(* warehouses, and the lists read page by page. They share no state: each  *)
(* has an invariant of its own, and the last theorem puts two of them      *)
(* together as the runs check them.                                        *)
(***************************************************************************)
EXTENDS MCMarket, SumLemmas, SequenceTheorems

-----------------------------------------------------------------------------
(***************************************************************************)
(* Reservations. The promises are kept because what anybody may still      *)
(* count on, Claimed, is counted with what is on sale: a conversion, a     *)
(* refusal and an expiry move kilos from the one to the other. A client    *)
(* who pays a balance has an order of his own on the listing, so no other  *)
(* does, and the cron's list is of what is due, which his is not.          *)
(*                                                                         *)
(* The money follows the rows one by one: Held says what the escrow holds  *)
(* for each, and each step changes it at one row by what it moves. The     *)
(* refund of a live deposit cannot fail, for the sum covers each of its    *)
(* terms.                                                                  *)
(***************************************************************************)

\* The steps of a request that pays a deposit, and of one that pays the balance
Depositing == {"deposit", "confirm", "drop"}
Settling == {"balance", "consume", "undo"}

\* A client is at one of these steps about this reservation
OnIt(steps, r) == \E c \in Buyers : job[c].at \in steps /\ job[c].of = {r}

\* Who is at which step, about what
FarmerSeat(j) ==
  /\ j.at \in {"idle", "shrink", "clear", "cancel", "erase"}
  /\ j.at = "cancel" => \E r \in j.of : j.one = {r}
  /\ j.at = "erase" => j.of = {}
CronSeat(j) ==
  /\ j.at \in {"idle", "settle", "release"}
  /\ j.at = "release" => \E r \in j.of : j.one = {r}
  /\ j.at = "idle" => j.of = {}
ClientSeat(j) ==
  /\ j.at \in {"idle"} \cup Depositing \cup Settling
  /\ j.at # "idle" => \E r \in Resas : j.of = {r}
Seats == /\ FarmerSeat(job["farmer"]) /\ CronSeat(job["cron"])
         /\ \A c \in Buyers : ClientSeat(job[c])

\* What the life of the forecast rules out
Phases ==
  /\ forecast.status \in {"NONE", "OPEN"} =>
       /\ \A r \in Resas : /\ resa[r].status \in {"NONE", "PENDING", "CONFIRMED", "CANCELLED"}
                           /\ final[r] = "NONE"
       /\ ~Paying(Settling) /\ Busy("cron", "idle")
  /\ forecast.status \in {"NONE", "DELETED"} => \A r \in Resas : resa[r].status = "NONE"
  /\ \A r \in Resas : resa[r].status = "NONE" => ~resa[r].paid /\ ~resa[r].due

\* What a client's request knows of its reservation
ClientKnows(c, r) ==
  /\ job[c].at \in Depositing => ~resa[r].due
  /\ job[c].at = "balance" => final[r] = "SENT"
  /\ job[c].at = "consume" => final[r] = "PAID"
  /\ job[c].at = "undo" => \/ final[r] = "SENT"
                           \/ final[r] = "PAID" /\ resa[r].status = "NONE"
  /\ "late" \notin odd /\ job[c].at \in Settling => ~resa[r].due
  /\ "clash" \notin odd /\ job[c].at \in Depositing =>
       resa[r].status \notin {"CANCELLED", "EXPIRED"}

OneSettles ==
  \A c, d \in Buyers : job[c].at \in Settling /\ job[d].at \in Settling => c = d

NoClash == "clash" \notin odd => ~(Deleting /\ DepositInFlight)

ClientsHold ==
  /\ \A c \in Buyers : \A r \in Resas : job[c].of = {r} => ClientKnows(c, r)
  /\ OneSettles /\ NoClash

\* What those who go through a list know of its rows
Listers ==
  /\ job["farmer"].at \in {"clear", "cancel"} =>
       \A r \in job["farmer"].of : resa[r].status # "AWAITING_FINAL"
  /\ forecast.status # "DELETED" =>
       \A r \in job["cron"].of :
         /\ resa[r].due
         /\ "late" \notin odd => resa[r].status = "AWAITING_FINAL"

\* The kilos someone may count on
Claimed == {r \in Resas : \/ resa[r].status \in Holding \cup {"COMPLETED"}
                          \/ OnIt(Settling, r)}

\* They are in the forecast, as long as the farmer does not shrink it
Promises == "shrunk" \notin odd /\ "clash" \notin odd /\ "late" \notin odd =>
  /\ forecast.status = "OPEN" => Kilos(Claimed) <= forecast.kg
  /\ forecast.status = "CONVERTED" => forSale + Kilos(Claimed) <= forecast.kg

\* The deposit of this reservation is in the escrow: it is confirmed or about to be, and
\* neither given back nor forfeited nor part of a paid order
Left(r) == \/ job["farmer"].at = "cancel" /\ job["farmer"].one = {r}
           \/ job["cron"].at = "release" /\ job["cron"].one = {r}
Live(r) == \/ OnIt({"confirm"}, r)
           \/ /\ resa[r].status \in {"CONFIRMED", "AWAITING_FINAL"}
              /\ ~Left(r) /\ ~OnIt({"consume"}, r)

Held == [r \in Resas |-> (IF Live(r) THEN Deposit ELSE 0)
                         + (IF final[r] = "PAID" THEN Deposit + Balance ELSE 0)]

\* Where money follows the rows
ClientRows ==
  \A c \in Buyers : \A r \in Resas : job[c].of = {r} =>
    /\ job[c].at \in Depositing => resa[r].status = "PENDING"
    /\ job[c].at \in Settling => resa[r].status = "AWAITING_FINAL"
OneDeposits ==
  \A c, d \in Buyers : job[c].at \in Depositing /\ job[d].at \in Depositing
                       /\ job[c].of = job[d].of => c = d
PaidRows ==
  \A r \in Resas :
    /\ resa[r].status = "PENDING" => OnIt(Depositing, r) /\ ~resa[r].paid
    /\ resa[r].status \in {"CONFIRMED", "AWAITING_FINAL"} => resa[r].paid
\* ... the farmer's list is of the confirmed reservations, the cron's of those due
ClearedRows == Deleting => forecast.status = "OPEN" /\ job["farmer"].of = InStatus({"CONFIRMED"})
SettledRows == \A r \in job["cron"].of : resa[r].status = "AWAITING_FINAL" /\ resa[r].due
Orderly == ClientRows /\ OneDeposits /\ PaidRows /\ ClearedRows /\ SettledRows

\* Where no overlap spoils it, the escrow is the sum of what is held
Deposits == Regular => Orderly /\ purse.escrow = SumFunctionOnSet(Held, Resas)

\* The inductive invariant
ResaInv == ResaTypeOK /\ Seats /\ Phases /\ ClientsHold /\ Listers /\ Promises /\ Deposits

-----------------------------------------------------------------------------

\* The shapes of a request and of a reservation
JobRows == [at : JobSteps, of : SUBSET Resas, one : SUBSET Resas]
ResaRows == [status : ResaStatus, paid : BOOLEAN, due : BOOLEAN]

\* One request moves on
Moves(a, step, all, one) ==
  /\ job' \in [Actors -> JobRows]
  /\ job'[a].at = step /\ job'[a].of = all /\ job'[a].one = one
  /\ \A b \in Actors : b # a => job'[b] = job[b]

\* One reservation is written
RowTo(r, status, paid, due) ==
  /\ resa' \in [Resas -> ResaRows]
  /\ resa'[r].status = status /\ resa'[r].paid = paid /\ resa'[r].due = due
  /\ \A x \in Resas : x # r => resa'[x] = resa[x]

\* The farmer, the cooperative and the cron are no buyers
LEMMA ActorsDiffer ==
  /\ "farmer" \in Actors /\ "coop" \in Actors /\ "cron" \in Actors
  /\ \A c \in Buyers : c \in Actors /\ c # "farmer" /\ c # "coop" /\ c # "cron"
  BY ResaAssumption DEF Actors

\* A request is written
LEMMA JobMoves ==
  ASSUME ResaTypeOK, NEW a \in Actors, NEW step \in JobSteps,
         NEW all \in SUBSET Resas, NEW one \in SUBSET Resas,
         job' = [job EXCEPT ![a] = [at |-> step, of |-> all, one |-> one]]
  PROVE  Moves(a, step, all, one)
<1>1. job \in [Actors -> JobRows] BY DEF ResaTypeOK, JobRows
<1>2. [at |-> step, of |-> all, one |-> one] \in JobRows BY DEF JobRows
<1> QED BY <1>1, <1>2 DEF Moves

\* ... begins
LEMMA BeginsMoves ==
  ASSUME ResaTypeOK, NEW a \in Actors, NEW step \in JobSteps, NEW all \in SUBSET Resas,
         Begins(a, step, all)
  PROVE  Moves(a, step, all, {})
  BY JobMoves, {} \in SUBSET Resas DEF Begins

\* ... ends
LEMMA FinishMoves ==
  ASSUME ResaTypeOK, NEW a \in Actors, Finish(a)
  PROVE  Moves(a, "idle", {}, {})
<1>1. "idle" \in JobSteps BY DEF JobSteps
<1> QED BY <1>1, JobMoves, {} \in SUBSET Resas DEF Finish, NoJob

\* A request with one field written
LEMMA JobFields ==
  ASSUME NEW j \in JobRows, NEW step \in JobSteps, NEW all \in SUBSET Resas, NEW one \in SUBSET Resas
  PROVE  /\ [[j EXCEPT !.at = step] EXCEPT !.one = one] = [at |-> step, of |-> j.of, one |-> one]
         /\ [j EXCEPT !.of = all] = [at |-> j.at, of |-> all, one |-> j.one]
<1>1. [j EXCEPT !.at = step] = [at |-> step, of |-> j.of, one |-> j.one] BY DEF JobRows
<1>2. [j EXCEPT !.of = all] = [at |-> j.at, of |-> all, one |-> j.one] BY DEF JobRows
<1>3. [[at |-> step, of |-> j.of, one |-> j.one] EXCEPT !.one = one]
        = [at |-> step, of |-> j.of, one |-> one]
  OBVIOUS
<1> QED BY <1>1, <1>2, <1>3

\* The farmer's and the cron's loops
LEMMA LoopMoves ==
  ASSUME ResaTypeOK, NEW a \in Actors, NEW r \in Resas
  PROVE  /\ \A step \in JobSteps : job' = [job EXCEPT ![a].at = step, ![a].one = {r}] =>
              Moves(a, step, job[a].of, {r})
         /\ job' = [job EXCEPT ![a].of = @ \ {r}] =>
              Moves(a, job[a].at, job[a].of \ {r}, job[a].one)
         /\ \A step \in JobSteps :
              job' = [job EXCEPT ![a] = [at |-> step, of |-> @.of \ {r}, one |-> {}]] =>
                Moves(a, step, job[a].of \ {r}, {})
<1>1. job \in [Actors -> JobRows] BY DEF ResaTypeOK, JobRows
<1>2. job[a] \in JobRows BY <1>1
<1>3. job[a].at \in JobSteps /\ job[a].of \in SUBSET Resas /\ job[a].one \in SUBSET Resas
      /\ job[a] = [at |-> job[a].at, of |-> job[a].of, one |-> job[a].one]
  BY <1>2 DEF JobRows
<1>4. ASSUME NEW step \in JobSteps, job' = [job EXCEPT ![a].at = step, ![a].one = {r}]
      PROVE  Moves(a, step, job[a].of, {r})
  <2>1. job' = [job EXCEPT ![a] = [at |-> step, of |-> job[a].of, one |-> {r}]]
    <3>1. [[job[a] EXCEPT !.at = step] EXCEPT !.one = {r}]
            = [at |-> step, of |-> job[a].of, one |-> {r}]
      <4>1. [job[a] EXCEPT !.at = step] = [at |-> step, of |-> job[a].of, one |-> job[a].one]
        BY <1>2 DEF JobRows
      <4>2. [[at |-> step, of |-> job[a].of, one |-> job[a].one] EXCEPT !.one = {r}]
              = [at |-> step, of |-> job[a].of, one |-> {r}]
        OBVIOUS
      <4> QED BY ONLY <4>1, <4>2
    <3> QED BY <1>1, <1>4, <3>1
  <2> QED BY <2>1, <1>3, JobMoves, {r} \in SUBSET Resas
<1>5. ASSUME job' = [job EXCEPT ![a].of = @ \ {r}]
      PROVE  Moves(a, job[a].at, job[a].of \ {r}, job[a].one)
  <2>1. job' = [job EXCEPT ![a] = [at |-> job[a].at, of |-> job[a].of \ {r}, one |-> job[a].one]]
    <3>1. [job[a] EXCEPT !.of = job[a].of \ {r}]
            = [at |-> job[a].at, of |-> job[a].of \ {r}, one |-> job[a].one]
      BY <1>2, <1>3, JobFields, job[a].of \ {r} \in SUBSET Resas
    <3> QED BY <1>1, <1>5, <3>1
  <2> QED BY <2>1, <1>3, JobMoves, job[a].of \ {r} \in SUBSET Resas
<1>6. ASSUME NEW step \in JobSteps,
             job' = [job EXCEPT ![a] = [at |-> step, of |-> @.of \ {r}, one |-> {}]]
      PROVE  Moves(a, step, job[a].of \ {r}, {})
  BY <1>3, <1>6, JobMoves, job[a].of \ {r} \in SUBSET Resas, {} \in SUBSET Resas
<1> QED BY <1>4, <1>5, <1>6

\* A status is written
LEMMA MarkRow ==
  ASSUME ResaTypeOK, NEW r \in Resas, NEW s \in ResaStatus, Mark(r, s)
  PROVE  RowTo(r, s, resa[r].paid, resa[r].due)
<1>1. resa \in [Resas -> ResaRows] BY DEF ResaTypeOK, ResaRows
<1>2. resa[r] \in ResaRows BY <1>1
<1>3. [resa[r] EXCEPT !.status = s]
        = [status |-> s, paid |-> resa[r].paid, due |-> resa[r].due]
      /\ [resa[r] EXCEPT !.status = s] \in ResaRows
  BY <1>2 DEF ResaRows
<1>4. resa' = [resa EXCEPT ![r] = [resa[r] EXCEPT !.status = s]] BY <1>1 DEF Mark
<1> QED BY <1>1, <1>3, <1>4 DEF RowTo

\* The reservation a client's request is about
LEMMA MineIs ==
  ASSUME NEW c \in Buyers, NEW r \in Resas, job[c].of = {r}
  PROVE  Mine(c) = r
<1>1. Mine(c) \in Resas /\ job[c].of = {Mine(c)} BY DEF Mine
<1> QED BY <1>1

\* The quantity put on sale is not negative
LEMMA LargerOfTwo ==
  ASSUME NEW m \in Int
  PROVE  Max({m, 0}) = IF m >= 0 THEN m ELSE 0
<1>1. Max({m, 0}) = CHOOSE x \in {m, 0} : \A y \in {m, 0} : x >= y BY DEF Max
<1>2. \E x \in {m, 0} : \A y \in {m, 0} : x >= y OBVIOUS
<1>3. Max({m, 0}) \in {m, 0} /\ \A y \in {m, 0} : Max({m, 0}) >= y BY <1>1, <1>2
<1> QED BY <1>3

\* A reservation with one field written
LEMMA RowFields ==
  ASSUME NEW w \in ResaRows
  PROVE  /\ \A p \in BOOLEAN : [w EXCEPT !.paid = p] = [status |-> w.status, paid |-> p, due |-> w.due]
         /\ \A p \in BOOLEAN : [w EXCEPT !.due = p] = [status |-> w.status, paid |-> w.paid, due |-> p]
         /\ \A s \in ResaStatus : [w EXCEPT !.status = s] = [status |-> s, paid |-> w.paid, due |-> w.due]
<1>1. ASSUME NEW p \in BOOLEAN
      PROVE  [w EXCEPT !.paid = p] = [status |-> w.status, paid |-> p, due |-> w.due]
  BY DEF ResaRows
<1>2. ASSUME NEW p \in BOOLEAN
      PROVE  [w EXCEPT !.due = p] = [status |-> w.status, paid |-> w.paid, due |-> p]
  BY DEF ResaRows
<1>3. ASSUME NEW s \in ResaStatus
      PROVE  [w EXCEPT !.status = s] = [status |-> s, paid |-> w.paid, due |-> w.due]
  BY DEF ResaRows
<1> QED BY <1>1, <1>2, <1>3

-----------------------------------------------------------------------------
\* What each step of a client does

\* A reservation is taken under the forecast's lock
LEMMA ReserveEffect ==
  ASSUME ResaTypeOK, NEW c \in Buyers, NEW r \in Resas, ReserverPrevision(c, r)
  PROVE  /\ job[c].at = "idle" /\ resa[r].status = "NONE" /\ final[r] = "NONE" /\ Bookable
         /\ Moves(c, "deposit", {r}, {}) /\ RowTo(r, "PENDING", FALSE, FALSE)
         /\ odd \subseteq odd' /\ odd' \subseteq odd \cup {"clash"}
         /\ Deleting => "clash" \in odd'
         /\ UNCHANGED <<forecast, forSale, final, purse, score>>
<1>1. Moves(c, "deposit", {r}, {})
  <2>1. "deposit" \in JobSteps /\ {r} \in SUBSET Resas BY DEF JobSteps
  <2> QED BY <2>1, ActorsDiffer, BeginsMoves DEF ReserverPrevision
<1>2. RowTo(r, "PENDING", FALSE, FALSE)
  <2>1. resa \in [Resas -> ResaRows] BY DEF ResaTypeOK, ResaRows
  <2>2. [NoResa EXCEPT !.status = "PENDING"] = [status |-> "PENDING", paid |-> FALSE, due |-> FALSE]
    <3> DEFINE w == NoResa
    <3>1. w \in ResaRows /\ w.paid = FALSE /\ w.due = FALSE /\ "PENDING" \in ResaStatus
      BY DEF NoResa, ResaRows, ResaStatus
    <3>2. [w EXCEPT !.status = "PENDING"] = [status |-> "PENDING", paid |-> w.paid, due |-> w.due]
      BY <3>1, RowFields
    <3> QED BY <3>1, <3>2
  <2>3. [status |-> "PENDING", paid |-> FALSE, due |-> FALSE] \in ResaRows
    BY DEF ResaRows, ResaStatus
  <2>4. resa' = [resa EXCEPT ![r] = [NoResa EXCEPT !.status = "PENDING"]]
    BY DEF ReserverPrevision
  <2> QED BY <2>1, <2>2, <2>3, <2>4 DEF RowTo
<1> QED BY <1>1, <1>2 DEF ReserverPrevision, Busy, Note

\* Its deposit is paid, or not
LEMMA PayDepositEffect ==
  ASSUME ResaTypeOK, NEW c \in Buyers, NEW r \in Resas, job[c].of = {r}, PayDeposit(c)
  PROVE  /\ job[c].at = "deposit"
         /\ \/ /\ purse' \in [escrow : Nat, back : Nat, farmer : Nat]
               /\ purse'.escrow = purse.escrow + Deposit /\ Moves(c, "confirm", {r}, {})
            \/ purse' = purse /\ Moves(c, "drop", {r}, {})
         /\ UNCHANGED <<forecast, resa, forSale, final, score, odd>>
<1>1. "confirm" \in JobSteps /\ "drop" \in JobSteps /\ {r} \in SUBSET Resas BY DEF JobSteps
<1>2. Begins(c, "confirm", {r}) => Moves(c, "confirm", {r}, {})
  BY <1>1, ActorsDiffer, BeginsMoves
<1>3. Begins(c, "drop", {r}) => Moves(c, "drop", {r}, {})
  BY <1>1, ActorsDiffer, BeginsMoves
<1>4. purse' = [purse EXCEPT !.escrow = @ + Deposit] =>
        /\ purse' \in [escrow : Nat, back : Nat, farmer : Nat]
        /\ purse'.escrow = purse.escrow + Deposit
  BY ResaAssumption DEF ResaTypeOK
<1> QED BY <1>2, <1>3, <1>4 DEF PayDeposit, Busy

\* It is confirmed, unless its row is gone
LEMMA ConfirmEffect ==
  ASSUME ResaTypeOK, NEW c \in Buyers, NEW r \in Resas, job[c].of = {r}, ConfirmResa(c)
  PROVE  /\ job[c].at = "confirm" /\ Moves(c, "idle", {}, {})
         /\ \/ resa[r].status = "NONE" /\ resa' = resa
            \/ resa[r].status # "NONE" /\ RowTo(r, "CONFIRMED", TRUE, resa[r].due)
         /\ UNCHANGED <<forecast, forSale, final, purse, score, odd>>
<1>1. Moves(c, "idle", {}, {}) BY ActorsDiffer, FinishMoves DEF ConfirmResa
<1>2. Mine(c) = r BY MineIs
<1>3. ASSUME resa' = [resa EXCEPT ![r].status = "CONFIRMED", ![r].paid = TRUE]
      PROVE  RowTo(r, "CONFIRMED", TRUE, resa[r].due)
  <2>1. resa \in [Resas -> ResaRows] BY DEF ResaTypeOK, ResaRows
  <2>2. resa[r] \in ResaRows BY <2>1
  <2>3. [resa[r] EXCEPT !.status = "CONFIRMED"]
          = [status |-> "CONFIRMED", paid |-> resa[r].paid, due |-> resa[r].due]
    BY <2>2 DEF ResaRows
  <2>4. [[status |-> "CONFIRMED", paid |-> resa[r].paid, due |-> resa[r].due] EXCEPT !.paid = TRUE]
          = [status |-> "CONFIRMED", paid |-> TRUE, due |-> resa[r].due]
    <3> DEFINE w == [status |-> "CONFIRMED", paid |-> resa[r].paid, due |-> resa[r].due]
    <3>1. w \in ResaRows BY <2>2 DEF ResaRows, ResaStatus
    <3>2. w.status = "CONFIRMED" /\ w.due = resa[r].due OBVIOUS
    <3>3. [w EXCEPT !.paid = TRUE] = [status |-> w.status, paid |-> TRUE, due |-> w.due]
      BY <3>1, RowFields
    <3> QED BY <3>2, <3>3
  <2>5. [[resa[r] EXCEPT !.status = "CONFIRMED"] EXCEPT !.paid = TRUE]
          = [status |-> "CONFIRMED", paid |-> TRUE, due |-> resa[r].due]
    BY ONLY <2>3, <2>4
  <2>6. [status |-> "CONFIRMED", paid |-> TRUE, due |-> resa[r].due] \in ResaRows
    BY <2>2 DEF ResaRows, ResaStatus
  <2>7. resa' = [resa EXCEPT ![r] = [status |-> "CONFIRMED", paid |-> TRUE, due |-> resa[r].due]]
    BY <1>3, <2>1, <2>5
  <2> QED BY <2>1, <2>6, <2>7 DEF RowTo
<1> QED BY <1>1, <1>2, <1>3 DEF ConfirmResa, Busy

\* ... or removed
LEMMA DropEffect ==
  ASSUME ResaTypeOK, NEW c \in Buyers, NEW r \in Resas, job[c].of = {r}, DropResa(c)
  PROVE  /\ job[c].at = "drop" /\ Moves(c, "idle", {}, {})
         /\ RowTo(r, "NONE", FALSE, FALSE)
         /\ UNCHANGED <<forecast, forSale, final, purse, score, odd>>
<1>1. Moves(c, "idle", {}, {}) BY ActorsDiffer, FinishMoves DEF DropResa
<1>2. Mine(c) = r BY MineIs
<1>3. NoResa \in ResaRows BY DEF NoResa, ResaRows, ResaStatus
<1>4. resa \in [Resas -> ResaRows] BY DEF ResaTypeOK, ResaRows
<1>5. resa' = [resa EXCEPT ![r] = NoResa] BY <1>2 DEF DropResa
<1>6. RowTo(r, "NONE", FALSE, FALSE) BY <1>3, <1>4, <1>5 DEF RowTo, NoResa
<1> QED BY <1>1, <1>6 DEF DropResa, Busy

\* The balance is ordered
LEMMA OrderEffect ==
  ASSUME ResaTypeOK, NEW c \in Buyers, NEW r \in Resas, OrderFinal(c, r)
  PROVE  /\ job[c].at = "idle" /\ Payable(r) /\ Moves(c, "balance", {r}, {})
         /\ final' \in [Resas -> {"NONE", "SENT", "PAID"}]
         /\ final'[r] = "SENT" /\ \A x \in Resas : x # r => final'[x] = final[x]
         /\ UNCHANGED <<forecast, resa, forSale, purse, score, odd>>
<1>1. Moves(c, "balance", {r}, {})
  <2>1. "balance" \in JobSteps /\ {r} \in SUBSET Resas BY DEF JobSteps
  <2> QED BY <2>1, ActorsDiffer, BeginsMoves DEF OrderFinal
<1> QED BY <1>1 DEF OrderFinal, Busy, ResaTypeOK

\* ... and paid, or not
LEMMA BalanceEffect ==
  ASSUME ResaTypeOK, NEW c \in Buyers, NEW r \in Resas, job[c].of = {r}, PayBalance(c)
  PROVE  /\ job[c].at = "balance"
         /\ final' \in [Resas -> {"NONE", "SENT", "PAID"}]
         /\ \A x \in Resas : x # r => final'[x] = final[x]
         /\ \/ /\ purse' \in [escrow : Nat, back : Nat, farmer : Nat]
               /\ purse'.escrow = purse.escrow + Balance
                                  + (IF resa[r].status = "NONE" THEN Deposit ELSE 0)
               /\ final'[r] = "PAID" /\ Moves(c, "consume", {r}, {})
            \/ Moves(c, "undo", {r}, {}) /\ UNCHANGED <<purse, final>>
         /\ UNCHANGED <<forecast, resa, forSale, score, odd>>
<1> DEFINE gain == Balance + (IF resa[r].status = "NONE" THEN Deposit ELSE 0)
<1>1. "consume" \in JobSteps /\ "undo" \in JobSteps /\ {r} \in SUBSET Resas BY DEF JobSteps
<1>2. Begins(c, "consume", {r}) => Moves(c, "consume", {r}, {})
  BY <1>1, ActorsDiffer, BeginsMoves
<1>3. Begins(c, "undo", {r}) => Moves(c, "undo", {r}, {})
  BY <1>1, ActorsDiffer, BeginsMoves
<1>4. Mine(c) = r BY MineIs
<1>5. purse' = [purse EXCEPT !.escrow =
                  @ + Balance + (IF resa[r].status = "NONE" THEN Deposit ELSE 0)] =>
        /\ purse' \in [escrow : Nat, back : Nat, farmer : Nat]
        /\ purse'.escrow = purse.escrow + Balance
                           + (IF resa[r].status = "NONE" THEN Deposit ELSE 0)
  BY ResaAssumption DEF ResaTypeOK
<1>6. final \in [Resas -> {"NONE", "SENT", "PAID"}] BY DEF ResaTypeOK
<1>7. CASE /\ purse' = [purse EXCEPT !.escrow =
                         @ + Balance + (IF resa[r].status = "NONE" THEN Deposit ELSE 0)]
           /\ final' = [final EXCEPT ![r] = "PAID"] /\ Begins(c, "consume", {r})
  BY <1>2, <1>4, <1>5, <1>6, <1>7 DEF PayBalance, Busy
<1>8. CASE Begins(c, "undo", {r}) /\ UNCHANGED <<purse, final>>
  BY <1>3, <1>4, <1>6, <1>8 DEF PayBalance, Busy
<1> QED BY <1>4, <1>7, <1>8 DEF PayBalance

\* The reservation is completed, unless its row is gone
LEMMA ConsumeEffect ==
  ASSUME ResaTypeOK, NEW c \in Buyers, NEW r \in Resas, job[c].of = {r}, ConsumeDeposit(c)
  PROVE  /\ job[c].at = "consume"
         /\ \/ resa[r].status = "NONE" /\ resa' = resa /\ Moves(c, "undo", {r}, {})
            \/ /\ resa[r].status # "NONE" /\ Moves(c, "idle", {}, {})
               /\ RowTo(r, "COMPLETED", resa[r].paid, resa[r].due)
         /\ UNCHANGED <<forecast, forSale, final, purse, score, odd>>
<1>1. "undo" \in JobSteps /\ {r} \in SUBSET Resas BY DEF JobSteps
<1>2. Begins(c, "undo", {r}) => Moves(c, "undo", {r}, {})
  BY <1>1, ActorsDiffer, BeginsMoves
<1>3. Finish(c) => Moves(c, "idle", {}, {}) BY ActorsDiffer, FinishMoves
<1>4. Mine(c) = r BY MineIs
<1>5. "COMPLETED" \in ResaStatus BY DEF ResaStatus
<1>6. Mark(r, "COMPLETED") => RowTo(r, "COMPLETED", resa[r].paid, resa[r].due)
  BY <1>5, MarkRow
<1> QED BY <1>2, <1>3, <1>4, <1>6 DEF ConsumeDeposit, Busy

\* A final order is undone
LEMMA UndoEffect ==
  ASSUME ResaTypeOK, NEW c \in Buyers, NEW r \in Resas, job[c].of = {r}, UndoFinal(c)
  PROVE  /\ job[c].at = "undo" /\ Moves(c, "idle", {}, {})
         /\ final' \in [Resas -> {"NONE", "SENT", "PAID"}]
         /\ final'[r] = "NONE" /\ \A x \in Resas : x # r => final'[x] = final[x]
         /\ purse' \in [escrow : Nat, back : Nat, farmer : Nat]
         /\ final[r] # "PAID" => purse' = purse
         /\ forSale' = IF final[r] = "PAID" THEN forSale + Kg[r] ELSE forSale
         /\ UNCHANGED <<forecast, resa, score, odd>>
<1>1. Moves(c, "idle", {}, {}) BY ActorsDiffer, FinishMoves DEF UndoFinal
<1>2. Mine(c) = r BY MineIs
<1>3. purse' = IF final[r] = "PAID" /\ purse.escrow >= Deposit + Balance
               THEN [purse EXCEPT !.escrow = @ - Deposit - Balance, !.back = @ + Deposit + Balance]
               ELSE purse
  BY <1>2 DEF UndoFinal
<1>4. purse' \in [escrow : Nat, back : Nat, farmer : Nat]
  <2>1. purse \in [escrow : Nat, back : Nat, farmer : Nat] BY DEF ResaTypeOK
  <2>2. CASE final[r] = "PAID" /\ purse.escrow >= Deposit + Balance
    <3>1. purse' = [purse EXCEPT !.escrow = @ - Deposit - Balance, !.back = @ + Deposit + Balance]
      BY <1>3, <2>2
    <3>2. purse.escrow - Deposit - Balance \in Nat /\ purse.back + Deposit + Balance \in Nat
      BY <2>1, <2>2, ResaAssumption
    <3> QED BY <2>1, <3>1, <3>2
  <2> QED BY <1>3, <2>1, <2>2
<1>5. final \in [Resas -> {"NONE", "SENT", "PAID"}] /\ final' = [final EXCEPT ![r] = "NONE"]
  BY <1>2 DEF UndoFinal, ResaTypeOK
<1> QED BY <1>1, <1>2, <1>3, <1>4, <1>5 DEF UndoFinal, Busy

-----------------------------------------------------------------------------
\* What each step of the farmer, the cooperative and the cron does

\* The shape of a forecast
ForecastRows == [status : {"NONE", "OPEN", "CONVERTED", "DELETED"},
                 coop : {"NONE", "PENDING", "VALIDATED", "REJECTED"}, kg : Nat]

\* A forecast is announced
LEMMA CreateEffect ==
  ASSUME ResaTypeOK, NEW kg \in Sizes, NEW co \in {"NONE", "PENDING"}, CreatePrevision(kg, co)
  PROVE  /\ job["farmer"].at = "idle" /\ forecast.status = "NONE"
         /\ forecast' \in ForecastRows /\ forecast'.status = "OPEN" /\ forecast'.kg = kg
         /\ UNCHANGED <<resa, forSale, final, purse, score, job, odd>>
  BY ResaAssumption DEF CreatePrevision, Busy, ForecastRows

\* Its quantity is changed
LEMMA UpdateEffect ==
  ASSUME ResaTypeOK, NEW kg \in Sizes, UpdatePrevision(kg)
  PROVE  /\ job["farmer"].at = "shrink" /\ Moves("farmer", "idle", {}, {})
         /\ forecast' \in ForecastRows /\ forecast'.status = forecast.status /\ forecast'.kg = kg
         /\ odd \subseteq odd' /\ odd' \subseteq odd \cup {"shrunk"}
         /\ kg < forecast.kg => "shrunk" \in odd'
         /\ UNCHANGED <<resa, forSale, final, purse, score>>
<1>1. Moves("farmer", "idle", {}, {}) BY ActorsDiffer, FinishMoves DEF UpdatePrevision
<1>2. forecast' \in ForecastRows /\ forecast'.status = forecast.status /\ forecast'.kg = kg
  <2>1. forecast \in ForecastRows /\ kg \in Nat BY ResaAssumption DEF ResaTypeOK, ForecastRows
  <2>2. forecast' = [forecast EXCEPT !.kg = kg] BY DEF UpdatePrevision
  <2> QED BY <2>1, <2>2 DEF ForecastRows
<1> QED BY <1>1, <1>2 DEF UpdatePrevision, Busy, Note

\* The cooperative decides
LEMMA CoopEffect ==
  ASSUME ResaTypeOK, ValidatePrevision \/ RejectPrevision
  PROVE  /\ Moves("coop", "idle", {}, {}) \/ job' = job
         /\ forecast' \in ForecastRows
         /\ forecast'.status = forecast.status /\ forecast'.kg = forecast.kg
         /\ UNCHANGED <<resa, forSale, final, purse, score, odd>>
<1>1. forecast \in ForecastRows BY DEF ResaTypeOK, ForecastRows
<1>2. \A s \in {"VALIDATED", "REJECTED"} : forecast' = [forecast EXCEPT !.coop = s] =>
        /\ forecast' \in ForecastRows
        /\ forecast'.status = forecast.status /\ forecast'.kg = forecast.kg
  BY <1>1 DEF ForecastRows
<1>3. CASE ValidatePrevision
  <2>1. Moves("coop", "idle", {}, {}) BY <1>3, ActorsDiffer, FinishMoves DEF ValidatePrevision
  <2> QED BY <1>1, <1>2, <1>3, <2>1 DEF ValidatePrevision
<1>4. CASE RejectPrevision
  BY <1>1, <1>2, <1>4 DEF RejectPrevision
<1> QED BY <1>3, <1>4

\* What is read before
LEMMA CheckEffect ==
  ASSUME ResaTypeOK
  PROVE  /\ CheckUpdate => /\ job["farmer"].at = "idle" /\ Moves("farmer", "shrink", {}, {})
                           /\ UNCHANGED <<forecast, resa, forSale, final, purse, score, odd>>
         /\ CheckValidate => /\ job["coop"].at = "idle" /\ Moves("coop", "validate", {}, {})
                             /\ UNCHANGED <<forecast, resa, forSale, final, purse, score, odd>>
<1>1. "shrink" \in JobSteps /\ "validate" \in JobSteps /\ {} \in SUBSET Resas BY DEF JobSteps
<1>2. Begins("farmer", "shrink", {}) => Moves("farmer", "shrink", {}, {})
  BY <1>1, ActorsDiffer, BeginsMoves
<1>3. Begins("coop", "validate", {}) => Moves("coop", "validate", {}, {})
  BY <1>1, ActorsDiffer, BeginsMoves
<1> QED BY <1>2, <1>3 DEF CheckUpdate, CheckValidate, Busy

\* A deletion lists the reservations
LEMMA DeleteEffect ==
  ASSUME ResaTypeOK, BeginDelete
  PROVE  /\ job["farmer"].at = "idle" /\ forecast.status \in {"OPEN", "CONVERTED"}
         /\ Moves("farmer", "clear", InStatus({"PENDING", "CONFIRMED"}), {})
         /\ DepositInFlight => "clash" \in odd'
         /\ forecast.status = "CONVERTED" => "erased" \in odd'
         /\ odd \subseteq odd' /\ odd' \subseteq odd \cup {"clash", "erased"}
         /\ UNCHANGED <<forecast, resa, forSale, final, purse, score>>
<1>1. "clear" \in JobSteps /\ InStatus({"PENDING", "CONFIRMED"}) \in SUBSET Resas
  BY DEF JobSteps, InStatus
<1>2. Moves("farmer", "clear", InStatus({"PENDING", "CONFIRMED"}), {})
  BY <1>1, ActorsDiffer, BeginsMoves DEF BeginDelete
<1> QED BY <1>2 DEF BeginDelete, Busy, FarmerHasIt

\* A conversion puts on sale what is not reserved
LEMMA ConvertEffect ==
  ASSUME ResaTypeOK, ConvertPrevision
  PROVE  /\ job["farmer"].at = "idle" /\ forecast.status = "OPEN"
         /\ forecast' \in ForecastRows /\ forecast'.status = "CONVERTED"
         /\ forecast'.kg = forecast.kg
         /\ forSale' = Max({forecast.kg - Kilos(InStatus({"CONFIRMED", "PENDING"})), 0})
         /\ resa' \in [Resas -> ResaRows]
         /\ \A r \in Resas :
              IF resa[r].status \in {"CONFIRMED", "PENDING"}
              THEN /\ resa'[r].status = "AWAITING_FINAL" /\ resa'[r].paid = resa[r].paid
                   /\ ~resa'[r].due
              ELSE resa'[r] = resa[r]
         /\ odd \subseteq odd' /\ odd' \subseteq odd \cup {"early"}
         /\ DepositInFlight => "early" \in odd'
         /\ UNCHANGED <<final, purse, score, job>>
<1>1. forecast \in ForecastRows BY DEF ResaTypeOK, ForecastRows
<1>2. forecast' \in ForecastRows /\ forecast'.status = "CONVERTED" /\ forecast'.kg = forecast.kg
  BY <1>1 DEF ConvertPrevision, ForecastRows
<1>3. resa \in [Resas -> ResaRows] BY DEF ResaTypeOK, ResaRows
<1>4. ASSUME NEW r \in Resas, resa[r].status \in {"CONFIRMED", "PENDING"}
      PROVE  /\ resa'[r].status = "AWAITING_FINAL" /\ resa'[r].paid = resa[r].paid
             /\ ~resa'[r].due /\ resa'[r] \in ResaRows
  <2> DEFINE w == [status |-> "AWAITING_FINAL", paid |-> resa[r].paid, due |-> resa[r].due]
  <2>1. resa[r] \in ResaRows /\ "AWAITING_FINAL" \in ResaStatus BY <1>3 DEF ResaStatus
  <2>2. w \in ResaRows /\ w.status = "AWAITING_FINAL" /\ w.paid = resa[r].paid
    BY <2>1 DEF ResaRows
  <2>3. [resa[r] EXCEPT !.status = "AWAITING_FINAL"] = w BY <2>1, RowFields
  <2> HIDE DEF w
  <2>4. [w EXCEPT !.due = FALSE] = [status |-> w.status, paid |-> w.paid, due |-> FALSE]
    BY <2>2, RowFields
  <2>5. resa'[r] = [[resa[r] EXCEPT !.status = "AWAITING_FINAL"] EXCEPT !.due = FALSE]
    BY <1>4 DEF ConvertPrevision, InStatus
  <2>6. resa'[r] = [status |-> w.status, paid |-> w.paid, due |-> FALSE]
    BY <2>3, <2>4, <2>5
  <2>7. resa'[r] \in ResaRows BY <2>2, <2>6 DEF ResaRows
  <2> QED BY <2>2, <2>6, <2>7
<1>5. ASSUME NEW r \in Resas, resa[r].status \notin {"CONFIRMED", "PENDING"}
      PROVE  resa'[r] = resa[r]
  BY <1>5 DEF ConvertPrevision, InStatus
<1>6. resa' \in [Resas -> ResaRows]
  <2>1. \A r \in Resas : resa'[r] \in ResaRows BY <1>3, <1>4, <1>5
  <2>2. resa' = [r \in Resas |-> resa'[r]] BY DEF ConvertPrevision
  <2> QED BY <2>1, <2>2
<1>7. /\ job["farmer"].at = "idle" /\ forecast.status = "OPEN" /\ UNCHANGED <<final, purse, score, job>>
      /\ forSale' = Max({forecast.kg - Kilos(InStatus({"CONFIRMED", "PENDING"})), 0})
      /\ odd \subseteq odd' /\ odd' \subseteq odd \cup {"early"}
      /\ DepositInFlight => "early" \in odd'
  BY DEF ConvertPrevision, Busy, Bookable, Note
<1>8. \A r \in Resas :
        IF resa[r].status \in {"CONFIRMED", "PENDING"}
        THEN /\ resa'[r].status = "AWAITING_FINAL" /\ resa'[r].paid = resa[r].paid
             /\ ~resa'[r].due
        ELSE resa'[r] = resa[r]
  BY <1>4, <1>5
<1> QED BY <1>2, <1>6, <1>7, <1>8

\* A deposit leaves the escrow
LEMMA MoneyOut ==
  ASSUME ResaTypeOK, purse.escrow >= Deposit,
         \/ purse' = [purse EXCEPT !.escrow = @ - Deposit, !.back = @ + Deposit]
         \/ purse' = [purse EXCEPT !.escrow = @ - Deposit, !.farmer = @ + Deposit]
  PROVE  /\ purse' \in [escrow : Nat, back : Nat, farmer : Nat]
         /\ purse'.escrow = purse.escrow - Deposit
<1>1. purse \in [escrow : Nat, back : Nat, farmer : Nat] BY DEF ResaTypeOK
<1>2. purse.escrow - Deposit \in Nat /\ purse.back + Deposit \in Nat
      /\ purse.farmer + Deposit \in Nat
  BY <1>1, ResaAssumption
<1>3. CASE purse' = [purse EXCEPT !.escrow = @ - Deposit, !.back = @ + Deposit]
  BY <1>1, <1>2, <1>3
<1>4. CASE purse' = [purse EXCEPT !.escrow = @ - Deposit, !.farmer = @ + Deposit]
  BY <1>1, <1>2, <1>4
<1> QED BY <1>3, <1>4

\* The deletion gives a deposit back, or skips it
LEMMA ClearEffect ==
  ASSUME ResaTypeOK, NEW r \in Resas, ClearResa(r)
  PROVE  /\ job["farmer"].at = "clear" /\ r \in job["farmer"].of
         /\ \/ /\ resa[r].status # "NONE" /\ resa[r].paid /\ purse.escrow >= Deposit
               /\ purse' \in [escrow : Nat, back : Nat, farmer : Nat]
               /\ purse'.escrow = purse.escrow - Deposit
               /\ Moves("farmer", "cancel", job["farmer"].of, {r})
            \/ /\ ~(resa[r].status # "NONE" /\ resa[r].paid) /\ purse' = purse
               /\ Moves("farmer", "cancel", job["farmer"].of, {r})
            \/ /\ purse.escrow < Deposit /\ purse' = purse
               /\ Moves("farmer", "clear", job["farmer"].of \ {r}, job["farmer"].one)
         /\ UNCHANGED <<forecast, resa, forSale, final, score, odd>>
<1>1. job["farmer"].at = "clear" /\ r \in job["farmer"].of
      /\ UNCHANGED <<forecast, resa, forSale, final, score, odd>>
  BY DEF ClearResa, Busy
<1>2. "cancel" \in JobSteps BY DEF JobSteps
<1>3. job' = [job EXCEPT !["farmer"].at = "cancel", !["farmer"].one = {r}] =>
        Moves("farmer", "cancel", job["farmer"].of, {r})
  BY <1>2, ActorsDiffer, LoopMoves
<1>4. job' = [job EXCEPT !["farmer"].of = @ \ {r}] =>
        Moves("farmer", "clear", job["farmer"].of \ {r}, job["farmer"].one)
  BY <1>1, ActorsDiffer, LoopMoves
<1>5. RefundDeposit(r) => /\ purse.escrow >= Deposit
                          /\ purse' \in [escrow : Nat, back : Nat, farmer : Nat]
                          /\ purse'.escrow = purse.escrow - Deposit
  BY MoneyOut DEF RefundDeposit
<1> QED BY <1>1, <1>3, <1>4, <1>5 DEF ClearResa

\* ... and cancels its reservation
LEMMA CancelEffect ==
  ASSUME ResaTypeOK, NEW r \in Resas, CancelResa(r)
  PROVE  /\ job["farmer"].at = "cancel" /\ job["farmer"].one = {r}
         /\ Moves("farmer", "clear", job["farmer"].of \ {r}, {})
         /\ \/ resa[r].status = "NONE" /\ resa' = resa
            \/ resa[r].status # "NONE" /\ RowTo(r, "CANCELLED", resa[r].paid, resa[r].due)
         /\ UNCHANGED <<forecast, forSale, final, purse, score, odd>>
<1>1. "clear" \in JobSteps /\ "CANCELLED" \in ResaStatus BY DEF JobSteps, ResaStatus
<1>2. Moves("farmer", "clear", job["farmer"].of \ {r}, {})
  BY <1>1, ActorsDiffer, LoopMoves DEF CancelResa
<1>3. Mark(r, "CANCELLED") => RowTo(r, "CANCELLED", resa[r].paid, resa[r].due)
  BY <1>1, MarkRow
<1> QED BY <1>2, <1>3 DEF CancelResa, Busy

\* The farmer pays with his score
LEMMA PenaliseEffect ==
  ASSUME ResaTypeOK, Penalise
  PROVE  /\ job["farmer"].at = "clear" /\ job["farmer"].of = {}
         /\ Moves("farmer", "erase", {}, {}) /\ score' \in Nat
         /\ UNCHANGED <<forecast, resa, forSale, final, purse, odd>>
<1>1. "erase" \in JobSteps /\ {} \in SUBSET Resas BY DEF JobSteps
<1>2. Moves("farmer", "erase", {}, {}) BY <1>1, ActorsDiffer, BeginsMoves DEF Penalise
<1>3. PICK pts \in Penalties : score' = Max({score - pts, 0}) BY DEF Penalise
<1>4. pts \in Nat /\ score \in Nat BY ResaAssumption DEF ResaTypeOK
<1>5. score - pts \in Int BY <1>4
<1>6. score' = IF score - pts >= 0 THEN score - pts ELSE 0 BY <1>3, <1>5, LargerOfTwo
<1> QED BY <1>2, <1>4, <1>6 DEF Penalise, Busy

\* The forecast goes, and its reservations with it
LEMMA EraseEffect ==
  ASSUME ResaTypeOK, Erase
  PROVE  /\ job["farmer"].at = "erase" /\ Moves("farmer", "idle", {}, {})
         /\ forecast' \in ForecastRows /\ forecast'.status = "DELETED"
         /\ resa' \in [Resas -> ResaRows] /\ \A r \in Resas : /\ resa'[r].status = "NONE"
                               /\ ~resa'[r].paid /\ ~resa'[r].due
         /\ UNCHANGED <<forSale, final, purse, score, odd>>
<1>1. Moves("farmer", "idle", {}, {}) BY ActorsDiffer, FinishMoves DEF Erase
<1>2. forecast' \in ForecastRows /\ forecast'.status = "DELETED"
  BY DEF Erase, NoForecast, ForecastRows
<1>3. NoResa \in ResaRows /\ NoResa.status = "NONE" /\ ~NoResa.paid /\ ~NoResa.due
  BY DEF NoResa, ResaRows, ResaStatus
<1> QED BY <1>1, <1>2, <1>3 DEF Erase, Busy

\* A reservation is due
LEMMA DeadlineEffect ==
  ASSUME ResaTypeOK, NEW r \in Resas, Deadline(r)
  PROVE  /\ resa[r].status = "AWAITING_FINAL" /\ ~DepositInFlight
         /\ RowTo(r, "AWAITING_FINAL", resa[r].paid, TRUE)
         /\ odd \subseteq odd' /\ odd' \subseteq odd \cup {"late"}
         /\ Paying(Settling) => "late" \in odd'
         /\ UNCHANGED <<forecast, forSale, final, purse, score, job>>
<1>1. resa \in [Resas -> ResaRows] BY DEF ResaTypeOK, ResaRows
<1>2. resa[r] \in ResaRows /\ resa[r].status = "AWAITING_FINAL" BY <1>1 DEF Deadline
<1>3. [resa[r] EXCEPT !.due = TRUE] = [status |-> "AWAITING_FINAL", paid |-> resa[r].paid, due |-> TRUE]
  BY <1>2, RowFields
<1>4. [status |-> "AWAITING_FINAL", paid |-> resa[r].paid, due |-> TRUE] \in ResaRows
  BY <1>2 DEF ResaRows
<1>5. resa' = [resa EXCEPT ![r] = [status |-> "AWAITING_FINAL", paid |-> resa[r].paid, due |-> TRUE]]
  BY <1>1, <1>3 DEF Deadline
<1>6. RowTo(r, "AWAITING_FINAL", resa[r].paid, TRUE) BY <1>1, <1>4, <1>5 DEF RowTo
<1> QED BY <1>6 DEF Deadline, Note, Settling

\* The cron lists those that are
LEMMA ListEffect ==
  ASSUME ResaTypeOK, ListExpired
  PROVE  /\ job["cron"].at = "idle" /\ Expired # {} /\ Expired \in SUBSET Resas
         /\ Moves("cron", "settle", Expired, {})
         /\ UNCHANGED <<forecast, resa, forSale, final, purse, score, odd>>
<1>1. "settle" \in JobSteps /\ Expired \in SUBSET Resas BY DEF JobSteps, Expired, InStatus
<1>2. Moves("cron", "settle", Expired, {}) BY <1>1, ActorsDiffer, BeginsMoves DEF ListExpired
<1> QED BY <1>1, <1>2 DEF ListExpired, Busy

\* ... gives a deposit back or forfeits it, or skips it
LEMMA SettleEffect ==
  ASSUME ResaTypeOK, NEW r \in Resas, SettleDeposit(r)
  PROVE  /\ job["cron"].at = "settle" /\ r \in job["cron"].of
         /\ \/ /\ purse.escrow >= Deposit /\ resa[r].status # "NONE"
               /\ purse' \in [escrow : Nat, back : Nat, farmer : Nat]
               /\ purse'.escrow = purse.escrow - Deposit
               /\ Moves("cron", "release", job["cron"].of, {r})
            \/ /\ purse.escrow < Deposit \/ resa[r].status = "NONE"
               /\ purse' = purse
               /\ Moves("cron", "settle", job["cron"].of \ {r}, job["cron"].one)
         /\ UNCHANGED <<forecast, resa, forSale, final, score, odd>>
<1>1. job["cron"].at = "settle" /\ r \in job["cron"].of
      /\ UNCHANGED <<forecast, resa, forSale, final, score, odd>>
  BY DEF SettleDeposit, Busy
<1>2. "release" \in JobSteps BY DEF JobSteps
<1>3. job' = [job EXCEPT !["cron"].at = "release", !["cron"].one = {r}] =>
        Moves("cron", "release", job["cron"].of, {r})
  BY <1>2, ActorsDiffer, LoopMoves
<1>4. job' = [job EXCEPT !["cron"].of = @ \ {r}] =>
        Moves("cron", "settle", job["cron"].of \ {r}, job["cron"].one)
  BY <1>1, ActorsDiffer, LoopMoves
<1>5. purse.escrow \in Nat /\ Deposit \in Nat BY ResaAssumption DEF ResaTypeOK
<1>6. CASE purse.escrow >= Deposit /\ resa[r].status # "NONE"
  <2>1. /\ purse' \in [escrow : Nat, back : Nat, farmer : Nat]
        /\ purse'.escrow = purse.escrow - Deposit
    BY <1>6, MoneyOut DEF SettleDeposit
  <2> QED BY <1>1, <1>3, <1>6, <2>1 DEF SettleDeposit
<1>7. CASE ~(purse.escrow >= Deposit /\ resa[r].status # "NONE")
  <2>1. purse' = purse /\ job' = [job EXCEPT !["cron"].of = @ \ {r}]
    BY <1>7 DEF SettleDeposit
  <2>2. purse.escrow < Deposit \/ resa[r].status = "NONE" BY <1>5, <1>7
  <2> QED BY <1>1, <1>4, <2>1, <2>2
<1> QED BY <1>6, <1>7

\* ... puts its kilos back on sale
LEMMA ReleaseEffect ==
  ASSUME ResaTypeOK, NEW r \in Resas, ReleaseKilos(r)
  PROVE  /\ job["cron"].at = "release" /\ job["cron"].one = {r}
         /\ Moves("cron", "settle", job["cron"].of \ {r}, {})
         /\ \/ resa[r].status = "NONE" /\ resa' = resa /\ forSale' = forSale
            \/ /\ resa[r].status # "NONE" /\ forSale' = forSale + Kg[r]
               /\ RowTo(r, "EXPIRED", resa[r].paid, resa[r].due)
         /\ UNCHANGED <<forecast, final, purse, score, odd>>
<1>1. "settle" \in JobSteps /\ "EXPIRED" \in ResaStatus BY DEF JobSteps, ResaStatus
<1>2. Moves("cron", "settle", job["cron"].of \ {r}, {})
  BY <1>1, ActorsDiffer, LoopMoves DEF ReleaseKilos
<1>3. Mark(r, "EXPIRED") => RowTo(r, "EXPIRED", resa[r].paid, resa[r].due)
  BY <1>1, MarkRow
<1> QED BY <1>2, <1>3 DEF ReleaseKilos, Busy

\* ... and is done
LEMMA EndEffect ==
  ASSUME ResaTypeOK, EndExpiry
  PROVE  /\ job["cron"].at = "settle" /\ job["cron"].of = {}
         /\ Moves("cron", "idle", {}, {})
         /\ UNCHANGED <<forecast, resa, forSale, final, purse, score, odd>>
<1>1. Moves("cron", "idle", {}, {}) BY ActorsDiffer, FinishMoves DEF EndExpiry
<1> QED BY <1>1 DEF EndExpiry, Busy

\* Every step is one of these
LEMMA StepsOf ==
  ASSUME ResaTypeOK, Seats, ResaNext
  PROVE  \/ \E kg \in Sizes : \E co \in {"NONE", "PENDING"} : CreatePrevision(kg, co)
         \/ \E kg \in Sizes : UpdatePrevision(kg)
         \/ CheckUpdate
         \/ CheckValidate
         \/ ValidatePrevision \/ RejectPrevision
         \/ ConvertPrevision
         \/ BeginDelete
         \/ \E r \in Resas : ClearResa(r)
         \/ \E r \in Resas : CancelResa(r)
         \/ Penalise
         \/ Erase
         \/ \E r \in Resas : Deadline(r)
         \/ \E c \in Buyers, r \in Resas : ReserverPrevision(c, r)
         \/ \E c \in Buyers, r \in Resas : OrderFinal(c, r)
         \/ \E c \in Buyers, r \in Resas : job[c].of = {r} /\ PayDeposit(c)
         \/ \E c \in Buyers, r \in Resas : job[c].of = {r} /\ ConfirmResa(c)
         \/ \E c \in Buyers, r \in Resas : job[c].of = {r} /\ DropResa(c)
         \/ \E c \in Buyers, r \in Resas : job[c].of = {r} /\ PayBalance(c)
         \/ \E c \in Buyers, r \in Resas : job[c].of = {r} /\ ConsumeDeposit(c)
         \/ \E c \in Buyers, r \in Resas : job[c].of = {r} /\ UndoFinal(c)
         \/ ListExpired
         \/ \E r \in Resas : SettleDeposit(r)
         \/ \E r \in Resas : ReleaseKilos(r)
         \/ EndExpiry
<1>1. ASSUME NEW c \in Buyers, ClientStep(c)
      PROVE  \E r \in Resas : job[c].of = {r}
  BY <1>1
      DEF ClientStep, PayDeposit, ConfirmResa, DropResa, PayBalance, ConsumeDeposit, UndoFinal,
              Busy, Seats, ClientSeat
<1>2. CASE \E c \in Buyers : ClientStep(c)
  BY <1>1, <1>2, Zenon DEF ClientStep
<1>3. CASE Expiry BY <1>3, Zenon DEF Expiry
<1> QED BY <1>2, <1>3, Zenon DEF ResaNext

\* The shapes of the rest
PurseRows == [escrow : Nat, back : Nat, farmer : Nat]
Overlaps == {"shrunk", "clash", "early", "erased", "late"}
\* The type invariant, by those shapes
ResaTyped ==
  /\ forecast \in ForecastRows /\ resa \in [Resas -> ResaRows]
  /\ forSale \in Nat /\ score \in Nat
  /\ final \in [Resas -> {"NONE", "SENT", "PAID"}]
  /\ purse \in PurseRows /\ job \in [Actors -> JobRows] /\ odd \subseteq Overlaps

\* It is the same
LEMMA ResaTypes == (ResaTypeOK <=> ResaTyped) /\ (ResaTypeOK' <=> ResaTyped')
  BY DEF ResaTypeOK, ResaTyped, ForecastRows, ResaRows, PurseRows, JobRows, Overlaps

-----------------------------------------------------------------------------

\* A quantity of kilos is a natural number, grows with the reservations, and is a sum
LEMMA KilosFacts ==
  ASSUME NEW S \in SUBSET Resas
  PROVE  /\ Kilos(S) \in Nat
         /\ \A T \in SUBSET S : Kilos(T) <= Kilos(S)
         /\ \A r \in S : Kilos(S) = Kg[r] + Kilos(S \ {r})
<1>1. IsFiniteSet(S) /\ (\A x \in S : Kg[x] \in Nat) /\ Ints(Kg, S)
  BY FS_Subset, ResaAssumption DEF Ints
<1>2. SumFunctionOnSet(Kg, S) \in Nat BY <1>1, SumNat
<1>3. \A T \in SUBSET S : SumFunctionOnSet(Kg, T) <= SumFunctionOnSet(Kg, S) BY <1>1, SumPart
<1>4. \A r \in S : SumFunctionOnSet(Kg, S) = Kg[r] + SumFunctionOnSet(Kg, S \ {r})
  BY <1>1, SumRemove
<1> QED BY <1>2, <1>3, <1>4 DEF Kilos

\* ... is a natural number
LEMMA KilosNat == ASSUME NEW S \in SUBSET Resas PROVE Kilos(S) \in Nat
  BY KilosFacts

\* ... one reservation more adds its kilos at most
LEMMA KilosMore ==
  ASSUME NEW S \in SUBSET Resas, NEW T \in SUBSET Resas, NEW r \in Resas,
         T \subseteq S \cup {r}
  PROVE  Kilos(T) <= Kilos(S) + Kg[r]
<1>1. Kg[r] \in Nat /\ Kilos(S) \in Nat /\ Kilos(T) \in Nat BY KilosFacts, ResaAssumption
<1>2. CASE r \in T
  <2>1. T \ {r} \in SUBSET S /\ T \ {r} \in SUBSET Resas OBVIOUS
  <2>2. Kilos(T) = Kg[r] + Kilos(T \ {r}) BY <1>2, KilosFacts
  <2>3. Kilos(T \ {r}) <= Kilos(S) /\ Kilos(T \ {r}) \in Nat BY <2>1, KilosFacts
  <2> QED BY <1>1, <2>2, <2>3
<1>3. CASE r \notin T
  <2>1. T \in SUBSET S BY <1>3
  <2>2. Kilos(T) <= Kilos(S) BY <2>1, KilosFacts
  <2> QED BY <1>1, <2>2
<1> QED BY <1>2, <1>3

\* ... one less takes its kilos at least
LEMMA KilosLess ==
  ASSUME NEW S \in SUBSET Resas, NEW T \in SUBSET Resas, NEW r \in S, T \subseteq S \ {r}
  PROVE  Kilos(T) + Kg[r] <= Kilos(S)
<1>1. S \ {r} \in SUBSET Resas /\ T \in SUBSET (S \ {r}) OBVIOUS
<1>2. Kilos(T) <= Kilos(S \ {r}) BY <1>1, KilosFacts
<1>3. Kilos(S) = Kg[r] + Kilos(S \ {r}) BY KilosFacts
<1>4. Kg[r] \in Nat /\ Kilos(T) \in Nat /\ Kilos(S \ {r}) \in Nat
  BY <1>1, KilosFacts, ResaAssumption
<1> QED BY <1>2, <1>3, <1>4

\* Each step preserves the types
LEMMA ResaTypeStep ==
  ASSUME ResaTypeOK, Seats, ResaNext
  PROVE  ResaTypeOK'
<1>1. ASSUME NEW kg \in Sizes, NEW co \in {"NONE", "PENDING"}, CreatePrevision(kg, co)
      PROVE ResaTypeOK'
  <2> USE ResaTypes
  <2>1. ResaTyped /\ ResaTypeOK OBVIOUS
  <2> QED BY <1>1, CreateEffect, <2>1, ResaAssumption
      DEF Moves, RowTo, ResaTyped, Overlaps, PurseRows
<1>2. ASSUME NEW kg \in Sizes, UpdatePrevision(kg) PROVE ResaTypeOK'
  <2> USE ResaTypes
  <2>1. ResaTyped /\ ResaTypeOK OBVIOUS
  <2> QED BY <1>2, UpdateEffect, <2>1, ResaAssumption
      DEF Moves, RowTo, ResaTyped, Overlaps, PurseRows
<1>3. ASSUME CheckUpdate PROVE ResaTypeOK'
  <2> USE ResaTypes
  <2>1. ResaTyped /\ ResaTypeOK OBVIOUS
  <2> QED BY <1>3, CheckEffect, <2>1, ResaAssumption
      DEF Moves, RowTo, ResaTyped, Overlaps, PurseRows
<1>4. ASSUME CheckValidate PROVE ResaTypeOK'
  <2> USE ResaTypes
  <2>1. ResaTyped /\ ResaTypeOK OBVIOUS
  <2> QED BY <1>4, CheckEffect, <2>1, ResaAssumption
      DEF Moves, RowTo, ResaTyped, Overlaps, PurseRows
<1>5. ASSUME ValidatePrevision \/ RejectPrevision PROVE ResaTypeOK'
  <2> USE ResaTypes
  <2>1. ResaTyped /\ ResaTypeOK OBVIOUS
  <2> QED BY <1>5, CoopEffect, <2>1, ResaAssumption
      DEF Moves, RowTo, ResaTyped, Overlaps, PurseRows
<1>6. ASSUME ConvertPrevision PROVE ResaTypeOK'
  <2>1. ResaTyped BY ResaTypes
  <2>2. forecast.kg - Kilos(InStatus({"CONFIRMED", "PENDING"})) \in Int
    BY <2>1, KilosNat DEF ResaTyped, ForecastRows, InStatus
  <2>3. forSale' \in Nat BY <1>6, ConvertEffect, <2>2, LargerOfTwo
  <2>4. ResaTyped' BY <1>6, ConvertEffect, <2>1, <2>3 DEF ResaTyped, Overlaps
  <2> QED BY <2>4, ResaTypes
<1>7. ASSUME BeginDelete PROVE ResaTypeOK'
  <2> USE ResaTypes
  <2>1. ResaTyped /\ ResaTypeOK OBVIOUS
  <2> QED BY <1>7, DeleteEffect, <2>1, ResaAssumption
      DEF Moves, RowTo, ResaTyped, Overlaps, PurseRows
<1>8. ASSUME NEW r \in Resas, ClearResa(r) PROVE ResaTypeOK'
  <2> USE ResaTypes
  <2>1. ResaTyped /\ ResaTypeOK OBVIOUS
  <2> QED BY <1>8, ClearEffect, <2>1, ResaAssumption
      DEF Moves, RowTo, ResaTyped, Overlaps, PurseRows
<1>9. ASSUME NEW r \in Resas, CancelResa(r) PROVE ResaTypeOK'
  <2> USE ResaTypes
  <2>1. ResaTyped /\ ResaTypeOK OBVIOUS
  <2> QED BY <1>9, CancelEffect, <2>1, ResaAssumption
      DEF Moves, RowTo, ResaTyped, Overlaps, PurseRows
<1>10. ASSUME Penalise PROVE ResaTypeOK'
  <2> USE ResaTypes
  <2>1. ResaTyped /\ ResaTypeOK OBVIOUS
  <2> QED BY <1>10, PenaliseEffect, <2>1, ResaAssumption
      DEF Moves, RowTo, ResaTyped, Overlaps, PurseRows
<1>11. ASSUME Erase PROVE ResaTypeOK'
  <2> USE ResaTypes
  <2>1. ResaTyped /\ ResaTypeOK OBVIOUS
  <2> QED BY <1>11, EraseEffect, <2>1, ResaAssumption
      DEF Moves, RowTo, ResaTyped, Overlaps, PurseRows
<1>12. ASSUME NEW r \in Resas, Deadline(r) PROVE ResaTypeOK'
  <2> USE ResaTypes
  <2>1. ResaTyped /\ ResaTypeOK OBVIOUS
  <2> QED BY <1>12, DeadlineEffect, <2>1, ResaAssumption
      DEF Moves, RowTo, ResaTyped, Overlaps, PurseRows
<1>13. ASSUME NEW c \in Buyers, NEW r \in Resas, ReserverPrevision(c, r) PROVE ResaTypeOK'
  <2>1. ResaTyped BY ResaTypes
  <2>2. /\ Moves(c, "deposit", {r}, {}) /\ RowTo(r, "PENDING", FALSE, FALSE)
        /\ odd' \subseteq odd \cup {"clash"}
        /\ UNCHANGED <<forecast, forSale, final, purse, score>>
    BY <1>13, ReserveEffect
  <2>3. ResaTyped' BY <2>1, <2>2 DEF Moves, RowTo, ResaTyped, Overlaps
  <2> QED BY <2>3, ResaTypes
<1>14. ASSUME NEW c \in Buyers, NEW r \in Resas, OrderFinal(c, r) PROVE ResaTypeOK'
  <2> USE ResaTypes
  <2>1. ResaTyped /\ ResaTypeOK OBVIOUS
  <2> QED BY <1>14, OrderEffect, <2>1, ResaAssumption
      DEF Moves, RowTo, ResaTyped, Overlaps, PurseRows
<1>15. ASSUME NEW c \in Buyers, NEW r \in Resas, job[c].of = {r}, PayDeposit(c)
      PROVE ResaTypeOK'
  <2> USE ResaTypes
  <2>1. ResaTyped /\ ResaTypeOK OBVIOUS
  <2> QED BY <1>15, PayDepositEffect, <2>1, ResaAssumption
      DEF Moves, RowTo, ResaTyped, Overlaps, PurseRows
<1>16. ASSUME NEW c \in Buyers, NEW r \in Resas, job[c].of = {r}, ConfirmResa(c)
      PROVE ResaTypeOK'
  <2> USE ResaTypes
  <2>1. ResaTyped /\ ResaTypeOK OBVIOUS
  <2> QED BY <1>16, ConfirmEffect, <2>1, ResaAssumption
      DEF Moves, RowTo, ResaTyped, Overlaps, PurseRows
<1>17. ASSUME NEW c \in Buyers, NEW r \in Resas, job[c].of = {r}, DropResa(c)
      PROVE ResaTypeOK'
  <2> USE ResaTypes
  <2>1. ResaTyped /\ ResaTypeOK OBVIOUS
  <2> QED BY <1>17, DropEffect, <2>1, ResaAssumption
      DEF Moves, RowTo, ResaTyped, Overlaps, PurseRows
<1>18. ASSUME NEW c \in Buyers, NEW r \in Resas, job[c].of = {r}, PayBalance(c)
      PROVE ResaTypeOK'
  <2> USE ResaTypes
  <2>1. ResaTyped /\ ResaTypeOK OBVIOUS
  <2> QED BY <1>18, BalanceEffect, <2>1, ResaAssumption
      DEF Moves, RowTo, ResaTyped, Overlaps, PurseRows
<1>19. ASSUME NEW c \in Buyers, NEW r \in Resas, job[c].of = {r}, ConsumeDeposit(c)
      PROVE ResaTypeOK'
  <2> USE ResaTypes
  <2>1. ResaTyped /\ ResaTypeOK OBVIOUS
  <2> QED BY <1>19, ConsumeEffect, <2>1, ResaAssumption
      DEF Moves, RowTo, ResaTyped, Overlaps, PurseRows
<1>20. ASSUME NEW c \in Buyers, NEW r \in Resas, job[c].of = {r}, UndoFinal(c)
      PROVE ResaTypeOK'
  <2>1. ResaTyped BY ResaTypes
  <2>2. Kg[r] \in Nat BY ResaAssumption
  <2>3. forSale' \in Nat BY <1>20, UndoEffect, <2>1, <2>2 DEF ResaTyped
  <2>4. ResaTyped' BY <1>20, UndoEffect, <2>1, <2>3 DEF Moves, RowTo, ResaTyped, PurseRows
  <2> QED BY <2>4, ResaTypes
<1>21. ASSUME ListExpired PROVE ResaTypeOK'
  <2> USE ResaTypes
  <2>1. ResaTyped /\ ResaTypeOK OBVIOUS
  <2> QED BY <1>21, ListEffect, <2>1, ResaAssumption
      DEF Moves, RowTo, ResaTyped, Overlaps, PurseRows
<1>22. ASSUME NEW r \in Resas, SettleDeposit(r) PROVE ResaTypeOK'
  <2> USE ResaTypes
  <2>1. ResaTyped /\ ResaTypeOK OBVIOUS
  <2> QED BY <1>22, SettleEffect, <2>1, ResaAssumption
      DEF Moves, RowTo, ResaTyped, Overlaps, PurseRows
<1>23. ASSUME NEW r \in Resas, ReleaseKilos(r) PROVE ResaTypeOK'
  <2>1. ResaTyped BY ResaTypes
  <2>2. Kg[r] \in Nat BY ResaAssumption
  <2>a. forSale' = forSale \/ forSale' = forSale + Kg[r] BY <1>23, ReleaseEffect, Zenon
  <2>3. forSale' \in Nat BY <2>a, <2>1, <2>2 DEF ResaTyped
  <2>4. ResaTyped' BY <1>23, ReleaseEffect, <2>1, <2>3 DEF Moves, RowTo, ResaTyped, PurseRows
  <2> QED BY <2>4, ResaTypes
<1>24. ASSUME EndExpiry PROVE ResaTypeOK'
  <2> USE ResaTypes
  <2>1. ResaTyped /\ ResaTypeOK OBVIOUS
  <2> QED BY <1>24, EndEffect, <2>1, ResaAssumption
      DEF Moves, RowTo, ResaTyped, Overlaps, PurseRows
<1> QED BY <1>1, <1>2, <1>3, <1>4, <1>5, <1>6, <1>7, <1>8, <1>9, <1>10, <1>11, <1>12, <1>13,
           <1>14, <1>15, <1>16, <1>17, <1>18, <1>19, <1>20, <1>21, <1>22, <1>23, <1>24,
           StepsOf, Zenon

-----------------------------------------------------------------------------

\* The steps that write no reservation and no final order, of others than clients
Aside == /\ \A d \in Buyers : job'[d] = job[d]
         /\ resa' = resa /\ final' = final /\ odd \subseteq odd'

\* Each step is one of those, or a step about a reservation
LEMMA AsideSteps ==
  ASSUME ResaTypeOK, Seats, ResaNext
  PROVE  \/ Aside
         \/ ConvertPrevision
         \/ \E r \in Resas : CancelResa(r)
         \/ Erase
         \/ \E r \in Resas : Deadline(r)
         \/ \E c \in Buyers, r \in Resas : ReserverPrevision(c, r)
         \/ \E c \in Buyers, r \in Resas : OrderFinal(c, r)
         \/ \E c \in Buyers, r \in Resas : job[c].of = {r} /\ PayDeposit(c)
         \/ \E c \in Buyers, r \in Resas : job[c].of = {r} /\ ConfirmResa(c)
         \/ \E c \in Buyers, r \in Resas : job[c].of = {r} /\ DropResa(c)
         \/ \E c \in Buyers, r \in Resas : job[c].of = {r} /\ PayBalance(c)
         \/ \E c \in Buyers, r \in Resas : job[c].of = {r} /\ ConsumeDeposit(c)
         \/ \E c \in Buyers, r \in Resas : job[c].of = {r} /\ UndoFinal(c)
         \/ \E r \in Resas : ReleaseKilos(r)
<1>1. ASSUME NEW kg \in Sizes, NEW co \in {"NONE", "PENDING"}, CreatePrevision(kg, co)
      PROVE Aside
  BY <1>1, CreateEffect, ActorsDiffer DEF Moves, Aside
<1>2. ASSUME NEW kg \in Sizes, UpdatePrevision(kg) PROVE Aside
  BY <1>2, UpdateEffect, ActorsDiffer DEF Moves, Aside
<1>3. ASSUME CheckUpdate PROVE Aside
  BY <1>3, CheckEffect, ActorsDiffer DEF Moves, Aside
<1>4. ASSUME CheckValidate PROVE Aside
  BY <1>4, CheckEffect, ActorsDiffer DEF Moves, Aside
<1>5. ASSUME ValidatePrevision \/ RejectPrevision PROVE Aside
  BY <1>5, CoopEffect, ActorsDiffer DEF Moves, Aside
<1>6. ASSUME BeginDelete PROVE Aside
  BY <1>6, DeleteEffect, ActorsDiffer DEF Moves, Aside
<1>7. ASSUME NEW r \in Resas, ClearResa(r) PROVE Aside
  BY <1>7, ClearEffect, ActorsDiffer DEF Moves, Aside
<1>8. ASSUME Penalise PROVE Aside
  BY <1>8, PenaliseEffect, ActorsDiffer DEF Moves, Aside
<1>9. ASSUME ListExpired PROVE Aside
  BY <1>9, ListEffect, ActorsDiffer DEF Moves, Aside
<1>10. ASSUME NEW r \in Resas, SettleDeposit(r) PROVE Aside
  BY <1>10, SettleEffect, ActorsDiffer DEF Moves, Aside
<1>11. ASSUME EndExpiry PROVE Aside
  BY <1>11, EndEffect, ActorsDiffer DEF Moves, Aside
<1> QED BY <1>1, <1>2, <1>3, <1>4, <1>5, <1>6, <1>7, <1>8, <1>9, <1>10, <1>11, StepsOf, Zenon

\* One request moves on to a step it may be at
LEMMA SeatMove ==
  ASSUME Seats, NEW a \in Actors, \A b \in Actors : b # a => job'[b] = job[b],
         a = "farmer" => FarmerSeat(job'[a]), a = "cron" => CronSeat(job'[a]),
         a \in Buyers => ClientSeat(job'[a])
  PROVE  Seats'
<1>1. FarmerSeat(job["farmer"]') BY ActorsDiffer DEF Seats
<1>2. CronSeat(job["cron"]') BY ActorsDiffer DEF Seats
<1>3. \A c \in Buyers : ClientSeat(job[c]') BY ActorsDiffer DEF Seats
<1> QED BY <1>1, <1>2, <1>3 DEF Seats

\* Each step leaves everyone at a step of his own
LEMMA SeatsStep ==
  ASSUME ResaTypeOK, Seats, ResaNext
  PROVE  Seats'
<1>1. ASSUME NEW kg \in Sizes, NEW co \in {"NONE", "PENDING"}, CreatePrevision(kg, co)
      PROVE Seats'
  BY <1>1, CreateEffect DEF Seats
<1>2. ASSUME NEW kg \in Sizes, UpdatePrevision(kg) PROVE Seats'
  <2>1. FarmerSeat(job'["farmer"])
    BY <1>2, UpdateEffect, ActorsDiffer DEF Moves, Seats, FarmerSeat
  <2>2. \A b \in Actors : b # "farmer" => job'[b] = job[b] BY <1>2, UpdateEffect DEF Moves
  <2> QED BY <2>1, <2>2, ActorsDiffer, SeatMove
<1>3. ASSUME CheckUpdate PROVE Seats'
  <2>1. FarmerSeat(job'["farmer"]) BY <1>3, CheckEffect, ActorsDiffer DEF Moves, Seats, FarmerSeat
  <2>2. \A b \in Actors : b # "farmer" => job'[b] = job[b] BY <1>3, CheckEffect DEF Moves
  <2> QED BY <2>1, <2>2, ActorsDiffer, SeatMove
<1>4. ASSUME CheckValidate PROVE Seats'
  <2>1. CASE job' = job BY <2>1 DEF Seats
  <2>2. CASE job' # job
    <3>1. \A b \in Actors : b # "coop" => job'[b] = job[b] BY <2>2, <1>4, CheckEffect DEF Moves
    <3> QED BY <3>1, ActorsDiffer, SeatMove
  <2> QED BY <2>1, <2>2
<1>5. ASSUME ValidatePrevision \/ RejectPrevision PROVE Seats'
  <2>1. CASE job' = job BY <2>1 DEF Seats
  <2>2. CASE job' # job
    <3>1. \A b \in Actors : b # "coop" => job'[b] = job[b] BY <2>2, <1>5, CoopEffect DEF Moves
    <3> QED BY <3>1, ActorsDiffer, SeatMove
  <2> QED BY <2>1, <2>2
<1>6. ASSUME ConvertPrevision PROVE Seats'
  BY <1>6, ConvertEffect DEF Seats
<1>7. ASSUME BeginDelete PROVE Seats'
  <2>1. FarmerSeat(job'["farmer"])
    BY <1>7, DeleteEffect, ActorsDiffer DEF Moves, Seats, FarmerSeat
  <2>2. \A b \in Actors : b # "farmer" => job'[b] = job[b] BY <1>7, DeleteEffect DEF Moves
  <2> QED BY <2>1, <2>2, ActorsDiffer, SeatMove
<1>8. ASSUME NEW r \in Resas, ClearResa(r) PROVE Seats'
  <2>1. FarmerSeat(job'["farmer"]) BY <1>8, ClearEffect, ActorsDiffer DEF Moves, Seats, FarmerSeat
  <2>2. \A b \in Actors : b # "farmer" => job'[b] = job[b] BY <1>8, ClearEffect DEF Moves
  <2> QED BY <2>1, <2>2, ActorsDiffer, SeatMove
<1>9. ASSUME NEW r \in Resas, CancelResa(r) PROVE Seats'
  <2>1. FarmerSeat(job'["farmer"])
    BY <1>9, CancelEffect, ActorsDiffer DEF Moves, Seats, FarmerSeat
  <2>2. \A b \in Actors : b # "farmer" => job'[b] = job[b] BY <1>9, CancelEffect DEF Moves
  <2> QED BY <2>1, <2>2, ActorsDiffer, SeatMove
<1>10. ASSUME Penalise PROVE Seats'
  <2>1. FarmerSeat(job'["farmer"])
    BY <1>10, PenaliseEffect, ActorsDiffer DEF Moves, Seats, FarmerSeat
  <2>2. \A b \in Actors : b # "farmer" => job'[b] = job[b] BY <1>10, PenaliseEffect DEF Moves
  <2> QED BY <2>1, <2>2, ActorsDiffer, SeatMove
<1>11. ASSUME Erase PROVE Seats'
  <2>1. FarmerSeat(job'["farmer"])
    BY <1>11, EraseEffect, ActorsDiffer DEF Moves, Seats, FarmerSeat
  <2>2. \A b \in Actors : b # "farmer" => job'[b] = job[b] BY <1>11, EraseEffect DEF Moves
  <2> QED BY <2>1, <2>2, ActorsDiffer, SeatMove
<1>12. ASSUME NEW r \in Resas, Deadline(r) PROVE Seats'
  BY <1>12, DeadlineEffect DEF Seats
<1>13. ASSUME NEW c \in Buyers, NEW r \in Resas, ReserverPrevision(c, r) PROVE Seats'
  <2>1. ClientSeat(job'[c])
    BY <1>13, ReserveEffect, ActorsDiffer DEF Moves, Seats, ClientSeat, Depositing, Settling
  <2>2. \A b \in Actors : b # c => job'[b] = job[b] BY <1>13, ReserveEffect DEF Moves
  <2> QED BY <2>1, <2>2, ActorsDiffer, SeatMove
<1>14. ASSUME NEW c \in Buyers, NEW r \in Resas, OrderFinal(c, r) PROVE Seats'
  <2>1. ClientSeat(job'[c])
    BY <1>14, OrderEffect, ActorsDiffer DEF Moves, Seats, ClientSeat, Depositing, Settling
  <2>2. \A b \in Actors : b # c => job'[b] = job[b] BY <1>14, OrderEffect DEF Moves
  <2> QED BY <2>1, <2>2, ActorsDiffer, SeatMove
<1>15. ASSUME NEW c \in Buyers, NEW r \in Resas, job[c].of = {r}, PayDeposit(c)
      PROVE Seats'
  <2>1. ClientSeat(job'[c])
    BY <1>15, PayDepositEffect, ActorsDiffer DEF Moves, Seats, ClientSeat, Depositing, Settling
  <2>2. \A b \in Actors : b # c => job'[b] = job[b] BY <1>15, PayDepositEffect DEF Moves
  <2> QED BY <2>1, <2>2, ActorsDiffer, SeatMove
<1>16. ASSUME NEW c \in Buyers, NEW r \in Resas, job[c].of = {r}, ConfirmResa(c)
      PROVE Seats'
  <2>1. ClientSeat(job'[c])
    BY <1>16, ConfirmEffect, ActorsDiffer DEF Moves, Seats, ClientSeat, Depositing, Settling
  <2>2. \A b \in Actors : b # c => job'[b] = job[b] BY <1>16, ConfirmEffect DEF Moves
  <2> QED BY <2>1, <2>2, ActorsDiffer, SeatMove
<1>17. ASSUME NEW c \in Buyers, NEW r \in Resas, job[c].of = {r}, DropResa(c) PROVE Seats'
  <2>1. ClientSeat(job'[c])
    BY <1>17, DropEffect, ActorsDiffer DEF Moves, Seats, ClientSeat, Depositing, Settling
  <2>2. \A b \in Actors : b # c => job'[b] = job[b] BY <1>17, DropEffect DEF Moves
  <2> QED BY <2>1, <2>2, ActorsDiffer, SeatMove
<1>18. ASSUME NEW c \in Buyers, NEW r \in Resas, job[c].of = {r}, PayBalance(c)
      PROVE Seats'
  <2>1. ClientSeat(job'[c])
    BY <1>18, BalanceEffect, ActorsDiffer DEF Moves, Seats, ClientSeat, Depositing, Settling
  <2>2. \A b \in Actors : b # c => job'[b] = job[b] BY <1>18, BalanceEffect DEF Moves
  <2> QED BY <2>1, <2>2, ActorsDiffer, SeatMove
<1>19. ASSUME NEW c \in Buyers, NEW r \in Resas, job[c].of = {r}, ConsumeDeposit(c)
      PROVE Seats'
  <2>1. ClientSeat(job'[c])
    BY <1>19, ConsumeEffect, ActorsDiffer DEF Moves, Seats, ClientSeat, Depositing, Settling
  <2>2. \A b \in Actors : b # c => job'[b] = job[b] BY <1>19, ConsumeEffect DEF Moves
  <2> QED BY <2>1, <2>2, ActorsDiffer, SeatMove
<1>20. ASSUME NEW c \in Buyers, NEW r \in Resas, job[c].of = {r}, UndoFinal(c)
      PROVE Seats'
  <2>1. ClientSeat(job'[c])
    BY <1>20, UndoEffect, ActorsDiffer DEF Moves, Seats, ClientSeat, Depositing, Settling
  <2>2. \A b \in Actors : b # c => job'[b] = job[b] BY <1>20, UndoEffect DEF Moves
  <2> QED BY <2>1, <2>2, ActorsDiffer, SeatMove
<1>21. ASSUME ListExpired PROVE Seats'
  <2>1. CronSeat(job'["cron"]) BY <1>21, ListEffect, ActorsDiffer DEF Moves, Seats, CronSeat
  <2>2. \A b \in Actors : b # "cron" => job'[b] = job[b] BY <1>21, ListEffect DEF Moves
  <2> QED BY <2>1, <2>2, ActorsDiffer, SeatMove
<1>22. ASSUME NEW r \in Resas, SettleDeposit(r) PROVE Seats'
  <2>1. CronSeat(job'["cron"]) BY <1>22, SettleEffect, ActorsDiffer DEF Moves, Seats, CronSeat
  <2>2. \A b \in Actors : b # "cron" => job'[b] = job[b] BY <1>22, SettleEffect DEF Moves
  <2> QED BY <2>1, <2>2, ActorsDiffer, SeatMove
<1>23. ASSUME NEW r \in Resas, ReleaseKilos(r) PROVE Seats'
  <2>1. CronSeat(job'["cron"]) BY <1>23, ReleaseEffect, ActorsDiffer DEF Moves, Seats, CronSeat
  <2>2. \A b \in Actors : b # "cron" => job'[b] = job[b] BY <1>23, ReleaseEffect DEF Moves
  <2> QED BY <2>1, <2>2, ActorsDiffer, SeatMove
<1>24. ASSUME EndExpiry PROVE Seats'
  <2>1. CronSeat(job'["cron"]) BY <1>24, EndEffect, ActorsDiffer DEF Moves, Seats, CronSeat
  <2>2. \A b \in Actors : b # "cron" => job'[b] = job[b] BY <1>24, EndEffect DEF Moves
  <2> QED BY <2>1, <2>2, ActorsDiffer, SeatMove
<1> QED BY <1>1, <1>2, <1>3, <1>4, <1>5, <1>6, <1>7, <1>8, <1>9, <1>10, <1>11, <1>12, <1>13,
           <1>14, <1>15, <1>16, <1>17, <1>18, <1>19, <1>20, <1>21, <1>22, <1>23, <1>24,
           StepsOf, Zenon

\* Each step keeps to the life of the forecast
LEMMA PhasesStep ==
  ASSUME ResaTypeOK, Seats, Phases, ResaNext
  PROVE  Phases'
<1>1. ASSUME NEW kg \in Sizes, NEW co \in {"NONE", "PENDING"}, CreatePrevision(kg, co)
      PROVE Phases'
  BY <1>1, CreateEffect, ActorsDiffer
      DEF Moves, RowTo, Phases, Paying, Busy, Seats, ClientSeat, Depositing, Settling, Bookable,
          Payable
<1>2. ASSUME NEW kg \in Sizes, UpdatePrevision(kg) PROVE Phases'
  BY <1>2, UpdateEffect, ActorsDiffer
      DEF Moves, RowTo, Phases, Paying, Busy, Seats, ClientSeat, Depositing, Settling, Bookable,
          Payable
<1>3. ASSUME CheckUpdate PROVE Phases'
  BY <1>3, CheckEffect, ActorsDiffer
      DEF Moves, RowTo, Phases, Paying, Busy, Seats, ClientSeat, Depositing, Settling, Bookable,
          Payable
<1>4. ASSUME CheckValidate PROVE Phases'
  BY <1>4, CheckEffect, ActorsDiffer
      DEF Moves, RowTo, Phases, Paying, Busy, Seats, ClientSeat, Depositing, Settling, Bookable,
          Payable
<1>5. ASSUME ValidatePrevision \/ RejectPrevision PROVE Phases'
  BY <1>5, CoopEffect, ActorsDiffer
      DEF Moves, RowTo, Phases, Paying, Busy, Seats, ClientSeat, Depositing, Settling, Bookable,
          Payable
<1>6. ASSUME ConvertPrevision PROVE Phases'
  BY <1>6, ConvertEffect, ActorsDiffer
      DEF Moves, RowTo, Phases, Paying, Busy, Seats, ClientSeat, Depositing, Settling, Bookable,
          Payable
<1>7. ASSUME BeginDelete PROVE Phases'
  BY <1>7, DeleteEffect, ActorsDiffer
      DEF Moves, RowTo, Phases, Paying, Busy, Seats, ClientSeat, Depositing, Settling, Bookable,
          Payable
<1>8. ASSUME NEW r \in Resas, ClearResa(r) PROVE Phases'
  BY <1>8, ClearEffect, ActorsDiffer
      DEF Moves, RowTo, Phases, Paying, Busy, Seats, ClientSeat, Depositing, Settling, Bookable,
          Payable
<1>9. ASSUME NEW r \in Resas, CancelResa(r) PROVE Phases'
  BY <1>9, CancelEffect, ActorsDiffer
      DEF Moves, RowTo, Phases, Paying, Busy, Seats, ClientSeat, Depositing, Settling, Bookable,
          Payable
<1>10. ASSUME Penalise PROVE Phases'
  BY <1>10, PenaliseEffect, ActorsDiffer
      DEF Moves, RowTo, Phases, Paying, Busy, Seats, ClientSeat, Depositing, Settling, Bookable,
          Payable
<1>11. ASSUME Erase PROVE Phases'
  BY <1>11, EraseEffect, ActorsDiffer
      DEF Moves, RowTo, Phases, Paying, Busy, Seats, ClientSeat, Depositing, Settling, Bookable,
          Payable
<1>12. ASSUME NEW r \in Resas, Deadline(r) PROVE Phases'
  BY <1>12, DeadlineEffect, ActorsDiffer
      DEF Moves, RowTo, Phases, Paying, Busy, Seats, ClientSeat, Depositing, Settling, Bookable,
          Payable
<1>13. ASSUME NEW c \in Buyers, NEW r \in Resas, ReserverPrevision(c, r) PROVE Phases'
  <2>0. Moves(c, "deposit", {r}, {}) /\ RowTo(r, "PENDING", FALSE, FALSE) /\ Bookable
        /\ UNCHANGED <<forecast, forSale, final, purse, score>>
    BY <1>13, ReserveEffect, Zenon
  <2>1. /\ \A x \in Resas : x # r => resa'[x] = resa[x]
        /\ \A x \in Resas : final'[x] = final[x]
        /\ forecast' = forecast /\ (\A b \in Actors : b # c => job'[b] = job[b])
        /\ job'[c].at \notin Settling
    BY <2>0 DEF RowTo, Moves, Settling
  <2>2. /\ resa'[r].status \in {"NONE", "PENDING", "CONFIRMED"} \/ resa'[r] = resa[r]
        /\ resa'[r].status = "NONE" => ~resa'[r].paid /\ ~resa'[r].due
        /\ forecast.status \in {"NONE", "DELETED"} => resa'[r].status = "NONE"
    BY <2>0 DEF RowTo, Phases, Bookable
  <2>3. ~Paying(Settling) => ~Paying(Settling)' BY <2>1, ActorsDiffer DEF Paying
  <2>4. Busy("cron", "idle") => Busy("cron", "idle")' BY <2>1, ActorsDiffer DEF Busy
  <2> QED BY <2>1, <2>2, <2>3, <2>4 DEF Phases
<1>14. ASSUME NEW c \in Buyers, NEW r \in Resas, OrderFinal(c, r) PROVE Phases'
  BY <1>14, OrderEffect, ActorsDiffer
      DEF Moves, RowTo, Phases, Paying, Busy, Seats, ClientSeat, Depositing, Settling, Bookable,
          Payable
<1>15. ASSUME NEW c \in Buyers, NEW r \in Resas, job[c].of = {r}, PayDeposit(c)
      PROVE Phases'
  BY <1>15, PayDepositEffect, ActorsDiffer
      DEF Moves, RowTo, Phases, Paying, Busy, Seats, ClientSeat, Depositing, Settling, Bookable,
          Payable
<1>16. ASSUME NEW c \in Buyers, NEW r \in Resas, job[c].of = {r}, ConfirmResa(c)
      PROVE Phases'
  <2>1. /\ \A x \in Resas : x # r => resa'[x] = resa[x]
        /\ \A x \in Resas : final'[x] = final[x]
        /\ forecast' = forecast /\ (\A b \in Actors : b # c => job'[b] = job[b])
        /\ job'[c].at \notin Settling
    BY <1>16, ConfirmEffect DEF RowTo, Moves, Settling
  <2>2. /\ resa'[r].status \in {"NONE", "PENDING", "CONFIRMED"} \/ resa'[r] = resa[r]
        /\ resa'[r].status = "NONE" => ~resa'[r].paid /\ ~resa'[r].due
        /\ forecast.status \in {"NONE", "DELETED"} => resa'[r].status = "NONE"
    BY <1>16, ConfirmEffect DEF RowTo, Phases, Bookable
  <2>3. ~Paying(Settling) => ~Paying(Settling)' BY <2>1, ActorsDiffer DEF Paying
  <2>4. Busy("cron", "idle") => Busy("cron", "idle")' BY <2>1, ActorsDiffer DEF Busy
  <2> QED BY <2>1, <2>2, <2>3, <2>4 DEF Phases
<1>17. ASSUME NEW c \in Buyers, NEW r \in Resas, job[c].of = {r}, DropResa(c)
      PROVE Phases'
  <2>1. /\ \A x \in Resas : x # r => resa'[x] = resa[x]
        /\ \A x \in Resas : final'[x] = final[x]
        /\ forecast' = forecast /\ (\A b \in Actors : b # c => job'[b] = job[b])
        /\ job'[c].at \notin Settling
    BY <1>17, DropEffect DEF RowTo, Moves, Settling
  <2>2. /\ resa'[r].status \in {"NONE", "PENDING", "CONFIRMED"} \/ resa'[r] = resa[r]
        /\ resa'[r].status = "NONE" => ~resa'[r].paid /\ ~resa'[r].due
        /\ forecast.status \in {"NONE", "DELETED"} => resa'[r].status = "NONE"
    BY <1>17, DropEffect DEF RowTo, Phases, Bookable
  <2>3. ~Paying(Settling) => ~Paying(Settling)' BY <2>1, ActorsDiffer DEF Paying
  <2>4. Busy("cron", "idle") => Busy("cron", "idle")' BY <2>1, ActorsDiffer DEF Busy
  <2> QED BY <2>1, <2>2, <2>3, <2>4 DEF Phases
<1>18. ASSUME NEW c \in Buyers, NEW r \in Resas, job[c].of = {r}, PayBalance(c)
      PROVE Phases'
  BY <1>18, BalanceEffect, ActorsDiffer
      DEF Moves, RowTo, Phases, Paying, Busy, Seats, ClientSeat, Depositing, Settling, Bookable,
          Payable
<1>19. ASSUME NEW c \in Buyers, NEW r \in Resas, job[c].of = {r}, ConsumeDeposit(c)
      PROVE Phases'
  BY <1>19, ConsumeEffect, ActorsDiffer
      DEF Moves, RowTo, Phases, Paying, Busy, Seats, ClientSeat, Depositing, Settling, Bookable,
          Payable
<1>20. ASSUME NEW c \in Buyers, NEW r \in Resas, job[c].of = {r}, UndoFinal(c)
      PROVE Phases'
  BY <1>20, UndoEffect, ActorsDiffer
      DEF Moves, RowTo, Phases, Paying, Busy, Seats, ClientSeat, Depositing, Settling, Bookable,
          Payable
<1>21. ASSUME ListExpired PROVE Phases'
  <2>1. PICK r \in Resas : resa[r].status = "AWAITING_FINAL"
    BY <1>21, ListEffect DEF Expired, InStatus
  <2>2. forecast.status \notin {"NONE", "OPEN"} BY <2>1 DEF Phases
  <2> QED BY <1>21, ListEffect, <2>2 DEF Phases
<1>22. ASSUME NEW r \in Resas, SettleDeposit(r) PROVE Phases'
  BY <1>22, SettleEffect, ActorsDiffer
      DEF Moves, RowTo, Phases, Paying, Busy, Seats, ClientSeat, Depositing, Settling, Bookable,
          Payable
<1>23. ASSUME NEW r \in Resas, ReleaseKilos(r) PROVE Phases'
  BY <1>23, ReleaseEffect, ActorsDiffer
      DEF Moves, RowTo, Phases, Paying, Busy, Seats, ClientSeat, Depositing, Settling, Bookable,
          Payable
<1>24. ASSUME EndExpiry PROVE Phases'
  BY <1>24, EndEffect, ActorsDiffer
      DEF Moves, RowTo, Phases, Paying, Busy, Seats, ClientSeat, Depositing, Settling, Bookable,
          Payable
<1> QED BY <1>1, <1>2, <1>3, <1>4, <1>5, <1>6, <1>7, <1>8, <1>9, <1>10, <1>11, <1>12, <1>13,
           <1>14, <1>15, <1>16, <1>17, <1>18, <1>19, <1>20, <1>21, <1>22, <1>23, <1>24,
           StepsOf, Zenon

\* A client knows what he knew
LEMMA KnowsSame ==
  ASSUME NEW d \in Buyers, NEW x \in Resas, ClientKnows(d, x), job'[d].at = job[d].at,
         resa'[x].status = resa[x].status, resa'[x].due = resa[x].due, final'[x] = final[x],
         odd \subseteq odd'
  PROVE  ClientKnows(d, x)'
  BY DEF ClientKnows

\* What the clients know
Knows == \A c \in Buyers : \A r \in Resas : job[c].of = {r} => ClientKnows(c, r)

\* Each step leaves the clients what they know
LEMMA KnowsStep ==
  ASSUME ResaTypeOK, Seats, Phases, ClientsHold, Listers, ResaNext
  PROVE  Knows'
<1>1. ASSUME Aside PROVE Knows'
  BY <1>1, KnowsSame DEF ClientsHold, Knows, Aside
<1>2. ASSUME ConvertPrevision PROVE Knows'
  <2>1. /\ \A d \in Buyers : job'[d] = job[d]
        /\ final' = final /\ odd \subseteq odd'
    BY <1>2, ConvertEffect, ActorsDiffer DEF Moves
  <2>2. ASSUME NEW d \in Buyers, NEW x \in Resas, job'[d].of = {x} PROVE ClientKnows(d, x)'
    <3>1. ClientKnows(d, x) BY <2>1, <2>2 DEF ClientsHold
    <3> QED BY <1>2, ConvertEffect, <2>1, <3>1 DEF ClientKnows, Phases, Depositing, Settling
  <2> QED BY <2>2 DEF Knows
<1>3. ASSUME NEW r \in Resas, CancelResa(r) PROVE Knows'
  <2>1. /\ \A d \in Buyers : job'[d] = job[d]
        /\ final' = final /\ odd \subseteq odd'
        /\ \A x \in Resas : x # r => resa'[x] = resa[x]
    BY <1>3, CancelEffect, ActorsDiffer DEF Moves, RowTo
  <2>2. ASSUME NEW d \in Buyers, job[d].of = {r} PROVE ClientKnows(d, r)'
    <3>1. ClientKnows(d, r) BY <2>2 DEF ClientsHold
    <3> QED BY <1>3, CancelEffect, <2>1, <2>2, <3>1
        DEF RowTo, ClientKnows, ClientsHold, NoClash, Deleting, Busy, DepositInFlight, Paying,
            Depositing
  <2>3. ASSUME NEW d \in Buyers, NEW x \in Resas, job'[d].of = {x}, x # r PROVE ClientKnows(d, x)'
    BY <2>1, <2>3, KnowsSame DEF ClientsHold
  <2> QED BY <2>1, <2>2, <2>3 DEF Knows
<1>4. ASSUME Erase PROVE Knows'
  <2>1. /\ \A d \in Buyers : job'[d] = job[d]
        /\ final' = final /\ odd \subseteq odd'
    BY <1>4, EraseEffect, ActorsDiffer DEF Moves
  <2>2. ASSUME NEW d \in Buyers, NEW x \in Resas, job'[d].of = {x} PROVE ClientKnows(d, x)'
    <3>1. ClientKnows(d, x) BY <2>1, <2>2 DEF ClientsHold
    <3> QED BY <1>4, EraseEffect, <2>1, <3>1 DEF ClientKnows, Phases, Depositing, Settling
  <2> QED BY <2>2 DEF Knows
<1>5. ASSUME NEW r \in Resas, Deadline(r) PROVE Knows'
  <2>1. /\ \A d \in Buyers : job'[d] = job[d]
        /\ final' = final /\ odd \subseteq odd'
        /\ \A x \in Resas : x # r => resa'[x] = resa[x]
    BY <1>5, DeadlineEffect, ActorsDiffer DEF Moves, RowTo
  <2>2. ASSUME NEW d \in Buyers, job[d].of = {r} PROVE ClientKnows(d, r)'
    <3>1. ClientKnows(d, r) BY <2>2 DEF ClientsHold
    <3> QED BY <1>5, DeadlineEffect, <2>1, <2>2, <3>1
        DEF RowTo, ClientKnows, DepositInFlight, Paying, Depositing, Settling
  <2>3. ASSUME NEW d \in Buyers, NEW x \in Resas, job'[d].of = {x}, x # r PROVE ClientKnows(d, x)'
    BY <2>1, <2>3, KnowsSame DEF ClientsHold
  <2> QED BY <2>1, <2>2, <2>3 DEF Knows
<1>6. ASSUME NEW c \in Buyers, NEW r \in Resas, ReserverPrevision(c, r) PROVE Knows'
  <2>0. /\ Moves(c, "deposit", {r}, {}) /\ RowTo(r, "PENDING", FALSE, FALSE)
        /\ odd \subseteq odd' /\ UNCHANGED <<forecast, forSale, final, purse, score>>
    BY <1>6, ReserveEffect, Zenon
  <2>1. /\ \A d \in Buyers : d # c => job'[d] = job[d]
        /\ odd \subseteq odd'
        /\ \A x \in Resas : x # r => resa'[x] = resa[x] /\ final'[x] = final[x]
        /\ job'[c].of \in {{}, {r}}
    BY <2>0, ActorsDiffer DEF Moves, RowTo
  <2>2. ASSUME job'[c].of = {r} PROVE ClientKnows(c, r)'
    BY <1>6, ReserveEffect, <2>1 DEF Moves, RowTo, ClientKnows, Depositing, Settling
  <2>3. ASSUME NEW d \in Buyers, d # c, job[d].of = {r} PROVE ClientKnows(d, r)'
    <3>1. ClientKnows(d, r) BY <2>3 DEF ClientsHold
    <3> QED BY <1>6, ReserveEffect, <2>1, <2>3, <3>1
        DEF Moves, RowTo, ClientKnows, Depositing, Settling
  <2>4. ASSUME NEW d \in Buyers, NEW x \in Resas, job'[d].of = {x}, x # r PROVE ClientKnows(d, x)'
    <3>1. d # c BY <2>1, <2>4
    <3> QED BY <2>1, <2>4, <3>1, KnowsSame DEF ClientsHold
  <2>5. \A d \in Buyers : d # c /\ job'[d].of = {r} => job[d].of = {r} BY <2>1
  <2> QED BY <2>1, <2>2, <2>3, <2>4, <2>5 DEF Knows
<1>7. ASSUME NEW c \in Buyers, NEW r \in Resas, OrderFinal(c, r) PROVE Knows'
  <2>1. /\ \A d \in Buyers : d # c => job'[d] = job[d]
        /\ odd \subseteq odd'
        /\ \A x \in Resas : x # r => resa'[x] = resa[x] /\ final'[x] = final[x]
        /\ job'[c].of \in {{}, {r}}
    BY <1>7, OrderEffect, ActorsDiffer DEF Moves, RowTo
  <2>2. ASSUME job'[c].of = {r} PROVE ClientKnows(c, r)'
    BY <1>7, OrderEffect, <2>1 DEF Moves, Payable, ClientKnows, Depositing, Settling
  <2>3. ASSUME NEW d \in Buyers, d # c, job[d].of = {r} PROVE ClientKnows(d, r)'
    <3>1. ClientKnows(d, r) BY <2>3 DEF ClientsHold
    <3> QED BY <1>7, OrderEffect, <2>1, <2>3, <3>1
        DEF Moves, Payable, ClientKnows, Depositing, Settling
  <2>4. ASSUME NEW d \in Buyers, NEW x \in Resas, job'[d].of = {x}, x # r PROVE ClientKnows(d, x)'
    <3>1. d # c BY <2>1, <2>4
    <3> QED BY <2>1, <2>4, <3>1, KnowsSame DEF ClientsHold
  <2>5. \A d \in Buyers : d # c /\ job'[d].of = {r} => job[d].of = {r} BY <2>1
  <2> QED BY <2>1, <2>2, <2>3, <2>4, <2>5 DEF Knows
<1>8. ASSUME NEW c \in Buyers, NEW r \in Resas, job[c].of = {r}, PayDeposit(c)
      PROVE Knows'
  <2>1. /\ \A d \in Buyers : d # c => job'[d] = job[d]
        /\ odd \subseteq odd'
        /\ \A x \in Resas : x # r => resa'[x] = resa[x] /\ final'[x] = final[x]
        /\ job'[c].of \in {{}, {r}}
    BY <1>8, PayDepositEffect, ActorsDiffer DEF Moves, RowTo
  <2>2. ASSUME job'[c].of = {r} PROVE ClientKnows(c, r)'
    <3>1. ClientKnows(c, r) BY <1>8 DEF ClientsHold
    <3> QED BY <1>8, PayDepositEffect, <2>1, <2>2, <3>1
        DEF Moves, RowTo, ClientKnows, Depositing, Settling
  <2>3. ASSUME NEW d \in Buyers, d # c, job[d].of = {r} PROVE ClientKnows(d, r)'
    <3>1. ClientKnows(d, r) BY <2>3 DEF ClientsHold
    <3> QED BY <1>8, PayDepositEffect, <2>1, <2>3, <3>1
        DEF Moves, RowTo, ClientKnows, Depositing, Settling
  <2>4. ASSUME NEW d \in Buyers, NEW x \in Resas, job'[d].of = {x}, x # r PROVE ClientKnows(d, x)'
    <3>1. d # c BY <2>1, <2>4
    <3> QED BY <2>1, <2>4, <3>1, KnowsSame DEF ClientsHold
  <2>5. \A d \in Buyers : d # c /\ job'[d].of = {r} => job[d].of = {r} BY <2>1
  <2> QED BY <2>1, <2>2, <2>3, <2>4, <2>5 DEF Knows
<1>9. ASSUME NEW c \in Buyers, NEW r \in Resas, job[c].of = {r}, ConfirmResa(c)
      PROVE Knows'
  <2>1. /\ \A d \in Buyers : d # c => job'[d] = job[d]
        /\ odd \subseteq odd'
        /\ \A x \in Resas : x # r => resa'[x] = resa[x] /\ final'[x] = final[x]
        /\ job'[c].of \in {{}, {r}}
    BY <1>9, ConfirmEffect, ActorsDiffer DEF Moves, RowTo
  <2>2. ASSUME job'[c].of = {r} PROVE ClientKnows(c, r)'
    <3>1. ClientKnows(c, r) BY <1>9 DEF ClientsHold
    <3> QED BY <1>9, ConfirmEffect, <2>1, <2>2, <3>1
        DEF Moves, RowTo, ClientKnows, Depositing, Settling
  <2>3. ASSUME NEW d \in Buyers, d # c, job[d].of = {r} PROVE ClientKnows(d, r)'
    <3>1. ClientKnows(d, r) BY <2>3 DEF ClientsHold
    <3> QED BY <1>9, ConfirmEffect, <2>1, <2>3, <3>1
        DEF Moves, RowTo, ClientKnows, Depositing, Settling
  <2>4. ASSUME NEW d \in Buyers, NEW x \in Resas, job'[d].of = {x}, x # r PROVE ClientKnows(d, x)'
    <3>1. d # c BY <2>1, <2>4
    <3> QED BY <2>1, <2>4, <3>1, KnowsSame DEF ClientsHold
  <2>5. \A d \in Buyers : d # c /\ job'[d].of = {r} => job[d].of = {r} BY <2>1
  <2> QED BY <2>1, <2>2, <2>3, <2>4, <2>5 DEF Knows
<1>10. ASSUME NEW c \in Buyers, NEW r \in Resas, job[c].of = {r}, DropResa(c) PROVE Knows'
  <2>1. /\ \A d \in Buyers : d # c => job'[d] = job[d]
        /\ odd \subseteq odd'
        /\ \A x \in Resas : x # r => resa'[x] = resa[x] /\ final'[x] = final[x]
        /\ job'[c].of \in {{}, {r}}
    BY <1>10, DropEffect, ActorsDiffer DEF Moves, RowTo
  <2>2. ASSUME job'[c].of = {r} PROVE ClientKnows(c, r)'
    <3>1. ClientKnows(c, r) BY <1>10 DEF ClientsHold
    <3> QED BY <1>10, DropEffect, <2>1, <2>2, <3>1
        DEF Moves, RowTo, ClientKnows, Depositing, Settling
  <2>3. ASSUME NEW d \in Buyers, d # c, job[d].of = {r} PROVE ClientKnows(d, r)'
    <3>1. ClientKnows(d, r) BY <2>3 DEF ClientsHold
    <3> QED BY <1>10, DropEffect, <2>1, <2>3, <3>1
        DEF Moves, RowTo, ClientKnows, Depositing, Settling
  <2>4. ASSUME NEW d \in Buyers, NEW x \in Resas, job'[d].of = {x}, x # r PROVE ClientKnows(d, x)'
    <3>1. d # c BY <2>1, <2>4
    <3> QED BY <2>1, <2>4, <3>1, KnowsSame DEF ClientsHold
  <2>5. \A d \in Buyers : d # c /\ job'[d].of = {r} => job[d].of = {r} BY <2>1
  <2> QED BY <2>1, <2>2, <2>3, <2>4, <2>5 DEF Knows
<1>11. ASSUME NEW c \in Buyers, NEW r \in Resas, job[c].of = {r}, PayBalance(c)
      PROVE Knows'
  <2>1. /\ \A d \in Buyers : d # c => job'[d] = job[d]
        /\ odd \subseteq odd'
        /\ \A x \in Resas : x # r => resa'[x] = resa[x] /\ final'[x] = final[x]
        /\ job'[c].of \in {{}, {r}}
    BY <1>11, BalanceEffect, ActorsDiffer DEF Moves, RowTo
  <2>2. ASSUME job'[c].of = {r} PROVE ClientKnows(c, r)'
    <3>1. ClientKnows(c, r) BY <1>11 DEF ClientsHold
    <3> QED BY <1>11, BalanceEffect, <2>1, <2>2, <3>1
        DEF Moves, RowTo, ClientKnows, Depositing, Settling
  <2>3. ASSUME NEW d \in Buyers, d # c, job[d].of = {r} PROVE ClientKnows(d, r)'
    <3>1. ClientKnows(d, r) BY <2>3 DEF ClientsHold
    <3> QED
      <4>1. job[c].at \in Settling BY <1>11, BalanceEffect DEF Settling
      <4>2. job[d].at \notin Settling BY <2>3, <4>1 DEF ClientsHold, OneSettles
      <4> QED BY <1>11, BalanceEffect, <2>1, <2>3, <3>1, <4>2
          DEF Moves, RowTo, ClientKnows, Depositing, Settling
  <2>4. ASSUME NEW d \in Buyers, NEW x \in Resas, job'[d].of = {x}, x # r PROVE ClientKnows(d, x)'
    <3>1. d # c BY <2>1, <2>4
    <3> QED BY <2>1, <2>4, <3>1, KnowsSame DEF ClientsHold
  <2>5. \A d \in Buyers : d # c /\ job'[d].of = {r} => job[d].of = {r} BY <2>1
  <2> QED BY <2>1, <2>2, <2>3, <2>4, <2>5 DEF Knows
<1>12. ASSUME NEW c \in Buyers, NEW r \in Resas, job[c].of = {r}, ConsumeDeposit(c)
      PROVE Knows'
  <2>1. /\ \A d \in Buyers : d # c => job'[d] = job[d]
        /\ odd \subseteq odd'
        /\ \A x \in Resas : x # r => resa'[x] = resa[x] /\ final'[x] = final[x]
        /\ job'[c].of \in {{}, {r}}
    BY <1>12, ConsumeEffect, ActorsDiffer DEF Moves, RowTo
  <2>2. ASSUME job'[c].of = {r} PROVE ClientKnows(c, r)'
    <3>1. ClientKnows(c, r) BY <1>12 DEF ClientsHold
    <3> QED BY <1>12, ConsumeEffect, <2>1, <2>2, <3>1
        DEF Moves, RowTo, ClientKnows, Depositing, Settling
  <2>3. ASSUME NEW d \in Buyers, d # c, job[d].of = {r} PROVE ClientKnows(d, r)'
    <3>1. ClientKnows(d, r) BY <2>3 DEF ClientsHold
    <3> QED
      <4>1. job[c].at \in Settling BY <1>12, ConsumeEffect DEF Settling
      <4>2. job[d].at \notin Settling BY <2>3, <4>1 DEF ClientsHold, OneSettles
      <4> QED BY <1>12, ConsumeEffect, <2>1, <2>3, <3>1, <4>2
          DEF Moves, RowTo, ClientKnows, Depositing, Settling
  <2>4. ASSUME NEW d \in Buyers, NEW x \in Resas, job'[d].of = {x}, x # r PROVE ClientKnows(d, x)'
    <3>1. d # c BY <2>1, <2>4
    <3> QED BY <2>1, <2>4, <3>1, KnowsSame DEF ClientsHold
  <2>5. \A d \in Buyers : d # c /\ job'[d].of = {r} => job[d].of = {r} BY <2>1
  <2> QED BY <2>1, <2>2, <2>3, <2>4, <2>5 DEF Knows
<1>13. ASSUME NEW c \in Buyers, NEW r \in Resas, job[c].of = {r}, UndoFinal(c)
      PROVE Knows'
  <2>1. /\ \A d \in Buyers : d # c => job'[d] = job[d]
        /\ odd \subseteq odd'
        /\ \A x \in Resas : x # r => resa'[x] = resa[x] /\ final'[x] = final[x]
        /\ job'[c].of \in {{}, {r}}
    BY <1>13, UndoEffect, ActorsDiffer DEF Moves, RowTo
  <2>2. ASSUME job'[c].of = {r} PROVE ClientKnows(c, r)'
    <3>1. ClientKnows(c, r) BY <1>13 DEF ClientsHold
    <3> QED BY <1>13, UndoEffect, <2>1, <2>2, <3>1
        DEF Moves, RowTo, ClientKnows, Depositing, Settling
  <2>3. ASSUME NEW d \in Buyers, d # c, job[d].of = {r} PROVE ClientKnows(d, r)'
    <3>1. ClientKnows(d, r) BY <2>3 DEF ClientsHold
    <3> QED
      <4>1. job[c].at \in Settling BY <1>13, UndoEffect DEF Settling
      <4>2. job[d].at \notin Settling BY <2>3, <4>1 DEF ClientsHold, OneSettles
      <4> QED BY <1>13, UndoEffect, <2>1, <2>3, <3>1, <4>2
          DEF Moves, RowTo, ClientKnows, Depositing, Settling
  <2>4. ASSUME NEW d \in Buyers, NEW x \in Resas, job'[d].of = {x}, x # r PROVE ClientKnows(d, x)'
    <3>1. d # c BY <2>1, <2>4
    <3> QED BY <2>1, <2>4, <3>1, KnowsSame DEF ClientsHold
  <2>5. \A d \in Buyers : d # c /\ job'[d].of = {r} => job[d].of = {r} BY <2>1
  <2> QED BY <2>1, <2>2, <2>3, <2>4, <2>5 DEF Knows
<1>14. ASSUME NEW r \in Resas, ReleaseKilos(r) PROVE Knows'
  <2>1. /\ \A d \in Buyers : job'[d] = job[d]
        /\ final' = final /\ odd \subseteq odd'
        /\ \A x \in Resas : x # r => resa'[x] = resa[x]
    BY <1>14, ReleaseEffect, ActorsDiffer DEF Moves, RowTo
  <2>2. ASSUME NEW d \in Buyers, job[d].of = {r} PROVE ClientKnows(d, r)'
    <3>1. ClientKnows(d, r) BY <2>2 DEF ClientsHold
    <3> QED
      <4>1. CASE resa' = resa BY <2>1, <2>2, <3>1, <4>1, KnowsSame
      <4>2. CASE resa[r].status # "NONE"
        <5>1. forecast.status # "DELETED" BY <4>2 DEF Phases
        <5>2. r \in job["cron"].of BY <1>14, ReleaseEffect DEF Seats, CronSeat
        <5>3. resa[r].due BY <5>1, <5>2 DEF Listers
        <5>4. job[d].at \notin Depositing BY <3>1, <5>3 DEF ClientKnows
        <5> QED BY <1>14, ReleaseEffect, <2>1, <3>1, <4>2, <5>4 DEF RowTo, ClientKnows
      <4> QED BY <1>14, ReleaseEffect, <4>1, <4>2
  <2>3. ASSUME NEW d \in Buyers, NEW x \in Resas, job'[d].of = {x}, x # r PROVE ClientKnows(d, x)'
    BY <2>1, <2>3, KnowsSame DEF ClientsHold
  <2> QED BY <2>1, <2>2, <2>3 DEF Knows
<1> QED BY <1>1, <1>2, <1>3, <1>4, <1>5, <1>6, <1>7, <1>8, <1>9, <1>10, <1>11, <1>12, <1>13,
           <1>14, AsideSteps, Zenon

\* No step lets two clients settle at once: the listing has one active order
LEMMA OneSettlesStep ==
  ASSUME ResaTypeOK, Seats, Phases, ClientsHold, Listers, ResaNext
  PROVE  OneSettles'
<1>1. ASSUME Aside PROVE OneSettles'
  BY <1>1 DEF OneSettles, ClientsHold, Aside
<1>2. ASSUME ConvertPrevision PROVE OneSettles'
  <2>1. \A d \in Buyers : job'[d].at \in Settling => job[d].at \in Settling
    BY <1>2, ConvertEffect, ActorsDiffer DEF Moves, Settling
  <2> QED BY <2>1 DEF OneSettles, ClientsHold
<1>3. ASSUME NEW r \in Resas, CancelResa(r) PROVE OneSettles'
  <2>1. \A d \in Buyers : job'[d].at \in Settling => job[d].at \in Settling
    BY <1>3, CancelEffect, ActorsDiffer DEF Moves, Settling
  <2> QED BY <2>1 DEF OneSettles, ClientsHold
<1>4. ASSUME Erase PROVE OneSettles'
  <2>1. \A d \in Buyers : job'[d].at \in Settling => job[d].at \in Settling
    BY <1>4, EraseEffect, ActorsDiffer DEF Moves, Settling
  <2> QED BY <2>1 DEF OneSettles, ClientsHold
<1>5. ASSUME NEW r \in Resas, Deadline(r) PROVE OneSettles'
  <2>1. \A d \in Buyers : job'[d].at \in Settling => job[d].at \in Settling
    BY <1>5, DeadlineEffect, ActorsDiffer DEF Moves, Settling
  <2> QED BY <2>1 DEF OneSettles, ClientsHold
<1>6. ASSUME NEW c \in Buyers, NEW r \in Resas, ReserverPrevision(c, r) PROVE OneSettles'
  <2>0. /\ Moves(c, "deposit", {r}, {}) /\ RowTo(r, "PENDING", FALSE, FALSE)
        /\ UNCHANGED <<forecast, forSale, final, purse, score>>
        /\ odd \subseteq odd' /\ (Deleting => "clash" \in odd') /\ Bookable
    BY <1>6, ReserveEffect, Zenon
  <2>1. \A d \in Buyers : job'[d].at \in Settling => job[d].at \in Settling
    BY <2>0, ActorsDiffer DEF Moves, Settling
  <2> QED BY <2>1 DEF OneSettles, ClientsHold
<1>7. ASSUME NEW c \in Buyers, NEW r \in Resas, OrderFinal(c, r) PROVE OneSettles'
  <2>1. ASSUME NEW d \in Buyers, job[d].at \in Settling PROVE FALSE
    <3>1. PICK x \in Resas : job[d].of = {x} BY <2>1 DEF Seats, ClientSeat, Settling
    <3>2. ClientKnows(d, x) BY <3>1 DEF ClientsHold
    <3> QED BY <1>7, OrderEffect, <2>1, <3>2 DEF ClientKnows, Settling, Payable
  <2>2. \A d \in Buyers : d # c => job'[d] = job[d] BY <1>7, OrderEffect, ActorsDiffer DEF Moves
  <2> QED BY <2>1, <2>2 DEF OneSettles
<1>8. ASSUME NEW c \in Buyers, NEW r \in Resas, job[c].of = {r}, PayDeposit(c)
      PROVE OneSettles'
  <2>1. \A d \in Buyers : job'[d].at \in Settling => job[d].at \in Settling
    BY <1>8, PayDepositEffect, ActorsDiffer DEF Moves, Settling
  <2> QED BY <2>1 DEF OneSettles, ClientsHold
<1>9. ASSUME NEW c \in Buyers, NEW r \in Resas, job[c].of = {r}, ConfirmResa(c)
      PROVE OneSettles'
  <2>0. /\ job[c].at = "confirm" /\ Moves(c, "idle", {}, {})
        /\ resa' = resa \/ RowTo(r, "CONFIRMED", TRUE, resa[r].due)
        /\ UNCHANGED <<forecast, forSale, final, purse, score, odd>>
    BY <1>9, ConfirmEffect, Zenon
  <2>1. \A d \in Buyers : job'[d].at \in Settling => job[d].at \in Settling
    BY <2>0, ActorsDiffer DEF Moves, Settling
  <2> QED BY <2>1 DEF OneSettles, ClientsHold
<1>10. ASSUME NEW c \in Buyers, NEW r \in Resas, job[c].of = {r}, DropResa(c)
      PROVE OneSettles'
  <2>0. /\ job[c].at = "drop" /\ Moves(c, "idle", {}, {})
        /\ RowTo(r, "NONE", FALSE, FALSE)
        /\ UNCHANGED <<forecast, forSale, final, purse, score, odd>>
    BY <1>10, DropEffect, Zenon
  <2>1. \A d \in Buyers : job'[d].at \in Settling => job[d].at \in Settling
    BY <2>0, ActorsDiffer DEF Moves, Settling
  <2> QED BY <2>1 DEF OneSettles, ClientsHold
<1>11. ASSUME NEW c \in Buyers, NEW r \in Resas, job[c].of = {r}, PayBalance(c)
      PROVE OneSettles'
  <2>1. \A d \in Buyers : job'[d].at \in Settling => job[d].at \in Settling
    BY <1>11, BalanceEffect, ActorsDiffer DEF Moves, Settling
  <2> QED BY <2>1 DEF OneSettles, ClientsHold
<1>12. ASSUME NEW c \in Buyers, NEW r \in Resas, job[c].of = {r}, ConsumeDeposit(c)
      PROVE OneSettles'
  <2>1. \A d \in Buyers : job'[d].at \in Settling => job[d].at \in Settling
    BY <1>12, ConsumeEffect, ActorsDiffer DEF Moves, Settling
  <2> QED BY <2>1 DEF OneSettles, ClientsHold
<1>13. ASSUME NEW c \in Buyers, NEW r \in Resas, job[c].of = {r}, UndoFinal(c)
      PROVE OneSettles'
  <2>1. \A d \in Buyers : job'[d].at \in Settling => job[d].at \in Settling
    BY <1>13, UndoEffect, ActorsDiffer DEF Moves, Settling
  <2> QED BY <2>1 DEF OneSettles, ClientsHold
<1>14. ASSUME NEW r \in Resas, ReleaseKilos(r) PROVE OneSettles'
  <2>1. \A d \in Buyers : job'[d].at \in Settling => job[d].at \in Settling
    BY <1>14, ReleaseEffect, ActorsDiffer DEF Moves, Settling
  <2> QED BY <2>1 DEF OneSettles, ClientsHold
<1> QED BY <1>1, <1>2, <1>3, <1>4, <1>5, <1>6, <1>7, <1>8, <1>9, <1>10, <1>11, <1>12, <1>13,
           <1>14, AsideSteps, Zenon

\* No step lets a deletion meet a deposit in flight and not be noted
LEMMA NoClashStep ==
  ASSUME ResaTypeOK, Seats, Phases, ClientsHold, Listers, ResaNext
  PROVE  NoClash'
<1>1. ASSUME NEW kg \in Sizes, NEW co \in {"NONE", "PENDING"}, CreatePrevision(kg, co)
      PROVE NoClash'
  <2>1. /\ \A d \in Buyers : job'[d] = job[d]
        /\ Deleting' => Deleting
        /\ odd \subseteq odd'
    BY <1>1, CreateEffect, ActorsDiffer DEF Moves, Deleting
  <2> QED BY <2>1 DEF NoClash, ClientsHold, DepositInFlight, Paying
<1>2. ASSUME NEW kg \in Sizes, UpdatePrevision(kg) PROVE NoClash'
  <2>1. /\ \A d \in Buyers : job'[d] = job[d]
        /\ Deleting' => Deleting
        /\ odd \subseteq odd'
    BY <1>2, UpdateEffect, ActorsDiffer DEF Moves, Deleting
  <2> QED BY <2>1 DEF NoClash, ClientsHold, DepositInFlight, Paying
<1>3. ASSUME CheckUpdate PROVE NoClash'
  <2>1. /\ \A d \in Buyers : job'[d] = job[d]
        /\ Deleting' => Deleting
        /\ odd \subseteq odd'
    BY <1>3, CheckEffect, ActorsDiffer DEF Moves, Deleting
  <2> QED BY <2>1 DEF NoClash, ClientsHold, DepositInFlight, Paying
<1>4. ASSUME CheckValidate PROVE NoClash'
  <2>1. /\ \A d \in Buyers : job'[d] = job[d]
        /\ Deleting' => Deleting
        /\ odd \subseteq odd'
    BY <1>4, CheckEffect, ActorsDiffer DEF Moves, Deleting
  <2> QED BY <2>1 DEF NoClash, ClientsHold, DepositInFlight, Paying
<1>5. ASSUME ValidatePrevision \/ RejectPrevision PROVE NoClash'
  <2>1. /\ \A d \in Buyers : job'[d] = job[d]
        /\ Deleting' => Deleting
        /\ odd \subseteq odd'
    BY <1>5, CoopEffect, ActorsDiffer DEF Moves, Deleting
  <2> QED BY <2>1 DEF NoClash, ClientsHold, DepositInFlight, Paying
<1>6. ASSUME ConvertPrevision PROVE NoClash'
  <2>1. /\ \A d \in Buyers : job'[d] = job[d]
        /\ Deleting' => Deleting
        /\ odd \subseteq odd'
    BY <1>6, ConvertEffect, ActorsDiffer DEF Moves, Deleting
  <2> QED BY <2>1 DEF NoClash, ClientsHold, DepositInFlight, Paying
<1>7. ASSUME BeginDelete PROVE NoClash'
  <2>1. /\ \A d \in Buyers : job'[d] = job[d]
        /\ DepositInFlight => "clash" \in odd'
    BY <1>7, DeleteEffect, ActorsDiffer DEF Moves
  <2> QED BY <2>1 DEF NoClash, DepositInFlight, Paying
<1>8. ASSUME NEW r \in Resas, ClearResa(r) PROVE NoClash'
  <2>1. /\ \A d \in Buyers : job'[d] = job[d]
        /\ Deleting' => Deleting
        /\ odd \subseteq odd'
    BY <1>8, ClearEffect, ActorsDiffer DEF Moves, Deleting
  <2> QED BY <2>1 DEF NoClash, ClientsHold, DepositInFlight, Paying
<1>9. ASSUME NEW r \in Resas, CancelResa(r) PROVE NoClash'
  <2>1. /\ \A d \in Buyers : job'[d] = job[d]
        /\ Deleting' => Deleting
        /\ odd \subseteq odd'
    BY <1>9, CancelEffect, ActorsDiffer DEF Moves, Deleting
  <2> QED BY <2>1 DEF NoClash, ClientsHold, DepositInFlight, Paying
<1>10. ASSUME Penalise PROVE NoClash'
  <2>1. /\ \A d \in Buyers : job'[d] = job[d]
        /\ Deleting' => Deleting
        /\ odd \subseteq odd'
    BY <1>10, PenaliseEffect, ActorsDiffer DEF Moves, Deleting
  <2> QED BY <2>1 DEF NoClash, ClientsHold, DepositInFlight, Paying
<1>11. ASSUME Erase PROVE NoClash'
  <2>1. /\ \A d \in Buyers : job'[d] = job[d]
        /\ Deleting' => Deleting
        /\ odd \subseteq odd'
    BY <1>11, EraseEffect, ActorsDiffer DEF Moves, Deleting
  <2> QED BY <2>1 DEF NoClash, ClientsHold, DepositInFlight, Paying
<1>12. ASSUME NEW r \in Resas, Deadline(r) PROVE NoClash'
  <2>1. /\ \A d \in Buyers : job'[d] = job[d]
        /\ Deleting' => Deleting
        /\ odd \subseteq odd'
    BY <1>12, DeadlineEffect, ActorsDiffer DEF Moves, Deleting
  <2> QED BY <2>1 DEF NoClash, ClientsHold, DepositInFlight, Paying
<1>13. ASSUME NEW c \in Buyers, NEW r \in Resas, ReserverPrevision(c, r) PROVE NoClash'
  <2>0. /\ Moves(c, "deposit", {r}, {}) /\ RowTo(r, "PENDING", FALSE, FALSE)
        /\ UNCHANGED <<forecast, forSale, final, purse, score>>
        /\ odd \subseteq odd' /\ (Deleting => "clash" \in odd') /\ Bookable
    BY <1>13, ReserveEffect, Zenon
  <2>1. job'["farmer"] = job["farmer"] BY <2>0, ActorsDiffer DEF Moves
  <2> QED BY <2>0, <2>1 DEF NoClash, Deleting
<1>14. ASSUME NEW c \in Buyers, NEW r \in Resas, OrderFinal(c, r) PROVE NoClash'
  <2>1. /\ DepositInFlight' => DepositInFlight
        /\ job'["farmer"] = job["farmer"] /\ odd \subseteq odd'
    BY <1>14, OrderEffect, ActorsDiffer DEF Moves, DepositInFlight, Paying
  <2> QED BY <2>1 DEF NoClash, ClientsHold, Deleting
<1>15. ASSUME NEW c \in Buyers, NEW r \in Resas, job[c].of = {r}, PayDeposit(c)
      PROVE NoClash'
  <2>1. /\ DepositInFlight' => DepositInFlight
        /\ job'["farmer"] = job["farmer"] /\ odd \subseteq odd'
    BY <1>15, PayDepositEffect, ActorsDiffer DEF Moves, DepositInFlight, Paying
  <2> QED BY <2>1 DEF NoClash, ClientsHold, Deleting
<1>16. ASSUME NEW c \in Buyers, NEW r \in Resas, job[c].of = {r}, ConfirmResa(c)
      PROVE NoClash'
  <2>0. /\ job[c].at = "confirm" /\ Moves(c, "idle", {}, {})
        /\ resa' = resa \/ RowTo(r, "CONFIRMED", TRUE, resa[r].due)
        /\ UNCHANGED <<forecast, forSale, final, purse, score, odd>>
    BY <1>16, ConfirmEffect, Zenon
  <2>1. /\ DepositInFlight' => DepositInFlight
        /\ job'["farmer"] = job["farmer"] /\ odd \subseteq odd'
    BY <2>0, ActorsDiffer DEF Moves, DepositInFlight, Paying
  <2> QED BY <2>1 DEF NoClash, ClientsHold, Deleting
<1>17. ASSUME NEW c \in Buyers, NEW r \in Resas, job[c].of = {r}, DropResa(c)
      PROVE NoClash'
  <2>0. /\ job[c].at = "drop" /\ Moves(c, "idle", {}, {})
        /\ RowTo(r, "NONE", FALSE, FALSE)
        /\ UNCHANGED <<forecast, forSale, final, purse, score, odd>>
    BY <1>17, DropEffect, Zenon
  <2>1. /\ DepositInFlight' => DepositInFlight
        /\ job'["farmer"] = job["farmer"] /\ odd \subseteq odd'
    BY <2>0, ActorsDiffer DEF Moves, DepositInFlight, Paying
  <2> QED BY <2>1 DEF NoClash, ClientsHold, Deleting
<1>18. ASSUME NEW c \in Buyers, NEW r \in Resas, job[c].of = {r}, PayBalance(c)
      PROVE NoClash'
  <2>1. /\ DepositInFlight' => DepositInFlight
        /\ job'["farmer"] = job["farmer"] /\ odd \subseteq odd'
    BY <1>18, BalanceEffect, ActorsDiffer DEF Moves, DepositInFlight, Paying
  <2> QED BY <2>1 DEF NoClash, ClientsHold, Deleting
<1>19. ASSUME NEW c \in Buyers, NEW r \in Resas, job[c].of = {r}, ConsumeDeposit(c)
      PROVE NoClash'
  <2>1. /\ DepositInFlight' => DepositInFlight
        /\ job'["farmer"] = job["farmer"] /\ odd \subseteq odd'
    BY <1>19, ConsumeEffect, ActorsDiffer DEF Moves, DepositInFlight, Paying
  <2> QED BY <2>1 DEF NoClash, ClientsHold, Deleting
<1>20. ASSUME NEW c \in Buyers, NEW r \in Resas, job[c].of = {r}, UndoFinal(c)
      PROVE NoClash'
  <2>1. /\ DepositInFlight' => DepositInFlight
        /\ job'["farmer"] = job["farmer"] /\ odd \subseteq odd'
    BY <1>20, UndoEffect, ActorsDiffer DEF Moves, DepositInFlight, Paying
  <2> QED BY <2>1 DEF NoClash, ClientsHold, Deleting
<1>21. ASSUME ListExpired PROVE NoClash'
  <2>1. /\ \A d \in Buyers : job'[d] = job[d]
        /\ Deleting' => Deleting
        /\ odd \subseteq odd'
    BY <1>21, ListEffect, ActorsDiffer DEF Moves, Deleting
  <2> QED BY <2>1 DEF NoClash, ClientsHold, DepositInFlight, Paying
<1>22. ASSUME NEW r \in Resas, SettleDeposit(r) PROVE NoClash'
  <2>1. /\ \A d \in Buyers : job'[d] = job[d]
        /\ Deleting' => Deleting
        /\ odd \subseteq odd'
    BY <1>22, SettleEffect, ActorsDiffer DEF Moves, Deleting
  <2> QED BY <2>1 DEF NoClash, ClientsHold, DepositInFlight, Paying
<1>23. ASSUME NEW r \in Resas, ReleaseKilos(r) PROVE NoClash'
  <2>1. /\ \A d \in Buyers : job'[d] = job[d]
        /\ Deleting' => Deleting
        /\ odd \subseteq odd'
    BY <1>23, ReleaseEffect, ActorsDiffer DEF Moves, Deleting
  <2> QED BY <2>1 DEF NoClash, ClientsHold, DepositInFlight, Paying
<1>24. ASSUME EndExpiry PROVE NoClash'
  <2>1. /\ \A d \in Buyers : job'[d] = job[d]
        /\ Deleting' => Deleting
        /\ odd \subseteq odd'
    BY <1>24, EndEffect, ActorsDiffer DEF Moves, Deleting
  <2> QED BY <2>1 DEF NoClash, ClientsHold, DepositInFlight, Paying
<1> QED BY <1>1, <1>2, <1>3, <1>4, <1>5, <1>6, <1>7, <1>8, <1>9, <1>10, <1>11, <1>12, <1>13,
           <1>14, <1>15, <1>16, <1>17, <1>18, <1>19, <1>20, <1>21, <1>22, <1>23, <1>24,
           StepsOf, Zenon

\* The two parts of Listers
FarmerRows ==
  job["farmer"].at \in {"clear", "cancel"} =>
    \A r \in job["farmer"].of : resa[r].status # "AWAITING_FINAL"

CronRows ==
  forecast.status # "DELETED" =>
    \A r \in job["cron"].of :
      /\ resa[r].due
      /\ "late" \notin odd => resa[r].status = "AWAITING_FINAL"

\* It is the two
LEMMA ListersAre == (Listers <=> FarmerRows /\ CronRows) /\ (Listers' <=> FarmerRows' /\ CronRows')
  BY DEF Listers, FarmerRows, CronRows

\* Lists are of reservations
LEMMA OfRows ==
  ASSUME ResaTypeOK
  PROVE  job["farmer"].of \subseteq Resas /\ job["cron"].of \subseteq Resas
  BY ActorsDiffer DEF ResaTypeOK

\* Each step leaves the farmer's list free of reservations awaiting their balance
LEMMA FarmerRowsStep ==
  ASSUME ResaTypeOK, Seats, Phases, ClientsHold, Listers, ResaNext
  PROVE  FarmerRows'
<1>1. ASSUME NEW kg \in Sizes, NEW co \in {"NONE", "PENDING"}, CreatePrevision(kg, co)
      PROVE FarmerRows'
  <2>1. /\ job'["farmer"] = job["farmer"]
        /\ \A x \in Resas : resa'[x].status = "AWAITING_FINAL" => resa[x].status = "AWAITING_FINAL"
    BY <1>1, CreateEffect, ActorsDiffer DEF Moves, RowTo
  <2> QED BY <2>1, OfRows, ListersAre DEF FarmerRows
<1>2. ASSUME NEW kg \in Sizes, UpdatePrevision(kg) PROVE FarmerRows'
  BY <1>2, UpdateEffect DEF Moves, FarmerRows
<1>3. ASSUME CheckUpdate PROVE FarmerRows'
  BY <1>3, CheckEffect DEF Moves, FarmerRows
<1>4. ASSUME CheckValidate PROVE FarmerRows'
  <2>1. /\ job'["farmer"] = job["farmer"]
        /\ \A x \in Resas : resa'[x].status = "AWAITING_FINAL" => resa[x].status = "AWAITING_FINAL"
    BY <1>4, CheckEffect, ActorsDiffer DEF Moves, RowTo
  <2> QED BY <2>1, OfRows, ListersAre DEF FarmerRows
<1>5. ASSUME ValidatePrevision \/ RejectPrevision PROVE FarmerRows'
  <2>1. /\ job'["farmer"] = job["farmer"]
        /\ \A x \in Resas : resa'[x].status = "AWAITING_FINAL" => resa[x].status = "AWAITING_FINAL"
    BY <1>5, CoopEffect, ActorsDiffer DEF Moves, RowTo
  <2> QED BY <2>1, OfRows, ListersAre DEF FarmerRows
<1>6. ASSUME ConvertPrevision PROVE FarmerRows'
  BY <1>6, ConvertEffect DEF Moves, FarmerRows
<1>7. ASSUME BeginDelete PROVE FarmerRows'
  BY <1>7, DeleteEffect DEF Moves, FarmerRows, InStatus
<1>8. ASSUME NEW r \in Resas, ClearResa(r) PROVE FarmerRows'
  <2>1. /\ job'["farmer"].of \subseteq job["farmer"].of
        /\ job["farmer"].at \in {"clear", "cancel"}
        /\ \A x \in Resas : resa'[x].status = "AWAITING_FINAL" => resa[x].status = "AWAITING_FINAL"
    BY <1>8, ClearEffect, ActorsDiffer DEF Moves, RowTo
  <2> QED BY <2>1, OfRows, ListersAre DEF FarmerRows
<1>9. ASSUME NEW r \in Resas, CancelResa(r) PROVE FarmerRows'
  <2>1. /\ job'["farmer"].of \subseteq job["farmer"].of
        /\ job["farmer"].at \in {"clear", "cancel"}
        /\ \A x \in Resas : resa'[x].status = "AWAITING_FINAL" => resa[x].status = "AWAITING_FINAL"
    BY <1>9, CancelEffect, ActorsDiffer DEF Moves, RowTo
  <2> QED BY <2>1, OfRows, ListersAre DEF FarmerRows
<1>10. ASSUME Penalise PROVE FarmerRows'
  BY <1>10, PenaliseEffect DEF Moves, FarmerRows
<1>11. ASSUME Erase PROVE FarmerRows'
  BY <1>11, EraseEffect DEF Moves, FarmerRows
<1>12. ASSUME NEW r \in Resas, Deadline(r) PROVE FarmerRows'
  <2>1. /\ job'["farmer"] = job["farmer"]
        /\ \A x \in Resas : resa'[x].status = "AWAITING_FINAL" => resa[x].status = "AWAITING_FINAL"
    BY <1>12, DeadlineEffect, ActorsDiffer DEF Moves, RowTo
  <2> QED BY <2>1, OfRows, ListersAre DEF FarmerRows
<1>13. ASSUME NEW c \in Buyers, NEW r \in Resas, ReserverPrevision(c, r) PROVE FarmerRows'
  <2>0. /\ Moves(c, "deposit", {r}, {}) /\ RowTo(r, "PENDING", FALSE, FALSE)
        /\ UNCHANGED <<forecast, forSale, final, purse, score>>
        /\ odd \subseteq odd' /\ (Deleting => "clash" \in odd') /\ Bookable
    BY <1>13, ReserveEffect, Zenon
  <2>1. /\ job'["farmer"] = job["farmer"]
        /\ \A x \in Resas : resa'[x].status = "AWAITING_FINAL" => resa[x].status = "AWAITING_FINAL"
    BY <2>0, ActorsDiffer DEF Moves, RowTo
  <2> QED BY <2>1, OfRows, ListersAre DEF FarmerRows
<1>14. ASSUME NEW c \in Buyers, NEW r \in Resas, OrderFinal(c, r) PROVE FarmerRows'
  <2>1. /\ job'["farmer"] = job["farmer"]
        /\ \A x \in Resas : resa'[x].status = "AWAITING_FINAL" => resa[x].status = "AWAITING_FINAL"
    BY <1>14, OrderEffect, ActorsDiffer DEF Moves, RowTo
  <2> QED BY <2>1, OfRows, ListersAre DEF FarmerRows
<1>15. ASSUME NEW c \in Buyers, NEW r \in Resas, job[c].of = {r}, PayDeposit(c)
      PROVE FarmerRows'
  <2>1. /\ job'["farmer"] = job["farmer"]
        /\ \A x \in Resas : resa'[x].status = "AWAITING_FINAL" => resa[x].status = "AWAITING_FINAL"
    BY <1>15, PayDepositEffect, ActorsDiffer DEF Moves, RowTo
  <2> QED BY <2>1, OfRows, ListersAre DEF FarmerRows
<1>16. ASSUME NEW c \in Buyers, NEW r \in Resas, job[c].of = {r}, ConfirmResa(c)
      PROVE FarmerRows'
  <2>0. /\ job[c].at = "confirm" /\ Moves(c, "idle", {}, {})
        /\ resa' = resa \/ RowTo(r, "CONFIRMED", TRUE, resa[r].due)
        /\ UNCHANGED <<forecast, forSale, final, purse, score, odd>>
    BY <1>16, ConfirmEffect, Zenon
  <2>1. /\ job'["farmer"] = job["farmer"]
        /\ \A x \in Resas : resa'[x].status = "AWAITING_FINAL" => resa[x].status = "AWAITING_FINAL"
    BY <2>0, ActorsDiffer DEF Moves, RowTo
  <2> QED BY <2>1, OfRows, ListersAre DEF FarmerRows
<1>17. ASSUME NEW c \in Buyers, NEW r \in Resas, job[c].of = {r}, DropResa(c)
      PROVE FarmerRows'
  <2>0. /\ job[c].at = "drop" /\ Moves(c, "idle", {}, {})
        /\ RowTo(r, "NONE", FALSE, FALSE)
        /\ UNCHANGED <<forecast, forSale, final, purse, score, odd>>
    BY <1>17, DropEffect, Zenon
  <2>1. /\ job'["farmer"] = job["farmer"]
        /\ \A x \in Resas : resa'[x].status = "AWAITING_FINAL" => resa[x].status = "AWAITING_FINAL"
    BY <2>0, ActorsDiffer DEF Moves, RowTo
  <2> QED BY <2>1, OfRows, ListersAre DEF FarmerRows
<1>18. ASSUME NEW c \in Buyers, NEW r \in Resas, job[c].of = {r}, PayBalance(c)
      PROVE FarmerRows'
  <2>1. /\ job'["farmer"] = job["farmer"]
        /\ \A x \in Resas : resa'[x].status = "AWAITING_FINAL" => resa[x].status = "AWAITING_FINAL"
    BY <1>18, BalanceEffect, ActorsDiffer DEF Moves, RowTo
  <2> QED BY <2>1, OfRows, ListersAre DEF FarmerRows
<1>19. ASSUME NEW c \in Buyers, NEW r \in Resas, job[c].of = {r}, ConsumeDeposit(c)
      PROVE FarmerRows'
  <2>1. /\ job'["farmer"] = job["farmer"]
        /\ \A x \in Resas : resa'[x].status = "AWAITING_FINAL" => resa[x].status = "AWAITING_FINAL"
    BY <1>19, ConsumeEffect, ActorsDiffer DEF Moves, RowTo
  <2> QED BY <2>1, OfRows, ListersAre DEF FarmerRows
<1>20. ASSUME NEW c \in Buyers, NEW r \in Resas, job[c].of = {r}, UndoFinal(c)
      PROVE FarmerRows'
  <2>1. /\ job'["farmer"] = job["farmer"]
        /\ \A x \in Resas : resa'[x].status = "AWAITING_FINAL" => resa[x].status = "AWAITING_FINAL"
    BY <1>20, UndoEffect, ActorsDiffer DEF Moves, RowTo
  <2> QED BY <2>1, OfRows, ListersAre DEF FarmerRows
<1>21. ASSUME ListExpired PROVE FarmerRows'
  <2>1. /\ job'["farmer"] = job["farmer"]
        /\ \A x \in Resas : resa'[x].status = "AWAITING_FINAL" => resa[x].status = "AWAITING_FINAL"
    BY <1>21, ListEffect, ActorsDiffer DEF Moves, RowTo
  <2> QED BY <2>1, OfRows, ListersAre DEF FarmerRows
<1>22. ASSUME NEW r \in Resas, SettleDeposit(r) PROVE FarmerRows'
  <2>1. /\ job'["farmer"] = job["farmer"]
        /\ \A x \in Resas : resa'[x].status = "AWAITING_FINAL" => resa[x].status = "AWAITING_FINAL"
    BY <1>22, SettleEffect, ActorsDiffer DEF Moves, RowTo
  <2> QED BY <2>1, OfRows, ListersAre DEF FarmerRows
<1>23. ASSUME NEW r \in Resas, ReleaseKilos(r) PROVE FarmerRows'
  <2>1. /\ job'["farmer"] = job["farmer"]
        /\ \A x \in Resas : resa'[x].status = "AWAITING_FINAL" => resa[x].status = "AWAITING_FINAL"
    BY <1>23, ReleaseEffect, ActorsDiffer DEF Moves, RowTo
  <2> QED BY <2>1, OfRows, ListersAre DEF FarmerRows
<1>24. ASSUME EndExpiry PROVE FarmerRows'
  <2>1. /\ job'["farmer"] = job["farmer"]
        /\ \A x \in Resas : resa'[x].status = "AWAITING_FINAL" => resa[x].status = "AWAITING_FINAL"
    BY <1>24, EndEffect, ActorsDiffer DEF Moves, RowTo
  <2> QED BY <2>1, OfRows, ListersAre DEF FarmerRows
<1> QED BY <1>1, <1>2, <1>3, <1>4, <1>5, <1>6, <1>7, <1>8, <1>9, <1>10, <1>11, <1>12, <1>13,
           <1>14, <1>15, <1>16, <1>17, <1>18, <1>19, <1>20, <1>21, <1>22, <1>23, <1>24,
           StepsOf, Zenon

\* Each step leaves the cron's list due
LEMMA CronRowsStep ==
  ASSUME ResaTypeOK, Seats, Phases, ClientsHold, Listers, ResaNext
  PROVE  CronRows'
<1>1. ASSUME NEW kg \in Sizes, NEW co \in {"NONE", "PENDING"}, CreatePrevision(kg, co)
      PROVE CronRows'
  <2>1. job["cron"].of = {} /\ job'["cron"] = job["cron"]
    BY <1>1, CreateEffect, ActorsDiffer DEF Moves, Phases, Busy, Seats, CronSeat, Bookable
  <2> QED BY <2>1 DEF CronRows
<1>2. ASSUME NEW kg \in Sizes, UpdatePrevision(kg) PROVE CronRows'
  <2>1. /\ job'["cron"] = job["cron"] /\ resa' = resa /\ odd \subseteq odd'
        /\ forecast'.status = forecast.status
    BY <1>2, UpdateEffect, ActorsDiffer DEF Moves
  <2> QED BY <2>1, ListersAre DEF CronRows
<1>3. ASSUME CheckUpdate PROVE CronRows'
  <2>1. /\ job'["cron"] = job["cron"] /\ resa' = resa /\ odd \subseteq odd'
        /\ forecast'.status = forecast.status
    BY <1>3, CheckEffect, ActorsDiffer DEF Moves
  <2> QED BY <2>1, ListersAre DEF CronRows
<1>4. ASSUME CheckValidate PROVE CronRows'
  <2>1. /\ job'["cron"] = job["cron"] /\ resa' = resa /\ odd \subseteq odd'
        /\ forecast'.status = forecast.status
    BY <1>4, CheckEffect, ActorsDiffer DEF Moves
  <2> QED BY <2>1, ListersAre DEF CronRows
<1>5. ASSUME ValidatePrevision \/ RejectPrevision PROVE CronRows'
  <2>1. /\ job'["cron"] = job["cron"] /\ resa' = resa /\ odd \subseteq odd'
        /\ forecast'.status = forecast.status
    BY <1>5, CoopEffect, ActorsDiffer DEF Moves
  <2> QED BY <2>1, ListersAre DEF CronRows
<1>6. ASSUME ConvertPrevision PROVE CronRows'
  <2>1. job["cron"].of = {} /\ job'["cron"] = job["cron"]
    BY <1>6, ConvertEffect, ActorsDiffer DEF Moves, Phases, Busy, Seats, CronSeat, Bookable
  <2> QED BY <2>1 DEF CronRows
<1>7. ASSUME BeginDelete PROVE CronRows'
  <2>1. /\ job'["cron"] = job["cron"] /\ resa' = resa /\ odd \subseteq odd'
        /\ forecast'.status = forecast.status
    BY <1>7, DeleteEffect, ActorsDiffer DEF Moves
  <2> QED BY <2>1, ListersAre DEF CronRows
<1>8. ASSUME NEW r \in Resas, ClearResa(r) PROVE CronRows'
  <2>1. /\ job'["cron"] = job["cron"] /\ resa' = resa /\ odd \subseteq odd'
        /\ forecast'.status = forecast.status
    BY <1>8, ClearEffect, ActorsDiffer DEF Moves
  <2> QED BY <2>1, ListersAre DEF CronRows
<1>9. ASSUME NEW r \in Resas, CancelResa(r) PROVE CronRows'
  <2>1. /\ job'["cron"] = job["cron"] /\ odd \subseteq odd' /\ forecast' = forecast
        /\ \A x \in Resas : x # r => resa'[x] = resa[x]
    BY <1>9, CancelEffect, ActorsDiffer DEF Moves, RowTo
  <2>2. CASE resa' = resa BY <2>1, <2>2, ListersAre DEF CronRows
  <2>3. CASE resa' # resa /\ forecast.status # "DELETED" /\ r \in job["cron"].of
    <3>1. resa[r].due /\ ("late" \notin odd => resa[r].status = "AWAITING_FINAL")
      BY <2>3, ListersAre DEF CronRows
    <3>2. resa[r].status # "AWAITING_FINAL"
      BY <1>9, CancelEffect, ListersAre DEF FarmerRows, Seats, FarmerSeat
    <3>3. resa'[r].due BY <1>9, CancelEffect, <3>1, <2>3 DEF RowTo
    <3> QED BY <2>1, <3>1, <3>2, <3>3, OfRows, ListersAre DEF CronRows
  <2>4. CASE r \notin job["cron"].of
    <3>1. \A x \in job["cron"].of : resa'[x] = resa[x] BY <2>1, <2>4, OfRows
    <3> QED BY <2>1, <3>1, ListersAre DEF CronRows
  <2>5. CASE forecast.status = "DELETED" BY <2>1, <2>5 DEF CronRows
  <2> QED BY <2>2, <2>3, <2>4, <2>5
<1>10. ASSUME Penalise PROVE CronRows'
  <2>1. /\ job'["cron"] = job["cron"] /\ resa' = resa /\ odd \subseteq odd'
        /\ forecast'.status = forecast.status
    BY <1>10, PenaliseEffect, ActorsDiffer DEF Moves
  <2> QED BY <2>1, ListersAre DEF CronRows
<1>11. ASSUME Erase PROVE CronRows'
  BY <1>11, EraseEffect DEF CronRows
<1>12. ASSUME NEW r \in Resas, Deadline(r) PROVE CronRows'
  <2>1. /\ job'["cron"] = job["cron"] /\ odd \subseteq odd' /\ forecast' = forecast
        /\ \A x \in Resas : x # r => resa'[x] = resa[x]
    BY <1>12, DeadlineEffect, ActorsDiffer DEF Moves, RowTo
  <2>2. CASE resa' = resa BY <2>1, <2>2, ListersAre DEF CronRows
  <2>3. CASE resa' # resa /\ forecast.status # "DELETED" /\ r \in job["cron"].of
    <3>1. resa[r].due /\ ("late" \notin odd => resa[r].status = "AWAITING_FINAL")
      BY <2>3, ListersAre DEF CronRows
    <3>2. resa'[r].due /\ resa'[r].status = "AWAITING_FINAL" BY <1>12, DeadlineEffect DEF RowTo
    <3> QED BY <2>1, <3>2, OfRows, ListersAre DEF CronRows
  <2>4. CASE r \notin job["cron"].of
    <3>1. \A x \in job["cron"].of : resa'[x] = resa[x] BY <2>1, <2>4, OfRows
    <3> QED BY <2>1, <3>1, ListersAre DEF CronRows
  <2>5. CASE forecast.status = "DELETED" BY <2>1, <2>5 DEF CronRows
  <2> QED BY <2>2, <2>3, <2>4, <2>5
<1>13. ASSUME NEW c \in Buyers, NEW r \in Resas, ReserverPrevision(c, r) PROVE CronRows'
  <2>0. /\ Moves(c, "deposit", {r}, {}) /\ RowTo(r, "PENDING", FALSE, FALSE)
        /\ UNCHANGED <<forecast, forSale, final, purse, score>>
        /\ odd \subseteq odd' /\ (Deleting => "clash" \in odd') /\ Bookable
    BY <1>13, ReserveEffect, Zenon
  <2>1. job["cron"].of = {} /\ job'["cron"] = job["cron"]
    BY <2>0, ActorsDiffer DEF Moves, Phases, Busy, Seats, CronSeat, Bookable
  <2> QED BY <2>1 DEF CronRows
<1>14. ASSUME NEW c \in Buyers, NEW r \in Resas, OrderFinal(c, r) PROVE CronRows'
  <2>1. /\ job'["cron"] = job["cron"] /\ resa' = resa /\ odd \subseteq odd'
        /\ forecast'.status = forecast.status
    BY <1>14, OrderEffect, ActorsDiffer DEF Moves
  <2> QED BY <2>1, ListersAre DEF CronRows
<1>15. ASSUME NEW c \in Buyers, NEW r \in Resas, job[c].of = {r}, PayDeposit(c)
      PROVE CronRows'
  <2>1. /\ job'["cron"] = job["cron"] /\ resa' = resa /\ odd \subseteq odd'
        /\ forecast'.status = forecast.status
    BY <1>15, PayDepositEffect, ActorsDiffer DEF Moves
  <2> QED BY <2>1, ListersAre DEF CronRows
<1>16. ASSUME NEW c \in Buyers, NEW r \in Resas, job[c].of = {r}, ConfirmResa(c)
      PROVE CronRows'
  <2>0. /\ job[c].at = "confirm" /\ Moves(c, "idle", {}, {})
        /\ resa' = resa \/ RowTo(r, "CONFIRMED", TRUE, resa[r].due)
        /\ UNCHANGED <<forecast, forSale, final, purse, score, odd>>
    BY <1>16, ConfirmEffect, Zenon
  <2>1. /\ job'["cron"] = job["cron"] /\ odd \subseteq odd' /\ forecast' = forecast
        /\ \A x \in Resas : x # r => resa'[x] = resa[x]
    BY <2>0, ActorsDiffer DEF Moves, RowTo
  <2>2. CASE resa' = resa BY <2>1, <2>2, ListersAre DEF CronRows
  <2>3. CASE resa' # resa /\ forecast.status # "DELETED" /\ r \in job["cron"].of
    <3>1. resa[r].due /\ ("late" \notin odd => resa[r].status = "AWAITING_FINAL")
      BY <2>3, ListersAre DEF CronRows
    <3>2. ClientKnows(c, r) BY <1>16 DEF ClientsHold
    <3>3. job[c].at \in Depositing BY <2>0, Zenon DEF Depositing
    <3> QED BY <3>1, <3>2, <3>3 DEF ClientKnows
  <2>4. CASE r \notin job["cron"].of
    <3>1. \A x \in job["cron"].of : resa'[x] = resa[x] BY <2>1, <2>4, OfRows
    <3> QED BY <2>1, <3>1, ListersAre DEF CronRows
  <2>5. CASE forecast.status = "DELETED" BY <2>1, <2>5 DEF CronRows
  <2> QED BY <2>2, <2>3, <2>4, <2>5
<1>17. ASSUME NEW c \in Buyers, NEW r \in Resas, job[c].of = {r}, DropResa(c)
      PROVE CronRows'
  <2>0. /\ job[c].at = "drop" /\ Moves(c, "idle", {}, {})
        /\ RowTo(r, "NONE", FALSE, FALSE)
        /\ UNCHANGED <<forecast, forSale, final, purse, score, odd>>
    BY <1>17, DropEffect, Zenon
  <2>1. /\ job'["cron"] = job["cron"] /\ odd \subseteq odd' /\ forecast' = forecast
        /\ \A x \in Resas : x # r => resa'[x] = resa[x]
    BY <2>0, ActorsDiffer DEF Moves, RowTo
  <2>2. CASE resa' = resa BY <2>1, <2>2, ListersAre DEF CronRows
  <2>3. CASE resa' # resa /\ forecast.status # "DELETED" /\ r \in job["cron"].of
    <3>1. resa[r].due /\ ("late" \notin odd => resa[r].status = "AWAITING_FINAL")
      BY <2>3, ListersAre DEF CronRows
    <3>2. ClientKnows(c, r) BY <1>17 DEF ClientsHold
    <3>3. job[c].at \in Depositing BY <2>0, Zenon DEF Depositing
    <3> QED BY <3>1, <3>2, <3>3 DEF ClientKnows
  <2>4. CASE r \notin job["cron"].of
    <3>1. \A x \in job["cron"].of : resa'[x] = resa[x] BY <2>1, <2>4, OfRows
    <3> QED BY <2>1, <3>1, ListersAre DEF CronRows
  <2>5. CASE forecast.status = "DELETED" BY <2>1, <2>5 DEF CronRows
  <2> QED BY <2>2, <2>3, <2>4, <2>5
<1>18. ASSUME NEW c \in Buyers, NEW r \in Resas, job[c].of = {r}, PayBalance(c)
      PROVE CronRows'
  <2>1. /\ job'["cron"] = job["cron"] /\ resa' = resa /\ odd \subseteq odd'
        /\ forecast'.status = forecast.status
    BY <1>18, BalanceEffect, ActorsDiffer DEF Moves
  <2> QED BY <2>1, ListersAre DEF CronRows
<1>19. ASSUME NEW c \in Buyers, NEW r \in Resas, job[c].of = {r}, ConsumeDeposit(c)
      PROVE CronRows'
  <2>1. /\ job'["cron"] = job["cron"] /\ odd \subseteq odd' /\ forecast' = forecast
        /\ \A x \in Resas : x # r => resa'[x] = resa[x]
    BY <1>19, ConsumeEffect, ActorsDiffer DEF Moves, RowTo
  <2>2. CASE resa' = resa BY <2>1, <2>2, ListersAre DEF CronRows
  <2>3. CASE resa' # resa /\ forecast.status # "DELETED" /\ r \in job["cron"].of
    <3>1. resa[r].due /\ ("late" \notin odd => resa[r].status = "AWAITING_FINAL")
      BY <2>3, ListersAre DEF CronRows
    <3>2. ClientKnows(c, r) BY <1>19 DEF ClientsHold
    <3>3. "late" \in odd BY <1>19, ConsumeEffect, <3>1, <3>2 DEF ClientKnows, Settling
    <3>4. resa'[r].due BY <1>19, ConsumeEffect, <3>1 DEF RowTo
    <3> QED BY <2>1, <3>3, <3>4, OfRows, ListersAre DEF CronRows
  <2>4. CASE r \notin job["cron"].of
    <3>1. \A x \in job["cron"].of : resa'[x] = resa[x] BY <2>1, <2>4, OfRows
    <3> QED BY <2>1, <3>1, ListersAre DEF CronRows
  <2>5. CASE forecast.status = "DELETED" BY <2>1, <2>5 DEF CronRows
  <2> QED BY <2>2, <2>3, <2>4, <2>5
<1>20. ASSUME NEW c \in Buyers, NEW r \in Resas, job[c].of = {r}, UndoFinal(c)
      PROVE CronRows'
  <2>1. /\ job'["cron"] = job["cron"] /\ resa' = resa /\ odd \subseteq odd'
        /\ forecast'.status = forecast.status
    BY <1>20, UndoEffect, ActorsDiffer DEF Moves
  <2> QED BY <2>1, ListersAre DEF CronRows
<1>21. ASSUME ListExpired PROVE CronRows'
  BY <1>21, ListEffect DEF Moves, CronRows, Expired, InStatus
<1>22. ASSUME NEW r \in Resas, SettleDeposit(r) PROVE CronRows'
  <2>1. /\ job'["cron"].of \subseteq job["cron"].of /\ resa' = resa /\ odd' = odd
        /\ forecast' = forecast
    BY <1>22, SettleEffect DEF Moves
  <2> QED BY <2>1, ListersAre DEF CronRows
<1>23. ASSUME NEW r \in Resas, ReleaseKilos(r) PROVE CronRows'
  <2>1. /\ job'["cron"].of = job["cron"].of \ {r} /\ odd' = odd /\ forecast' = forecast
        /\ \A x \in Resas : x # r => resa'[x] = resa[x]
    BY <1>23, ReleaseEffect DEF Moves, RowTo
  <2> QED BY <2>1, OfRows, ListersAre DEF CronRows
<1>24. ASSUME EndExpiry PROVE CronRows'
  BY <1>24, EndEffect DEF Moves, CronRows
<1> QED BY <1>1, <1>2, <1>3, <1>4, <1>5, <1>6, <1>7, <1>8, <1>9, <1>10, <1>11, <1>12, <1>13,
           <1>14, <1>15, <1>16, <1>17, <1>18, <1>19, <1>20, <1>21, <1>22, <1>23, <1>24,
           StepsOf, Zenon

\* The statuses that claim kilos, and the histories the promises are about
Claims == Holding \cup {"COMPLETED"}
Straight == "shrunk" \notin odd /\ "clash" \notin odd /\ "late" \notin odd

\* What is claimed is of reservations
LEMMA ClaimedIs == Claimed \in SUBSET Resas /\ Claimed' \in SUBSET Resas
  BY DEF Claimed

\* Nothing more is claimed
LEMMA ClaimedLess ==
  ASSUME \A d \in Buyers : job'[d].at \in Settling =>
           /\ job'[d].of = job[d].of
           /\ job[d].at \in Settling \/ (\E x \in Claimed : job'[d].of = {x}),
         \A x \in Resas : resa'[x].status \in Claims => x \in Claimed
  PROVE  Claimed' \subseteq Claimed
  BY DEF Claimed, Claims, OnIt

\* Then the promises are kept
LEMMA PromisesKept ==
  ASSUME ResaTypeOK, Promises, odd \subseteq odd', forecast'.status = forecast.status,
         forecast'.kg \in Nat,
         forecast.kg <= forecast'.kg \/ "shrunk" \in odd', forSale' = forSale,
         Straight' => Claimed' \subseteq Claimed
  PROVE  Promises'
<1>1. Kilos(Claimed') \in Nat /\ Kilos(Claimed) \in Nat BY ClaimedIs, KilosNat
<1>2. Straight' => Kilos(Claimed') <= Kilos(Claimed) BY ClaimedIs, KilosFacts
<1>3. Straight' => Straight BY DEF Straight
<1>4. forecast.kg \in Nat /\ forSale \in Nat BY DEF ResaTypeOK
<1>5. Kilos(Claimed)' = Kilos(Claimed') BY DEF Kilos
<1>6. ASSUME Straight' PROVE (forecast'.status = "OPEN" => Kilos(Claimed)' <= forecast'.kg)
                          /\ (forecast'.status = "CONVERTED" => forSale' + Kilos(Claimed)' <= forecast'.kg)
  <2>1. forecast.kg <= forecast'.kg BY <1>6 DEF Straight
  <2>2. /\ forecast.status = "OPEN" => Kilos(Claimed) <= forecast.kg
        /\ forecast.status = "CONVERTED" => forSale + Kilos(Claimed) <= forecast.kg
    BY <1>3, <1>6 DEF Promises, Straight
  <2>3. Kilos(Claimed') <= Kilos(Claimed) BY <1>2, <1>6
  <2> QED BY <1>1, <1>4, <1>5, <2>1, <2>2, <2>3
<1> QED BY <1>6 DEF Promises, Straight

\* Before the conversion, what is claimed is what is reserved
LEMMA OpenClaims ==
  ASSUME Phases, ResaTypeOK, forecast.status = "OPEN"
  PROVE  Claimed = InStatus(Holding) /\ Claimed = InStatus({"CONFIRMED", "PENDING"})
  BY DEF Phases, Claimed, Holding, InStatus, OnIt, Paying

\* Kilos that go back on sale are no longer claimed
LEMMA SaleGrows ==
  ASSUME ResaTypeOK, Phases, Promises, NEW r \in Resas, odd \subseteq odd', forecast' = forecast,
         forSale' = forSale + Kg[r], Claimed' \subseteq Claimed, r \in Claimed, r \notin Claimed'
  PROVE  Promises'
<1>1. Kilos(Claimed') + Kg[r] <= Kilos(Claimed) BY ClaimedIs, KilosLess
<1>2. /\ Kilos(Claimed') \in Nat /\ Kilos(Claimed) \in Nat /\ Kg[r] \in Nat
      /\ forecast.kg \in Nat /\ forSale \in Nat /\ Kilos(Claimed)' = Kilos(Claimed')
  BY ClaimedIs, KilosNat, ResaAssumption DEF Kilos, ResaTypeOK
<1>3. ASSUME Straight' PROVE /\ forecast'.status = "OPEN" => Kilos(Claimed)' <= forecast'.kg
                             /\ forecast'.status = "CONVERTED" => forSale' + Kilos(Claimed)' <= forecast'.kg
  <2>1. /\ forecast.status = "OPEN" => Kilos(Claimed) <= forecast.kg
        /\ forecast.status = "CONVERTED" => forSale + Kilos(Claimed) <= forecast.kg
    BY <1>3 DEF Promises, Straight
  <2> QED BY <1>1, <1>2, <2>1
<1> QED BY <1>3 DEF Promises, Straight

\* Each step keeps the promises
LEMMA PromisesStep ==
  ASSUME ResaTypeOK, Seats, Phases, ClientsHold, Listers, Promises, ResaNext
  PROVE  Promises'
<1>1. ASSUME NEW kg \in Sizes, NEW co \in {"NONE", "PENDING"}, CreatePrevision(kg, co)
      PROVE Promises'
  <2>1. Claimed' = {} BY <1>1, CreateEffect DEF Claimed, Phases, OnIt, Paying, Holding
  <2>2. Kilos(Claimed)' = 0
    <3>1. Kilos({}) = 0 BY SumEmpty DEF Kilos
    <3> QED BY <2>1, <3>1 DEF Kilos
  <2>3. forecast'.status = "OPEN" /\ forecast'.kg \in Nat BY <1>1, CreateEffect, ResaAssumption
  <2> QED BY <2>2, <2>3 DEF Promises
<1>2. ASSUME NEW kg \in Sizes, UpdatePrevision(kg) PROVE Promises'
  <2>1. \A d \in Buyers : job'[d] = job[d] BY <1>2, UpdateEffect, ActorsDiffer DEF Moves
  <2>2. \A x \in Resas : resa'[x].status \in Claims => x \in Claimed
    BY <1>2, UpdateEffect DEF Claims, Claimed
  <2>3. /\ odd \subseteq odd' /\ forecast'.status = forecast.status /\ forSale' = forSale
        /\ forecast'.kg = kg /\ kg \in Nat /\ forecast.kg \in Nat
        /\ kg < forecast.kg => "shrunk" \in odd'
    BY <1>2, UpdateEffect, ResaAssumption DEF ResaTypeOK
  <2>4. Claimed' \subseteq Claimed BY <2>1, <2>2, ClaimedLess
  <2>5. forecast.kg <= forecast'.kg \/ "shrunk" \in odd' BY <2>3
  <2> QED BY <2>3, <2>4, <2>5, PromisesKept
<1>3. ASSUME CheckUpdate PROVE Promises'
  <2>1. \A d \in Buyers : job'[d] = job[d] BY <1>3, CheckEffect, ActorsDiffer DEF Moves
  <2>2. \A x \in Resas : resa'[x].status \in Claims => x \in Claimed
    BY <1>3, CheckEffect DEF RowTo, Claims, Claimed
  <2>3. odd \subseteq odd' /\ forecast' = forecast /\ forSale' = forSale
    BY <1>3, CheckEffect
  <2>4. Claimed' \subseteq Claimed BY <2>1, <2>2, ClaimedLess
  <2> QED BY <2>3, <2>4, PromisesKept DEF ResaTypeOK
<1>4. ASSUME CheckValidate PROVE Promises'
  <2>1. \A d \in Buyers : job'[d] = job[d] BY <1>4, CheckEffect, ActorsDiffer DEF Moves
  <2>2. \A x \in Resas : resa'[x].status \in Claims => x \in Claimed
    BY <1>4, CheckEffect DEF RowTo, Claims, Claimed
  <2>3. odd \subseteq odd' /\ forecast' = forecast /\ forSale' = forSale
    BY <1>4, CheckEffect
  <2>4. Claimed' \subseteq Claimed BY <2>1, <2>2, ClaimedLess
  <2> QED BY <2>3, <2>4, PromisesKept DEF ResaTypeOK
<1>5. ASSUME ValidatePrevision \/ RejectPrevision PROVE Promises'
  <2>1. \A d \in Buyers : job'[d] = job[d] BY <1>5, CoopEffect, ActorsDiffer DEF Moves
  <2>2. \A x \in Resas : resa'[x].status \in Claims => x \in Claimed
    BY <1>5, CoopEffect DEF RowTo, Claims, Claimed
  <2>3. odd \subseteq odd' /\ forecast'.status = forecast.status
        /\ forecast'.kg = forecast.kg /\ forSale' = forSale
    BY <1>5, CoopEffect
  <2>4. Claimed' \subseteq Claimed BY <2>1, <2>2, ClaimedLess
  <2> QED BY <2>3, <2>4, PromisesKept DEF ResaTypeOK
<1>6. ASSUME ConvertPrevision PROVE Promises'
  <2>1. Claimed \in SUBSET Resas /\ Claimed' \in SUBSET Claimed
    <3>1. \A x \in Resas : resa'[x].status \in Claims => x \in Claimed
      BY <1>6, ConvertEffect DEF Claims, Claimed, Holding
    <3>2. job' = job BY <1>6, ConvertEffect
    <3> QED BY <3>1, <3>2, ClaimedLess, ClaimedIs
  <2>2. forSale' = Max({forecast.kg - Kilos(Claimed), 0}) /\ forecast'.status = "CONVERTED"
        /\ forecast'.kg = forecast.kg /\ odd \subseteq odd' /\ forecast.status = "OPEN"
    <3>1. forecast.status = "OPEN" BY <1>6, ConvertEffect, Zenon
    <3>2. Claimed = InStatus({"CONFIRMED", "PENDING"}) BY <3>1, OpenClaims
    <3> QED BY <1>6, ConvertEffect, <3>2, Zenon
  <2>3. Kilos(Claimed) \in Nat /\ Kilos(Claimed') \in Nat /\ Kilos(Claimed') <= Kilos(Claimed)
    BY <2>1, ClaimedIs, KilosFacts
  <2>4. Kilos(Claimed)' = Kilos(Claimed') BY DEF Kilos
  <2>5. forecast.kg \in Nat BY DEF ResaTypeOK
  <2>6. forSale' = IF forecast.kg - Kilos(Claimed) >= 0 THEN forecast.kg - Kilos(Claimed) ELSE 0
    BY <2>2, <2>3, <2>5, LargerOfTwo
  <2>7. ASSUME Straight' PROVE forSale' + Kilos(Claimed)' <= forecast'.kg
    <3>1. Kilos(Claimed) <= forecast.kg BY <2>2, <2>7 DEF Straight, Promises
    <3>2. forecast.kg - Kilos(Claimed) >= 0 BY <2>3, <2>5, <3>1
    <3>3. forSale' = forecast.kg - Kilos(Claimed) BY <2>6, <3>2
    <3>4. (forecast.kg - Kilos(Claimed)) + Kilos(Claimed') <= forecast.kg BY <2>3, <2>5
    <3>5. forecast'.kg = forecast.kg BY <2>2
    <3> QED BY <2>4, <3>3, <3>4, <3>5, Zenon
  <2> QED BY <2>2, <2>7 DEF Promises, Straight
<1>7. ASSUME BeginDelete PROVE Promises'
  <2>1. \A d \in Buyers : job'[d] = job[d] BY <1>7, DeleteEffect, ActorsDiffer DEF Moves
  <2>2. \A x \in Resas : resa'[x].status \in Claims => x \in Claimed
    BY <1>7, DeleteEffect DEF RowTo, Claims, Claimed
  <2>3. odd \subseteq odd' /\ forecast' = forecast /\ forSale' = forSale
    BY <1>7, DeleteEffect
  <2>4. Claimed' \subseteq Claimed BY <2>1, <2>2, ClaimedLess
  <2> QED BY <2>3, <2>4, PromisesKept DEF ResaTypeOK
<1>8. ASSUME NEW r \in Resas, ClearResa(r) PROVE Promises'
  <2>1. \A d \in Buyers : job'[d] = job[d] BY <1>8, ClearEffect, ActorsDiffer DEF Moves
  <2>2. \A x \in Resas : resa'[x].status \in Claims => x \in Claimed
    BY <1>8, ClearEffect DEF RowTo, Claims, Claimed
  <2>3. odd \subseteq odd' /\ forecast' = forecast /\ forSale' = forSale
    BY <1>8, ClearEffect
  <2>4. Claimed' \subseteq Claimed BY <2>1, <2>2, ClaimedLess
  <2> QED BY <2>3, <2>4, PromisesKept DEF ResaTypeOK
<1>9. ASSUME NEW r \in Resas, CancelResa(r) PROVE Promises'
  <2>1. \A d \in Buyers : job'[d] = job[d] BY <1>9, CancelEffect, ActorsDiffer DEF Moves
  <2>2. \A x \in Resas : resa'[x].status \in Claims => x \in Claimed
    BY <1>9, CancelEffect DEF RowTo, Claims, Claimed, Holding
  <2>3. odd \subseteq odd' /\ forecast' = forecast /\ forSale' = forSale
    BY <1>9, CancelEffect
  <2>4. Claimed' \subseteq Claimed BY <2>1, <2>2, ClaimedLess
  <2> QED BY <2>3, <2>4, PromisesKept DEF ResaTypeOK
<1>10. ASSUME Penalise PROVE Promises'
  <2>1. \A d \in Buyers : job'[d] = job[d] BY <1>10, PenaliseEffect, ActorsDiffer DEF Moves
  <2>2. \A x \in Resas : resa'[x].status \in Claims => x \in Claimed
    BY <1>10, PenaliseEffect DEF RowTo, Claims, Claimed
  <2>3. odd \subseteq odd' /\ forecast' = forecast /\ forSale' = forSale
    BY <1>10, PenaliseEffect
  <2>4. Claimed' \subseteq Claimed BY <2>1, <2>2, ClaimedLess
  <2> QED BY <2>3, <2>4, PromisesKept DEF ResaTypeOK
<1>11. ASSUME Erase PROVE Promises'
  <2>1. forecast'.status = "DELETED" BY <1>11, EraseEffect
  <2> QED BY <2>1 DEF Promises
<1>12. ASSUME NEW r \in Resas, Deadline(r) PROVE Promises'
  <2>1. \A d \in Buyers : job'[d] = job[d] BY <1>12, DeadlineEffect, ActorsDiffer DEF Moves
  <2>2. \A x \in Resas : resa'[x].status \in Claims => x \in Claimed
    BY <1>12, DeadlineEffect DEF RowTo, Claims, Claimed
  <2>3. odd \subseteq odd' /\ forecast' = forecast /\ forSale' = forSale
    BY <1>12, DeadlineEffect
  <2>4. Claimed' \subseteq Claimed BY <2>1, <2>2, ClaimedLess
  <2> QED BY <2>3, <2>4, PromisesKept DEF ResaTypeOK
<1>13. ASSUME NEW c \in Buyers, NEW r \in Resas, ReserverPrevision(c, r) PROVE Promises'
  <2>0. /\ Moves(c, "deposit", {r}, {}) /\ RowTo(r, "PENDING", FALSE, FALSE)
        /\ UNCHANGED <<forecast, forSale, final, purse, score>>
        /\ odd \subseteq odd' /\ Bookable
    BY <1>13, ReserveEffect, Zenon
  <2>1. Kg[r] <= forecast.kg - Kilos(Claimed)
    <3>1. Claimed = InStatus(Holding) BY <2>0, OpenClaims DEF Bookable
    <3> QED BY <1>13, <3>1, Zenon DEF ReserverPrevision
  <2>2. Claimed' \subseteq Claimed \cup {r}
    <3>1. \A d \in Buyers : job'[d].at \in Settling => job'[d] = job[d]
      BY <2>0, ActorsDiffer DEF Moves, Settling
    <3>2. \A x \in Resas : x # r => resa'[x] = resa[x] BY <2>0 DEF RowTo
    <3> QED BY <3>1, <3>2 DEF Claimed, OnIt
  <2>3. Kilos(Claimed') <= Kilos(Claimed) + Kg[r] BY <2>2, ClaimedIs, KilosMore
  <2>4. /\ Kilos(Claimed') \in Nat /\ Kilos(Claimed) \in Nat /\ Kg[r] \in Nat /\ forecast.kg \in Nat
        /\ Kilos(Claimed)' = Kilos(Claimed')
    BY ClaimedIs, KilosNat, ResaAssumption DEF Kilos, ResaTypeOK
  <2>5. Kilos(Claimed)' <= forecast'.kg /\ forecast'.status = "OPEN"
    BY <2>0, <2>1, <2>3, <2>4 DEF Bookable
  <2> QED BY <2>5 DEF Promises
<1>14. ASSUME NEW c \in Buyers, NEW r \in Resas, OrderFinal(c, r) PROVE Promises'
  <2>1. /\ Payable(r) /\ Moves(c, "balance", {r}, {})
        /\ UNCHANGED <<forecast, resa, forSale, odd>>
    BY <1>14, OrderEffect, Zenon
  <2>2. r \in Claimed BY <2>1 DEF Payable, Claimed, Holding
  <2>3. \A d \in Buyers : d # c => job'[d] = job[d] BY <2>1, ActorsDiffer DEF Moves
  <2>4. job'[c].of = {r} BY <2>1 DEF Moves
  <2>5. Claimed' \subseteq Claimed BY <2>1, <2>2, <2>3, <2>4 DEF Claimed, OnIt
  <2> QED BY <2>1, <2>5, PromisesKept DEF ResaTypeOK
<1>15. ASSUME NEW c \in Buyers, NEW r \in Resas, job[c].of = {r}, PayDeposit(c)
      PROVE Promises'
  <2>1. \A d \in Buyers : job'[d].at \in Settling => job[d].at \in Settling /\ job'[d].of = job[d].of
    BY <1>15, PayDepositEffect, ActorsDiffer DEF Moves, Settling
  <2>2. \A x \in Resas : resa'[x].status \in Claims => x \in Claimed
    BY <1>15, PayDepositEffect DEF RowTo, Claims, Claimed
  <2>3. odd \subseteq odd' /\ forecast' = forecast /\ forSale' = forSale
    BY <1>15, PayDepositEffect
  <2>4. Claimed' \subseteq Claimed BY <2>1, <2>2, ClaimedLess
  <2> QED BY <2>3, <2>4, PromisesKept DEF ResaTypeOK
<1>16. ASSUME NEW c \in Buyers, NEW r \in Resas, job[c].of = {r}, ConfirmResa(c)
      PROVE Promises'
  <2>0. /\ job[c].at = "confirm" /\ Moves(c, "idle", {}, {})
        /\ \/ resa' = resa
           \/ resa[r].status # "NONE" /\ RowTo(r, "CONFIRMED", TRUE, resa[r].due)
        /\ UNCHANGED <<forecast, forSale, final, purse, score, odd>>
    BY <1>16, ConfirmEffect, Zenon
  <2>1. \A d \in Buyers : job'[d].at \in Settling => job[d].at \in Settling /\ job'[d].of = job[d].of
    BY <2>0, ActorsDiffer DEF Moves, Settling
  <2>2. ASSUME "clash" \notin odd PROVE \A x \in Resas : resa'[x].status \in Claims => x \in Claimed
    <3>1. ClientKnows(c, r) BY <1>16 DEF ClientsHold
    <3>2. resa[r].status \notin {"CANCELLED", "EXPIRED"}
      BY <2>0, <2>2, <3>1 DEF ClientKnows, Depositing
    <3>3. resa[r].status \in ResaStatus BY DEF ResaTypeOK
    <3> QED BY <2>0, <3>2, <3>3 DEF RowTo, Claims, Claimed, Holding, ResaStatus
  <2>3. odd \subseteq odd' /\ forecast' = forecast /\ forSale' = forSale BY <2>0
  <2>4. Straight' => Claimed' \subseteq Claimed BY <2>0, <2>1, <2>2, ClaimedLess DEF Straight
  <2> QED BY <2>3, <2>4, PromisesKept DEF ResaTypeOK
<1>17. ASSUME NEW c \in Buyers, NEW r \in Resas, job[c].of = {r}, DropResa(c)
      PROVE Promises'
  <2>0. /\ job[c].at = "drop" /\ Moves(c, "idle", {}, {})
        /\ RowTo(r, "NONE", FALSE, FALSE)
        /\ UNCHANGED <<forecast, forSale, final, purse, score, odd>>
    BY <1>17, DropEffect, Zenon
  <2>1. \A d \in Buyers : job'[d].at \in Settling => job[d].at \in Settling /\ job'[d].of = job[d].of
    BY <2>0, ActorsDiffer DEF Moves, Settling
  <2>2. \A x \in Resas : resa'[x].status \in Claims => x \in Claimed
    BY <2>0 DEF RowTo, Claims, Claimed, Holding
  <2>3. odd \subseteq odd' /\ forecast' = forecast /\ forSale' = forSale
    BY <2>0
  <2>4. Claimed' \subseteq Claimed BY <2>1, <2>2, ClaimedLess
  <2> QED BY <2>3, <2>4, PromisesKept DEF ResaTypeOK
<1>18. ASSUME NEW c \in Buyers, NEW r \in Resas, job[c].of = {r}, PayBalance(c)
      PROVE Promises'
  <2>1. \A d \in Buyers : job'[d].at \in Settling => job[d].at \in Settling /\ job'[d].of = job[d].of
    BY <1>18, BalanceEffect, ActorsDiffer DEF Moves, Settling
  <2>2. \A x \in Resas : resa'[x].status \in Claims => x \in Claimed
    BY <1>18, BalanceEffect DEF RowTo, Claims, Claimed
  <2>3. odd \subseteq odd' /\ forecast' = forecast /\ forSale' = forSale
    BY <1>18, BalanceEffect
  <2>4. Claimed' \subseteq Claimed BY <2>1, <2>2, ClaimedLess
  <2> QED BY <2>3, <2>4, PromisesKept DEF ResaTypeOK
<1>19. ASSUME NEW c \in Buyers, NEW r \in Resas, job[c].of = {r}, ConsumeDeposit(c)
      PROVE Promises'
  <2>0. /\ job[c].at = "consume"
        /\ Moves(c, "undo", {r}, {}) \/ Moves(c, "idle", {}, {})
        /\ resa' = resa \/ RowTo(r, "COMPLETED", resa[r].paid, resa[r].due)
        /\ UNCHANGED <<forecast, forSale, final, purse, score, odd>>
    BY <1>19, ConsumeEffect, Zenon
  <2>1. \A d \in Buyers : job'[d].at \in Settling => job[d].at \in Settling /\ job'[d].of = job[d].of
    BY <1>19, <2>0, ActorsDiffer DEF Moves, Settling
  <2>2. \A x \in Resas : resa'[x].status \in Claims => x \in Claimed
    <3>1. r \in Claimed BY <1>19, <2>0 DEF Claimed, OnIt, Settling
    <3> QED BY <2>0, <3>1 DEF RowTo, Claims, Claimed
  <2>3. odd \subseteq odd' /\ forecast' = forecast /\ forSale' = forSale BY <2>0
  <2>4. Claimed' \subseteq Claimed BY <2>1, <2>2, ClaimedLess
  <2> QED BY <2>3, <2>4, PromisesKept DEF ResaTypeOK
<1>20. ASSUME NEW c \in Buyers, NEW r \in Resas, job[c].of = {r}, UndoFinal(c)
      PROVE Promises'
  <2>0. /\ job[c].at = "undo" /\ Moves(c, "idle", {}, {})
        /\ forSale' = IF final[r] = "PAID" THEN forSale + Kg[r] ELSE forSale
        /\ UNCHANGED <<forecast, resa, score, odd>>
    BY <1>20, UndoEffect, Zenon
  <2>1. \A d \in Buyers : job'[d].at \in Settling => job[d].at \in Settling /\ job'[d].of = job[d].of
    BY <2>0, ActorsDiffer DEF Moves, Settling
  <2>2. \A x \in Resas : resa'[x].status \in Claims => x \in Claimed BY <2>0 DEF Claims, Claimed
  <2>3. Claimed' \subseteq Claimed BY <2>1, <2>2, ClaimedLess
  <2>4. CASE final[r] # "PAID"
    <3>1. odd \subseteq odd' /\ forecast' = forecast /\ forSale' = forSale BY <2>0, <2>4
    <3> QED BY <2>3, <3>1, PromisesKept DEF ResaTypeOK
  <2>5. CASE final[r] = "PAID"
    <3>1. ClientKnows(c, r) BY <1>20 DEF ClientsHold
    <3>2. resa[r].status = "NONE" BY <2>0, <2>5, <3>1 DEF ClientKnows
    <3>3. r \in Claimed BY <1>20, <2>0 DEF Claimed, OnIt, Settling
    <3>4. r \notin Claimed'
      <4>1. resa'[r].status = "NONE" BY <2>0, <3>2
      <4>2. ASSUME NEW d \in Buyers, job'[d].at \in Settling PROVE FALSE
        <5>1. job[d].at \in Settling /\ job[c].at \in Settling BY <2>0, <2>1, <4>2 DEF Settling
        <5>2. d = c BY <5>1 DEF ClientsHold, OneSettles
        <5> QED BY <2>0, <4>2, <5>2 DEF Moves, Settling
      <4> QED BY <4>1, <4>2 DEF Claimed, OnIt, Holding
    <3> QED BY <2>0, <2>3, <2>5, <3>3, <3>4, SaleGrows
  <2> QED BY <2>4, <2>5
<1>21. ASSUME ListExpired PROVE Promises'
  <2>1. \A d \in Buyers : job'[d] = job[d] BY <1>21, ListEffect, ActorsDiffer DEF Moves
  <2>2. \A x \in Resas : resa'[x].status \in Claims => x \in Claimed
    BY <1>21, ListEffect DEF RowTo, Claims, Claimed
  <2>3. odd \subseteq odd' /\ forecast' = forecast /\ forSale' = forSale
    BY <1>21, ListEffect
  <2>4. Claimed' \subseteq Claimed BY <2>1, <2>2, ClaimedLess
  <2> QED BY <2>3, <2>4, PromisesKept DEF ResaTypeOK
<1>22. ASSUME NEW r \in Resas, SettleDeposit(r) PROVE Promises'
  <2>1. \A d \in Buyers : job'[d] = job[d] BY <1>22, SettleEffect, ActorsDiffer DEF Moves
  <2>2. \A x \in Resas : resa'[x].status \in Claims => x \in Claimed
    BY <1>22, SettleEffect DEF RowTo, Claims, Claimed
  <2>3. odd \subseteq odd' /\ forecast' = forecast /\ forSale' = forSale
    BY <1>22, SettleEffect
  <2>4. Claimed' \subseteq Claimed BY <2>1, <2>2, ClaimedLess
  <2> QED BY <2>3, <2>4, PromisesKept DEF ResaTypeOK
<1>23. ASSUME NEW r \in Resas, ReleaseKilos(r) PROVE Promises'
  <2>0. /\ job["cron"].at = "release" /\ job["cron"].one = {r}
        /\ Moves("cron", "settle", job["cron"].of \ {r}, {})
        /\ \/ resa[r].status = "NONE" /\ resa' = resa /\ forSale' = forSale
           \/ /\ resa[r].status # "NONE" /\ forSale' = forSale + Kg[r]
              /\ RowTo(r, "EXPIRED", resa[r].paid, resa[r].due)
        /\ UNCHANGED <<forecast, final, purse, score, odd>>
    BY <1>23, ReleaseEffect, Zenon
  <2>1. \A d \in Buyers : job'[d] = job[d] BY <2>0, ActorsDiffer DEF Moves
  <2>2. \A x \in Resas : resa'[x].status \in Claims => x \in Claimed
    BY <2>0 DEF RowTo, Claims, Claimed, Holding
  <2>3. Claimed' \subseteq Claimed BY <2>1, <2>2, ClaimedLess
  <2>4. CASE forSale' = forSale
    BY <2>0, <2>3, <2>4, PromisesKept DEF ResaTypeOK
  <2>5. CASE resa[r].status # "NONE" /\ forSale' = forSale + Kg[r]
             /\ RowTo(r, "EXPIRED", resa[r].paid, resa[r].due)
    <3>1. forecast.status # "DELETED" /\ r \in job["cron"].of
      BY <2>0, <2>5 DEF Phases, Seats, CronSeat
    <3>2. resa[r].due /\ ("late" \notin odd => resa[r].status = "AWAITING_FINAL")
      BY <3>1, ListersAre DEF CronRows
    <3>3. ASSUME "late" \notin odd PROVE r \in Claimed /\ r \notin Claimed'
      <4>1. r \in Claimed BY <3>2, <3>3 DEF Claimed, Holding
      <4>2. ASSUME NEW d \in Buyers, job[d].at \in Settling, job[d].of = {r} PROVE FALSE
        <5>1. ClientKnows(d, r) BY <4>2 DEF ClientsHold
        <5> QED BY <3>2, <3>3, <4>2, <5>1 DEF ClientKnows
      <4>3. resa'[r].status = "EXPIRED" BY <2>5 DEF RowTo
      <4> QED BY <2>1, <4>1, <4>2, <4>3 DEF Claimed, OnIt, Holding
    <3>4. CASE "late" \notin odd BY <2>0, <2>3, <2>5, <3>3, <3>4, SaleGrows
    <3>5. CASE "late" \in odd BY <2>0, <3>5 DEF Promises
    <3> QED BY <3>4, <3>5
  <2> QED BY <2>0, <2>4, <2>5
<1>24. ASSUME EndExpiry PROVE Promises'
  <2>1. \A d \in Buyers : job'[d] = job[d] BY <1>24, EndEffect, ActorsDiffer DEF Moves
  <2>2. \A x \in Resas : resa'[x].status \in Claims => x \in Claimed
    BY <1>24, EndEffect DEF RowTo, Claims, Claimed
  <2>3. odd \subseteq odd' /\ forecast' = forecast /\ forSale' = forSale
    BY <1>24, EndEffect
  <2>4. Claimed' \subseteq Claimed BY <2>1, <2>2, ClaimedLess
  <2> QED BY <2>3, <2>4, PromisesKept DEF ResaTypeOK
<1> QED BY <1>1, <1>2, <1>3, <1>4, <1>5, <1>6, <1>7, <1>8, <1>9, <1>10, <1>11, <1>12, <1>13,
           <1>14, <1>15, <1>16, <1>17, <1>18, <1>19, <1>20, <1>21, <1>22, <1>23, <1>24,
           StepsOf, Zenon

\* Whose deposit is under way: nobody else is about that reservation
LEMMA Depositor ==
  ASSUME ResaTypeOK, Seats, Phases, ClientsHold, Orderly, Regular,
         NEW c \in Buyers, NEW r \in Resas, job[c].of = {r}, job[c].at \in Depositing
  PROVE  /\ resa[r].status = "PENDING" /\ ~Left(r) /\ ~Deleting
         /\ \A d \in Buyers : d # c /\ job[d].of = {r} => job[d].at \notin Depositing
         /\ \A d \in Buyers : job[d].of = {r} => job[d].at \notin Settling
<1>1. resa[r].status = "PENDING" BY DEF Orderly, ClientRows
<1>2. ~Deleting
  <2>1. DepositInFlight BY DEF DepositInFlight, Paying, Depositing
  <2> QED BY <2>1 DEF ClientsHold, NoClash, Regular
<1>3. \A d \in Buyers : d # c /\ job[d].of = {r} => job[d].at \notin Depositing
  BY DEF Orderly, OneDeposits
<1>4. \A d \in Buyers : job[d].of = {r} => job[d].at \notin Settling
  BY <1>1 DEF Orderly, ClientRows
<1>5. ~(job["cron"].at = "release" /\ job["cron"].one = {r})
  <2>1. SUFFICES ASSUME job["cron"].at = "release", job["cron"].one = {r} PROVE FALSE OBVIOUS
  <2>2. r \in job["cron"].of BY <2>1 DEF Seats, CronSeat
  <2> QED BY <1>1, <2>2 DEF Orderly, SettledRows
<1>6. ~Left(r) BY <1>2, <1>5 DEF Left, Deleting
<1> QED BY <1>1, <1>2, <1>3, <1>4, <1>6

\* Whose balance is under way: nobody else is, and the cron does not have it
LEMMA Settler ==
  ASSUME ResaTypeOK, Seats, Phases, ClientsHold, Orderly, Regular,
         NEW c \in Buyers, NEW r \in Resas, job[c].of = {r}, job[c].at \in Settling
  PROVE  /\ resa[r].status = "AWAITING_FINAL" /\ ~resa[r].due /\ ~Left(r) /\ r \notin job["cron"].of
         /\ ClientKnows(c, r)
         /\ \A d \in Buyers : d # c => job[d].at \notin Settling
         /\ \A d \in Buyers : job[d].of = {r} => job[d].at \notin Depositing
<1>1. resa[r].status = "AWAITING_FINAL" BY DEF Orderly, ClientRows
<1>2. ClientKnows(c, r) BY DEF ClientsHold
<1>3. ~resa[r].due BY <1>2 DEF ClientKnows, Regular
<1>4. \A d \in Buyers : d # c => job[d].at \notin Settling BY DEF ClientsHold, OneSettles
<1>5. \A d \in Buyers : job[d].of = {r} => job[d].at \notin Depositing
  BY <1>1 DEF Orderly, ClientRows
<1>6. r \notin job["cron"].of BY <1>3 DEF Orderly, SettledRows
<1>7. ~(job["cron"].at = "release" /\ job["cron"].one = {r})
  <2>1. SUFFICES ASSUME job["cron"].at = "release", job["cron"].one = {r} PROVE FALSE OBVIOUS
  <2>2. r \in job["cron"].of BY <2>1 DEF Seats, CronSeat
  <2> QED BY <1>6, <2>2
<1>8. ~(job["farmer"].at = "cancel" /\ job["farmer"].one = {r})
  <2>1. SUFFICES ASSUME job["farmer"].at = "cancel", job["farmer"].one = {r} PROVE FALSE OBVIOUS
  <2>2. r \in job["farmer"].of BY <2>1 DEF Seats, FarmerSeat
  <2> QED BY <1>1, <2>1, <2>2 DEF Orderly, ClearedRows, Deleting, InStatus
<1>9. ~Left(r) BY <1>7, <1>8 DEF Left
<1> QED BY <1>1, <1>2, <1>3, <1>4, <1>5, <1>6, <1>9

\* While the forecast is deleted, no buyer and no cron is about its reservations
LEMMA Deleter ==
  ASSUME ResaTypeOK, Seats, Phases, ClientsHold, Orderly, Regular, Deleting
  PROVE  /\ forecast.status = "OPEN" /\ job["cron"].at = "idle" /\ job["cron"].of = {}
         /\ \A d \in Buyers : job[d].at \notin Depositing \cup Settling
         /\ \A x \in Resas : /\ resa[x].status \in {"NONE", "CONFIRMED", "CANCELLED"}
                             /\ resa[x].status = "CONFIRMED" <=> x \in job["farmer"].of
                             /\ resa[x].status = "CONFIRMED" => resa[x].paid
                             /\ final[x] = "NONE"
         /\ job["farmer"].at = "cancel" => \E r \in job["farmer"].of : job["farmer"].one = {r}
<1>1. forecast.status = "OPEN" /\ job["farmer"].of = InStatus({"CONFIRMED"})
  BY DEF Orderly, ClearedRows
<1>2. job["cron"].at = "idle" /\ job["cron"].of = {}
  BY <1>1, Zenon DEF Phases, Busy, Seats, CronSeat
<1>3. \A d \in Buyers : job[d].at \notin Settling BY <1>1 DEF Phases, Paying
<1>4. \A d \in Buyers : job[d].at \notin Depositing
  BY DEF ClientsHold, NoClash, Regular, DepositInFlight, Paying, Depositing
<1>5. \A x \in Resas : resa[x].status # "PENDING" BY <1>4 DEF Orderly, PaidRows, OnIt
<1>6. \A x \in Resas : resa[x].status \in {"NONE", "CONFIRMED", "CANCELLED"} /\ final[x] = "NONE"
  BY <1>1, <1>5 DEF Phases
<1>7. \A x \in Resas : resa[x].status = "CONFIRMED" => resa[x].paid BY DEF Orderly, PaidRows
<1>8. \A x \in Resas : resa[x].status = "CONFIRMED" <=> x \in job["farmer"].of
  BY <1>1 DEF InStatus
<1>9. job["farmer"].at = "cancel" => \E r \in job["farmer"].of : job["farmer"].one = {r}
  BY DEF Seats, FarmerSeat
<1> QED BY <1>1, <1>2, <1>3, <1>4, <1>6, <1>7, <1>8, <1>9

\* While the cron goes through a list, no client is about a row of it
LEMMA Expiring ==
  ASSUME ResaTypeOK, Seats, Phases, ClientsHold, Orderly, Regular, NEW r \in Resas, r \in job["cron"].of
  PROVE  /\ resa[r].status = "AWAITING_FINAL" /\ resa[r].due /\ ~Deleting
         /\ \A d \in Buyers : job[d].of = {r} => job[d].at \notin Depositing \cup Settling
<1>1. resa[r].status = "AWAITING_FINAL" /\ resa[r].due BY DEF Orderly, SettledRows
<1>2. ~Deleting BY Deleter
<1>3. ASSUME NEW d \in Buyers, job[d].of = {r} PROVE job[d].at \notin Depositing \cup Settling
  BY <1>1, <1>3, Depositor, Settler
<1> QED BY <1>1, <1>2, <1>3

\* With no deposit in flight, nothing is pending
LEMMA NobodyDeposits ==
  ASSUME ResaTypeOK, Seats, Phases, ClientsHold, Orderly, ~DepositInFlight
  PROVE  /\ \A d \in Buyers : job[d].at \notin Depositing
         /\ \A x \in Resas : resa[x].status # "PENDING"
<1>1. \A d \in Buyers : job[d].at \notin Depositing BY DEF DepositInFlight, Paying, Depositing
<1> QED BY <1>1 DEF Orderly, PaidRows, OnIt

\* What is regular was
LEMMA RegularBefore ==
  ASSUME odd \subseteq odd', Regular'
  PROVE  Regular
  BY DEF Regular

\* Each step leaves the clients' reservations as they think
LEMMA ClientRowsStep ==
  ASSUME ResaTypeOK, Seats, Phases, ClientsHold, Listers, Orderly, Regular, Regular', ResaNext
  PROVE  ClientRows'
<1>1. ASSUME Aside PROVE ClientRows'
  BY <1>1 DEF Orderly, ClientRows, Aside
<1>2. ASSUME ConvertPrevision PROVE ClientRows'
  <2>0. ~DepositInFlight /\ forecast.status = "OPEN" /\ UNCHANGED <<final, purse, score, job>>
    <3>1. "early" \notin odd' BY DEF Regular
    <3> QED BY <1>2, ConvertEffect, <3>1, Zenon
  <2>n. /\ \A d \in Buyers : job[d].at \notin Depositing
        /\ \A x \in Resas : resa[x].status # "PENDING"
    BY <2>0, NobodyDeposits
  <2>m. \A d \in Buyers : job[d].at \notin Settling BY <2>0 DEF Phases, Paying
  <2>c. \A x \in Resas :
          IF resa[x].status = "CONFIRMED"
          THEN /\ resa'[x].status = "AWAITING_FINAL" /\ resa'[x].paid = resa[x].paid
               /\ ~resa'[x].due
          ELSE resa'[x] = resa[x]
    BY <1>2, ConvertEffect, <2>n
  <2> QED BY <2>0, <2>n, <2>m DEF ClientRows
<1>3. ASSUME NEW r \in Resas, CancelResa(r) PROVE ClientRows'
  <2>0. /\ job["farmer"].at = "cancel" /\ job["farmer"].one = {r}
        /\ Moves("farmer", "clear", job["farmer"].of \ {r}, {})
        /\ \/ resa[r].status = "NONE" /\ resa' = resa
           \/ resa[r].status # "NONE" /\ RowTo(r, "CANCELLED", resa[r].paid, resa[r].due)
        /\ UNCHANGED <<forecast, forSale, final, purse, score, odd>>
    BY <1>3, CancelEffect, Zenon
  <2>d. Deleting BY <1>3, CancelEffect DEF Deleting
  <2>f. /\ forecast.status = "OPEN" /\ job["cron"].at = "idle" /\ job["cron"].of = {}
        /\ \A d \in Buyers : job[d].at \notin Depositing \cup Settling
        /\ \A x \in Resas : /\ resa[x].status \in {"NONE", "CONFIRMED", "CANCELLED"}
                            /\ resa[x].status = "CONFIRMED" <=> x \in job["farmer"].of
                            /\ resa[x].status = "CONFIRMED" => resa[x].paid
                            /\ final[x] = "NONE"
        /\ job["farmer"].at = "cancel" => \E x \in job["farmer"].of : job["farmer"].one = {x}
    BY <2>d, Deleter
  <2>1. \A d \in Buyers : job'[d] = job[d] BY <2>0, ActorsDiffer DEF Moves
  <2> QED BY <2>1, <2>f DEF ClientRows
<1>4. ASSUME Erase PROVE ClientRows'
  <2>d. Deleting BY <1>4, EraseEffect DEF Deleting
  <2>f. /\ forecast.status = "OPEN" /\ job["cron"].at = "idle" /\ job["cron"].of = {}
        /\ \A d \in Buyers : job[d].at \notin Depositing \cup Settling
        /\ \A x \in Resas : /\ resa[x].status \in {"NONE", "CONFIRMED", "CANCELLED"}
                            /\ resa[x].status = "CONFIRMED" <=> x \in job["farmer"].of
                            /\ resa[x].status = "CONFIRMED" => resa[x].paid
                            /\ final[x] = "NONE"
        /\ job["farmer"].at = "cancel" => \E x \in job["farmer"].of : job["farmer"].one = {x}
    BY <2>d, Deleter
  <2>1. \A d \in Buyers : job'[d] = job[d] BY <1>4, EraseEffect, ActorsDiffer DEF Moves
  <2> QED BY <2>1, <2>f DEF ClientRows
<1>5. ASSUME NEW r \in Resas, Deadline(r) PROVE ClientRows'
  <2>1. job' = job /\ (\A x \in Resas : resa'[x].status = resa[x].status)
    BY <1>5, DeadlineEffect DEF RowTo
  <2> QED BY <2>1 DEF Orderly, ClientRows
<1>6. ASSUME NEW c \in Buyers, NEW r \in Resas, ReserverPrevision(c, r) PROVE ClientRows'
  <2>0. /\ Moves(c, "deposit", {r}, {}) /\ RowTo(r, "PENDING", FALSE, FALSE)
        /\ UNCHANGED <<forecast, forSale, final, purse, score>>
        /\ resa[r].status = "NONE" /\ job[c].at = "idle"
        /\ odd \subseteq odd' /\ (Deleting => "clash" \in odd') /\ Bookable
    BY <1>6, ReserveEffect, Zenon
  <2>1. \A d \in Buyers : d # c => job'[d] = job[d] BY <2>0, ActorsDiffer DEF Moves
  <2>2. \A x \in Resas : x # r => resa'[x] = resa[x] BY <2>0 DEF RowTo
  <2>3. job'[c].of \in {{}, {r}} BY <2>0 DEF Moves
  <2>4. job'[c].at = "deposit" /\ resa'[r].status = "PENDING" BY <2>0 DEF Moves, RowTo
  <2>5. \A d \in Buyers : job[d].of = {r} => job[d].at \notin Depositing \cup Settling
    BY <2>0 DEF Orderly, ClientRows
  <2> QED BY <2>1, <2>2, <2>3, <2>4, <2>5 DEF Orderly, ClientRows, Depositing, Settling
<1>7. ASSUME NEW c \in Buyers, NEW r \in Resas, OrderFinal(c, r) PROVE ClientRows'
  <2>0. /\ job[c].at = "idle" /\ resa[r].status = "AWAITING_FINAL" /\ ~resa[r].due
        /\ final[r] \notin {"SENT", "PAID"} /\ Moves(c, "balance", {r}, {})
        /\ UNCHANGED <<forecast, resa, forSale, purse, score, odd>>
    BY <1>7, OrderEffect, Zenon DEF Payable
  <2>1. \A d \in Buyers : d # c => job'[d] = job[d] BY <2>0, ActorsDiffer DEF Moves
  <2>2. \A x \in Resas : x # r => resa'[x] = resa[x] BY <2>0 DEF RowTo
  <2>3. job'[c].of \in {{}, {r}} BY <2>0 DEF Moves
  <2>4. job'[c].at = "balance" BY <2>0 DEF Moves
  <2> QED BY <2>0, <2>1, <2>3, <2>4 DEF Orderly, ClientRows, Depositing, Settling
<1>8. ASSUME NEW c \in Buyers, NEW r \in Resas, job[c].of = {r}, PayDeposit(c)
      PROVE ClientRows'
  <2>0. /\ job[c].at = "deposit"
        /\ Moves(c, "confirm", {r}, {}) \/ Moves(c, "drop", {r}, {})
        /\ UNCHANGED <<forecast, resa, forSale, final, score, odd>>
    BY <1>8, PayDepositEffect, Zenon
  <2>s. /\ resa[r].status = "PENDING" /\ ~Left(r) /\ ~Deleting
        /\ \A d \in Buyers : d # c /\ job[d].of = {r} => job[d].at \notin Depositing
        /\ \A d \in Buyers : job[d].of = {r} => job[d].at \notin Settling
    BY <1>8, <2>0, Depositor DEF Depositing
  <2>1. \A d \in Buyers : d # c => job'[d] = job[d] BY <2>0, ActorsDiffer DEF Moves
  <2>2. \A x \in Resas : x # r => resa'[x] = resa[x] BY <2>0 DEF RowTo
  <2>3. job'[c].of \in {{}, {r}} BY <2>0 DEF Moves
  <2>4. job'[c].at \in Depositing /\ job'[c].at \notin Settling
    BY <2>0 DEF Moves, Depositing, Settling
  <2> QED BY <2>0, <2>1, <2>3, <2>4, <2>s DEF Orderly, ClientRows
<1>9. ASSUME NEW c \in Buyers, NEW r \in Resas, job[c].of = {r}, ConfirmResa(c)
      PROVE ClientRows'
  <2>0. /\ job[c].at = "confirm" /\ Moves(c, "idle", {}, {})
        /\ \/ resa[r].status = "NONE" /\ resa' = resa
           \/ resa[r].status # "NONE" /\ RowTo(r, "CONFIRMED", TRUE, resa[r].due)
        /\ UNCHANGED <<forecast, forSale, final, purse, score, odd>>
    BY <1>9, ConfirmEffect, Zenon
  <2>s. /\ resa[r].status = "PENDING" /\ ~Left(r) /\ ~Deleting
        /\ \A d \in Buyers : d # c /\ job[d].of = {r} => job[d].at \notin Depositing
        /\ \A d \in Buyers : job[d].of = {r} => job[d].at \notin Settling
    BY <1>9, <2>0, Depositor DEF Depositing
  <2>1. \A d \in Buyers : d # c => job'[d] = job[d] BY <2>0, ActorsDiffer DEF Moves
  <2>2. \A x \in Resas : x # r => resa'[x] = resa[x] BY <2>0 DEF RowTo
  <2>3. job'[c].of \in {{}, {r}} BY <2>0 DEF Moves
  <2>4. job'[c].at \notin Depositing \cup Settling BY <2>0 DEF Moves, Depositing, Settling
  <2> QED BY <2>1, <2>2, <2>4, <2>s DEF Orderly, ClientRows
<1>10. ASSUME NEW c \in Buyers, NEW r \in Resas, job[c].of = {r}, DropResa(c)
      PROVE ClientRows'
  <2>0. /\ job[c].at = "drop" /\ Moves(c, "idle", {}, {})
        /\ RowTo(r, "NONE", FALSE, FALSE)
        /\ UNCHANGED <<forecast, forSale, final, purse, score, odd>>
    BY <1>10, DropEffect, Zenon
  <2>s. /\ resa[r].status = "PENDING" /\ ~Left(r) /\ ~Deleting
        /\ \A d \in Buyers : d # c /\ job[d].of = {r} => job[d].at \notin Depositing
        /\ \A d \in Buyers : job[d].of = {r} => job[d].at \notin Settling
    BY <1>10, <2>0, Depositor DEF Depositing
  <2>1. \A d \in Buyers : d # c => job'[d] = job[d] BY <2>0, ActorsDiffer DEF Moves
  <2>2. \A x \in Resas : x # r => resa'[x] = resa[x] BY <2>0 DEF RowTo
  <2>3. job'[c].of \in {{}, {r}} BY <2>0 DEF Moves
  <2>4. job'[c].at \notin Depositing \cup Settling BY <2>0 DEF Moves, Depositing, Settling
  <2> QED BY <2>1, <2>2, <2>4, <2>s DEF Orderly, ClientRows
<1>11. ASSUME NEW c \in Buyers, NEW r \in Resas, job[c].of = {r}, PayBalance(c)
      PROVE ClientRows'
  <2>0. /\ job[c].at = "balance"
        /\ Moves(c, "consume", {r}, {}) \/ Moves(c, "undo", {r}, {})
        /\ UNCHANGED <<forecast, resa, forSale, score, odd>>
    BY <1>11, BalanceEffect, Zenon
  <2>s. /\ resa[r].status = "AWAITING_FINAL" /\ ~resa[r].due /\ ~Left(r) /\ r \notin job["cron"].of
        /\ ClientKnows(c, r)
        /\ \A d \in Buyers : d # c => job[d].at \notin Settling
        /\ \A d \in Buyers : job[d].of = {r} => job[d].at \notin Depositing
    BY <1>11, <2>0, Settler DEF Settling
  <2>1. \A d \in Buyers : d # c => job'[d] = job[d] BY <2>0, ActorsDiffer DEF Moves
  <2>2. \A x \in Resas : x # r => resa'[x] = resa[x] BY <2>0 DEF RowTo
  <2>3. job'[c].of \in {{}, {r}} BY <2>0 DEF Moves
  <2>4. job'[c].at \in Settling /\ job'[c].at \notin Depositing
    BY <2>0 DEF Moves, Depositing, Settling
  <2> QED BY <2>0, <2>1, <2>3, <2>4, <2>s DEF Orderly, ClientRows
<1>12. ASSUME NEW c \in Buyers, NEW r \in Resas, job[c].of = {r}, ConsumeDeposit(c)
      PROVE ClientRows'
  <2>0. /\ job[c].at = "consume"
        /\ \/ resa[r].status = "NONE" /\ resa' = resa /\ Moves(c, "undo", {r}, {})
           \/ /\ resa[r].status # "NONE" /\ Moves(c, "idle", {}, {})
              /\ RowTo(r, "COMPLETED", resa[r].paid, resa[r].due)
        /\ UNCHANGED <<forecast, forSale, final, purse, score, odd>>
    BY <1>12, ConsumeEffect, Zenon
  <2>s. /\ resa[r].status = "AWAITING_FINAL" /\ ~resa[r].due /\ ~Left(r) /\ r \notin job["cron"].of
        /\ ClientKnows(c, r)
        /\ \A d \in Buyers : d # c => job[d].at \notin Settling
        /\ \A d \in Buyers : job[d].of = {r} => job[d].at \notin Depositing
    BY <1>12, <2>0, Settler DEF Settling
  <2>1. \A d \in Buyers : d # c => job'[d] = job[d] BY <2>0, ActorsDiffer DEF Moves
  <2>2. \A x \in Resas : x # r => resa'[x] = resa[x] BY <2>0 DEF RowTo
  <2>3. job'[c].of \in {{}, {r}} BY <2>0 DEF Moves
  <2>4. job'[c].at \notin Depositing \cup Settling BY <2>0, <2>s DEF Moves, Depositing, Settling
  <2> QED BY <2>1, <2>2, <2>4, <2>s DEF Orderly, ClientRows
<1>13. ASSUME NEW c \in Buyers, NEW r \in Resas, job[c].of = {r}, UndoFinal(c)
      PROVE ClientRows'
  <2>0. /\ job[c].at = "undo" /\ Moves(c, "idle", {}, {})
        /\ UNCHANGED <<forecast, resa, score, odd>>
    BY <1>13, UndoEffect, Zenon
  <2>1. \A d \in Buyers : d # c => job'[d] = job[d] BY <2>0, ActorsDiffer DEF Moves
  <2>2. \A x \in Resas : x # r => resa'[x] = resa[x] BY <2>0 DEF RowTo
  <2>3. job'[c].of \in {{}, {r}} BY <2>0 DEF Moves
  <2>4. job'[c].at \notin Depositing \cup Settling BY <2>0 DEF Moves, Depositing, Settling
  <2> QED BY <2>0, <2>1, <2>4 DEF Orderly, ClientRows
<1>14. ASSUME NEW r \in Resas, ReleaseKilos(r) PROVE ClientRows'
  <2>0. /\ job["cron"].at = "release" /\ job["cron"].one = {r}
        /\ Moves("cron", "settle", job["cron"].of \ {r}, {})
        /\ \/ resa[r].status = "NONE" /\ resa' = resa
           \/ resa[r].status # "NONE" /\ RowTo(r, "EXPIRED", resa[r].paid, resa[r].due)
        /\ UNCHANGED <<forecast, final, purse, score, odd>>
    BY <1>14, ReleaseEffect, Zenon
  <2>t. r \in job["cron"].of BY <2>0 DEF Seats, CronSeat
  <2>s. /\ resa[r].status = "AWAITING_FINAL" /\ resa[r].due /\ ~Deleting
        /\ \A d \in Buyers : job[d].of = {r} => job[d].at \notin Depositing \cup Settling
    BY <2>t, Expiring
  <2>1. \A d \in Buyers : job'[d] = job[d] BY <2>0, ActorsDiffer DEF Moves
  <2>2. \A x \in Resas : x # r => resa'[x] = resa[x] BY <2>0 DEF RowTo
  <2> QED BY <2>1, <2>2, <2>s DEF Orderly, ClientRows
<1> QED BY <1>1, <1>2, <1>3, <1>4, <1>5, <1>6, <1>7, <1>8, <1>9, <1>10, <1>11, <1>12, <1>13,
           <1>14, AsideSteps, Zenon

\* No step lets two clients pay one deposit
LEMMA OneDepositsStep ==
  ASSUME ResaTypeOK, Seats, Phases, ClientsHold, Listers, Orderly, Regular, Regular', ResaNext
  PROVE  OneDeposits'
<1>1. ASSUME Aside PROVE OneDeposits'
  BY <1>1 DEF Orderly, OneDeposits, Aside
<1>2. ASSUME ConvertPrevision PROVE OneDeposits'
  <2>1. \A d \in Buyers : job'[d].at \in Depositing => job[d].at \in Depositing /\ job'[d].of = job[d].of
    BY <1>2, ConvertEffect, ActorsDiffer DEF Moves
  <2> QED BY <2>1 DEF Orderly, OneDeposits
<1>3. ASSUME NEW r \in Resas, CancelResa(r) PROVE OneDeposits'
  <2>1. \A d \in Buyers : job'[d].at \in Depositing => job[d].at \in Depositing /\ job'[d].of = job[d].of
    BY <1>3, CancelEffect, ActorsDiffer DEF Moves
  <2> QED BY <2>1 DEF Orderly, OneDeposits
<1>4. ASSUME Erase PROVE OneDeposits'
  <2>1. \A d \in Buyers : job'[d].at \in Depositing => job[d].at \in Depositing /\ job'[d].of = job[d].of
    BY <1>4, EraseEffect, ActorsDiffer DEF Moves
  <2> QED BY <2>1 DEF Orderly, OneDeposits
<1>5. ASSUME NEW r \in Resas, Deadline(r) PROVE OneDeposits'
  <2>1. \A d \in Buyers : job'[d].at \in Depositing => job[d].at \in Depositing /\ job'[d].of = job[d].of
    BY <1>5, DeadlineEffect, ActorsDiffer DEF Moves
  <2> QED BY <2>1 DEF Orderly, OneDeposits
<1>6. ASSUME NEW c \in Buyers, NEW r \in Resas, ReserverPrevision(c, r) PROVE OneDeposits'
  <2>0. /\ Moves(c, "deposit", {r}, {}) /\ RowTo(r, "PENDING", FALSE, FALSE)
        /\ UNCHANGED <<forecast, forSale, final, purse, score>>
        /\ resa[r].status = "NONE" /\ job[c].at = "idle"
        /\ odd \subseteq odd' /\ (Deleting => "clash" \in odd') /\ Bookable
    BY <1>6, ReserveEffect, Zenon
  <2>1. \A d \in Buyers : d # c => job'[d] = job[d] BY <2>0, ActorsDiffer DEF Moves
  <2>2. \A x \in Resas : x # r => resa'[x] = resa[x] BY <2>0 DEF RowTo
  <2>3. job'[c].of \in {{}, {r}} BY <2>0 DEF Moves
  <2>4. job'[c].of = {r} BY <2>0 DEF Moves
  <2>5. \A d \in Buyers : job[d].of = {r} => job[d].at \notin Depositing
    BY <2>0 DEF Orderly, ClientRows
  <2>6. ASSUME NEW d \in Buyers, NEW e \in Buyers, job'[d].at \in Depositing, job'[e].at \in Depositing,
               job'[d].of = job'[e].of
        PROVE  d = e
    <3>1. CASE d # c /\ e # c BY <2>1, <2>6, <3>1 DEF Orderly, OneDeposits
    <3>2. CASE d = c \/ e = c BY <2>1, <2>4, <2>5, <2>6, <3>2
    <3> QED BY <3>1, <3>2
  <2> QED BY <2>6 DEF OneDeposits
<1>7. ASSUME NEW c \in Buyers, NEW r \in Resas, OrderFinal(c, r) PROVE OneDeposits'
  <2>0. /\ job[c].at = "idle" /\ resa[r].status = "AWAITING_FINAL" /\ ~resa[r].due
        /\ final[r] \notin {"SENT", "PAID"} /\ Moves(c, "balance", {r}, {})
        /\ UNCHANGED <<forecast, resa, forSale, purse, score, odd>>
    BY <1>7, OrderEffect, Zenon DEF Payable
  <2>1. \A d \in Buyers : job'[d].at \in Depositing => job[d].at \in Depositing /\ job'[d].of = job[d].of
    BY <1>7, <2>0, ActorsDiffer DEF Moves, Depositing
  <2> QED BY <2>1 DEF Orderly, OneDeposits
<1>8. ASSUME NEW c \in Buyers, NEW r \in Resas, job[c].of = {r}, PayDeposit(c)
      PROVE OneDeposits'
  <2>0. /\ job[c].at = "deposit"
        /\ Moves(c, "confirm", {r}, {}) \/ Moves(c, "drop", {r}, {})
        /\ UNCHANGED <<forecast, resa, forSale, final, score, odd>>
    BY <1>8, PayDepositEffect, Zenon
  <2>1. \A d \in Buyers : job'[d].at \in Depositing => job[d].at \in Depositing /\ job'[d].of = job[d].of
    BY <1>8, <2>0, ActorsDiffer DEF Moves, Depositing
  <2> QED BY <2>1 DEF Orderly, OneDeposits
<1>9. ASSUME NEW c \in Buyers, NEW r \in Resas, job[c].of = {r}, ConfirmResa(c)
      PROVE OneDeposits'
  <2>0. /\ job[c].at = "confirm" /\ Moves(c, "idle", {}, {})
        /\ \/ resa[r].status = "NONE" /\ resa' = resa
           \/ resa[r].status # "NONE" /\ RowTo(r, "CONFIRMED", TRUE, resa[r].due)
        /\ UNCHANGED <<forecast, forSale, final, purse, score, odd>>
    BY <1>9, ConfirmEffect, Zenon
  <2>1. \A d \in Buyers : job'[d].at \in Depositing => job[d].at \in Depositing /\ job'[d].of = job[d].of
    BY <1>9, <2>0, ActorsDiffer DEF Moves, Depositing
  <2> QED BY <2>1 DEF Orderly, OneDeposits
<1>10. ASSUME NEW c \in Buyers, NEW r \in Resas, job[c].of = {r}, DropResa(c)
      PROVE OneDeposits'
  <2>0. /\ job[c].at = "drop" /\ Moves(c, "idle", {}, {})
        /\ RowTo(r, "NONE", FALSE, FALSE)
        /\ UNCHANGED <<forecast, forSale, final, purse, score, odd>>
    BY <1>10, DropEffect, Zenon
  <2>1. \A d \in Buyers : job'[d].at \in Depositing => job[d].at \in Depositing /\ job'[d].of = job[d].of
    BY <1>10, <2>0, ActorsDiffer DEF Moves, Depositing
  <2> QED BY <2>1 DEF Orderly, OneDeposits
<1>11. ASSUME NEW c \in Buyers, NEW r \in Resas, job[c].of = {r}, PayBalance(c)
      PROVE OneDeposits'
  <2>0. /\ job[c].at = "balance"
        /\ Moves(c, "consume", {r}, {}) \/ Moves(c, "undo", {r}, {})
        /\ UNCHANGED <<forecast, resa, forSale, score, odd>>
    BY <1>11, BalanceEffect, Zenon
  <2>1. \A d \in Buyers : job'[d].at \in Depositing => job[d].at \in Depositing /\ job'[d].of = job[d].of
    BY <1>11, <2>0, ActorsDiffer DEF Moves, Depositing
  <2> QED BY <2>1 DEF Orderly, OneDeposits
<1>12. ASSUME NEW c \in Buyers, NEW r \in Resas, job[c].of = {r}, ConsumeDeposit(c)
      PROVE OneDeposits'
  <2>0. /\ job[c].at = "consume"
        /\ \/ resa[r].status = "NONE" /\ resa' = resa /\ Moves(c, "undo", {r}, {})
           \/ /\ resa[r].status # "NONE" /\ Moves(c, "idle", {}, {})
              /\ RowTo(r, "COMPLETED", resa[r].paid, resa[r].due)
        /\ UNCHANGED <<forecast, forSale, final, purse, score, odd>>
    BY <1>12, ConsumeEffect, Zenon
  <2>1. \A d \in Buyers : job'[d].at \in Depositing => job[d].at \in Depositing /\ job'[d].of = job[d].of
    BY <1>12, <2>0, ActorsDiffer DEF Moves, Depositing
  <2> QED BY <2>1 DEF Orderly, OneDeposits
<1>13. ASSUME NEW c \in Buyers, NEW r \in Resas, job[c].of = {r}, UndoFinal(c)
      PROVE OneDeposits'
  <2>0. /\ job[c].at = "undo" /\ Moves(c, "idle", {}, {})
        /\ UNCHANGED <<forecast, resa, score, odd>>
    BY <1>13, UndoEffect, Zenon
  <2>1. \A d \in Buyers : job'[d].at \in Depositing => job[d].at \in Depositing /\ job'[d].of = job[d].of
    BY <1>13, <2>0, ActorsDiffer DEF Moves, Depositing
  <2> QED BY <2>1 DEF Orderly, OneDeposits
<1>14. ASSUME NEW r \in Resas, ReleaseKilos(r) PROVE OneDeposits'
  <2>1. \A d \in Buyers : job'[d].at \in Depositing => job[d].at \in Depositing /\ job'[d].of = job[d].of
    BY <1>14, ReleaseEffect, ActorsDiffer DEF Moves
  <2> QED BY <2>1 DEF Orderly, OneDeposits
<1> QED BY <1>1, <1>2, <1>3, <1>4, <1>5, <1>6, <1>7, <1>8, <1>9, <1>10, <1>11, <1>12, <1>13,
           <1>14, AsideSteps, Zenon

\* Each step leaves confirmed reservations paid, and pending ones in hand
LEMMA PaidRowsStep ==
  ASSUME ResaTypeOK, Seats, Phases, ClientsHold, Listers, Orderly, Regular, Regular', ResaNext
  PROVE  PaidRows'
<1>1. ASSUME Aside PROVE PaidRows'
  BY <1>1 DEF Orderly, PaidRows, OnIt, Aside
<1>2. ASSUME ConvertPrevision PROVE PaidRows'
  <2>0. ~DepositInFlight /\ forecast.status = "OPEN" /\ UNCHANGED <<final, purse, score, job>>
    <3>1. "early" \notin odd' BY DEF Regular
    <3> QED BY <1>2, ConvertEffect, <3>1, Zenon
  <2>n. /\ \A d \in Buyers : job[d].at \notin Depositing
        /\ \A x \in Resas : resa[x].status # "PENDING"
    BY <2>0, NobodyDeposits
  <2>m. \A d \in Buyers : job[d].at \notin Settling BY <2>0 DEF Phases, Paying
  <2>c. \A x \in Resas :
          IF resa[x].status = "CONFIRMED"
          THEN /\ resa'[x].status = "AWAITING_FINAL" /\ resa'[x].paid = resa[x].paid
               /\ ~resa'[x].due
          ELSE resa'[x] = resa[x]
    BY <1>2, ConvertEffect, <2>n
  <2>1. \A x \in Resas : resa[x].status = "CONFIRMED" => resa[x].paid BY DEF Orderly, PaidRows
  <2>2. \A x \in Resas : resa'[x].status # "PENDING" BY <2>c, <2>n
  <2>3. \A x \in Resas : resa[x].status # "AWAITING_FINAL" BY <2>0 DEF Phases
  <2> QED BY <2>1, <2>2, <2>3, <2>c DEF PaidRows
<1>3. ASSUME NEW r \in Resas, CancelResa(r) PROVE PaidRows'
  <2>0. /\ job["farmer"].at = "cancel" /\ job["farmer"].one = {r}
        /\ Moves("farmer", "clear", job["farmer"].of \ {r}, {})
        /\ \/ resa[r].status = "NONE" /\ resa' = resa
           \/ resa[r].status # "NONE" /\ RowTo(r, "CANCELLED", resa[r].paid, resa[r].due)
        /\ UNCHANGED <<forecast, forSale, final, purse, score, odd>>
    BY <1>3, CancelEffect, Zenon
  <2>1. \A d \in Buyers : job'[d] = job[d] BY <2>0, ActorsDiffer DEF Moves
  <2>2. \A x \in Resas : x # r => resa'[x] = resa[x] BY <2>0 DEF RowTo
  <2>3. /\ resa'[r].status # "PENDING"
        /\ resa'[r].status \in {"CONFIRMED", "AWAITING_FINAL"} => resa'[r].paid
    BY <2>0 DEF RowTo, Orderly, PaidRows
  <2> QED BY <2>1, <2>2, <2>3 DEF Orderly, PaidRows, OnIt
<1>4. ASSUME Erase PROVE PaidRows'
  <2>1. \A x \in Resas : resa'[x].status = "NONE" BY <1>4, EraseEffect
  <2> QED BY <2>1 DEF PaidRows
<1>5. ASSUME NEW r \in Resas, Deadline(r) PROVE PaidRows'
  <2>1. \A d \in Buyers : job'[d] = job[d] BY <1>5, DeadlineEffect, ActorsDiffer DEF Moves
  <2>2. \A x \in Resas : x # r => resa'[x] = resa[x] BY <1>5, DeadlineEffect DEF RowTo
  <2>3. /\ resa'[r].status # "PENDING"
        /\ resa'[r].status \in {"CONFIRMED", "AWAITING_FINAL"} => resa'[r].paid
    BY <1>5, DeadlineEffect DEF RowTo, Orderly, PaidRows
  <2> QED BY <2>1, <2>2, <2>3 DEF Orderly, PaidRows, OnIt
<1>6. ASSUME NEW c \in Buyers, NEW r \in Resas, ReserverPrevision(c, r) PROVE PaidRows'
  <2>0. /\ Moves(c, "deposit", {r}, {}) /\ RowTo(r, "PENDING", FALSE, FALSE)
        /\ UNCHANGED <<forecast, forSale, final, purse, score>>
        /\ resa[r].status = "NONE" /\ job[c].at = "idle"
        /\ odd \subseteq odd' /\ (Deleting => "clash" \in odd') /\ Bookable
    BY <1>6, ReserveEffect, Zenon
  <2>1. \A d \in Buyers : d # c => job'[d] = job[d] BY <2>0, ActorsDiffer DEF Moves
  <2>2. \A x \in Resas : x # r => resa'[x] = resa[x] BY <2>0 DEF RowTo
  <2>3. job'[c].of \in {{}, {r}} BY <2>0 DEF Moves
  <2>5. ASSUME NEW x \in Resas, x # r, OnIt(Depositing, x) PROVE OnIt(Depositing, x)'
    <3>1. PICK d \in Buyers : job[d].at \in Depositing /\ job[d].of = {x} BY <2>5 DEF OnIt
    <3>2. d # c BY <1>6, <2>0, <2>5, <3>1 DEF Depositing
    <3> QED BY <2>1, <3>1, <3>2 DEF OnIt
  <2>6. OnIt(Depositing, r)' BY <2>0 DEF Moves, OnIt, Depositing
  <2>7. resa'[r].status = "PENDING" /\ ~resa'[r].paid BY <2>0 DEF RowTo
  <2> QED BY <2>2, <2>5, <2>6, <2>7 DEF Orderly, PaidRows
<1>7. ASSUME NEW c \in Buyers, NEW r \in Resas, OrderFinal(c, r) PROVE PaidRows'
  <2>0. /\ job[c].at = "idle" /\ resa[r].status = "AWAITING_FINAL" /\ ~resa[r].due
        /\ final[r] \notin {"SENT", "PAID"} /\ Moves(c, "balance", {r}, {})
        /\ UNCHANGED <<forecast, resa, forSale, purse, score, odd>>
    BY <1>7, OrderEffect, Zenon DEF Payable
  <2>1. \A d \in Buyers : d # c => job'[d] = job[d] BY <2>0, ActorsDiffer DEF Moves
  <2>2. \A x \in Resas : x # r => resa'[x] = resa[x] BY <2>0 DEF RowTo
  <2>3. job'[c].of \in {{}, {r}} BY <2>0 DEF Moves
  <2>5. \A x \in Resas : OnIt(Depositing, x) => OnIt(Depositing, x)'
    <3>1. job[c].at \notin Depositing BY <2>0 DEF Depositing
    <3> QED BY <2>1, <3>1 DEF OnIt
  <2> QED BY <2>0, <2>5 DEF Orderly, PaidRows
<1>8. ASSUME NEW c \in Buyers, NEW r \in Resas, job[c].of = {r}, PayDeposit(c)
      PROVE PaidRows'
  <2>0. /\ job[c].at = "deposit"
        /\ Moves(c, "confirm", {r}, {}) \/ Moves(c, "drop", {r}, {})
        /\ UNCHANGED <<forecast, resa, forSale, final, score, odd>>
    BY <1>8, PayDepositEffect, Zenon
  <2>1. \A d \in Buyers : d # c => job'[d] = job[d] BY <2>0, ActorsDiffer DEF Moves
  <2>2. \A x \in Resas : x # r => resa'[x] = resa[x] BY <2>0 DEF RowTo
  <2>3. job'[c].of \in {{}, {r}} BY <2>0 DEF Moves
  <2>5. ASSUME NEW x \in Resas, x # r, OnIt(Depositing, x) PROVE OnIt(Depositing, x)'
    <3>1. PICK d \in Buyers : job[d].at \in Depositing /\ job[d].of = {x} BY <2>5 DEF OnIt
    <3>2. d # c BY <1>8, <2>0, <2>5, <3>1 DEF Depositing
    <3> QED BY <2>1, <3>1, <3>2 DEF OnIt
  <2>6. OnIt(Depositing, r)'
    <3>1. job'[c].at \in Depositing /\ job'[c].of = {r} BY <2>0 DEF Moves, Depositing
    <3> QED BY <3>1 DEF OnIt
  <2> QED BY <2>0, <2>5, <2>6 DEF Orderly, PaidRows
<1>9. ASSUME NEW c \in Buyers, NEW r \in Resas, job[c].of = {r}, ConfirmResa(c)
      PROVE PaidRows'
  <2>0. /\ job[c].at = "confirm" /\ Moves(c, "idle", {}, {})
        /\ \/ resa[r].status = "NONE" /\ resa' = resa
           \/ resa[r].status # "NONE" /\ RowTo(r, "CONFIRMED", TRUE, resa[r].due)
        /\ UNCHANGED <<forecast, forSale, final, purse, score, odd>>
    BY <1>9, ConfirmEffect, Zenon
  <2>s. /\ resa[r].status = "PENDING" /\ ~Left(r) /\ ~Deleting
        /\ \A d \in Buyers : d # c /\ job[d].of = {r} => job[d].at \notin Depositing
        /\ \A d \in Buyers : job[d].of = {r} => job[d].at \notin Settling
    BY <1>9, <2>0, Depositor DEF Depositing
  <2>1. \A d \in Buyers : d # c => job'[d] = job[d] BY <2>0, ActorsDiffer DEF Moves
  <2>2. \A x \in Resas : x # r => resa'[x] = resa[x] BY <2>0 DEF RowTo
  <2>3. job'[c].of \in {{}, {r}} BY <2>0 DEF Moves
  <2>5. ASSUME NEW x \in Resas, x # r, OnIt(Depositing, x) PROVE OnIt(Depositing, x)'
    <3>1. PICK d \in Buyers : job[d].at \in Depositing /\ job[d].of = {x} BY <2>5 DEF OnIt
    <3>2. d # c BY <1>9, <2>0, <2>5, <3>1 DEF Depositing
    <3> QED BY <2>1, <3>1, <3>2 DEF OnIt
  <2>6. resa'[r].status = "CONFIRMED" /\ resa'[r].paid BY <2>0, <2>s DEF RowTo
  <2> QED BY <2>2, <2>5, <2>6 DEF Orderly, PaidRows
<1>10. ASSUME NEW c \in Buyers, NEW r \in Resas, job[c].of = {r}, DropResa(c)
      PROVE PaidRows'
  <2>0. /\ job[c].at = "drop" /\ Moves(c, "idle", {}, {})
        /\ RowTo(r, "NONE", FALSE, FALSE)
        /\ UNCHANGED <<forecast, forSale, final, purse, score, odd>>
    BY <1>10, DropEffect, Zenon
  <2>1. \A d \in Buyers : d # c => job'[d] = job[d] BY <2>0, ActorsDiffer DEF Moves
  <2>2. \A x \in Resas : x # r => resa'[x] = resa[x] BY <2>0 DEF RowTo
  <2>3. job'[c].of \in {{}, {r}} BY <2>0 DEF Moves
  <2>5. ASSUME NEW x \in Resas, x # r, OnIt(Depositing, x) PROVE OnIt(Depositing, x)'
    <3>1. PICK d \in Buyers : job[d].at \in Depositing /\ job[d].of = {x} BY <2>5 DEF OnIt
    <3>2. d # c BY <1>10, <2>0, <2>5, <3>1 DEF Depositing
    <3> QED BY <2>1, <3>1, <3>2 DEF OnIt
  <2>6. resa'[r].status = "NONE" BY <2>0 DEF RowTo
  <2> QED BY <2>2, <2>5, <2>6 DEF Orderly, PaidRows
<1>11. ASSUME NEW c \in Buyers, NEW r \in Resas, job[c].of = {r}, PayBalance(c)
      PROVE PaidRows'
  <2>0. /\ job[c].at = "balance"
        /\ Moves(c, "consume", {r}, {}) \/ Moves(c, "undo", {r}, {})
        /\ UNCHANGED <<forecast, resa, forSale, score, odd>>
    BY <1>11, BalanceEffect, Zenon
  <2>1. \A d \in Buyers : d # c => job'[d] = job[d] BY <2>0, ActorsDiffer DEF Moves
  <2>2. \A x \in Resas : x # r => resa'[x] = resa[x] BY <2>0 DEF RowTo
  <2>3. job'[c].of \in {{}, {r}} BY <2>0 DEF Moves
  <2>5. \A x \in Resas : OnIt(Depositing, x) => OnIt(Depositing, x)'
    <3>1. job[c].at \notin Depositing BY <2>0 DEF Depositing
    <3> QED BY <2>1, <3>1 DEF OnIt
  <2> QED BY <2>0, <2>5 DEF Orderly, PaidRows
<1>12. ASSUME NEW c \in Buyers, NEW r \in Resas, job[c].of = {r}, ConsumeDeposit(c)
      PROVE PaidRows'
  <2>0. /\ job[c].at = "consume"
        /\ \/ resa[r].status = "NONE" /\ resa' = resa /\ Moves(c, "undo", {r}, {})
           \/ /\ resa[r].status # "NONE" /\ Moves(c, "idle", {}, {})
              /\ RowTo(r, "COMPLETED", resa[r].paid, resa[r].due)
        /\ UNCHANGED <<forecast, forSale, final, purse, score, odd>>
    BY <1>12, ConsumeEffect, Zenon
  <2>s. /\ resa[r].status = "AWAITING_FINAL" /\ ~resa[r].due /\ ~Left(r) /\ r \notin job["cron"].of
        /\ ClientKnows(c, r)
        /\ \A d \in Buyers : d # c => job[d].at \notin Settling
        /\ \A d \in Buyers : job[d].of = {r} => job[d].at \notin Depositing
    BY <1>12, <2>0, Settler DEF Settling
  <2>1. \A d \in Buyers : d # c => job'[d] = job[d] BY <2>0, ActorsDiffer DEF Moves
  <2>2. \A x \in Resas : x # r => resa'[x] = resa[x] BY <2>0 DEF RowTo
  <2>3. job'[c].of \in {{}, {r}} BY <2>0 DEF Moves
  <2>5. \A x \in Resas : OnIt(Depositing, x) => OnIt(Depositing, x)'
    <3>1. job[c].at \notin Depositing BY <2>0 DEF Depositing
    <3> QED BY <2>1, <3>1 DEF OnIt
  <2>6. resa'[r].status = "COMPLETED" BY <2>0, <2>s DEF RowTo
  <2> QED BY <2>2, <2>5, <2>6 DEF Orderly, PaidRows
<1>13. ASSUME NEW c \in Buyers, NEW r \in Resas, job[c].of = {r}, UndoFinal(c)
      PROVE PaidRows'
  <2>0. /\ job[c].at = "undo" /\ Moves(c, "idle", {}, {})
        /\ UNCHANGED <<forecast, resa, score, odd>>
    BY <1>13, UndoEffect, Zenon
  <2>1. \A d \in Buyers : d # c => job'[d] = job[d] BY <2>0, ActorsDiffer DEF Moves
  <2>2. \A x \in Resas : x # r => resa'[x] = resa[x] BY <2>0 DEF RowTo
  <2>3. job'[c].of \in {{}, {r}} BY <2>0 DEF Moves
  <2>5. \A x \in Resas : OnIt(Depositing, x) => OnIt(Depositing, x)'
    <3>1. job[c].at \notin Depositing BY <2>0 DEF Depositing
    <3> QED BY <2>1, <3>1 DEF OnIt
  <2> QED BY <2>0, <2>5 DEF Orderly, PaidRows
<1>14. ASSUME NEW r \in Resas, ReleaseKilos(r) PROVE PaidRows'
  <2>0. /\ job["cron"].at = "release" /\ job["cron"].one = {r}
        /\ Moves("cron", "settle", job["cron"].of \ {r}, {})
        /\ \/ resa[r].status = "NONE" /\ resa' = resa
           \/ resa[r].status # "NONE" /\ RowTo(r, "EXPIRED", resa[r].paid, resa[r].due)
        /\ UNCHANGED <<forecast, final, purse, score, odd>>
    BY <1>14, ReleaseEffect, Zenon
  <2>1. \A d \in Buyers : job'[d] = job[d] BY <2>0, ActorsDiffer DEF Moves
  <2>2. \A x \in Resas : x # r => resa'[x] = resa[x] BY <2>0 DEF RowTo
  <2>3. /\ resa'[r].status # "PENDING"
        /\ resa'[r].status \in {"CONFIRMED", "AWAITING_FINAL"} => resa'[r].paid
    BY <2>0 DEF RowTo, Orderly, PaidRows
  <2> QED BY <2>1, <2>2, <2>3 DEF Orderly, PaidRows, OnIt
<1> QED BY <1>1, <1>2, <1>3, <1>4, <1>5, <1>6, <1>7, <1>8, <1>9, <1>10, <1>11, <1>12, <1>13,
           <1>14, AsideSteps, Zenon

\* Each step leaves the farmer the confirmed reservations: his refunds do not fail
LEMMA ClearedRowsStep ==
  ASSUME ResaTypeOK, Seats, Phases, ClientsHold, Listers, Orderly, Regular, Regular',
         \A x \in Resas : Live(x) => purse.escrow >= Deposit, ResaNext
  PROVE  ClearedRows'
<1>1. ASSUME NEW kg \in Sizes, NEW co \in {"NONE", "PENDING"}, CreatePrevision(kg, co)
      PROVE ClearedRows'
  <2>1. ~Deleting' BY <1>1, CreateEffect DEF Moves, Deleting
  <2> QED BY <2>1 DEF ClearedRows
<1>2. ASSUME NEW kg \in Sizes, UpdatePrevision(kg) PROVE ClearedRows'
  <2>1. ~Deleting' BY <1>2, UpdateEffect DEF Moves, Deleting
  <2> QED BY <2>1 DEF ClearedRows
<1>3. ASSUME CheckUpdate PROVE ClearedRows'
  <2>1. ~Deleting' BY <1>3, CheckEffect DEF Moves, Deleting
  <2> QED BY <2>1 DEF ClearedRows
<1>4. ASSUME CheckValidate PROVE ClearedRows'
  <2>1. job'["farmer"] = job["farmer"] /\ forecast'.status = forecast.status /\ resa' = resa
    BY <1>4, CheckEffect, ActorsDiffer DEF Moves
  <2> QED BY <2>1 DEF Orderly, ClearedRows, Deleting, InStatus
<1>5. ASSUME ValidatePrevision \/ RejectPrevision PROVE ClearedRows'
  <2>1. job'["farmer"] = job["farmer"] /\ forecast'.status = forecast.status /\ resa' = resa
    BY <1>5, CoopEffect, ActorsDiffer DEF Moves
  <2> QED BY <2>1 DEF Orderly, ClearedRows, Deleting, InStatus
<1>6. ASSUME ConvertPrevision PROVE ClearedRows'
  <2>1. ~Deleting' BY <1>6, ConvertEffect DEF Moves, Deleting
  <2> QED BY <2>1 DEF ClearedRows
<1>7. ASSUME BeginDelete PROVE ClearedRows'
  <2>1. /\ forecast.status \in {"OPEN", "CONVERTED"} /\ UNCHANGED <<forecast, resa>>
        /\ Moves("farmer", "clear", InStatus({"PENDING", "CONFIRMED"}), {})
        /\ DepositInFlight => "clash" \in odd'
        /\ forecast.status = "CONVERTED" => "erased" \in odd'
    BY <1>7, DeleteEffect, Zenon
  <2>2. ~DepositInFlight /\ forecast.status = "OPEN" BY <2>1 DEF Regular
  <2>3. \A x \in Resas : resa[x].status # "PENDING" BY <2>2, NobodyDeposits
  <2>4. InStatus({"PENDING", "CONFIRMED"}) = InStatus({"CONFIRMED"})' BY <2>1, <2>3 DEF InStatus
  <2>5. job'["farmer"].of = InStatus({"PENDING", "CONFIRMED"}) BY <2>1 DEF Moves
  <2> QED BY <2>1, <2>2, <2>4, <2>5 DEF ClearedRows
<1>8. ASSUME NEW r \in Resas, ClearResa(r) PROVE ClearedRows'
  <2>d. Deleting BY <1>8, ClearEffect DEF Deleting
  <2>f. /\ forecast.status = "OPEN" /\ job["cron"].at = "idle" /\ job["cron"].of = {}
        /\ \A d \in Buyers : job[d].at \notin Depositing \cup Settling
        /\ \A x \in Resas : /\ resa[x].status \in {"NONE", "CONFIRMED", "CANCELLED"}
                            /\ resa[x].status = "CONFIRMED" <=> x \in job["farmer"].of
                            /\ resa[x].status = "CONFIRMED" => resa[x].paid
                            /\ final[x] = "NONE"
        /\ job["farmer"].at = "cancel" => \E x \in job["farmer"].of : job["farmer"].one = {x}
    BY <2>d, Deleter
  <2>1. resa[r].status = "CONFIRMED" /\ resa[r].paid BY <1>8, ClearEffect, <2>f
  <2>2. Live(r) BY <1>8, ClearEffect, <2>1, <2>f DEF Live, Left, OnIt, Settling
  <2>3. purse.escrow >= Deposit /\ purse.escrow \in Nat /\ Deposit \in Nat
    BY <2>2, ResaAssumption DEF ResaTypeOK
  <2>4. ~(purse.escrow < Deposit) BY <2>3
  <2>5. Moves("farmer", "cancel", job["farmer"].of, {r}) /\ UNCHANGED <<forecast, resa>>
    BY <1>8, ClearEffect, <2>4, Zenon
  <2>6. job'["farmer"].of = job["farmer"].of BY <2>5 DEF Moves
  <2> QED BY <2>d, <2>5, <2>6 DEF Orderly, ClearedRows, InStatus
<1>9. ASSUME NEW r \in Resas, CancelResa(r) PROVE ClearedRows'
  <2>0. /\ job["farmer"].at = "cancel" /\ job["farmer"].one = {r}
        /\ Moves("farmer", "clear", job["farmer"].of \ {r}, {})
        /\ \/ resa[r].status = "NONE" /\ resa' = resa
           \/ resa[r].status # "NONE" /\ RowTo(r, "CANCELLED", resa[r].paid, resa[r].due)
        /\ UNCHANGED <<forecast, forSale, final, purse, score, odd>>
    BY <1>9, CancelEffect, Zenon
  <2>d. Deleting BY <1>9, CancelEffect DEF Deleting
  <2>f. /\ forecast.status = "OPEN" /\ job["cron"].at = "idle" /\ job["cron"].of = {}
        /\ \A d \in Buyers : job[d].at \notin Depositing \cup Settling
        /\ \A x \in Resas : /\ resa[x].status \in {"NONE", "CONFIRMED", "CANCELLED"}
                            /\ resa[x].status = "CONFIRMED" <=> x \in job["farmer"].of
                            /\ resa[x].status = "CONFIRMED" => resa[x].paid
                            /\ final[x] = "NONE"
        /\ job["farmer"].at = "cancel" => \E x \in job["farmer"].of : job["farmer"].one = {x}
    BY <2>d, Deleter
  <2>1. r \in job["farmer"].of BY <2>0, <2>f
  <2>2. resa[r].status = "CONFIRMED" BY <2>1, <2>f
  <2>3. RowTo(r, "CANCELLED", resa[r].paid, resa[r].due) BY <2>0, <2>2
  <2>4. job'["farmer"].of = job["farmer"].of \ {r} /\ job["farmer"].of = InStatus({"CONFIRMED"})
    BY <2>0, <2>d DEF Moves, Orderly, ClearedRows
  <2>5. InStatus({"CONFIRMED"})' = InStatus({"CONFIRMED"}) \ {r} BY <2>3 DEF RowTo, InStatus
  <2> QED BY <2>0, <2>f, <2>4, <2>5 DEF ClearedRows
<1>10. ASSUME Penalise PROVE ClearedRows'
  <2>d. Deleting BY <1>10, PenaliseEffect DEF Deleting
  <2>1. job["farmer"].of = {} /\ job'["farmer"].of = {} /\ UNCHANGED <<forecast, resa>>
    BY <1>10, PenaliseEffect DEF Moves
  <2> QED BY <2>d, <2>1 DEF Orderly, ClearedRows, InStatus
<1>11. ASSUME Erase PROVE ClearedRows'
  <2>1. ~Deleting' BY <1>11, EraseEffect DEF Moves, Deleting
  <2> QED BY <2>1 DEF ClearedRows
<1>12. ASSUME NEW r \in Resas, Deadline(r) PROVE ClearedRows'
  <2>1. job' = job /\ forecast' = forecast /\ (\A x \in Resas : resa'[x].status = resa[x].status)
    BY <1>12, DeadlineEffect DEF RowTo
  <2> QED BY <2>1 DEF Orderly, ClearedRows, Deleting, InStatus
<1>13. ASSUME NEW c \in Buyers, NEW r \in Resas, ReserverPrevision(c, r)
      PROVE ClearedRows'
  <2>0. /\ Moves(c, "deposit", {r}, {}) /\ RowTo(r, "PENDING", FALSE, FALSE)
        /\ UNCHANGED <<forecast, forSale, final, purse, score>>
        /\ resa[r].status = "NONE" /\ job[c].at = "idle"
        /\ odd \subseteq odd' /\ (Deleting => "clash" \in odd') /\ Bookable
    BY <1>13, ReserveEffect, Zenon
  <2>1. job'["farmer"] = job["farmer"] BY <2>0, ActorsDiffer DEF Moves
  <2>2. ~Deleting' BY <2>0, <2>1 DEF Deleting, Regular
  <2> QED BY <2>2 DEF ClearedRows
<1>14. ASSUME NEW c \in Buyers, NEW r \in Resas, OrderFinal(c, r) PROVE ClearedRows'
  <2>0. /\ job[c].at = "idle" /\ resa[r].status = "AWAITING_FINAL" /\ ~resa[r].due
        /\ final[r] \notin {"SENT", "PAID"} /\ Moves(c, "balance", {r}, {})
        /\ UNCHANGED <<forecast, resa, forSale, purse, score, odd>>
    BY <1>14, OrderEffect, Zenon DEF Payable
  <2>1. job'["farmer"] = job["farmer"] /\ forecast'.status = forecast.status /\ resa' = resa
    BY <2>0, ActorsDiffer DEF Moves
  <2> QED BY <2>1 DEF Orderly, ClearedRows, Deleting, InStatus
<1>15. ASSUME NEW c \in Buyers, NEW r \in Resas, job[c].of = {r}, PayDeposit(c)
      PROVE ClearedRows'
  <2>0. /\ job[c].at = "deposit"
        /\ Moves(c, "confirm", {r}, {}) \/ Moves(c, "drop", {r}, {})
        /\ UNCHANGED <<forecast, resa, forSale, final, score, odd>>
    BY <1>15, PayDepositEffect, Zenon
  <2>1. job'["farmer"] = job["farmer"] /\ forecast'.status = forecast.status /\ resa' = resa
    BY <2>0, ActorsDiffer DEF Moves
  <2> QED BY <2>1 DEF Orderly, ClearedRows, Deleting, InStatus
<1>16. ASSUME NEW c \in Buyers, NEW r \in Resas, job[c].of = {r}, ConfirmResa(c)
      PROVE ClearedRows'
  <2>0. /\ job[c].at = "confirm" /\ Moves(c, "idle", {}, {})
        /\ \/ resa[r].status = "NONE" /\ resa' = resa
           \/ resa[r].status # "NONE" /\ RowTo(r, "CONFIRMED", TRUE, resa[r].due)
        /\ UNCHANGED <<forecast, forSale, final, purse, score, odd>>
    BY <1>16, ConfirmEffect, Zenon
  <2>s. /\ resa[r].status = "PENDING" /\ ~Left(r) /\ ~Deleting
        /\ \A d \in Buyers : d # c /\ job[d].of = {r} => job[d].at \notin Depositing
        /\ \A d \in Buyers : job[d].of = {r} => job[d].at \notin Settling
    BY <1>16, <2>0, Depositor DEF Depositing
  <2>1. job'["farmer"] = job["farmer"] BY <2>0, ActorsDiffer DEF Moves
  <2>2. ~Deleting' BY <2>s, <2>1 DEF Deleting
  <2> QED BY <2>2 DEF ClearedRows
<1>17. ASSUME NEW c \in Buyers, NEW r \in Resas, job[c].of = {r}, DropResa(c)
      PROVE ClearedRows'
  <2>0. /\ job[c].at = "drop" /\ Moves(c, "idle", {}, {})
        /\ RowTo(r, "NONE", FALSE, FALSE)
        /\ UNCHANGED <<forecast, forSale, final, purse, score, odd>>
    BY <1>17, DropEffect, Zenon
  <2>s. /\ resa[r].status = "PENDING" /\ ~Left(r) /\ ~Deleting
        /\ \A d \in Buyers : d # c /\ job[d].of = {r} => job[d].at \notin Depositing
        /\ \A d \in Buyers : job[d].of = {r} => job[d].at \notin Settling
    BY <1>17, <2>0, Depositor DEF Depositing
  <2>1. job'["farmer"] = job["farmer"] BY <2>0, ActorsDiffer DEF Moves
  <2>2. ~Deleting' BY <2>s, <2>1 DEF Deleting
  <2> QED BY <2>2 DEF ClearedRows
<1>18. ASSUME NEW c \in Buyers, NEW r \in Resas, job[c].of = {r}, PayBalance(c)
      PROVE ClearedRows'
  <2>0. /\ job[c].at = "balance"
        /\ Moves(c, "consume", {r}, {}) \/ Moves(c, "undo", {r}, {})
        /\ UNCHANGED <<forecast, resa, forSale, score, odd>>
    BY <1>18, BalanceEffect, Zenon
  <2>1. job'["farmer"] = job["farmer"] /\ forecast'.status = forecast.status /\ resa' = resa
    BY <2>0, ActorsDiffer DEF Moves
  <2> QED BY <2>1 DEF Orderly, ClearedRows, Deleting, InStatus
<1>19. ASSUME NEW c \in Buyers, NEW r \in Resas, job[c].of = {r}, ConsumeDeposit(c)
      PROVE ClearedRows'
  <2>0. /\ job[c].at = "consume"
        /\ \/ resa[r].status = "NONE" /\ resa' = resa /\ Moves(c, "undo", {r}, {})
           \/ /\ resa[r].status # "NONE" /\ Moves(c, "idle", {}, {})
              /\ RowTo(r, "COMPLETED", resa[r].paid, resa[r].due)
        /\ UNCHANGED <<forecast, forSale, final, purse, score, odd>>
    BY <1>19, ConsumeEffect, Zenon
  <2>s. /\ resa[r].status = "AWAITING_FINAL" /\ ~resa[r].due /\ ~Left(r) /\ r \notin job["cron"].of
        /\ ClientKnows(c, r)
        /\ \A d \in Buyers : d # c => job[d].at \notin Settling
        /\ \A d \in Buyers : job[d].of = {r} => job[d].at \notin Depositing
    BY <1>19, <2>0, Settler DEF Settling
  <2>1. job'["farmer"] = job["farmer"] BY <2>0, ActorsDiffer DEF Moves
  <2>2. ~Deleting BY <1>19, <2>0, Deleter DEF Settling
  <2>3. ~Deleting' BY <2>2, <2>1 DEF Deleting
  <2> QED BY <2>3 DEF ClearedRows
<1>20. ASSUME NEW c \in Buyers, NEW r \in Resas, job[c].of = {r}, UndoFinal(c)
      PROVE ClearedRows'
  <2>0. /\ job[c].at = "undo" /\ Moves(c, "idle", {}, {})
        /\ UNCHANGED <<forecast, resa, score, odd>>
    BY <1>20, UndoEffect, Zenon
  <2>1. job'["farmer"] = job["farmer"] /\ forecast'.status = forecast.status /\ resa' = resa
    BY <2>0, ActorsDiffer DEF Moves
  <2> QED BY <2>1 DEF Orderly, ClearedRows, Deleting, InStatus
<1>21. ASSUME ListExpired PROVE ClearedRows'
  <2>1. job'["farmer"] = job["farmer"] /\ forecast'.status = forecast.status /\ resa' = resa
    BY <1>21, ListEffect, ActorsDiffer DEF Moves
  <2> QED BY <2>1 DEF Orderly, ClearedRows, Deleting, InStatus
<1>22. ASSUME NEW r \in Resas, SettleDeposit(r) PROVE ClearedRows'
  <2>1. job'["farmer"] = job["farmer"] /\ forecast'.status = forecast.status /\ resa' = resa
    BY <1>22, SettleEffect, ActorsDiffer DEF Moves
  <2> QED BY <2>1 DEF Orderly, ClearedRows, Deleting, InStatus
<1>23. ASSUME NEW r \in Resas, ReleaseKilos(r) PROVE ClearedRows'
  <2>0. /\ job["cron"].at = "release" /\ job["cron"].one = {r}
        /\ Moves("cron", "settle", job["cron"].of \ {r}, {})
        /\ \/ resa[r].status = "NONE" /\ resa' = resa
           \/ resa[r].status # "NONE" /\ RowTo(r, "EXPIRED", resa[r].paid, resa[r].due)
        /\ UNCHANGED <<forecast, final, purse, score, odd>>
    BY <1>23, ReleaseEffect, Zenon
  <2>t. r \in job["cron"].of BY <2>0 DEF Seats, CronSeat
  <2>s. /\ resa[r].status = "AWAITING_FINAL" /\ resa[r].due /\ ~Deleting
        /\ \A d \in Buyers : job[d].of = {r} => job[d].at \notin Depositing \cup Settling
    BY <2>t, Expiring
  <2>1. job'["farmer"] = job["farmer"] BY <2>0, ActorsDiffer DEF Moves
  <2>2. ~Deleting' BY <2>s, <2>1 DEF Deleting
  <2> QED BY <2>2 DEF ClearedRows
<1>24. ASSUME EndExpiry PROVE ClearedRows'
  <2>1. job'["farmer"] = job["farmer"] /\ forecast'.status = forecast.status /\ resa' = resa
    BY <1>24, EndEffect, ActorsDiffer DEF Moves
  <2> QED BY <2>1 DEF Orderly, ClearedRows, Deleting, InStatus
<1> QED BY <1>1, <1>2, <1>3, <1>4, <1>5, <1>6, <1>7, <1>8, <1>9, <1>10, <1>11, <1>12, <1>13,
           <1>14, <1>15, <1>16, <1>17, <1>18, <1>19, <1>20, <1>21, <1>22, <1>23, <1>24,
           StepsOf, Zenon

\* Each step leaves the cron reservations awaiting their balance
LEMMA SettledRowsStep ==
  ASSUME ResaTypeOK, Seats, Phases, ClientsHold, Listers, Orderly, Regular, Regular', ResaNext
  PROVE  SettledRows'
<1>1. ASSUME NEW kg \in Sizes, NEW co \in {"NONE", "PENDING"}, CreatePrevision(kg, co)
      PROVE SettledRows'
  <2>1. job'["cron"] = job["cron"] /\ resa' = resa BY <1>1, CreateEffect, ActorsDiffer DEF Moves
  <2> QED BY <2>1 DEF Orderly, SettledRows
<1>2. ASSUME NEW kg \in Sizes, UpdatePrevision(kg) PROVE SettledRows'
  <2>1. job'["cron"] = job["cron"] /\ resa' = resa BY <1>2, UpdateEffect, ActorsDiffer DEF Moves
  <2> QED BY <2>1 DEF Orderly, SettledRows
<1>3. ASSUME CheckUpdate PROVE SettledRows'
  <2>1. job'["cron"] = job["cron"] /\ resa' = resa BY <1>3, CheckEffect, ActorsDiffer DEF Moves
  <2> QED BY <2>1 DEF Orderly, SettledRows
<1>4. ASSUME CheckValidate PROVE SettledRows'
  <2>1. job'["cron"] = job["cron"] /\ resa' = resa BY <1>4, CheckEffect, ActorsDiffer DEF Moves
  <2> QED BY <2>1 DEF Orderly, SettledRows
<1>5. ASSUME ValidatePrevision \/ RejectPrevision PROVE SettledRows'
  <2>1. job'["cron"] = job["cron"] /\ resa' = resa BY <1>5, CoopEffect, ActorsDiffer DEF Moves
  <2> QED BY <2>1 DEF Orderly, SettledRows
<1>6. ASSUME ConvertPrevision PROVE SettledRows'
  <2>0. ~DepositInFlight /\ forecast.status = "OPEN" /\ UNCHANGED <<final, purse, score, job>>
    <3>1. "early" \notin odd' BY DEF Regular
    <3> QED BY <1>6, ConvertEffect, <3>1, Zenon
  <2>n. /\ \A d \in Buyers : job[d].at \notin Depositing
        /\ \A x \in Resas : resa[x].status # "PENDING"
    BY <2>0, NobodyDeposits
  <2>m. \A d \in Buyers : job[d].at \notin Settling BY <2>0 DEF Phases, Paying
  <2>c. \A x \in Resas :
          IF resa[x].status = "CONFIRMED"
          THEN /\ resa'[x].status = "AWAITING_FINAL" /\ resa'[x].paid = resa[x].paid
               /\ ~resa'[x].due
          ELSE resa'[x] = resa[x]
    BY <1>6, ConvertEffect, <2>n
  <2>1. job["cron"].of = {} BY <2>0 DEF Phases, Busy, Seats, CronSeat, Bookable
  <2>2. job'["cron"] = job["cron"] BY <2>0, ActorsDiffer DEF Moves
  <2> QED BY <2>1, <2>2 DEF SettledRows
<1>7. ASSUME BeginDelete PROVE SettledRows'
  <2>1. job'["cron"] = job["cron"] /\ resa' = resa BY <1>7, DeleteEffect, ActorsDiffer DEF Moves
  <2> QED BY <2>1 DEF Orderly, SettledRows
<1>8. ASSUME NEW r \in Resas, ClearResa(r) PROVE SettledRows'
  <2>1. job'["cron"] = job["cron"] /\ resa' = resa BY <1>8, ClearEffect, ActorsDiffer DEF Moves
  <2> QED BY <2>1 DEF Orderly, SettledRows
<1>9. ASSUME NEW r \in Resas, CancelResa(r) PROVE SettledRows'
  <2>0. /\ job["farmer"].at = "cancel" /\ job["farmer"].one = {r}
        /\ Moves("farmer", "clear", job["farmer"].of \ {r}, {})
        /\ \/ resa[r].status = "NONE" /\ resa' = resa
           \/ resa[r].status # "NONE" /\ RowTo(r, "CANCELLED", resa[r].paid, resa[r].due)
        /\ UNCHANGED <<forecast, forSale, final, purse, score, odd>>
    BY <1>9, CancelEffect, Zenon
  <2>d. Deleting BY <1>9, CancelEffect DEF Deleting
  <2>f. /\ forecast.status = "OPEN" /\ job["cron"].at = "idle" /\ job["cron"].of = {}
        /\ \A d \in Buyers : job[d].at \notin Depositing \cup Settling
        /\ \A x \in Resas : /\ resa[x].status \in {"NONE", "CONFIRMED", "CANCELLED"}
                            /\ resa[x].status = "CONFIRMED" <=> x \in job["farmer"].of
                            /\ resa[x].status = "CONFIRMED" => resa[x].paid
                            /\ final[x] = "NONE"
        /\ job["farmer"].at = "cancel" => \E x \in job["farmer"].of : job["farmer"].one = {x}
    BY <2>d, Deleter
  <2>1. job["cron"].of = {} BY <2>f
  <2>2. job'["cron"] = job["cron"] BY <2>0, ActorsDiffer DEF Moves
  <2> QED BY <2>1, <2>2 DEF SettledRows
<1>10. ASSUME Penalise PROVE SettledRows'
  <2>1. job'["cron"] = job["cron"] /\ resa' = resa
    BY <1>10, PenaliseEffect, ActorsDiffer DEF Moves
  <2> QED BY <2>1 DEF Orderly, SettledRows
<1>11. ASSUME Erase PROVE SettledRows'
  <2>d. Deleting BY <1>11, EraseEffect DEF Deleting
  <2>f. /\ forecast.status = "OPEN" /\ job["cron"].at = "idle" /\ job["cron"].of = {}
        /\ \A d \in Buyers : job[d].at \notin Depositing \cup Settling
        /\ \A x \in Resas : /\ resa[x].status \in {"NONE", "CONFIRMED", "CANCELLED"}
                            /\ resa[x].status = "CONFIRMED" <=> x \in job["farmer"].of
                            /\ resa[x].status = "CONFIRMED" => resa[x].paid
                            /\ final[x] = "NONE"
        /\ job["farmer"].at = "cancel" => \E x \in job["farmer"].of : job["farmer"].one = {x}
    BY <2>d, Deleter
  <2>1. job["cron"].of = {} BY <2>f
  <2>2. job'["cron"] = job["cron"] BY <1>11, EraseEffect, ActorsDiffer DEF Moves
  <2> QED BY <2>1, <2>2 DEF SettledRows
<1>12. ASSUME NEW r \in Resas, Deadline(r) PROVE SettledRows'
  <2>1. job' = job BY <1>12, DeadlineEffect
  <2>2. /\ \A x \in Resas : x # r => resa'[x] = resa[x]
        /\ resa'[r].status = "AWAITING_FINAL" /\ resa'[r].due
    BY <1>12, DeadlineEffect DEF RowTo
  <2>4. job["cron"].of \subseteq Resas BY OfRows
  <2> QED BY <2>1, <2>2, <2>4 DEF Orderly, SettledRows
<1>13. ASSUME NEW c \in Buyers, NEW r \in Resas, ReserverPrevision(c, r)
      PROVE SettledRows'
  <2>0. /\ Moves(c, "deposit", {r}, {}) /\ RowTo(r, "PENDING", FALSE, FALSE)
        /\ UNCHANGED <<forecast, forSale, final, purse, score>>
        /\ resa[r].status = "NONE" /\ job[c].at = "idle"
        /\ odd \subseteq odd' /\ (Deleting => "clash" \in odd') /\ Bookable
    BY <1>13, ReserveEffect, Zenon
  <2>1. job["cron"].of = {} BY <2>0 DEF Phases, Busy, Seats, CronSeat, Bookable
  <2>2. job'["cron"] = job["cron"] BY <2>0, ActorsDiffer DEF Moves
  <2> QED BY <2>1, <2>2 DEF SettledRows
<1>14. ASSUME NEW c \in Buyers, NEW r \in Resas, OrderFinal(c, r) PROVE SettledRows'
  <2>0. /\ job[c].at = "idle" /\ resa[r].status = "AWAITING_FINAL" /\ ~resa[r].due
        /\ final[r] \notin {"SENT", "PAID"} /\ Moves(c, "balance", {r}, {})
        /\ UNCHANGED <<forecast, resa, forSale, purse, score, odd>>
    BY <1>14, OrderEffect, Zenon DEF Payable
  <2>1. job'["cron"] = job["cron"] /\ resa' = resa BY <2>0, ActorsDiffer DEF Moves
  <2> QED BY <2>1 DEF Orderly, SettledRows
<1>15. ASSUME NEW c \in Buyers, NEW r \in Resas, job[c].of = {r}, PayDeposit(c)
      PROVE SettledRows'
  <2>0. /\ job[c].at = "deposit"
        /\ Moves(c, "confirm", {r}, {}) \/ Moves(c, "drop", {r}, {})
        /\ UNCHANGED <<forecast, resa, forSale, final, score, odd>>
    BY <1>15, PayDepositEffect, Zenon
  <2>1. job'["cron"] = job["cron"] /\ resa' = resa BY <2>0, ActorsDiffer DEF Moves
  <2> QED BY <2>1 DEF Orderly, SettledRows
<1>16. ASSUME NEW c \in Buyers, NEW r \in Resas, job[c].of = {r}, ConfirmResa(c)
      PROVE SettledRows'
  <2>0. /\ job[c].at = "confirm" /\ Moves(c, "idle", {}, {})
        /\ \/ resa[r].status = "NONE" /\ resa' = resa
           \/ resa[r].status # "NONE" /\ RowTo(r, "CONFIRMED", TRUE, resa[r].due)
        /\ UNCHANGED <<forecast, forSale, final, purse, score, odd>>
    BY <1>16, ConfirmEffect, Zenon
  <2>s. /\ resa[r].status = "PENDING" /\ ~Left(r) /\ ~Deleting
        /\ \A d \in Buyers : d # c /\ job[d].of = {r} => job[d].at \notin Depositing
        /\ \A d \in Buyers : job[d].of = {r} => job[d].at \notin Settling
    BY <1>16, <2>0, Depositor DEF Depositing
  <2>1. job'["cron"] = job["cron"] BY <2>0, ActorsDiffer DEF Moves
  <2>2. \A x \in Resas : x # r => resa'[x] = resa[x] BY <2>0 DEF RowTo
  <2>3. r \notin job["cron"].of BY <2>s DEF Orderly, SettledRows
  <2>4. job["cron"].of \subseteq Resas BY OfRows
  <2>5. \A x \in job["cron"].of : resa'[x] = resa[x] BY <2>2, <2>3, <2>4
  <2> QED BY <2>1, <2>5 DEF Orderly, SettledRows
<1>17. ASSUME NEW c \in Buyers, NEW r \in Resas, job[c].of = {r}, DropResa(c)
      PROVE SettledRows'
  <2>0. /\ job[c].at = "drop" /\ Moves(c, "idle", {}, {})
        /\ RowTo(r, "NONE", FALSE, FALSE)
        /\ UNCHANGED <<forecast, forSale, final, purse, score, odd>>
    BY <1>17, DropEffect, Zenon
  <2>s. /\ resa[r].status = "PENDING" /\ ~Left(r) /\ ~Deleting
        /\ \A d \in Buyers : d # c /\ job[d].of = {r} => job[d].at \notin Depositing
        /\ \A d \in Buyers : job[d].of = {r} => job[d].at \notin Settling
    BY <1>17, <2>0, Depositor DEF Depositing
  <2>1. job'["cron"] = job["cron"] BY <2>0, ActorsDiffer DEF Moves
  <2>2. \A x \in Resas : x # r => resa'[x] = resa[x] BY <2>0 DEF RowTo
  <2>3. r \notin job["cron"].of BY <2>s DEF Orderly, SettledRows
  <2>4. job["cron"].of \subseteq Resas BY OfRows
  <2>5. \A x \in job["cron"].of : resa'[x] = resa[x] BY <2>2, <2>3, <2>4
  <2> QED BY <2>1, <2>5 DEF Orderly, SettledRows
<1>18. ASSUME NEW c \in Buyers, NEW r \in Resas, job[c].of = {r}, PayBalance(c)
      PROVE SettledRows'
  <2>0. /\ job[c].at = "balance"
        /\ Moves(c, "consume", {r}, {}) \/ Moves(c, "undo", {r}, {})
        /\ UNCHANGED <<forecast, resa, forSale, score, odd>>
    BY <1>18, BalanceEffect, Zenon
  <2>1. job'["cron"] = job["cron"] /\ resa' = resa BY <2>0, ActorsDiffer DEF Moves
  <2> QED BY <2>1 DEF Orderly, SettledRows
<1>19. ASSUME NEW c \in Buyers, NEW r \in Resas, job[c].of = {r}, ConsumeDeposit(c)
      PROVE SettledRows'
  <2>0. /\ job[c].at = "consume"
        /\ \/ resa[r].status = "NONE" /\ resa' = resa /\ Moves(c, "undo", {r}, {})
           \/ /\ resa[r].status # "NONE" /\ Moves(c, "idle", {}, {})
              /\ RowTo(r, "COMPLETED", resa[r].paid, resa[r].due)
        /\ UNCHANGED <<forecast, forSale, final, purse, score, odd>>
    BY <1>19, ConsumeEffect, Zenon
  <2>s. /\ resa[r].status = "AWAITING_FINAL" /\ ~resa[r].due /\ ~Left(r) /\ r \notin job["cron"].of
        /\ ClientKnows(c, r)
        /\ \A d \in Buyers : d # c => job[d].at \notin Settling
        /\ \A d \in Buyers : job[d].of = {r} => job[d].at \notin Depositing
    BY <1>19, <2>0, Settler DEF Settling
  <2>1. job'["cron"] = job["cron"] BY <2>0, ActorsDiffer DEF Moves
  <2>2. \A x \in Resas : x # r => resa'[x] = resa[x] BY <2>0 DEF RowTo
  <2>3. r \notin job["cron"].of BY <2>s DEF Orderly, SettledRows
  <2>4. job["cron"].of \subseteq Resas BY OfRows
  <2>5. \A x \in job["cron"].of : resa'[x] = resa[x] BY <2>2, <2>3, <2>4
  <2> QED BY <2>1, <2>5 DEF Orderly, SettledRows
<1>20. ASSUME NEW c \in Buyers, NEW r \in Resas, job[c].of = {r}, UndoFinal(c)
      PROVE SettledRows'
  <2>0. /\ job[c].at = "undo" /\ Moves(c, "idle", {}, {})
        /\ UNCHANGED <<forecast, resa, score, odd>>
    BY <1>20, UndoEffect, Zenon
  <2>1. job'["cron"] = job["cron"] /\ resa' = resa BY <2>0, ActorsDiffer DEF Moves
  <2> QED BY <2>1 DEF Orderly, SettledRows
<1>21. ASSUME ListExpired PROVE SettledRows'
  <2>1. job'["cron"].of = Expired /\ resa' = resa BY <1>21, ListEffect DEF Moves
  <2> QED BY <2>1 DEF SettledRows, Expired, InStatus
<1>22. ASSUME NEW r \in Resas, SettleDeposit(r) PROVE SettledRows'
  <2>1. job'["cron"].of \subseteq job["cron"].of /\ resa' = resa BY <1>22, SettleEffect DEF Moves
  <2> QED BY <2>1 DEF Orderly, SettledRows
<1>23. ASSUME NEW r \in Resas, ReleaseKilos(r) PROVE SettledRows'
  <2>0. /\ job["cron"].at = "release" /\ job["cron"].one = {r}
        /\ Moves("cron", "settle", job["cron"].of \ {r}, {})
        /\ \/ resa[r].status = "NONE" /\ resa' = resa
           \/ resa[r].status # "NONE" /\ RowTo(r, "EXPIRED", resa[r].paid, resa[r].due)
        /\ UNCHANGED <<forecast, final, purse, score, odd>>
    BY <1>23, ReleaseEffect, Zenon
  <2>1. job'["cron"].of = job["cron"].of \ {r} BY <2>0 DEF Moves
  <2>2. \A x \in Resas : x # r => resa'[x] = resa[x] BY <2>0 DEF RowTo
  <2>4. job["cron"].of \subseteq Resas BY OfRows
  <2>5. \A x \in job'["cron"].of : x \in job["cron"].of /\ resa'[x] = resa[x] BY <2>1, <2>2, <2>4
  <2> QED BY <2>5 DEF Orderly, SettledRows
<1>24. ASSUME EndExpiry PROVE SettledRows'
  <2>1. job'["cron"].of = {} BY <1>24, EndEffect DEF Moves
  <2> QED BY <2>1 DEF SettledRows
<1> QED BY <1>1, <1>2, <1>3, <1>4, <1>5, <1>6, <1>7, <1>8, <1>9, <1>10, <1>11, <1>12, <1>13,
           <1>14, <1>15, <1>16, <1>17, <1>18, <1>19, <1>20, <1>21, <1>22, <1>23, <1>24,
           StepsOf, Zenon

\* The escrow is the sum of what is held
Escrow == purse.escrow = SumFunctionOnSet(Held, Resas)

\* Its two inputs are what they were, for this reservation
Alike(r) == (Live(r)' <=> Live(r)) /\ (final'[r] = "PAID" <=> final[r] = "PAID")

\* What is held is a natural number
LEMMA HeldNat ==
  /\ \A x \in Resas : Held[x] \in Nat /\ Held'[x] \in Nat
  /\ IsFiniteSet(Resas) /\ Ints(Held, Resas) /\ Ints(Held', Resas)
<1>1. \A x \in Resas : Held[x] \in Nat /\ Held'[x] \in Nat BY ResaAssumption DEF Held
<1> QED BY <1>1, ResaAssumption DEF Ints

\* It is unchanged where its inputs are
LEMMA HeldAlike ==
  ASSUME NEW r \in Resas, Alike(r)
  PROVE  Held'[r] = Held[r]
  BY DEF Alike, Held

\* No money moves and nothing changes what is held
LEMMA EscrowSame ==
  ASSUME Escrow, purse'.escrow = purse.escrow, \A x \in Resas : Alike(x)
  PROVE  Escrow'
<1>1. \A x \in Resas : Held[x] = Held'[x] BY HeldAlike
<1>2. SumFunctionOnSet(Held, Resas) = SumFunctionOnSet(Held', Resas)
  BY <1>1, HeldNat, SumEqual
<1> QED BY <1>2 DEF Escrow

\* What is held changes at one reservation, by what moved
LEMMA EscrowMoved ==
  ASSUME Escrow, NEW r \in Resas, \A x \in Resas : x # r => Alike(x),
         NEW m \in Int, purse'.escrow = purse.escrow + m, Held'[r] = Held[r] + m
  PROVE  Escrow'
<1> DEFINE S == Resas \ {r}
<1>1. IsFiniteSet(S) /\ Ints(Held, S) /\ Ints(Held', S) BY HeldNat, FS_Subset DEF Ints
<1>2. \A x \in S : Held[x] = Held'[x] BY HeldAlike
<1>3. SumFunctionOnSet(Held, S) = SumFunctionOnSet(Held', S) BY <1>1, <1>2, SumEqual
<1>4. SumFunctionOnSet(Held, Resas) = Held[r] + SumFunctionOnSet(Held, S) BY HeldNat, SumRemove
<1>5. SumFunctionOnSet(Held', Resas) = Held'[r] + SumFunctionOnSet(Held', S) BY HeldNat, SumRemove
<1>6. SumFunctionOnSet(Held, S) \in Int BY <1>1, SumType
<1> HIDE DEF S
<1>7. SumFunctionOnSet(Held', Resas) = SumFunctionOnSet(Held, Resas) + m
  BY <1>3, <1>4, <1>5, <1>6, HeldNat
<1> QED BY <1>7 DEF Escrow

\* The escrow covers each deposit that is live
LEMMA EscrowCovers ==
  ASSUME Escrow
  PROVE  \A r \in Resas : Live(r) => purse.escrow >= Deposit
<1> SUFFICES ASSUME NEW r \in Resas, Live(r) PROVE purse.escrow >= Deposit OBVIOUS
<1>1. SumFunctionOnSet(Held, Resas) = Held[r] + SumFunctionOnSet(Held, Resas \ {r})
  BY HeldNat, SumRemove
<1>2. SumFunctionOnSet(Held, Resas \ {r}) \in Nat
  <2>1. IsFiniteSet(Resas \ {r}) /\ \A x \in Resas \ {r} : Held[x] \in Nat BY HeldNat, FS_Subset
  <2> QED BY <2>1, SumNat
<1>3. Held[r] >= Deposit BY ResaAssumption DEF Held
<1>4. Held[r] \in Nat BY HeldNat
<1> QED BY <1>1, <1>2, <1>3, <1>4, ResaAssumption DEF Escrow

\* Nothing Live depends on has changed
LEMMA LiveKept ==
  ASSUME NEW r \in Resas, resa'[r].status = resa[r].status, final'[r] = final[r],
         OnIt({"confirm"}, r)' <=> OnIt({"confirm"}, r),
         OnIt({"consume"}, r)' <=> OnIt({"consume"}, r), Left(r)' <=> Left(r)
  PROVE  Alike(r)
  BY DEF Live, Alike

\* No client's request moved
LEMMA ClientsKept ==
  ASSUME NEW r \in Resas, \A d \in Buyers : job'[d] = job[d]
  PROVE  /\ OnIt({"confirm"}, r)' <=> OnIt({"confirm"}, r)
         /\ OnIt({"consume"}, r)' <=> OnIt({"consume"}, r)
  BY DEF OnIt

\* A client's request moved, about another reservation
LEMMA OthersKept ==
  ASSUME NEW c \in Buyers, NEW r \in Resas, NEW x \in Resas, x # r,
         \A d \in Buyers : d # c => job'[d] = job[d],
         job[c].at = "idle" \/ job[c].of = {r}, job'[c].at = "idle" \/ job'[c].of = {r}
  PROVE  /\ OnIt({"confirm"}, x)' <=> OnIt({"confirm"}, x)
         /\ OnIt({"consume"}, x)' <=> OnIt({"consume"}, x)
<1>1. ~(job[c].at \in {"confirm", "consume"} /\ job[c].of = {x}) OBVIOUS
<1>2. ~(job'[c].at \in {"confirm", "consume"} /\ job'[c].of = {x}) OBVIOUS
<1> QED BY <1>1, <1>2 DEF OnIt

\* Neither the farmer's nor the cron's did
LEMMA LeftKept ==
  ASSUME job'["farmer"] = job["farmer"], job'["cron"] = job["cron"], NEW r \in Resas
  PROVE  Left(r)' <=> Left(r)
  BY DEF Left

\* Each step moves the money that what is held changes by
LEMMA EscrowStep ==
  ASSUME ResaTypeOK, ResaTypeOK', Seats, Phases, ClientsHold, Listers, Orderly, Escrow, Regular, Regular', ResaNext
  PROVE  Escrow'
<1>1. ASSUME NEW kg \in Sizes, NEW co \in {"NONE", "PENDING"}, CreatePrevision(kg, co)
      PROVE Escrow'
  <2>1. /\ \A d \in Buyers : job'[d] = job[d]
        /\ UNCHANGED <<resa, final>> /\ purse'.escrow = purse.escrow
    BY <1>1, CreateEffect, ActorsDiffer DEF Moves
  <2>2. \A x \in Resas : Left(x)' <=> Left(x) BY <1>1, CreateEffect, ActorsDiffer DEF Moves, Left
  <2>3. \A x \in Resas : Alike(x) BY <2>1, <2>2, ClientsKept, LiveKept
  <2> QED BY <2>1, <2>3, EscrowSame
<1>2. ASSUME NEW kg \in Sizes, UpdatePrevision(kg) PROVE Escrow'
  <2>1. /\ \A d \in Buyers : job'[d] = job[d]
        /\ UNCHANGED <<resa, final>> /\ purse'.escrow = purse.escrow
    BY <1>2, UpdateEffect, ActorsDiffer DEF Moves
  <2>2. \A x \in Resas : Left(x)' <=> Left(x) BY <1>2, UpdateEffect, ActorsDiffer DEF Moves, Left
  <2>3. \A x \in Resas : Alike(x) BY <2>1, <2>2, ClientsKept, LiveKept
  <2> QED BY <2>1, <2>3, EscrowSame
<1>3. ASSUME CheckUpdate PROVE Escrow'
  <2>1. /\ \A d \in Buyers : job'[d] = job[d]
        /\ UNCHANGED <<resa, final>> /\ purse'.escrow = purse.escrow
    BY <1>3, CheckEffect, ActorsDiffer DEF Moves
  <2>2. \A x \in Resas : Left(x)' <=> Left(x) BY <1>3, CheckEffect, ActorsDiffer DEF Moves, Left
  <2>3. \A x \in Resas : Alike(x) BY <2>1, <2>2, ClientsKept, LiveKept
  <2> QED BY <2>1, <2>3, EscrowSame
<1>4. ASSUME CheckValidate PROVE Escrow'
  <2>1. /\ \A d \in Buyers : job'[d] = job[d]
        /\ UNCHANGED <<resa, final>> /\ purse'.escrow = purse.escrow
    BY <1>4, CheckEffect, ActorsDiffer DEF Moves
  <2>2. \A x \in Resas : Left(x)' <=> Left(x) BY <1>4, CheckEffect, ActorsDiffer DEF Moves, Left
  <2>3. \A x \in Resas : Alike(x) BY <2>1, <2>2, ClientsKept, LiveKept
  <2> QED BY <2>1, <2>3, EscrowSame
<1>5. ASSUME ValidatePrevision \/ RejectPrevision PROVE Escrow'
  <2>1. /\ \A d \in Buyers : job'[d] = job[d]
        /\ UNCHANGED <<resa, final>> /\ purse'.escrow = purse.escrow
    BY <1>5, CoopEffect, ActorsDiffer DEF Moves
  <2>2. \A x \in Resas : Left(x)' <=> Left(x) BY <1>5, CoopEffect, ActorsDiffer DEF Moves, Left
  <2>3. \A x \in Resas : Alike(x) BY <2>1, <2>2, ClientsKept, LiveKept
  <2> QED BY <2>1, <2>3, EscrowSame
<1>6. ASSUME ConvertPrevision PROVE Escrow'
  <2>0. ~DepositInFlight /\ forecast.status = "OPEN" /\ UNCHANGED <<final, purse, score, job>>
    <3>1. "early" \notin odd' BY DEF Regular
    <3> QED BY <1>6, ConvertEffect, <3>1, Zenon
  <2>n. /\ \A d \in Buyers : job[d].at \notin Depositing
        /\ \A x \in Resas : resa[x].status # "PENDING"
    BY <2>0, NobodyDeposits
  <2>m. \A d \in Buyers : job[d].at \notin Settling BY <2>0 DEF Phases, Paying
  <2>c. \A x \in Resas :
          IF resa[x].status = "CONFIRMED"
          THEN /\ resa'[x].status = "AWAITING_FINAL" /\ resa'[x].paid = resa[x].paid
               /\ ~resa'[x].due
          ELSE resa'[x] = resa[x]
    BY <1>6, ConvertEffect, <2>n
  <2>1. \A x \in Resas : Left(x)' <=> Left(x) BY <2>0 DEF Left
  <2>2. \A x \in Resas : resa[x].status # "AWAITING_FINAL" BY <2>0 DEF Phases
  <2>3. \A x \in Resas : /\ OnIt({"confirm"}, x)' <=> OnIt({"confirm"}, x)
                         /\ OnIt({"consume"}, x)' <=> OnIt({"consume"}, x)
    BY <2>0, ClientsKept
  <2>4. \A x \in Resas : resa'[x].status \in {"CONFIRMED", "AWAITING_FINAL"}
                           <=> resa[x].status \in {"CONFIRMED", "AWAITING_FINAL"}
    BY <2>c
  <2>5. \A x \in Resas : Alike(x) BY <2>0, <2>1, <2>3, <2>4 DEF Alike, Live
  <2> QED BY <2>0, <2>5, EscrowSame
<1>7. ASSUME BeginDelete PROVE Escrow'
  <2>1. /\ \A d \in Buyers : job'[d] = job[d]
        /\ UNCHANGED <<resa, final>> /\ purse'.escrow = purse.escrow
    BY <1>7, DeleteEffect, ActorsDiffer DEF Moves
  <2>2. \A x \in Resas : Left(x)' <=> Left(x) BY <1>7, DeleteEffect, ActorsDiffer DEF Moves, Left
  <2>3. \A x \in Resas : Alike(x) BY <2>1, <2>2, ClientsKept, LiveKept
  <2> QED BY <2>1, <2>3, EscrowSame
<1>8. ASSUME NEW r \in Resas, ClearResa(r) PROVE Escrow'
  <2>d. Deleting BY <1>8, ClearEffect DEF Deleting
  <2>f. /\ forecast.status = "OPEN" /\ job["cron"].at = "idle" /\ job["cron"].of = {}
        /\ \A d \in Buyers : job[d].at \notin Depositing \cup Settling
        /\ \A x \in Resas : /\ resa[x].status \in {"NONE", "CONFIRMED", "CANCELLED"}
                            /\ resa[x].status = "CONFIRMED" <=> x \in job["farmer"].of
                            /\ resa[x].status = "CONFIRMED" => resa[x].paid
                            /\ final[x] = "NONE"
        /\ job["farmer"].at = "cancel" => \E x \in job["farmer"].of : job["farmer"].one = {x}
    BY <2>d, Deleter
  <2>1. resa[r].status = "CONFIRMED" /\ resa[r].paid BY <1>8, ClearEffect, <2>f
  <2>2. Live(r) BY <1>8, ClearEffect, <2>1, <2>f DEF Live, Left, OnIt, Settling
  <2>3. purse.escrow >= Deposit /\ purse.escrow \in Nat /\ Deposit \in Nat
    BY <2>2, EscrowCovers, ResaAssumption DEF ResaTypeOK
  <2>4. ~(purse.escrow < Deposit) BY <2>3
  <2>5. /\ Moves("farmer", "cancel", job["farmer"].of, {r}) /\ UNCHANGED <<resa, final>>
        /\ purse'.escrow = purse.escrow - Deposit /\ job["farmer"].at = "clear"
    BY <1>8, ClearEffect, <2>1, <2>4, Zenon
  <2>6. \A d \in Buyers : job'[d] = job[d] BY <2>5, ActorsDiffer DEF Moves
  <2>7. \A x \in Resas : x # r => (Left(x)' <=> Left(x)) BY <2>5, ActorsDiffer DEF Moves, Left
  <2>8. \A x \in Resas : x # r => Alike(x) BY <2>5, <2>6, <2>7, ClientsKept, LiveKept
  <2>9. ~Live(r)' BY <2>5, <2>6, <2>f DEF Moves, Live, Left, OnIt, Depositing
  <2>10. Held'[r] = Held[r] + (0 - Deposit) BY <2>2, <2>3, <2>5, <2>9, <2>f DEF Held
  <2>11. purse'.escrow = purse.escrow + (0 - Deposit) /\ 0 - Deposit \in Int BY <2>3, <2>5
  <2> QED BY <2>8, <2>10, <2>11, EscrowMoved
<1>9. ASSUME NEW r \in Resas, CancelResa(r) PROVE Escrow'
  <2>0. /\ job["farmer"].at = "cancel" /\ job["farmer"].one = {r}
        /\ Moves("farmer", "clear", job["farmer"].of \ {r}, {})
        /\ \/ resa[r].status = "NONE" /\ resa' = resa
           \/ resa[r].status # "NONE" /\ RowTo(r, "CANCELLED", resa[r].paid, resa[r].due)
        /\ UNCHANGED <<forecast, forSale, final, purse, score, odd>>
    BY <1>9, CancelEffect, Zenon
  <2>d. Deleting BY <1>9, CancelEffect DEF Deleting
  <2>f. /\ forecast.status = "OPEN" /\ job["cron"].at = "idle" /\ job["cron"].of = {}
        /\ \A d \in Buyers : job[d].at \notin Depositing \cup Settling
        /\ \A x \in Resas : /\ resa[x].status \in {"NONE", "CONFIRMED", "CANCELLED"}
                            /\ resa[x].status = "CONFIRMED" <=> x \in job["farmer"].of
                            /\ resa[x].status = "CONFIRMED" => resa[x].paid
                            /\ final[x] = "NONE"
        /\ job["farmer"].at = "cancel" => \E x \in job["farmer"].of : job["farmer"].one = {x}
    BY <2>d, Deleter
  <2>1. r \in job["farmer"].of BY <2>0, <2>f
  <2>2. resa[r].status = "CONFIRMED" BY <2>1, <2>f
  <2>3. RowTo(r, "CANCELLED", resa[r].paid, resa[r].due) BY <2>0, <2>2
  <2>6. \A d \in Buyers : job'[d] = job[d] BY <2>0, ActorsDiffer DEF Moves
  <2>7. \A x \in Resas : x # r => (Left(x)' <=> Left(x)) BY <2>0, ActorsDiffer DEF Moves, Left
  <2>8. \A x \in Resas : x # r => resa'[x] = resa[x] BY <2>0 DEF RowTo
  <2>9. \A x \in Resas : x # r => Alike(x) BY <2>0, <2>6, <2>7, <2>8, ClientsKept, LiveKept
  <2>10. ~OnIt({"confirm"}, r) /\ ~OnIt({"confirm"}, r)' BY <2>6, <2>f DEF OnIt, Depositing
  <2>11. ~Live(r) BY <2>0, <2>10 DEF Live, Left
  <2>12. ~Live(r)' BY <2>3, <2>10 DEF RowTo, Live
  <2>13. Alike(r) BY <2>0, <2>11, <2>12 DEF Alike
  <2> QED BY <2>0, <2>9, <2>13, EscrowSame
<1>10. ASSUME Penalise PROVE Escrow'
  <2>1. /\ \A d \in Buyers : job'[d] = job[d]
        /\ UNCHANGED <<resa, final>> /\ purse'.escrow = purse.escrow
    BY <1>10, PenaliseEffect, ActorsDiffer DEF Moves
  <2>2. \A x \in Resas : Left(x)' <=> Left(x)
    BY <1>10, PenaliseEffect, ActorsDiffer DEF Moves, Left
  <2>3. \A x \in Resas : Alike(x) BY <2>1, <2>2, ClientsKept, LiveKept
  <2> QED BY <2>1, <2>3, EscrowSame
<1>11. ASSUME Erase PROVE Escrow'
  <2>d. Deleting BY <1>11, EraseEffect DEF Deleting
  <2>f. /\ forecast.status = "OPEN" /\ job["cron"].at = "idle" /\ job["cron"].of = {}
        /\ \A d \in Buyers : job[d].at \notin Depositing \cup Settling
        /\ \A x \in Resas : /\ resa[x].status \in {"NONE", "CONFIRMED", "CANCELLED"}
                            /\ resa[x].status = "CONFIRMED" <=> x \in job["farmer"].of
                            /\ resa[x].status = "CONFIRMED" => resa[x].paid
                            /\ final[x] = "NONE"
        /\ job["farmer"].at = "cancel" => \E x \in job["farmer"].of : job["farmer"].one = {x}
    BY <2>d, Deleter
  <2>1. job["farmer"].of = {} BY <1>11, EraseEffect DEF Seats, FarmerSeat
  <2>2. /\ \A d \in Buyers : job'[d] = job[d]
        /\ final' = final /\ purse' = purse /\ (\A x \in Resas : resa'[x].status = "NONE")
    BY <1>11, EraseEffect, ActorsDiffer DEF Moves
  <2>3. \A x \in Resas : ~OnIt({"confirm"}, x) /\ ~OnIt({"confirm"}, x)'
    BY <2>2, <2>f DEF OnIt, Depositing
  <2>4. \A x \in Resas : resa[x].status \notin {"CONFIRMED", "AWAITING_FINAL"} BY <2>1, <2>f
  <2>5. \A x \in Resas : Alike(x) BY <2>2, <2>3, <2>4 DEF Alike, Live
  <2> QED BY <2>2, <2>5, EscrowSame
<1>12. ASSUME NEW r \in Resas, Deadline(r) PROVE Escrow'
  <2>1. /\ job' = job /\ final' = final /\ purse' = purse
        /\ \A x \in Resas : resa'[x].status = resa[x].status
    BY <1>12, DeadlineEffect DEF RowTo
  <2>2. \A x \in Resas : Left(x)' <=> Left(x) BY <2>1 DEF Left
  <2>3. \A x \in Resas : Alike(x) BY <2>1, <2>2, ClientsKept, LiveKept
  <2> QED BY <2>1, <2>3, EscrowSame
<1>13. ASSUME NEW c \in Buyers, NEW r \in Resas, ReserverPrevision(c, r) PROVE Escrow'
  <2>0. /\ Moves(c, "deposit", {r}, {}) /\ RowTo(r, "PENDING", FALSE, FALSE)
        /\ UNCHANGED <<forecast, forSale, final, purse, score>>
        /\ resa[r].status = "NONE" /\ job[c].at = "idle"
        /\ odd \subseteq odd' /\ (Deleting => "clash" \in odd') /\ Bookable
    BY <1>13, ReserveEffect, Zenon
  <2>1. \A d \in Buyers : d # c => job'[d] = job[d] BY <2>0, ActorsDiffer DEF Moves
  <2>2. \A x \in Resas : x # r => resa'[x] = resa[x] BY <2>0 DEF RowTo
  <2>3. job'["farmer"] = job["farmer"] /\ job'["cron"] = job["cron"]
    BY <2>0, ActorsDiffer DEF Moves
  <2>4. \A x \in Resas : Left(x)' <=> Left(x) BY <2>3, LeftKept
  <2>5. job[c].at = "idle" \/ job[c].of = {r} BY <1>13, <2>0
  <2>6. job'[c].at = "idle" \/ job'[c].of = {r} BY <2>0 DEF Moves
  <2>7. \A x \in Resas : x # r => /\ OnIt({"confirm"}, x)' <=> OnIt({"confirm"}, x)
                                  /\ OnIt({"consume"}, x)' <=> OnIt({"consume"}, x)
    BY <2>1, <2>5, <2>6, OthersKept
  <2>8. \A x \in Resas : x # r => Alike(x) BY <2>0, <2>2, <2>4, <2>7, LiveKept
  <2>9. \A d \in Buyers : job[d].of = {r} => job[d].at \notin Depositing
    BY <2>0 DEF Orderly, ClientRows
  <2>10. ~OnIt({"confirm"}, r) BY <2>9 DEF OnIt, Depositing
  <2>11. ~OnIt({"confirm"}, r)'
    <3>1. job'[c].at = "deposit" BY <2>0 DEF Moves
    <3> QED BY <2>1, <2>10, <3>1 DEF OnIt
  <2>12. resa[r].status = "NONE" /\ resa'[r].status = "PENDING" BY <2>0 DEF RowTo
  <2>13. Alike(r) BY <2>0, <2>10, <2>11, <2>12 DEF Alike, Live
  <2> QED BY <2>0, <2>8, <2>13, EscrowSame
<1>14. ASSUME NEW c \in Buyers, NEW r \in Resas, OrderFinal(c, r) PROVE Escrow'
  <2>0. /\ job[c].at = "idle" /\ resa[r].status = "AWAITING_FINAL" /\ ~resa[r].due
        /\ final[r] \notin {"SENT", "PAID"} /\ Moves(c, "balance", {r}, {})
        /\ UNCHANGED <<forecast, resa, forSale, purse, score, odd>>
    BY <1>14, OrderEffect, Zenon DEF Payable
  <2>1. \A d \in Buyers : d # c => job'[d] = job[d] BY <2>0, ActorsDiffer DEF Moves
  <2>2. \A x \in Resas : x # r => resa'[x] = resa[x] BY <2>0 DEF RowTo
  <2>3. job'["farmer"] = job["farmer"] /\ job'["cron"] = job["cron"]
    BY <2>0, ActorsDiffer DEF Moves
  <2>4. \A x \in Resas : Left(x)' <=> Left(x) BY <2>3, LeftKept
  <2>5. job[c].at = "idle" \/ job[c].of = {r} BY <1>14, <2>0
  <2>6. job'[c].at = "idle" \/ job'[c].of = {r} BY <2>0 DEF Moves
  <2>7. \A x \in Resas : x # r => /\ OnIt({"confirm"}, x)' <=> OnIt({"confirm"}, x)
                                  /\ OnIt({"consume"}, x)' <=> OnIt({"consume"}, x)
    BY <2>1, <2>5, <2>6, OthersKept
  <2>8. \A x \in Resas : x # r => Alike(x)
    <3>1. \A x \in Resas : x # r => final'[x] = final[x] BY <1>14, OrderEffect
    <3> QED BY <2>0, <2>2, <2>4, <2>7, <3>1, LiveKept
  <2>9. \A s \in {"confirm", "consume"} : OnIt({s}, r)' <=> OnIt({s}, r)
    <3>1. job[c].at = "idle" /\ job'[c].at = "balance" BY <2>0 DEF Moves
    <3> QED BY <2>1, <3>1 DEF OnIt
  <2>10. final'[r] = "SENT" BY <1>14, OrderEffect, Zenon
  <2>11. Alike(r) BY <2>0, <2>4, <2>9, <2>10 DEF Alike, Live
  <2> QED BY <2>0, <2>8, <2>11, EscrowSame
<1>15. ASSUME NEW c \in Buyers, NEW r \in Resas, job[c].of = {r}, PayDeposit(c)
      PROVE Escrow'
  <2>0. /\ job[c].at = "deposit"
        /\ Moves(c, "confirm", {r}, {}) \/ Moves(c, "drop", {r}, {})
        /\ UNCHANGED <<forecast, resa, forSale, final, score, odd>>
    BY <1>15, PayDepositEffect, Zenon
  <2>s. /\ resa[r].status = "PENDING" /\ ~Left(r) /\ ~Deleting
        /\ \A d \in Buyers : d # c /\ job[d].of = {r} => job[d].at \notin Depositing
        /\ \A d \in Buyers : job[d].of = {r} => job[d].at \notin Settling
    BY <1>15, <2>0, Depositor DEF Depositing
  <2>1. \A d \in Buyers : d # c => job'[d] = job[d] BY <2>0, ActorsDiffer DEF Moves
  <2>2. \A x \in Resas : x # r => resa'[x] = resa[x] BY <2>0 DEF RowTo
  <2>3. job'["farmer"] = job["farmer"] /\ job'["cron"] = job["cron"]
    BY <2>0, ActorsDiffer DEF Moves
  <2>4. \A x \in Resas : Left(x)' <=> Left(x) BY <2>3, LeftKept
  <2>5. job[c].at = "idle" \/ job[c].of = {r} BY <1>15, <2>0
  <2>6. job'[c].at = "idle" \/ job'[c].of = {r} BY <2>0 DEF Moves
  <2>7. \A x \in Resas : x # r => /\ OnIt({"confirm"}, x)' <=> OnIt({"confirm"}, x)
                                  /\ OnIt({"consume"}, x)' <=> OnIt({"consume"}, x)
    BY <2>1, <2>5, <2>6, OthersKept
  <2>8. \A x \in Resas : x # r => Alike(x) BY <2>0, <2>2, <2>4, <2>7, LiveKept
  <2>9. ~OnIt({"confirm"}, r)
    <3>1. job[c].at # "confirm" BY <2>0
    <3> QED BY <2>s, <3>1 DEF OnIt, Depositing
  <2>10. ~Live(r) BY <2>s, <2>9 DEF Live
  <2>11. CASE purse' = purse /\ Moves(c, "drop", {r}, {})
    <3>1. ~OnIt({"confirm"}, r)'
      <4>1. job'[c].at = "drop" BY <2>11 DEF Moves
      <4> QED BY <2>1, <2>9, <4>1 DEF OnIt
    <3>2. Alike(r) BY <2>0, <2>s, <2>10, <3>1 DEF Alike, Live
    <3> QED BY <2>8, <2>11, <3>2, EscrowSame
  <2>12. CASE purse'.escrow = purse.escrow + Deposit /\ Moves(c, "confirm", {r}, {})
    <3>1. Live(r)'
      <4>1. job'[c].at = "confirm" /\ job'[c].of = {r} BY <2>12 DEF Moves
      <4> QED BY <4>1 DEF Live, OnIt
    <3>2. Held'[r] = Held[r] + Deposit BY <2>0, <2>10, <3>1, ResaAssumption DEF Held
    <3> QED BY <2>8, <2>12, <3>2, EscrowMoved, ResaAssumption
  <2> QED BY <1>15, PayDepositEffect, <2>11, <2>12, Zenon
<1>16. ASSUME NEW c \in Buyers, NEW r \in Resas, job[c].of = {r}, ConfirmResa(c)
      PROVE Escrow'
  <2>0. /\ job[c].at = "confirm" /\ Moves(c, "idle", {}, {})
        /\ \/ resa[r].status = "NONE" /\ resa' = resa
           \/ resa[r].status # "NONE" /\ RowTo(r, "CONFIRMED", TRUE, resa[r].due)
        /\ UNCHANGED <<forecast, forSale, final, purse, score, odd>>
    BY <1>16, ConfirmEffect, Zenon
  <2>s. /\ resa[r].status = "PENDING" /\ ~Left(r) /\ ~Deleting
        /\ \A d \in Buyers : d # c /\ job[d].of = {r} => job[d].at \notin Depositing
        /\ \A d \in Buyers : job[d].of = {r} => job[d].at \notin Settling
    BY <1>16, <2>0, Depositor DEF Depositing
  <2>1. \A d \in Buyers : d # c => job'[d] = job[d] BY <2>0, ActorsDiffer DEF Moves
  <2>2. \A x \in Resas : x # r => resa'[x] = resa[x] BY <2>0 DEF RowTo
  <2>3. job'["farmer"] = job["farmer"] /\ job'["cron"] = job["cron"]
    BY <2>0, ActorsDiffer DEF Moves
  <2>4. \A x \in Resas : Left(x)' <=> Left(x) BY <2>3, LeftKept
  <2>5. job[c].at = "idle" \/ job[c].of = {r} BY <1>16, <2>0
  <2>6. job'[c].at = "idle" \/ job'[c].of = {r} BY <2>0 DEF Moves
  <2>7. \A x \in Resas : x # r => /\ OnIt({"confirm"}, x)' <=> OnIt({"confirm"}, x)
                                  /\ OnIt({"consume"}, x)' <=> OnIt({"consume"}, x)
    BY <2>1, <2>5, <2>6, OthersKept
  <2>8. \A x \in Resas : x # r => Alike(x) BY <2>0, <2>2, <2>4, <2>7, LiveKept
  <2>9. Live(r) BY <1>16, <2>0 DEF Live, OnIt
  <2>10. resa'[r].status = "CONFIRMED" BY <2>0, <2>s DEF RowTo
  <2>11. ~OnIt({"consume"}, r)'
    <3>1. job'[c].at = "idle" BY <2>0 DEF Moves
    <3> QED BY <2>1, <2>s, <3>1 DEF OnIt, Settling
  <2>12. Live(r)' BY <2>4, <2>10, <2>11, <2>s DEF Live
  <2>13. Alike(r) BY <2>0, <2>9, <2>12 DEF Alike
  <2> QED BY <2>0, <2>8, <2>13, EscrowSame
<1>17. ASSUME NEW c \in Buyers, NEW r \in Resas, job[c].of = {r}, DropResa(c)
      PROVE Escrow'
  <2>0. /\ job[c].at = "drop" /\ Moves(c, "idle", {}, {})
        /\ RowTo(r, "NONE", FALSE, FALSE)
        /\ UNCHANGED <<forecast, forSale, final, purse, score, odd>>
    BY <1>17, DropEffect, Zenon
  <2>s. /\ resa[r].status = "PENDING" /\ ~Left(r) /\ ~Deleting
        /\ \A d \in Buyers : d # c /\ job[d].of = {r} => job[d].at \notin Depositing
        /\ \A d \in Buyers : job[d].of = {r} => job[d].at \notin Settling
    BY <1>17, <2>0, Depositor DEF Depositing
  <2>1. \A d \in Buyers : d # c => job'[d] = job[d] BY <2>0, ActorsDiffer DEF Moves
  <2>2. \A x \in Resas : x # r => resa'[x] = resa[x] BY <2>0 DEF RowTo
  <2>3. job'["farmer"] = job["farmer"] /\ job'["cron"] = job["cron"]
    BY <2>0, ActorsDiffer DEF Moves
  <2>4. \A x \in Resas : Left(x)' <=> Left(x) BY <2>3, LeftKept
  <2>5. job[c].at = "idle" \/ job[c].of = {r} BY <1>17, <2>0
  <2>6. job'[c].at = "idle" \/ job'[c].of = {r} BY <2>0 DEF Moves
  <2>7. \A x \in Resas : x # r => /\ OnIt({"confirm"}, x)' <=> OnIt({"confirm"}, x)
                                  /\ OnIt({"consume"}, x)' <=> OnIt({"consume"}, x)
    BY <2>1, <2>5, <2>6, OthersKept
  <2>8. \A x \in Resas : x # r => Alike(x) BY <2>0, <2>2, <2>4, <2>7, LiveKept
  <2>9. ~OnIt({"confirm"}, r)
    <3>1. job[c].at # "confirm" BY <2>0
    <3> QED BY <2>s, <3>1 DEF OnIt, Depositing
  <2>10. ~OnIt({"confirm"}, r)'
    <3>1. job'[c].at = "idle" BY <2>0 DEF Moves
    <3> QED BY <2>1, <2>9, <3>1 DEF OnIt
  <2>11. resa'[r].status = "NONE" BY <2>0 DEF RowTo
  <2>12. Alike(r) BY <2>0, <2>9, <2>10, <2>11, <2>s DEF Alike, Live
  <2> QED BY <2>0, <2>8, <2>12, EscrowSame
<1>18. ASSUME NEW c \in Buyers, NEW r \in Resas, job[c].of = {r}, PayBalance(c)
      PROVE Escrow'
  <2>0. /\ job[c].at = "balance"
        /\ Moves(c, "consume", {r}, {}) \/ Moves(c, "undo", {r}, {})
        /\ UNCHANGED <<forecast, resa, forSale, score, odd>>
    BY <1>18, BalanceEffect, Zenon
  <2>s. /\ resa[r].status = "AWAITING_FINAL" /\ ~resa[r].due /\ ~Left(r) /\ r \notin job["cron"].of
        /\ ClientKnows(c, r)
        /\ \A d \in Buyers : d # c => job[d].at \notin Settling
        /\ \A d \in Buyers : job[d].of = {r} => job[d].at \notin Depositing
    BY <1>18, <2>0, Settler DEF Settling
  <2>1. \A d \in Buyers : d # c => job'[d] = job[d] BY <2>0, ActorsDiffer DEF Moves
  <2>2. \A x \in Resas : x # r => resa'[x] = resa[x] BY <2>0 DEF RowTo
  <2>3. job'["farmer"] = job["farmer"] /\ job'["cron"] = job["cron"]
    BY <2>0, ActorsDiffer DEF Moves
  <2>4. \A x \in Resas : Left(x)' <=> Left(x) BY <2>3, LeftKept
  <2>5. job[c].at = "idle" \/ job[c].of = {r} BY <1>18, <2>0
  <2>6. job'[c].at = "idle" \/ job'[c].of = {r} BY <2>0 DEF Moves
  <2>7. \A x \in Resas : x # r => /\ OnIt({"confirm"}, x)' <=> OnIt({"confirm"}, x)
                                  /\ OnIt({"consume"}, x)' <=> OnIt({"consume"}, x)
    BY <2>1, <2>5, <2>6, OthersKept
  <2>8. \A x \in Resas : x # r => Alike(x)
    <3>1. \A x \in Resas : x # r => final'[x] = final[x] BY <1>18, BalanceEffect
    <3> QED BY <2>0, <2>2, <2>4, <2>7, <3>1, LiveKept
  <2>9. ~OnIt({"confirm"}, r) BY <2>s DEF OnIt, Depositing
  <2>10. ~OnIt({"confirm"}, r)'
    <3>1. job'[c].at # "confirm" BY <2>0 DEF Moves
    <3> QED BY <2>1, <2>9, <3>1 DEF OnIt
  <2>11. ~OnIt({"consume"}, r)
    <3>1. job[c].at # "consume" BY <2>0
    <3> QED BY <2>s, <3>1 DEF OnIt, Settling
  <2>12. Live(r) BY <2>11, <2>s DEF Live
  <2>13. CASE Moves(c, "undo", {r}, {}) /\ UNCHANGED <<purse, final>>
    <3>1. ~OnIt({"consume"}, r)'
      <4>1. job'[c].at = "undo" BY <2>13 DEF Moves
      <4> QED BY <2>1, <2>11, <4>1 DEF OnIt
    <3>2. Alike(r) BY <2>0, <2>4, <2>9, <2>10, <2>11, <2>13, <3>1 DEF Alike, Live
    <3> QED BY <2>8, <2>13, <3>2, EscrowSame
  <2>14. CASE /\ purse'.escrow = purse.escrow + Balance
                                   + (IF resa[r].status = "NONE" THEN Deposit ELSE 0)
              /\ final'[r] = "PAID" /\ Moves(c, "consume", {r}, {})
    <3>1. ~Live(r)'
      <4>1. job'[c].at = "consume" /\ job'[c].of = {r} BY <2>14 DEF Moves
      <4> QED BY <2>10, <4>1 DEF Live, OnIt
    <3>2. final[r] = "SENT" BY <2>0, <2>s DEF ClientKnows
    <3>3. Held'[r] = Held[r] + Balance BY <2>12, <2>14, <3>1, <3>2, ResaAssumption DEF Held
    <3>4. purse'.escrow = purse.escrow + Balance BY <2>14, <2>s, ResaAssumption DEF ResaTypeOK
    <3> QED BY <2>8, <3>3, <3>4, EscrowMoved, ResaAssumption
  <2> QED BY <1>18, BalanceEffect, <2>13, <2>14, Zenon
<1>19. ASSUME NEW c \in Buyers, NEW r \in Resas, job[c].of = {r}, ConsumeDeposit(c)
      PROVE Escrow'
  <2>0. /\ job[c].at = "consume"
        /\ \/ resa[r].status = "NONE" /\ resa' = resa /\ Moves(c, "undo", {r}, {})
           \/ /\ resa[r].status # "NONE" /\ Moves(c, "idle", {}, {})
              /\ RowTo(r, "COMPLETED", resa[r].paid, resa[r].due)
        /\ UNCHANGED <<forecast, forSale, final, purse, score, odd>>
    BY <1>19, ConsumeEffect, Zenon
  <2>s. /\ resa[r].status = "AWAITING_FINAL" /\ ~resa[r].due /\ ~Left(r) /\ r \notin job["cron"].of
        /\ ClientKnows(c, r)
        /\ \A d \in Buyers : d # c => job[d].at \notin Settling
        /\ \A d \in Buyers : job[d].of = {r} => job[d].at \notin Depositing
    BY <1>19, <2>0, Settler DEF Settling
  <2>1. \A d \in Buyers : d # c => job'[d] = job[d] BY <2>0, ActorsDiffer DEF Moves
  <2>2. \A x \in Resas : x # r => resa'[x] = resa[x] BY <2>0 DEF RowTo
  <2>3. job'["farmer"] = job["farmer"] /\ job'["cron"] = job["cron"]
    BY <2>0, ActorsDiffer DEF Moves
  <2>4. \A x \in Resas : Left(x)' <=> Left(x) BY <2>3, LeftKept
  <2>5. job[c].at = "idle" \/ job[c].of = {r} BY <1>19, <2>0
  <2>6. job'[c].at = "idle" \/ job'[c].of = {r} BY <2>0 DEF Moves
  <2>7. \A x \in Resas : x # r => /\ OnIt({"confirm"}, x)' <=> OnIt({"confirm"}, x)
                                  /\ OnIt({"consume"}, x)' <=> OnIt({"consume"}, x)
    BY <2>1, <2>5, <2>6, OthersKept
  <2>8. \A x \in Resas : x # r => Alike(x) BY <2>0, <2>2, <2>4, <2>7, LiveKept
  <2>9. ~OnIt({"confirm"}, r) BY <2>s DEF OnIt, Depositing
  <2>10. ~OnIt({"confirm"}, r)'
    <3>1. job'[c].at # "confirm" BY <2>0 DEF Moves
    <3> QED BY <2>1, <2>9, <3>1 DEF OnIt
  <2>11. OnIt({"consume"}, r) BY <1>19, <2>0 DEF OnIt
  <2>12. resa'[r].status = "COMPLETED" BY <2>0, <2>s DEF RowTo
  <2>13. Alike(r) BY <2>0, <2>9, <2>10, <2>11, <2>12 DEF Alike, Live
  <2> QED BY <2>0, <2>8, <2>13, EscrowSame
<1>20. ASSUME NEW c \in Buyers, NEW r \in Resas, job[c].of = {r}, UndoFinal(c)
      PROVE Escrow'
  <2>0. /\ job[c].at = "undo" /\ Moves(c, "idle", {}, {})
        /\ UNCHANGED <<forecast, resa, score, odd>>
    BY <1>20, UndoEffect, Zenon
  <2>s. /\ resa[r].status = "AWAITING_FINAL" /\ ~resa[r].due /\ ~Left(r) /\ r \notin job["cron"].of
        /\ ClientKnows(c, r)
        /\ \A d \in Buyers : d # c => job[d].at \notin Settling
        /\ \A d \in Buyers : job[d].of = {r} => job[d].at \notin Depositing
    BY <1>20, <2>0, Settler DEF Settling
  <2>1. \A d \in Buyers : d # c => job'[d] = job[d] BY <2>0, ActorsDiffer DEF Moves
  <2>2. \A x \in Resas : x # r => resa'[x] = resa[x] BY <2>0 DEF RowTo
  <2>3. job'["farmer"] = job["farmer"] /\ job'["cron"] = job["cron"]
    BY <2>0, ActorsDiffer DEF Moves
  <2>4. \A x \in Resas : Left(x)' <=> Left(x) BY <2>3, LeftKept
  <2>5. job[c].at = "idle" \/ job[c].of = {r} BY <1>20, <2>0
  <2>6. job'[c].at = "idle" \/ job'[c].of = {r} BY <2>0 DEF Moves
  <2>7. \A x \in Resas : x # r => /\ OnIt({"confirm"}, x)' <=> OnIt({"confirm"}, x)
                                  /\ OnIt({"consume"}, x)' <=> OnIt({"consume"}, x)
    BY <2>1, <2>5, <2>6, OthersKept
  <2>8. \A x \in Resas : x # r => Alike(x)
    <3>1. \A x \in Resas : x # r => final'[x] = final[x] BY <1>20, UndoEffect
    <3> QED BY <2>0, <2>2, <2>4, <2>7, <3>1, LiveKept
  <2>9. ~OnIt({"confirm"}, r) BY <2>s DEF OnIt, Depositing
  <2>10. ~OnIt({"confirm"}, r)'
    <3>1. job'[c].at # "confirm" BY <2>0 DEF Moves
    <3> QED BY <2>1, <2>9, <3>1 DEF OnIt
  <2>11. OnIt({"consume"}, r)' <=> OnIt({"consume"}, r)
    <3>1. job[c].at = "undo" /\ job'[c].at = "idle" BY <2>0 DEF Moves
    <3> QED BY <2>1, <3>1 DEF OnIt
  <2>12. final[r] = "SENT" BY <2>0, <2>s DEF ClientKnows
  <2>13. purse' = purse /\ final'[r] = "NONE" BY <1>20, UndoEffect, <2>12, Zenon
  <2>14. Alike(r) BY <2>0, <2>4, <2>9, <2>10, <2>11, <2>12, <2>13 DEF Alike, Live
  <2> QED BY <2>8, <2>13, <2>14, EscrowSame
<1>21. ASSUME ListExpired PROVE Escrow'
  <2>1. /\ \A d \in Buyers : job'[d] = job[d]
        /\ UNCHANGED <<resa, final>> /\ purse'.escrow = purse.escrow
    BY <1>21, ListEffect, ActorsDiffer DEF Moves
  <2>2. \A x \in Resas : Left(x)' <=> Left(x) BY <1>21, ListEffect, ActorsDiffer DEF Moves, Left
  <2>3. \A x \in Resas : Alike(x) BY <2>1, <2>2, ClientsKept, LiveKept
  <2> QED BY <2>1, <2>3, EscrowSame
<1>22. ASSUME NEW r \in Resas, SettleDeposit(r) PROVE Escrow'
  <2>0. /\ job["cron"].at = "settle" /\ r \in job["cron"].of
        /\ UNCHANGED <<forecast, resa, forSale, final, score, odd>>
    BY <1>22, SettleEffect, Zenon
  <2>s. /\ resa[r].status = "AWAITING_FINAL" /\ resa[r].due /\ ~Deleting
        /\ \A d \in Buyers : job[d].of = {r} => job[d].at \notin Depositing \cup Settling
    BY <2>0, Expiring
  <2>1. Live(r) BY <2>0, <2>s DEF Live, Left, Deleting, OnIt, Settling
  <2>2. purse.escrow >= Deposit /\ purse.escrow \in Nat /\ Deposit \in Nat
    BY <2>1, EscrowCovers, ResaAssumption DEF ResaTypeOK
  <2>3. ~(purse.escrow < Deposit \/ resa[r].status = "NONE") BY <2>2, <2>s
  <2>4. purse'.escrow = purse.escrow - Deposit /\ Moves("cron", "release", job["cron"].of, {r})
    BY <1>22, SettleEffect, <2>3, Zenon
  <2>5. \A d \in Buyers : job'[d] = job[d] BY <2>4, ActorsDiffer DEF Moves
  <2>6. \A x \in Resas : x # r => (Left(x)' <=> Left(x))
    BY <2>0, <2>4, ActorsDiffer DEF Moves, Left
  <2>7. \A x \in Resas : x # r => Alike(x) BY <2>0, <2>5, <2>6, ClientsKept, LiveKept
  <2>8. ~OnIt({"confirm"}, r)' BY <2>5, <2>s DEF OnIt, Depositing
  <2>9. Left(r)' BY <2>4 DEF Moves, Left
  <2>10. ~Live(r)' BY <2>8, <2>9 DEF Live
  <2>11. Held'[r] = Held[r] + (0 - Deposit) BY <2>0, <2>1, <2>2, <2>10, ResaAssumption DEF Held
  <2>12. purse'.escrow = purse.escrow + (0 - Deposit) /\ 0 - Deposit \in Int BY <2>2, <2>4
  <2> QED BY <2>7, <2>11, <2>12, EscrowMoved
<1>23. ASSUME NEW r \in Resas, ReleaseKilos(r) PROVE Escrow'
  <2>0. /\ job["cron"].at = "release" /\ job["cron"].one = {r}
        /\ Moves("cron", "settle", job["cron"].of \ {r}, {})
        /\ \/ resa[r].status = "NONE" /\ resa' = resa
           \/ resa[r].status # "NONE" /\ RowTo(r, "EXPIRED", resa[r].paid, resa[r].due)
        /\ UNCHANGED <<forecast, final, purse, score, odd>>
    BY <1>23, ReleaseEffect, Zenon
  <2>t. r \in job["cron"].of BY <2>0 DEF Seats, CronSeat
  <2>s. /\ resa[r].status = "AWAITING_FINAL" /\ resa[r].due /\ ~Deleting
        /\ \A d \in Buyers : job[d].of = {r} => job[d].at \notin Depositing \cup Settling
    BY <2>t, Expiring
  <2>6. \A d \in Buyers : job'[d] = job[d] BY <2>0, ActorsDiffer DEF Moves
  <2>7. \A x \in Resas : x # r => (Left(x)' <=> Left(x)) BY <2>0, ActorsDiffer DEF Moves, Left
  <2>8. \A x \in Resas : x # r => resa'[x] = resa[x] BY <2>0 DEF RowTo
  <2>9. \A x \in Resas : x # r => Alike(x) BY <2>0, <2>6, <2>7, <2>8, ClientsKept, LiveKept
  <2>10. ~OnIt({"confirm"}, r) /\ ~OnIt({"confirm"}, r)' BY <2>6, <2>s DEF OnIt, Depositing
  <2>11. ~Live(r) BY <2>0, <2>10 DEF Live, Left
  <2>12. ~Live(r)' BY <2>0, <2>s, <2>10 DEF RowTo, Live
  <2>13. Alike(r) BY <2>0, <2>11, <2>12 DEF Alike
  <2> QED BY <2>0, <2>9, <2>13, EscrowSame
<1>24. ASSUME EndExpiry PROVE Escrow'
  <2>1. /\ \A d \in Buyers : job'[d] = job[d]
        /\ UNCHANGED <<resa, final>> /\ purse'.escrow = purse.escrow
    BY <1>24, EndEffect, ActorsDiffer DEF Moves
  <2>2. \A x \in Resas : Left(x)' <=> Left(x) BY <1>24, EndEffect, ActorsDiffer DEF Moves, Left
  <2>3. \A x \in Resas : Alike(x) BY <2>1, <2>2, ClientsKept, LiveKept
  <2> QED BY <2>1, <2>3, EscrowSame
<1> QED BY <1>1, <1>2, <1>3, <1>4, <1>5, <1>6, <1>7, <1>8, <1>9, <1>10, <1>11, <1>12, <1>13,
           <1>14, <1>15, <1>16, <1>17, <1>18, <1>19, <1>20, <1>21, <1>22, <1>23, <1>24,
           StepsOf, Zenon

\* The invariant holds at first
LEMMA ResaStart ==
  ASSUME ResaInit
  PROVE  ResaInv
<1>1. \A a \in Actors : job[a].at = "idle" /\ job[a].of = {} /\ job[a].one = {}
  BY DEF ResaInit, NoJob
<1>2. \A r \in Resas : resa[r].status = "NONE" /\ ~resa[r].paid /\ ~resa[r].due /\ final[r] = "NONE"
  BY DEF ResaInit, NoResa
<1>3. job \in [Actors -> JobRows]
  <2>1. NoJob \in JobRows BY DEF NoJob, JobRows, JobSteps
  <2> QED BY <2>1 DEF ResaInit
<1>4. resa \in [Resas -> ResaRows]
  <2>1. NoResa \in ResaRows BY DEF NoResa, ResaRows, ResaStatus
  <2> QED BY <2>1 DEF ResaInit
<1>5. ResaTypeOK
  <2>1. forecast \in ForecastRows BY DEF ResaInit, NoForecast, ForecastRows
  <2>2. purse \in PurseRows BY DEF ResaInit, PurseRows
  <2> QED BY <1>3, <1>4, <2>1, <2>2, ResaTypes, ResaAssumption DEF ResaInit, ResaTyped
<1>6. \A steps \in SUBSET {"deposit", "confirm", "drop", "balance", "consume", "undo"} :
        /\ ~Paying(steps) /\ \A r \in Resas : ~OnIt(steps, r)
  BY <1>1, ActorsDiffer DEF Paying, OnIt
<1>7. forecast.status = "NONE" BY DEF ResaInit, NoForecast
<1>8. Seats BY <1>1, ActorsDiffer DEF Seats, FarmerSeat, CronSeat, ClientSeat
<1>9. Phases BY <1>1, <1>2, <1>6, <1>7, ActorsDiffer DEF Phases, Settling, Busy
<1>10. ClientsHold
  BY <1>1, ActorsDiffer
      DEF ClientsHold, ClientKnows, OneSettles, NoClash, Deleting, Settling, Depositing
<1>11. Listers BY <1>1, ActorsDiffer DEF Listers
<1>12. Promises BY <1>7 DEF Promises
<1>13. Orderly
  BY <1>1, <1>2, ActorsDiffer
    
         DEF Orderly, ClientRows, OneDeposits, PaidRows, ClearedRows, SettledRows, Deleting,
             Depositing, Settling
<1>14. Escrow
  <2>1. \A r \in Resas : ~Live(r) BY <1>2, <1>6 DEF Live
  <2>2. \A r \in Resas : Held[r] = IF r \in {} THEN 0 ELSE 0 BY <1>2, <2>1 DEF Held
  <2>3. SumFunctionOnSet(Held, Resas) = 0 * Cardinality({})
    BY <2>2, SumConstant, HeldNat, {} \in SUBSET Resas, 0 \in Nat, Zenon
  <2>4. SumFunctionOnSet(Held, Resas) = 0 BY <2>3, FS_EmptySet
  <2> QED BY <2>4 DEF Escrow, ResaInit
<1> QED BY <1>5, <1>8, <1>9, <1>10, <1>11, <1>12, <1>13, <1>14 DEF ResaInv, Deposits, Escrow

\* What was noted stays so
LEMMA OddGrows ==
  ASSUME ResaTypeOK, Seats, ResaNext
  PROVE  odd \subseteq odd'
<1>1. ASSUME NEW kg \in Sizes, NEW co \in {"NONE", "PENDING"}, CreatePrevision(kg, co)
      PROVE odd \subseteq odd'
  BY <1>1, CreateEffect, Zenon
<1>2. ASSUME NEW kg \in Sizes, UpdatePrevision(kg) PROVE odd \subseteq odd'
  BY <1>2, UpdateEffect, Zenon
<1>3. ASSUME CheckUpdate PROVE odd \subseteq odd'
  BY <1>3, CheckEffect, Zenon
<1>4. ASSUME CheckValidate PROVE odd \subseteq odd'
  BY <1>4, CheckEffect, Zenon
<1>5. ASSUME ValidatePrevision \/ RejectPrevision PROVE odd \subseteq odd'
  BY <1>5, CoopEffect, Zenon
<1>6. ASSUME ConvertPrevision PROVE odd \subseteq odd'
  BY <1>6, ConvertEffect, Zenon
<1>7. ASSUME BeginDelete PROVE odd \subseteq odd'
  BY <1>7, DeleteEffect, Zenon
<1>8. ASSUME NEW r \in Resas, ClearResa(r) PROVE odd \subseteq odd'
  BY <1>8, ClearEffect, Zenon
<1>9. ASSUME NEW r \in Resas, CancelResa(r) PROVE odd \subseteq odd'
  BY <1>9, CancelEffect, Zenon
<1>10. ASSUME Penalise PROVE odd \subseteq odd'
  BY <1>10, PenaliseEffect, Zenon
<1>11. ASSUME Erase PROVE odd \subseteq odd'
  BY <1>11, EraseEffect, Zenon
<1>12. ASSUME NEW r \in Resas, Deadline(r) PROVE odd \subseteq odd'
  BY <1>12, DeadlineEffect, Zenon
<1>13. ASSUME NEW c \in Buyers, NEW r \in Resas, ReserverPrevision(c, r)
      PROVE odd \subseteq odd'
  BY <1>13, ReserveEffect, Zenon
<1>14. ASSUME NEW c \in Buyers, NEW r \in Resas, OrderFinal(c, r) PROVE odd \subseteq odd'
  BY <1>14, OrderEffect, Zenon
<1>15. ASSUME NEW c \in Buyers, NEW r \in Resas, job[c].of = {r}, PayDeposit(c)
      PROVE odd \subseteq odd'
  BY <1>15, PayDepositEffect, Zenon
<1>16. ASSUME NEW c \in Buyers, NEW r \in Resas, job[c].of = {r}, ConfirmResa(c)
      PROVE odd \subseteq odd'
  BY <1>16, ConfirmEffect, Zenon
<1>17. ASSUME NEW c \in Buyers, NEW r \in Resas, job[c].of = {r}, DropResa(c)
      PROVE odd \subseteq odd'
  BY <1>17, DropEffect, Zenon
<1>18. ASSUME NEW c \in Buyers, NEW r \in Resas, job[c].of = {r}, PayBalance(c)
      PROVE odd \subseteq odd'
  BY <1>18, BalanceEffect, Zenon
<1>19. ASSUME NEW c \in Buyers, NEW r \in Resas, job[c].of = {r}, ConsumeDeposit(c)
      PROVE odd \subseteq odd'
  BY <1>19, ConsumeEffect, Zenon
<1>20. ASSUME NEW c \in Buyers, NEW r \in Resas, job[c].of = {r}, UndoFinal(c)
      PROVE odd \subseteq odd'
  BY <1>20, UndoEffect, Zenon
<1>21. ASSUME ListExpired PROVE odd \subseteq odd'
  BY <1>21, ListEffect, Zenon
<1>22. ASSUME NEW r \in Resas, SettleDeposit(r) PROVE odd \subseteq odd'
  BY <1>22, SettleEffect, Zenon
<1>23. ASSUME NEW r \in Resas, ReleaseKilos(r) PROVE odd \subseteq odd'
  BY <1>23, ReleaseEffect, Zenon
<1>24. ASSUME EndExpiry PROVE odd \subseteq odd'
  BY <1>24, EndEffect, Zenon
<1> QED BY <1>1, <1>2, <1>3, <1>4, <1>5, <1>6, <1>7, <1>8, <1>9, <1>10, <1>11, <1>12, <1>13,
           <1>14, <1>15, <1>16, <1>17, <1>18, <1>19, <1>20, <1>21, <1>22, <1>23, <1>24,
           StepsOf, Zenon

\* Each step preserves it
LEMMA ResaKept ==
  ASSUME ResaInv, ResaNext
  PROVE  ResaInv'
<1> USE DEF ResaInv
<1>1. ResaTypeOK' BY ResaTypeStep
<1>2. Seats' BY SeatsStep
<1>3. Phases' BY PhasesStep
<1>4. ClientsHold' BY KnowsStep, OneSettlesStep, NoClashStep DEF ClientsHold, Knows
<1>5. Listers' BY FarmerRowsStep, CronRowsStep, ListersAre
<1>6. Promises' BY PromisesStep
<1>7. Deposits'
  <2>1. SUFFICES ASSUME Regular' PROVE Orderly' /\ Escrow' BY DEF Deposits, Escrow
  <2>2. odd \subseteq odd' BY OddGrows
  <2>3. Regular BY <2>1, <2>2, RegularBefore
  <2>4. Orderly /\ Escrow BY <2>3 DEF Deposits, Escrow
  <2>5. \A x \in Resas : Live(x) => purse.escrow >= Deposit BY <2>4, EscrowCovers
  <2>6. ClientRows' BY <2>1, <2>3, <2>4, ClientRowsStep
  <2>7. OneDeposits' BY <2>1, <2>3, <2>4, OneDepositsStep
  <2>8. PaidRows' BY <2>1, <2>3, <2>4, PaidRowsStep
  <2>9. ClearedRows' BY <2>1, <2>3, <2>4, <2>5, ClearedRowsStep
  <2>10. SettledRows' BY <2>1, <2>3, <2>4, SettledRowsStep
  <2>11. Escrow' BY <1>1, <2>1, <2>3, <2>4, EscrowStep
  <2> QED BY <2>6, <2>7, <2>8, <2>9, <2>10, <2>11 DEF Orderly
<1> QED BY <1>1, <1>2, <1>3, <1>4, <1>5, <1>6, <1>7

\* ... and a stuttering one
LEMMA ResaStill ==
  ASSUME ResaInv, UNCHANGED resaVars
  PROVE  ResaInv'
<1> USE DEF ResaInv, resaVars
<1>1. ResaTypeOK' BY DEF ResaTypeOK
<1>2. Seats' BY DEF Seats
<1>3. Phases' BY DEF Phases, Paying, Busy
<1>4. ClientsHold'
  BY DEF ClientsHold, ClientKnows, OneSettles, NoClash, Deleting, DepositInFlight, Paying
<1>5. Listers' BY DEF Listers
<1>6. Promises' BY DEF Promises, Kilos, Claimed, OnIt
<1>7. Regular' <=> Regular BY DEF Regular
<1>8. Orderly' <=> Orderly
  BY
      DEF Orderly, ClientRows, OneDeposits, PaidRows, ClearedRows, SettledRows, Deleting, OnIt,
          InStatus
<1>9. Escrow' <=> Escrow BY DEF Escrow, Held, Live, Left, OnIt
<1>10. Deposits' BY <1>7, <1>8, <1>9 DEF Deposits, Escrow
<1> QED BY <1>1, <1>2, <1>3, <1>4, <1>5, <1>6, <1>10

\* It implies the safety
LEMMA ResaInvIsSafe ==
  ASSUME ResaInv
  PROVE  ResaSafety
<1> USE DEF ResaInv
<1>1. NotOversold
  <2>1. SUFFICES ASSUME odd \cap {"shrunk", "clash", "late"} = {}
                 PROVE  /\ forecast.status = "OPEN" => Kilos(InStatus(Holding)) <= forecast.kg
                        /\ forecast.status = "CONVERTED" =>
                             forSale + Kilos(InStatus(Holding \cup {"COMPLETED"})) <= forecast.kg
    BY DEF NotOversold
  <2>2. /\ forecast.status = "OPEN" => Kilos(Claimed) <= forecast.kg
        /\ forecast.status = "CONVERTED" => forSale + Kilos(Claimed) <= forecast.kg
    BY <2>1 DEF Promises
  <2>3. forecast.status = "OPEN" => Claimed = InStatus(Holding) BY OpenClaims
  <2>4. InStatus(Holding \cup {"COMPLETED"}) \in SUBSET Claimed BY DEF InStatus, Claimed
  <2>5. Kilos(InStatus(Holding \cup {"COMPLETED"})) <= Kilos(Claimed)
    BY <2>4, ClaimedIs, KilosFacts
  <2>6. /\ Kilos(Claimed) \in Nat /\ Kilos(InStatus(Holding \cup {"COMPLETED"})) \in Nat
        /\ forSale \in Nat /\ forecast.kg \in Nat
    BY ClaimedIs, KilosNat DEF InStatus, ResaTypeOK
  <2> QED BY <2>2, <2>3, <2>5, <2>6
<1>2. DepositFollowsResa
  <2> DEFINE A == InStatus({"CONFIRMED", "AWAITING_FINAL"})
             B == {r \in Resas : final[r] = "PAID"}
             f == [r \in Resas |-> IF r \in A THEN Deposit ELSE 0]
             g == [r \in Resas |-> IF r \in B THEN Deposit + Balance ELSE 0]
  <2>1. SUFFICES ASSUME Quiet, Regular
                 PROVE  purse.escrow = Deposit * Cardinality(A) + (Deposit + Balance) * Cardinality(B)
    BY DEF DepositFollowsResa
  <2>2. \A r \in Resas : Live(r) <=> r \in A
    BY <2>1, ActorsDiffer DEF Quiet, Busy, Live, Left, OnIt, InStatus
  <2>3. \A r \in Resas : Held[r] = f[r] + g[r] BY <2>2 DEF Held
  <2>4. IsFiniteSet(Resas) /\ Deposit \in Nat /\ Deposit + Balance \in Nat BY ResaAssumption
  <2>5. A \in SUBSET Resas /\ B \in SUBSET Resas BY DEF InStatus
  <2>6. Ints(f, Resas) /\ Ints(g, Resas) BY <2>4 DEF Ints
  <2>7. SumFunctionOnSet(Held, Resas) = SumFunctionOnSet(f, Resas) + SumFunctionOnSet(g, Resas)
    BY <2>3, <2>4, <2>6, SumPlus
  <2>8. \A r \in Resas : f[r] = IF r \in A THEN Deposit ELSE 0 OBVIOUS
  <2>9. \A r \in Resas : g[r] = IF r \in B THEN Deposit + Balance ELSE 0 OBVIOUS
  <2> HIDE DEF A, B, f, g
  <2>10. SumFunctionOnSet(f, Resas) = Deposit * Cardinality(A) BY <2>4, <2>5, <2>8, SumConstant
  <2>11. SumFunctionOnSet(g, Resas) = (Deposit + Balance) * Cardinality(B)
    BY <2>4, <2>5, <2>9, SumConstant
  <2>12. purse.escrow = SumFunctionOnSet(Held, Resas) BY <2>1 DEF Deposits
  <2> QED BY <2>7, <2>10, <2>11, <2>12
<1> QED BY <1>1, <1>2 DEF ResaSafety

\* For any number of reservations, buyers, kilos and amounts: no kilo is promised twice, and
\* the escrow holds just the deposits of live reservations and the price of final orders
\* (reserverPrevision, convertPrevision, deletePrevision, createOrder, expireReservations),
\* but for the overlaps NotOversold and Regular name
THEOREM PromisesAreKept == ResaSpec => []ResaSafety
<1>1. ResaInit => ResaInv BY ResaStart
<1>2. ResaInv /\ [ResaNext]_resaVars => ResaInv' BY ResaKept, ResaStill
<1>3. ResaInv => ResaSafety BY ResaInvIsSafe
<1> QED BY <1>1, <1>2, <1>3, PTL DEF ResaSpec

-----------------------------------------------------------------------------
(***************************************************************************)
(* The timers. The first pass comes before the second, the interval is set *)
(* one period after the last pass, and what is left when the modules are   *)
(* destroyed is the timer of the first pass at most.                       *)
(***************************************************************************)

\* A timer is set for later, or is not set
Ahead(t) == t = Never \/ (t \in Nat /\ t > now)

\* The inductive invariant: the first pass comes before the second one, the interval is set
\* one period after the last pass, and what is left when the modules are destroyed is the
\* timer of the first pass at most
CronsInv ==
  /\ cron \in Jobs /\ process \in {"down", "up", "stopping"}
  /\ now \in Nat /\ begun \in Nat /\ late \in Nat /\ wanted \in BOOLEAN
  /\ since \in Nat /\ since <= now
  /\ running \subseteq Nat /\ IsFiniteSet(running) /\ Cardinality(running) <= begun
  /\ Ahead(first) /\ Ahead(timer)
  /\ first # Never /\ timer # Never => first < timer
  /\ process = "down" => first = Never /\ timer = Never
  /\ process = "stopping" => timer = Never /\ (late = 0 \/ (late = 1 /\ first = Never))
  /\ process # "stopping" => late = 0
  /\ wanted => process = "up" /\ timer # Never /\ timer <= since + cron.period

\* The invariant holds at first
LEMMA CronsInitInv == CronsInit => CronsInv
<1> SUFFICES ASSUME CronsInit PROVE CronsInv OBVIOUS
<1>1. running = {} /\ begun = 0 BY DEF CronsInit
<1>2. IsFiniteSet(running) /\ Cardinality(running) = 0 BY <1>1, FS_EmptySet
<1>3. running \subseteq Nat /\ Cardinality(running) <= begun BY <1>1, <1>2
<1> QED BY <1>2, <1>3, CronsAssumption DEF CronsInit, CronsInv, Ahead

\* A pass that begins is one more that runs at most
LEMMA BeginCounts ==
  ASSUME CronsInv, NEW time \in Nat, Begin(time)
  PROVE  /\ running' \subseteq Nat /\ IsFiniteSet(running') /\ begun' \in Nat
         /\ Cardinality(running') <= begun'
<1>1. running' = running \cup {time} /\ begun' = begun + 1 BY DEF Begin
<1>2. IsFiniteSet(running) /\ Cardinality(running) \in Nat BY FS_CardinalityType DEF CronsInv
<1>3. IsFiniteSet(running \cup {time})
      /\ Cardinality(running \cup {time}) \in {Cardinality(running), Cardinality(running) + 1}
  BY <1>2, FS_AddElement
<1> QED BY <1>1, <1>2, <1>3 DEF CronsInv

\* Each step preserves the invariant
LEMMA CronsNextInv == CronsInv /\ [CronsNext]_cronsVars => CronsInv'
<1> SUFFICES ASSUME CronsInv, [CronsNext]_cronsVars PROVE CronsInv' OBVIOUS
<1> USE CronsAssumption
<1>1. CASE \E enabled \in BOOLEAN : OnModuleInit(enabled)
  BY <1>1 DEF OnModuleInit, CronsInv, Ahead
<1>2. CASE OnModuleDestroy
  BY <1>2 DEF OnModuleDestroy, CronsInv, Ahead
<1>3. CASE Killed
  <2>1. running' = {} BY <1>3 DEF Killed
  <2>2. IsFiniteSet(running') /\ Cardinality(running') = 0 BY <2>1, FS_EmptySet
  <2>3. running' \subseteq Nat /\ Cardinality(running') <= begun'
    BY <1>3, <2>1, <2>2 DEF Killed, CronsInv
  <2> QED BY <1>3, <2>2, <2>3 DEF Killed, CronsInv, Ahead
<1>4. CASE FirstPass
  <2>1. first \in Nat /\ Begin(first) /\ first > now
    BY <1>4 DEF FirstPass, CronsInv, Ahead
  <2>2. running' \subseteq Nat /\ IsFiniteSet(running') /\ begun' \in Nat
        /\ Cardinality(running') <= begun'
    BY <2>1, BeginCounts
  <2>3. now' = first /\ since' = first /\ first' = Never /\ timer' = timer
        /\ cron' = cron /\ process' = process /\ wanted' = wanted
        /\ late' = IF process = "stopping" THEN late + 1 ELSE late
    BY <1>4 DEF FirstPass, Begin
  <2> QED BY <1>4, <2>1, <2>2, <2>3 DEF CronsInv, Ahead
<1>5. CASE IntervalPass
  <2>1. timer \in Nat /\ Begin(timer) /\ timer > now /\ first = Never
    BY <1>5 DEF IntervalPass, CronsInv, Ahead
  <2>2. running' \subseteq Nat /\ IsFiniteSet(running') /\ begun' \in Nat
        /\ Cardinality(running') <= begun'
    BY <2>1, BeginCounts
  <2>3. now' = timer /\ since' = timer /\ first' = first /\ timer' = timer + cron.period
        /\ cron' = cron /\ process' = process /\ wanted' = wanted
        /\ late' = IF process = "stopping" THEN late + 1 ELSE late
    BY <1>5 DEF IntervalPass, Begin
  <2> QED BY <1>5, <2>1, <2>2, <2>3 DEF CronsInv, Ahead
<1>6. ASSUME NEW p \in running, PassEnds(p) PROVE CronsInv'
  <2>1. running' = running \ {p} BY <1>6 DEF PassEnds
  <2>2. IsFiniteSet(running) BY DEF CronsInv
  <2>3. IsFiniteSet(running') /\ Cardinality(running') <= Cardinality(running)
    BY <2>1, <2>2, FS_Subset
  <2>4. Cardinality(running') \in Nat /\ Cardinality(running) \in Nat
    BY <2>2, <2>3, FS_CardinalityType
  <2>5. running' \subseteq Nat /\ Cardinality(running') <= begun'
    BY <1>6, <2>1, <2>3, <2>4 DEF PassEnds, CronsInv
  <2> QED BY <1>6, <2>3, <2>5 DEF PassEnds, CronsInv, Ahead
<1>7. CASE UNCHANGED cronsVars
  BY <1>7 DEF cronsVars, CronsInv, Ahead
<1> QED BY <1>1, <1>2, <1>3, <1>4, <1>5, <1>6, <1>7 DEF CronsNext

\* Whatever jobs run, and whenever the module is destroyed, what the timers of a job are set
\* to stays so (OnModuleInit and OnModuleDestroy of the five crons)
THEOREM CronsInvariance == CronsSpec => []CronsInv
  BY CronsInitInv, CronsNextInv, PTL DEF CronsSpec

\* ... and it is enough
LEMMA CronsInvImplies == CronsInv => CronsSafety
<1> SUFFICES ASSUME CronsInv PROVE CronsSafety
  OBVIOUS
<1>1. CronsTypeOK
  BY DEF CronsInv, CronsTypeOK, Ahead
<1>2. EveryPeriod
  BY DEF CronsInv, EveryPeriod
<1>3. OnlyFirstIsLate
  BY DEF CronsInv, OnlyFirstIsLate
<1> QED BY <1>1, <1>2, <1>3 DEF CronsSafety

\* For any periodic jobs whose first pass comes before the period is over: the next pass
\* begins within a period of the last one, and one at most once the module is destroyed
THEOREM PassesKeepTime == CronsSpec => []CronsSafety
  BY CronsInvariance, CronsInvImplies, PTL

-----------------------------------------------------------------------------
(***************************************************************************)
(* Declarations: the treatments of a listing on sale are all those         *)
(* declared. While the entries are looked up, those that are not to do any *)
(* more stand for products found.                                          *)
(***************************************************************************)

\* The shapes of a listing, of a declaration under way
Good == [in : BOOLEAN, active : BOOLEAN, assigned : BOOLEAN, ordered : BOOLEAN,
         treats : SUBSET Products]

Making == [state : BeingMade \cup {"idle", "created", "refused", "failed", "lost"},
           todo : Seq(Entries), found : SUBSET Products, coop : BOOLEAN]

\* Every entry of the declaration stands for one of these products
FullSheet(sheet, treats) == \A i \in DOMAIN sheet : Stands(sheet[i], treats)
Full(g, treats) == FullSheet(declared[g], treats)

\* While the entries are looked up, those that are not to do any more stand for products found
ResolvedSheet(sheet, todo, found) ==
  \E n \in Nat :
    /\ Len(sheet) = n + Len(todo)
    /\ \A i \in 1 .. n : Stands(sheet[i], found)
    /\ \A i \in 1 .. Len(todo) : sheet[n + i] = todo[i]
Resolved(g) == ResolvedSheet(declared[g], making[g].todo, making[g].found)

\* A listing on sale has all that was declared attached to it, or nothing yet
DeclRow(g) ==
  /\ making[g].state = "idle" => ~goods[g].in
  /\ making[g].state \in {"idle", "resolving"} \/ ~goods[g].in => goods[g].treats = {}
  /\ making[g].state = "resolving" => Resolved(g)
  /\ goods[g].in =>
       \/ Full(g, goods[g].treats)
       \/ goods[g].treats = {} /\ making[g].state \notin {"attaching", "created"}
  /\ making[g].state = "refused" => ~goods[g].in
  /\ goods[g].treats \subseteq catalogue

\* Types of the rows
DeclTypes ==
  /\ catalogue \subseteq Products
  /\ goods \in [Goods -> Good]
  /\ making \in [Goods -> Making]
  /\ declared \in [Goods -> Seq(Entries)]

\* The inductive invariant
DeclInv == DeclTypes /\ \A g \in Goods : DeclRow(g)

\* A listing that is not there yet
LEMMA AbsentIsGood == Absent \in Good /\ ~Absent.in /\ Absent.treats = {}
  BY DEF Absent, Good

\* One field of a listing is written
LEMMA GoodUpdates ==
  \A w \in Good, b \in BOOLEAN, S \in SUBSET Products :
    /\ [w EXCEPT !.active = b] \in Good /\ [w EXCEPT !.active = b].in = w.in
    /\ [w EXCEPT !.active = b].treats = w.treats
    /\ [w EXCEPT !.ordered = b] \in Good /\ [w EXCEPT !.ordered = b].in = w.in
    /\ [w EXCEPT !.ordered = b].treats = w.treats
    /\ [w EXCEPT !.assigned = b] \in Good /\ [w EXCEPT !.assigned = b].in = w.in
    /\ [w EXCEPT !.assigned = b].treats = w.treats
    /\ [w EXCEPT !.treats = S] \in Good /\ [w EXCEPT !.treats = S].in = w.in
    /\ [w EXCEPT !.treats = S].treats = S
    /\ [w EXCEPT !.in = TRUE, !.active = TRUE] \in Good
    /\ [w EXCEPT !.in = TRUE, !.active = TRUE].in
    /\ [w EXCEPT !.in = TRUE, !.active = TRUE].treats = w.treats
<1> SUFFICES ASSUME NEW w \in Good, NEW b \in BOOLEAN, NEW S \in SUBSET Products
             PROVE  /\ [w EXCEPT !.active = b] \in Good /\ [w EXCEPT !.active = b].in = w.in
                    /\ [w EXCEPT !.active = b].treats = w.treats
                    /\ [w EXCEPT !.ordered = b] \in Good /\ [w EXCEPT !.ordered = b].in = w.in
                    /\ [w EXCEPT !.ordered = b].treats = w.treats
                    /\ [w EXCEPT !.assigned = b] \in Good /\ [w EXCEPT !.assigned = b].in = w.in
                    /\ [w EXCEPT !.assigned = b].treats = w.treats
                    /\ [w EXCEPT !.treats = S] \in Good /\ [w EXCEPT !.treats = S].in = w.in
                    /\ [w EXCEPT !.treats = S].treats = S
                    /\ [w EXCEPT !.in = TRUE, !.active = TRUE] \in Good
                    /\ [w EXCEPT !.in = TRUE, !.active = TRUE].in
                    /\ [w EXCEPT !.in = TRUE, !.active = TRUE].treats = w.treats
  OBVIOUS
<1>1. [w EXCEPT !.active = b] \in Good /\ [w EXCEPT !.active = b].in = w.in
      /\ [w EXCEPT !.active = b].treats = w.treats
  BY DEF Good
<1>2. [w EXCEPT !.ordered = b] \in Good /\ [w EXCEPT !.ordered = b].in = w.in
      /\ [w EXCEPT !.ordered = b].treats = w.treats
  BY DEF Good
<1>3. [w EXCEPT !.assigned = b] \in Good /\ [w EXCEPT !.assigned = b].in = w.in
      /\ [w EXCEPT !.assigned = b].treats = w.treats
  BY DEF Good
<1>4. [w EXCEPT !.treats = S] \in Good /\ [w EXCEPT !.treats = S].in = w.in
      /\ [w EXCEPT !.treats = S].treats = S
  BY DEF Good
<1>5. [w EXCEPT !.in = TRUE, !.active = TRUE] \in Good
      /\ [w EXCEPT !.in = TRUE, !.active = TRUE].in
      /\ [w EXCEPT !.in = TRUE, !.active = TRUE].treats = w.treats
  BY DEF Good
<1> QED BY <1>1, <1>2, <1>3, <1>4, <1>5

\* Nothing is looked up yet
LEMMA SheetBegins ==
  ASSUME NEW sheet \in Seq(Entries) PROVE ResolvedSheet(sheet, sheet, {})
<1>1. Len(sheet) = 0 + Len(sheet) /\ \A i \in 1 .. Len(sheet) : sheet[0 + i] = sheet[i]
  OBVIOUS
<1>2. \A i \in 1 .. 0 : Stands(sheet[i], {}) OBVIOUS
<1> QED BY <1>1, <1>2 DEF ResolvedSheet

\* One turn of the loop
LEMMA SheetGoesOn ==
  ASSUME NEW sheet \in Seq(Entries), NEW todo \in Seq(Entries), todo # <<>>,
         NEW found, NEW more, found \subseteq more,
         ResolvedSheet(sheet, todo, found), Stands(Head(todo), more)
  PROVE  ResolvedSheet(sheet, Tail(todo), more)
<1>1. PICK n \in Nat :
        /\ Len(sheet) = n + Len(todo)
        /\ \A i \in 1 .. n : Stands(sheet[i], found)
        /\ \A i \in 1 .. Len(todo) : sheet[n + i] = todo[i]
  BY DEF ResolvedSheet
<1>2. Len(todo) \in Nat /\ Len(todo) >= 1 /\ Head(todo) = todo[1] OBVIOUS
<1>3. Len(Tail(todo)) = Len(todo) - 1
      /\ \A i \in 1 .. Len(todo) - 1 : Tail(todo)[i] = todo[i + 1]
  OBVIOUS
<1>4. n + 1 \in Nat /\ Len(sheet) = (n + 1) + Len(Tail(todo)) BY <1>1, <1>2, <1>3
<1>5. sheet[n + 1] = Head(todo) BY <1>1, <1>2
<1>6. \A i \in 1 .. n + 1 : Stands(sheet[i], more)
  <2> SUFFICES ASSUME NEW i \in 1 .. n + 1 PROVE Stands(sheet[i], more) OBVIOUS
  <2>1. CASE i = n + 1 BY <2>1, <1>5
  <2>2. CASE i \in 1 .. n
    <3>1. Stands(sheet[i], found) BY <1>1, <2>2
    <3> QED BY <3>1 DEF Stands
  <2> QED BY <2>1, <2>2
<1>7. \A i \in 1 .. Len(Tail(todo)) : sheet[(n + 1) + i] = Tail(todo)[i]
  <2> SUFFICES ASSUME NEW i \in 1 .. Len(todo) - 1 PROVE sheet[(n + 1) + i] = todo[i + 1]
    BY <1>3
  <2>1. i + 1 \in 1 .. Len(todo) BY <1>2
  <2>2. sheet[n + (i + 1)] = todo[i + 1] BY <1>1, <2>1
  <2>3. n + (i + 1) = (n + 1) + i OBVIOUS
  <2> QED BY <2>2, <2>3
<1> QED BY <1>4, <1>6, <1>7 DEF ResolvedSheet

\* When nothing is left to do, what was found is what was declared
LEMMA SheetEnds ==
  ASSUME NEW sheet \in Seq(Entries), NEW found, ResolvedSheet(sheet, <<>>, found)
  PROVE  FullSheet(sheet, found)
  BY DEF ResolvedSheet, FullSheet

\* The invariant holds at first
LEMMA DeclInitInv == DeclarationsInit => DeclInv
<1> SUFFICES ASSUME DeclarationsInit PROVE DeclInv OBVIOUS
<1>1. goods \in [Goods -> Good] /\ \A g \in Goods : ~goods[g].in /\ goods[g].treats = {}
  BY AbsentIsGood DEF DeclarationsInit
<1>2. making \in [Goods -> Making] /\ \A g \in Goods : making[g].state = "idle"
  BY DEF DeclarationsInit, Making
<1>3. declared \in [Goods -> Seq(Entries)] /\ catalogue \subseteq Products
  BY DEF DeclarationsInit
<1>4. \A g \in Goods : DeclRow(g) BY <1>1, <1>2 DEF DeclRow
<1> QED BY <1>1, <1>2, <1>3, <1>4 DEF DeclInv, DeclTypes

\* A request touches its own goods, request and declaration; the others keep what holds of
\* them as long as the catalogue keeps what goods carry
LEMMA DeclStep ==
  ASSUME DeclInv, DeclTypes', NEW g \in Goods,
         \A h \in Goods \ {g} :
           goods'[h] = goods[h] /\ making'[h] = making[h] /\ declared'[h] = declared[h],
         \A h \in Goods \ {g} : goods[h].treats \subseteq catalogue',
         DeclRow(g)'
  PROVE  DeclInv'
<1>1. \A h \in Goods \ {g} : DeclRow(h)'
  BY DEF DeclInv, DeclRow, Resolved, Full
<1> QED BY <1>1 DEF DeclInv

\* A listing is put up or changed: its declaration is to be resolved
LEMMA PutStep == \A g \in Goods : DeclInv /\ PutOnSale(g) => DeclInv'
<1> SUFFICES ASSUME NEW g \in Goods, DeclInv, PutOnSale(g) PROVE DeclInv' OBVIOUS
<1>1. PICK sheet \in Sheets, coop \in BOOLEAN :
        /\ making' = [making EXCEPT ![g] = [state |-> "resolving", todo |-> sheet,
                                           found |-> {}, coop |-> coop]]
        /\ declared' = [declared EXCEPT ![g] = sheet]
  BY DEF PutOnSale
<1>2. making[g].state = "idle" /\ goods' = [goods EXCEPT ![g].in = TRUE, ![g].active = TRUE]
      /\ catalogue' = catalogue
  BY DEF PutOnSale
<1>3. sheet \in Seq(Entries) BY DeclarationsAssumption
<1>4. PICK w \in Good : w = goods[g] BY DEF DeclInv, DeclTypes
<1>5. goods' = [goods EXCEPT ![g] = [w EXCEPT !.in = TRUE, !.active = TRUE]]
  BY <1>2, <1>4 DEF DeclInv, DeclTypes
<1>6. goods' \in [Goods -> Good] /\ goods'[g].treats = goods[g].treats
  BY <1>4, <1>5, GoodUpdates DEF DeclInv, DeclTypes
<1>7. DeclTypes'
  BY <1>1, <1>2, <1>3, <1>6 DEF DeclInv, DeclTypes, Making, BeingMade
<1>8. making'[g].state = "resolving" /\ making'[g].todo = sheet /\ declared'[g] = sheet
  BY <1>1 DEF DeclInv, DeclTypes
<1>9. goods[g].treats = {} BY <1>2 DEF DeclInv, DeclRow
<1>10. Resolved(g)'
  <2>1. making'[g].found = {} BY <1>1 DEF DeclInv, DeclTypes
  <2> QED BY <1>3, <1>8, <2>1, SheetBegins DEF Resolved
<1>11. DeclRow(g)' BY <1>6, <1>8, <1>9, <1>10 DEF DeclRow
<1> QED BY <1>1, <1>2, <1>5, <1>7, <1>11, DeclStep DEF DeclInv, DeclTypes, DeclRow

\* An entry is looked for in the catalogue, and added to what was found
LEMMA ResolveStep == \A g \in Goods : DeclInv /\ Resolve(g) => DeclInv'
<1> SUFFICES ASSUME NEW g \in Goods, DeclInv, Resolve(g) PROVE DeclInv' OBVIOUS
<1> USE DEF BeingMade
<1>1. making[g] \in Making /\ making[g].state = "resolving" /\ making[g].todo # <<>>
      /\ catalogue' = catalogue /\ goods' = goods /\ declared' = declared
  BY DEF Resolve, DeclInv, DeclTypes
<1> DEFINE entry == Head(making[g].todo)
<1>2. Resolved(g) /\ declared[g] \in Seq(Entries) BY <1>1 DEF DeclInv, DeclRow, DeclTypes
<1>3. CASE \E p \in Found(entry) :
             making' = [making EXCEPT ![g].todo = Tail(@), ![g].found = @ \cup {p}]
  <2>1. PICK p \in Found(entry) :
          making' = [making EXCEPT ![g].todo = Tail(@), ![g].found = @ \cup {p}]
    BY <1>3
  <2>2. p \in Products /\ (p = entry \/ (entry \in DOMAIN Called /\ p \in Called[entry]))
    BY DEF Found, DeclInv, DeclTypes
  <2> DEFINE m == [making[g] EXCEPT !.todo = Tail(@), !.found = @ \cup {p}]
  <2>3. making' = [making EXCEPT ![g] = m] BY <2>1
  <2>4. Tail(making[g].todo) \in Seq(Entries) BY <1>1 DEF Making
  <2>5. m \in Making /\ m.todo = Tail(making[g].todo) /\ m.state = "resolving"
        /\ m.found = making[g].found \cup {p}
    BY <1>1, <2>2, <2>4 DEF Making
  <2> HIDE DEF m
  <2>6. making'[g] = m /\ making' \in [Goods -> Making] BY <2>3, <2>5 DEF DeclInv, DeclTypes
  <2>7. Resolved(g)'
    <3>1. making[g].todo \in Seq(Entries) BY <1>1 DEF Making
    <3>2. Stands(entry, m.found) BY <2>2, <2>5 DEF Stands
    <3>3. ResolvedSheet(declared[g], Tail(making[g].todo), m.found)
      <4> HIDE DEF entry
      <4>1. entry = Head(making[g].todo) BY DEF entry
      <4>2. making[g].found \subseteq m.found BY <2>5
      <4> QED BY <1>1, <1>2, <2>5, <3>1, <3>2, <4>1, <4>2, SheetGoesOn DEF Resolved
    <3> QED BY <1>1, <2>5, <2>6, <3>3 DEF Resolved
  <2>8. DeclTypes' BY <1>1, <2>6 DEF DeclInv, DeclTypes
  <2>9. DeclRow(g)' BY <1>1, <2>5, <2>6, <2>7 DEF DeclInv, DeclRow, Full
  <2> QED BY <1>1, <2>3, <2>8, <2>9, DeclStep DEF DeclInv, DeclRow
<1>4. CASE making' = [making EXCEPT ![g].state = "undoing"]
  <2>1. making' \in [Goods -> Making] /\ making'[g].state = "undoing"
    BY <1>1, <1>4 DEF DeclInv, DeclTypes, Making
  <2>2. DeclTypes' BY <1>1, <2>1 DEF DeclInv, DeclTypes
  <2>3. DeclRow(g)' BY <1>1, <2>1 DEF DeclInv, DeclRow, Full
  <2> QED BY <1>1, <1>4, <2>2, <2>3, DeclStep DEF DeclInv, DeclRow
<1> QED BY <1>3, <1>4 DEF Resolve

\* The listing is written
LEMMA WriteStep == \A g \in Goods : DeclInv /\ WriteTreatments(g) => DeclInv'
<1> SUFFICES ASSUME NEW g \in Goods, DeclInv, WriteTreatments(g) PROVE DeclInv' OBVIOUS
<1> USE DEF BeingMade
<1>1. making[g] \in Making /\ making[g].state = "resolving" /\ making[g].todo = <<>>
      /\ catalogue' = catalogue /\ declared' = declared
  BY DEF WriteTreatments, DeclInv, DeclTypes
<1>2. Resolved(g) /\ declared[g] \in Seq(Entries) BY <1>1 DEF DeclInv, DeclRow, DeclTypes
<1>3. Full(g, making[g].found) BY <1>1, <1>2, SheetEnds DEF Resolved, Full
<1>4. CASE /\ TreatmentRows(g) = {} \/ (goods[g].in /\ TreatmentRows(g) \subseteq catalogue)
           /\ goods' = [goods EXCEPT ![g].treats = TreatmentRows(g)]
           /\ making' = [making EXCEPT ![g].state =
                           IF making[g].coop THEN "attaching" ELSE "created"]
  <2>1. making' \in [Goods -> Making] /\ making'[g].state \in {"attaching", "created"}
    BY <1>1, <1>4 DEF DeclInv, DeclTypes, Making
  <2>2. PICK w \in Good : w = goods[g] BY DEF DeclInv, DeclTypes
  <2>3. goods' = [goods EXCEPT ![g] = [w EXCEPT !.treats = making[g].found]]
    BY <1>4, <2>2 DEF TreatmentRows
  <2>4. making[g].found \in SUBSET Products BY <1>1 DEF Making
  <2>5. goods' \in [Goods -> Good] /\ goods'[g].in = goods[g].in
        /\ goods'[g].treats = making[g].found
    <3> DEFINE v == [w EXCEPT !.treats = making[g].found]
    <3>1. v \in Good /\ v.in = w.in /\ v.treats = making[g].found
      <4> DEFINE F == making[g].found
      <4>1. F \in SUBSET Products BY <2>4
      <4> HIDE DEF F
      <4>2. [w EXCEPT !.treats = F] \in Good /\ [w EXCEPT !.treats = F].in = w.in
            /\ [w EXCEPT !.treats = F].treats = F
        BY <2>2, <4>1 DEF Good
      <4> QED BY <4>2 DEF F
    <3> HIDE DEF v
    <3>2. goods' = [goods EXCEPT ![g] = v] BY <2>3 DEF v
    <3> QED BY <2>2, <3>1, <3>2 DEF DeclInv, DeclTypes
  <2>6. DeclTypes' BY <1>1, <2>1, <2>5 DEF DeclInv, DeclTypes
  <2>7. Full(g, goods[g].treats)' BY <1>1, <1>3, <2>5 DEF Full
  <2>8. goods'[g].in \/ goods'[g].treats = {} BY <1>4, <2>5 DEF TreatmentRows
  <2>9. goods'[g].treats \subseteq catalogue' BY <1>1, <1>4, <2>5 DEF TreatmentRows
  <2>10. DeclRow(g)' BY <2>1, <2>7, <2>8, <2>9 DEF DeclRow
  <2> QED BY <1>1, <1>4, <2>3, <2>6, <2>10, DeclStep DEF DeclInv, DeclRow
<1>5. CASE making' = [making EXCEPT ![g].state = "failed"] /\ goods' = goods
  <2>1. making' \in [Goods -> Making] /\ making'[g].state = "failed"
    BY <1>1, <1>5 DEF DeclInv, DeclTypes, Making
  <2>2. DeclTypes' BY <1>1, <1>5, <2>1 DEF DeclInv, DeclTypes
  <2>3. DeclRow(g)' BY <1>1, <1>5, <2>1 DEF DeclInv, DeclRow, Full
  <2> QED BY <1>1, <1>5, <2>2, <2>3, DeclStep DEF DeclInv, DeclRow
<1> QED BY <1>4, <1>5 DEF WriteTreatments

\* What was found is attached to it
LEMMA AttachStep == \A g \in Goods : DeclInv /\ Attach(g) => DeclInv'
<1> SUFFICES ASSUME NEW g \in Goods, DeclInv, Attach(g) PROVE DeclInv' OBVIOUS
<1> USE DEF BeingMade
<1>1. making[g] \in Making /\ making[g].state = "attaching"
      /\ catalogue' = catalogue /\ declared' = declared
  BY DEF Attach, DeclInv, DeclTypes
<1>2. CASE /\ goods' = [goods EXCEPT ![g].assigned = TRUE]
           /\ making' = [making EXCEPT ![g].state = "created"]
  <2>1. making' \in [Goods -> Making] /\ making'[g].state = "created"
    BY <1>1, <1>2 DEF DeclInv, DeclTypes, Making
  <2>2. PICK w \in Good : w = goods[g] BY DEF DeclInv, DeclTypes
  <2>3. goods' = [goods EXCEPT ![g] = [w EXCEPT !.assigned = TRUE]] BY <1>2, <2>2
  <2>4. goods' \in [Goods -> Good] /\ goods'[g].in = goods[g].in
        /\ goods'[g].treats = goods[g].treats
    BY <2>2, <2>3, GoodUpdates DEF DeclInv, DeclTypes
  <2>5. DeclTypes' BY <1>1, <2>1, <2>4 DEF DeclInv, DeclTypes
  <2>6. DeclRow(g)' BY <1>1, <2>1, <2>4 DEF DeclInv, DeclRow, Full
  <2> QED BY <1>1, <1>2, <2>3, <2>5, <2>6, DeclStep DEF DeclInv, DeclRow
<1>3. CASE making' = [making EXCEPT ![g].state = "undoing"] /\ goods' = goods
  <2>1. making' \in [Goods -> Making] /\ making'[g].state = "undoing"
    BY <1>1, <1>3 DEF DeclInv, DeclTypes, Making
  <2>2. DeclTypes' BY <1>1, <1>3, <2>1 DEF DeclInv, DeclTypes
  <2>3. DeclRow(g)' BY <1>1, <1>3, <2>1 DEF DeclInv, DeclRow, Full
  <2> QED BY <1>1, <1>3, <2>2, <2>3, DeclStep DEF DeclInv, DeclRow
<1> QED BY <1>2, <1>3 DEF Attach

\* A listing that could not be written in full is taken back, or the server stops
LEMMA UndoStep == \A g \in Goods : DeclInv /\ (Undo(g) \/ Interrupted(g)) => DeclInv'
<1> SUFFICES ASSUME NEW g \in Goods, DeclInv, Undo(g) \/ Interrupted(g) PROVE DeclInv' OBVIOUS
<1> USE DEF BeingMade
<1>1. making[g] \in Making /\ making[g].state \in BeingMade
      /\ catalogue' = catalogue /\ declared' = declared
  BY DEF Undo, Interrupted, DeclInv, DeclTypes
<1>2. CASE /\ goods' = [goods EXCEPT ![g] = Absent]
           /\ making' = [making EXCEPT ![g].state = "refused"]
  <2>1. making' \in [Goods -> Making] /\ making'[g].state = "refused"
    BY <1>1, <1>2 DEF DeclInv, DeclTypes, Making
  <2>2. goods' \in [Goods -> Good] /\ ~goods'[g].in /\ goods'[g].treats = {}
    BY <1>2, AbsentIsGood DEF DeclInv, DeclTypes
  <2>3. DeclTypes' BY <1>1, <2>1, <2>2 DEF DeclInv, DeclTypes
  <2>4. DeclRow(g)' BY <2>1, <2>2 DEF DeclRow
  <2> QED BY <1>1, <1>2, <2>3, <2>4, DeclStep DEF DeclInv, DeclRow
<1>3. CASE goods' = goods /\ \E s \in {"failed", "lost"} :
             making' = [making EXCEPT ![g].state = s]
  <2>0. PICK s \in {"failed", "lost"} : making' = [making EXCEPT ![g].state = s] BY <1>3
  <2>a. [making[g] EXCEPT !.state = s] \in Making /\ [making[g] EXCEPT !.state = s].state = s
    BY <1>1 DEF Making
  <2>1. making' \in [Goods -> Making] /\ making'[g].state \in {"failed", "lost"}
        /\ \A h \in Goods \ {g} : making'[h] = making[h]
    BY <2>0, <2>a DEF DeclInv, DeclTypes
  <2>2. DeclTypes' BY <1>1, <1>3, <2>1 DEF DeclInv, DeclTypes
  <2>3. goods[g].treats = {} \/ Full(g, goods[g].treats) BY DEF DeclInv, DeclRow
  <2>4. DeclRow(g)' BY <1>1, <1>3, <2>1, <2>3 DEF DeclInv, DeclRow, Full
  <2> QED BY <1>1, <1>3, <2>1, <2>2, <2>4, DeclStep DEF DeclInv, DeclRow
<1> QED BY <1>2, <1>3 DEF Undo, Interrupted

\* A listing is ordered, assigned, or withdrawn
LEMMA MarketStep ==
  \A g \in Goods :
    DeclInv /\ (OrderGood(g) \/ UpdatePublication(g) \/ DeletePublication(g)) => DeclInv'
<1> SUFFICES ASSUME NEW g \in Goods, DeclInv,
                    OrderGood(g) \/ UpdatePublication(g) \/ DeletePublication(g)
             PROVE DeclInv'
  OBVIOUS
<1>1. making' = making /\ catalogue' = catalogue /\ declared' = declared
  BY DEF OrderGood, UpdatePublication, DeletePublication
<1>2. PICK w \in Good : w = goods[g] BY DEF DeclInv, DeclTypes
<1>3. PICK v \in Good :
        /\ goods' = [goods EXCEPT ![g] = v]
        /\ (v.in = w.in /\ v.treats = w.treats) \/ (~v.in /\ v.treats = {})
  <2>1. CASE OrderGood(g)
    <3>1. goods' = [goods EXCEPT ![g] = [w EXCEPT !.ordered = TRUE]]
      BY <2>1, <1>2 DEF OrderGood
    <3> QED BY <3>1, GoodUpdates
  <2>2. CASE UpdatePublication(g)
    <3>1. PICK b \in BOOLEAN : goods' = [goods EXCEPT ![g] = [w EXCEPT !.active = b]]
      BY <2>2, <1>2 DEF UpdatePublication
    <3> QED BY <3>1, GoodUpdates
  <2>3. CASE DeletePublication(g)
    BY <2>3, AbsentIsGood DEF DeletePublication
  <2> QED BY <2>1, <2>2, <2>3
<1>4. goods' \in [Goods -> Good] /\ goods'[g] = v BY <1>3 DEF DeclInv, DeclTypes
<1>5. DeclTypes' BY <1>1, <1>4 DEF DeclInv, DeclTypes
<1>6. DeclRow(g)'
  <2>1. DeclRow(g) BY DEF DeclInv
  <2>2. Resolved(g) => Resolved(g)' BY <1>1 DEF Resolved
  <2>3. CASE v.in = w.in /\ v.treats = w.treats
    BY <1>1, <1>2, <1>4, <2>1, <2>2, <2>3 DEF DeclRow, Full
  <2>4. CASE ~v.in /\ v.treats = {}
    BY <1>1, <1>2, <1>4, <2>1, <2>2, <2>4 DEF DeclRow
  <2> QED BY <1>3, <2>3, <2>4
<1> QED BY <1>1, <1>3, <1>5, <1>6, DeclStep DEF DeclInv, DeclRow

\* The catalogue gains or loses a product
LEMMA CatalogueStep ==
  \A p \in Products : DeclInv /\ (CreateProduct(p) \/ DeleteProduct(p)) => DeclInv'
<1> SUFFICES ASSUME NEW p \in Products, DeclInv, CreateProduct(p) \/ DeleteProduct(p)
             PROVE DeclInv'
  OBVIOUS
<1>1. goods' = goods /\ making' = making /\ declared' = declared /\ catalogue' \subseteq Products
  BY DEF CreateProduct, DeleteProduct, DeclInv, DeclTypes
<1>2. \A g \in Goods : goods[g].treats \subseteq catalogue'
  BY DEF CreateProduct, DeleteProduct, DeclInv, DeclRow
<1>3. DeclTypes' BY <1>1 DEF DeclInv, DeclTypes
<1>4. \A g \in Goods : DeclRow(g)' BY <1>1, <1>2 DEF DeclInv, DeclRow, Resolved, Full
<1> QED BY <1>3, <1>4 DEF DeclInv

\* Each step preserves the invariant
LEMMA DeclNextInv == DeclInv /\ [DeclarationsNext]_declarationsVars => DeclInv'
<1>1. DeclInv /\ UNCHANGED declarationsVars => DeclInv'
  BY DEF declarationsVars, DeclInv, DeclTypes, DeclRow, Resolved, Full
<1> QED BY <1>1, PutStep, ResolveStep, WriteStep, AttachStep, UndoStep, MarketStep,
           CatalogueStep DEF DeclarationsNext

\* However requests and administrators overlap, a declaration under way has found all the
\* products it no longer looks for, and a listing has all or none (createPublicationCoop)
THEOREM DeclInvariance == DeclarationsSpec => []DeclInv
  BY DeclInitInv, DeclNextInv, PTL DEF DeclarationsSpec

\* ... and it is enough
LEMMA DeclInvImplies == DeclInv => DeclarationsSafety
<1> SUFFICES ASSUME DeclInv PROVE DeclarationsSafety OBVIOUS
<1>1. DeclarationsTypeOK BY DEF DeclInv, DeclTypes, DeclarationsTypeOK, Good, Making
<1>2. AllOrNone BY DEF DeclInv, DeclRow, AllOrNone, Full, FullSheet
<1>3. RefusedIsGone BY DEF DeclInv, DeclRow, RefusedIsGone
<1>4. Catalogued BY DEF DeclInv, DeclRow, Catalogued
<1> QED BY <1>1, <1>2, <1>3, <1>4 DEF DeclarationsSafety

-----------------------------------------------------------------------------
(***************************************************************************)
(* Lots. Who speaks for a cooperative has a token of it, and a token is no *)
(* older than the time since its cooperative was left.                     *)
(***************************************************************************)

\* The shapes of a token, of a lot and of a request under way
Token == [held : BOOLEAN, coop : Coops \cup {Nobody}, age : 0 .. Lifetime]
LotRow == [state : {"new", "in", "gone"}, farmer : Farmers \cup {Nobody}, coop : Coops \cup {Nobody}]
Asking == [state : {"idle", "updating", "deleting", "opening"}, who : People \cup {Nobody},
           of : LotRows \cup Houses \cup {Nobody}]

\* Types of the rows
LotsTypes ==
  /\ coopOf \in [Farmers -> Coops \cup {Nobody}]
  /\ left \in [Farmers -> [Coops -> 0 .. Lifetime]]
  /\ token \in [People -> Token]
  /\ lot \in [LotRows -> LotRow]
  /\ house \in [Houses -> People \cup {Nobody, Gone}]
  /\ stock \subseteq Houses \X LotRows
  /\ asking \in [Clients -> Asking]

\* A member left his cooperative no tick ago, and a token names a cooperative its farmer
\* was a member of less than its age ago
MembersLeft ==
  \A f \in Farmers, c \in Coops :
    /\ coopOf[f] = c => left[f][c] = 0
    /\ token[f].coop = c => left[f][c] <= token[f].age

\* A cooperative's token names itself
CoopTokens ==
  /\ \A c \in Coops : token[c].held => token[c].coop = c
  /\ \A u \in People : token[u].held \/ token[u].coop = Nobody

\* A lot is a farmer's or a cooperative's
LotsOwned ==
  \A l \in LotRows : lot[l].state # "new" =>
    \/ lot[l].farmer \in Farmers /\ lot[l].coop = Nobody
    \/ lot[l].farmer = Nobody /\ lot[l].coop \in Coops

\* Only warehouses that are there keep lots
HousesKept == \A h \in Houses, l \in LotRows : <<h, l>> \in stock => house[h] \in People

\* Who may speak for a lot
Speaks(u, w) ==
  w.farmer = u \/ w.coop = u \/ (u \in Farmers /\ w.coop \in Coops /\ left[u][w.coop] < Lifetime)

\* A request under way was allowed what it is about to write
AskingRow(q) ==
  /\ q.state \in {"updating", "deleting"} =>
       q.of \in LotRows /\ q.who \in People /\ lot[q.of].state # "new" /\ Speaks(q.who, lot[q.of])
  /\ q.state = "opening" =>
       q.of \in Houses /\ q.who \in People
       /\ (q.who \in Farmers => house[q.of] \in {q.who, Gone})

\* The inductive invariant
LotsInv ==
  /\ LotsTypes /\ MembersLeft /\ CoopTokens /\ LotsOwned /\ HousesKept
  /\ \A x \in Clients : AskingRow(asking[x])

\* The invariant holds at first
LEMMA LotsInitInv == LotsInit => LotsInv
<1> SUFFICES ASSUME LotsInit PROVE LotsInv OBVIOUS
<1> USE LotsAssumption
<1>1. coopOf \in [Farmers -> Coops \cup {Nobody}]
      /\ left = [f \in Farmers |-> [c \in Coops |-> IF coopOf[f] = c THEN 0 ELSE Lifetime]]
      /\ token = [u \in People |-> NoToken] /\ lot = [l \in LotRows |-> NoLot]
      /\ house = [h \in Houses |-> Nobody] /\ stock = {} /\ asking = [x \in Clients |-> Idle]
  BY DEF LotsInit
<1>2. left \in [Farmers -> [Coops -> 0 .. Lifetime]] BY <1>1
<1>3. token \in [People -> Token] BY <1>1 DEF Token, NoToken
<1>4. lot \in [LotRows -> LotRow] BY <1>1 DEF LotRow, NoLot
<1>5. asking \in [Clients -> Asking] BY <1>1 DEF Asking, Idle
<1>6. LotsTypes BY <1>1, <1>2, <1>3, <1>4, <1>5 DEF LotsTypes
<1>7. MembersLeft BY <1>1 DEF MembersLeft, NoToken, People
<1>8. CoopTokens /\ LotsOwned /\ HousesKept
  BY <1>1 DEF CoopTokens, LotsOwned, HousesKept, NoToken, NoLot, People
<1>9. \A x \in Clients : AskingRow(asking[x]) BY <1>1 DEF AskingRow, Idle
<1> QED BY <1>6, <1>7, <1>8, <1>9 DEF LotsInv

\* A token is issued, with the cooperative of the moment
LEMMA IssueStep == \A u \in People : LotsInv /\ IssueToken(u) => LotsInv'
<1> SUFFICES ASSUME NEW u \in People, LotsInv, IssueToken(u) PROVE LotsInv' OBVIOUS
<1> USE LotsAssumption
<1> DEFINE t == [held |-> TRUE, coop |-> Claim(u), age |-> 0]
<1>1. token' = [token EXCEPT ![u] = t] /\ coopOf' = coopOf /\ left' = left /\ lot' = lot
      /\ house' = house /\ stock' = stock /\ asking' = asking
  BY DEF IssueToken
<1>2. t \in Token /\ (u \in Farmers => t.coop = coopOf[u]) /\ (u \in Coops => t.coop = u)
  BY DEF Claim, CoopNow, Token, People, LotsInv, LotsTypes
<1>a. t.age = 0 /\ t.held = TRUE OBVIOUS
<1> HIDE DEF t
<1>3. LotsTypes' BY <1>1, <1>2 DEF LotsInv, LotsTypes
<1>4. MembersLeft'
  <2>1. ASSUME NEW f \in Farmers, NEW c \in Coops, token'[f].coop = c
        PROVE  left[f][c] <= token'[f].age
    BY <1>1, <1>2, <1>a, <2>1 DEF LotsInv, LotsTypes, MembersLeft, Token, People
  <2> QED BY <1>1, <2>1 DEF LotsInv, MembersLeft
<1>5. CoopTokens'
  <2>1. \A v \in People : token'[v] = IF v = u THEN t ELSE token[v]
    BY <1>1 DEF LotsInv, LotsTypes
  <2>2. \A c \in Coops : c \in People BY DEF People
  <2> QED BY <1>2, <1>a, <2>1, <2>2 DEF LotsInv, CoopTokens
<1>6. LotsOwned' /\ HousesKept' BY <1>1 DEF LotsInv, LotsOwned, HousesKept
<1>7. \A x \in Clients : AskingRow(asking[x])' BY <1>1 DEF LotsInv, AskingRow, Speaks
<1> QED BY <1>3, <1>4, <1>5, <1>6, <1>7 DEF LotsInv

\* Tokens age, and so does the time since a cooperative was left
LEMMA TickStep == LotsInv /\ ClockTick => LotsInv'
<1> SUFFICES ASSUME LotsInv, ClockTick PROVE LotsInv' OBVIOUS
<1> USE LotsAssumption
<1>1. /\ \A x \in Clients : asking[x].state = "idle"
      /\ token' = [u \in People |->
                 IF token[u].held /\ token[u].age < Lifetime
                   THEN [token[u] EXCEPT !.age = @ + 1] ELSE token[u]]
      /\ left' = [f \in Farmers |-> [c \in Coops |->
                IF coopOf[f] = c \/ left[f][c] = Lifetime THEN left[f][c] ELSE left[f][c] + 1]]
      /\ coopOf' = coopOf /\ lot' = lot /\ house' = house /\ stock' = stock /\ asking' = asking
  BY DEF ClockTick
<1>2. \A u \in People : token'[u] \in Token /\ token'[u].held = token[u].held
        /\ token'[u].coop = token[u].coop
        /\ (token'[u].age = token[u].age + 1
            \/ (token'[u].age = token[u].age /\ (~token[u].held \/ token[u].age = Lifetime)))
  <2> SUFFICES ASSUME NEW u \in People
               PROVE  token'[u] \in Token /\ token'[u].held = token[u].held
                  /\ token'[u].coop = token[u].coop
                  /\ (token'[u].age = token[u].age + 1
                    \/ (token'[u].age = token[u].age /\ (~token[u].held \/ token[u].age = Lifetime)))
    OBVIOUS
  <2>1. PICK t \in Token : t = token[u] BY DEF LotsInv, LotsTypes
  <2>2. t.age \in 0 .. Lifetime /\ t.held \in BOOLEAN BY DEF Token
  <2>3. CASE t.held /\ t.age < Lifetime
    <3>1. token'[u] = [t EXCEPT !.age = t.age + 1] BY <1>1, <2>1, <2>3
    <3>2. t.age + 1 \in 0 .. Lifetime BY <2>2, <2>3
    <3>3. [t EXCEPT !.age = t.age + 1] \in Token /\ [t EXCEPT !.age = t.age + 1].held = t.held
          /\ [t EXCEPT !.age = t.age + 1].coop = t.coop
          /\ [t EXCEPT !.age = t.age + 1].age = t.age + 1
      BY <3>2 DEF Token
    <3> QED BY <2>1, <3>1, <3>3
  <2>4. CASE ~(t.held /\ t.age < Lifetime)
    <3>1. token'[u] = t BY <1>1, <2>1, <2>4
    <3> QED BY <2>1, <2>2, <2>4, <3>1
  <2> QED BY <2>3, <2>4
<1>3. \A f \in Farmers, c \in Coops : left'[f][c] \in 0 .. Lifetime
        /\ (coopOf[f] = c => left'[f][c] = left[f][c])
        /\ left'[f][c] <= left[f][c] + 1
  <2> SUFFICES ASSUME NEW f \in Farmers, NEW c \in Coops
               PROVE  left'[f][c] \in 0 .. Lifetime
                  /\ (coopOf[f] = c => left'[f][c] = left[f][c])
                  /\ left'[f][c] <= left[f][c] + 1
    OBVIOUS
  <2>1. left'[f][c] = IF coopOf[f] = c \/ left[f][c] = Lifetime THEN left[f][c] ELSE left[f][c] + 1
    BY <1>1
  <2>2. left[f][c] \in 0 .. Lifetime BY DEF LotsInv, LotsTypes
  <2> QED BY <2>1, <2>2
<1>4. left' \in [Farmers -> [Coops -> 0 .. Lifetime]] BY <1>1, <1>3
<1>5. token' \in [People -> Token] BY <1>1, <1>2
<1>6. LotsTypes' BY <1>1, <1>4, <1>5 DEF LotsInv, LotsTypes
<1>7. MembersLeft'
  <2>1. ASSUME NEW f \in Farmers, NEW c \in Coops, token'[f].coop = c
        PROVE  left'[f][c] <= token'[f].age
    <3>1. f \in People BY DEF People
    <3>2. token[f].coop = c /\ left[f][c] <= token[f].age
      BY <2>1, <3>1, <1>2 DEF LotsInv, MembersLeft
    <3>3. token[f].held
      BY <3>1, <3>2 DEF LotsInv, CoopTokens
    <3>4. token[f].age \in 0 .. Lifetime /\ left[f][c] \in 0 .. Lifetime
      BY <3>1 DEF LotsInv, LotsTypes, Token
    <3> QED BY <1>2, <1>3, <3>1, <3>2, <3>3, <3>4
  <2> QED BY <1>1, <1>3, <2>1 DEF LotsInv, MembersLeft
<1>8. CoopTokens'
  <2>1. \A c \in Coops : c \in People BY DEF People
  <2> QED BY <1>2, <2>1 DEF LotsInv, CoopTokens
<1>9. LotsOwned' /\ HousesKept' BY <1>1 DEF LotsInv, LotsOwned, HousesKept
<1>10. \A x \in Clients : AskingRow(asking[x])' BY <1>1 DEF AskingRow
<1> QED BY <1>6, <1>7, <1>8, <1>9, <1>10 DEF LotsInv

\* What a farmer's leaving and joining changes
LEMMA MemberStep ==
  \A f \in Farmers : LotsInv /\ (LeaveCoop(f) \/ \E c \in Coops : JoinCoop(f, c)) => LotsInv'
<1> SUFFICES ASSUME NEW f \in Farmers, LotsInv, LeaveCoop(f) \/ \E c \in Coops : JoinCoop(f, c)
             PROVE  LotsInv'
  OBVIOUS
<1> USE LotsAssumption
<1>1. /\ token' = token /\ lot' = lot /\ house' = house /\ stock' = stock /\ asking' = asking
      /\ coopOf' \in [Farmers -> Coops \cup {Nobody}]
      /\ left' \in [Farmers -> [Coops -> 0 .. Lifetime]]
      /\ \A g \in Farmers, c \in Coops :
           /\ left'[g][c] \in {0, left[g][c]}
           /\ coopOf'[g] = c => coopOf[g] = c \/ left'[g][c] = 0
  <2>1. CASE LeaveCoop(f)
    <3>1. coopOf' = [coopOf EXCEPT ![f] = Nobody] /\ left' = left BY <2>1 DEF LeaveCoop
    <3> QED BY <2>1, <3>1 DEF LeaveCoop, LotsInv, LotsTypes
  <2>2. CASE \E c \in Coops : JoinCoop(f, c)
    <3> PICK c \in Coops : JoinCoop(f, c) BY <2>2
    <3>1. coopOf' = [coopOf EXCEPT ![f] = c] /\ left' = [left EXCEPT ![f][c] = 0]
      BY DEF JoinCoop
    <3>2. left \in [Farmers -> [Coops -> 0 .. Lifetime]]
          /\ coopOf \in [Farmers -> Coops \cup {Nobody}]
      BY DEF LotsInv, LotsTypes
    <3>3. 0 \in 0 .. Lifetime OBVIOUS
    <3> QED BY <3>1, <3>2, <3>3 DEF JoinCoop
  <2> QED BY <2>1, <2>2
<1>2. \A g \in Farmers, c \in Coops : left[g][c] \in 0 .. Lifetime /\ token[g].age \in 0 .. Lifetime
  BY DEF LotsInv, LotsTypes, Token, People
<1>3. LotsTypes' BY <1>1 DEF LotsInv, LotsTypes
<1>4. MembersLeft'
  <2> SUFFICES ASSUME NEW g \in Farmers, NEW c \in Coops
               PROVE  /\ coopOf'[g] = c => left'[g][c] = 0
                      /\ token'[g].coop = c => left'[g][c] <= token'[g].age
    BY DEF MembersLeft
  <2> QED BY <1>1, <1>2 DEF LotsInv, MembersLeft
<1>5. CoopTokens' /\ LotsOwned' /\ HousesKept'
  BY <1>1 DEF LotsInv, CoopTokens, LotsOwned, HousesKept
<1>6. \A x \in Clients : AskingRow(asking[x])'
  <2>1. \A u, w : Speaks(u, w) => Speaks(u, w)' BY <1>1, <1>2 DEF Speaks
  <2> QED BY <1>1, <2>1 DEF LotsInv, AskingRow
<1> QED BY <1>3, <1>4, <1>5, <1>6 DEF LotsInv

\* A lot is stored
LEMMA CreateLotStep ==
  \A u \in People, l \in LotRows : LotsInv /\ CreateLot(u, l) => LotsInv'
<1> SUFFICES ASSUME NEW u \in People, NEW l \in LotRows, LotsInv, CreateLot(u, l) PROVE LotsInv'
  OBVIOUS
<1> USE LotsAssumption
<1>1. Valid(u) /\ lot[l].state = "new" /\ lot' = [lot EXCEPT ![l] = NewLot(u)]
      /\ UNCHANGED <<coopOf, left, token, house, stock, asking>>
  BY DEF CreateLot
<1>2. u \in Coops => token[u].coop = u BY <1>1 DEF Valid, LotsInv, CoopTokens
<1>3. NewLot(u) \in LotRow /\ NewLot(u).state = "in"
      /\ ((NewLot(u).farmer \in Farmers /\ NewLot(u).coop = Nobody)
          \/ (NewLot(u).farmer = Nobody /\ NewLot(u).coop \in Coops))
  BY <1>2 DEF NewLot, RoleOf, LotRow, People
<1> DEFINE w == NewLot(u)
<1> HIDE DEF w
<1>4. lot' = [lot EXCEPT ![l] = w] /\ w \in LotRow /\ w.state = "in"
      /\ ((w.farmer \in Farmers /\ w.coop = Nobody) \/ (w.farmer = Nobody /\ w.coop \in Coops))
  BY <1>1, <1>3 DEF w
<1>5. LotsTypes' BY <1>1, <1>4 DEF LotsInv, LotsTypes
<1>6. LotsOwned' BY <1>4 DEF LotsInv, LotsTypes, LotsOwned
<1>7. MembersLeft' /\ CoopTokens' /\ HousesKept'
  BY <1>1 DEF LotsInv, MembersLeft, CoopTokens, HousesKept
<1>8. \A x \in Clients : AskingRow(asking[x])'
  BY <1>1, <1>4 DEF LotsInv, LotsTypes, AskingRow, Speaks
<1> QED BY <1>5, <1>6, <1>7, <1>8 DEF LotsInv

\* A request that begins or ends, and what it asks for
LEMMA AskStep ==
  ASSUME LotsInv, NEW x \in Clients, NEW q \in Asking, AskingRow(q),
         asking' = [asking EXCEPT ![x] = q],
         UNCHANGED <<coopOf, left, token, lot, house, stock>>
  PROVE  LotsInv'
<1>1. LotsTypes' BY DEF LotsInv, LotsTypes
<1>2. MembersLeft' /\ CoopTokens' /\ LotsOwned' /\ HousesKept'
  BY DEF LotsInv, MembersLeft, CoopTokens, LotsOwned, HousesKept
<1>3. \A y \in Clients : AskingRow(asking[y])'
  BY DEF LotsInv, LotsTypes, AskingRow, Speaks
<1> QED BY <1>1, <1>2, <1>3 DEF LotsInv

\* A request at rest was allowed nothing
LEMMA IdleAsks == Idle \in Asking /\ AskingRow(Idle)
  BY DEF Idle, Asking, AskingRow

\* A lot is found and its owner compared
LEMMA FindStep ==
  \A x \in Clients, u \in People, l \in LotRows : LotsInv /\ FindLot(x, u, l) => LotsInv'
<1> SUFFICES ASSUME NEW x \in Clients, NEW u \in People, NEW l \in LotRows, LotsInv,
                    FindLot(x, u, l)
             PROVE LotsInv'
  OBVIOUS
<1> USE LotsAssumption
<1>1. PICK s \in {"updating", "deleting"} :
        asking' = [asking EXCEPT ![x] = [state |-> s, who |-> u, of |-> l]]
  BY DEF FindLot
<1>2. Valid(u) /\ HasLot(u, l) /\ UNCHANGED <<coopOf, left, token, lot, house, stock>>
  BY DEF FindLot
<1> DEFINE q == [state |-> s, who |-> u, of |-> l]
<1>3. q \in Asking /\ q.state = s /\ q.who = u /\ q.of = l BY DEF Asking
<1>4. Speaks(u, lot[l])
  <2>1. CASE lot[l].farmer = u BY <2>1 DEF Speaks
  <2>2. CASE token[u].coop # Nobody /\ lot[l].coop = token[u].coop
    <3>1. token[u] \in Token /\ token[u].held /\ token[u].age < Lifetime
      BY <1>2 DEF Valid, LotsInv, LotsTypes
    <3>2. token[u].coop \in Coops BY <2>2, <3>1 DEF Token
    <3>3. CASE u \in Coops BY <2>2, <3>1, <3>3 DEF LotsInv, CoopTokens, Speaks
    <3>4. CASE u \in Farmers
      <4>1. left[u][token[u].coop] <= token[u].age BY <3>2, <3>4 DEF LotsInv, MembersLeft
      <4>2. left[u][token[u].coop] \in 0 .. Lifetime /\ token[u].age \in 0 .. Lifetime
        BY <3>1, <3>2, <3>4 DEF LotsInv, LotsTypes, Token
      <4>3. left[u][token[u].coop] < Lifetime BY <3>1, <4>1, <4>2
      <4> QED BY <2>2, <3>2, <3>4, <4>3 DEF Speaks
    <3> QED BY <3>3, <3>4 DEF People
  <2> QED BY <1>2, <2>1, <2>2 DEF HasLot
<1>5. lot[l].state # "new" BY <1>2 DEF HasLot
<1> HIDE DEF q
<1>6. AskingRow(q) BY <1>3, <1>4, <1>5 DEF AskingRow
<1>7. asking' = [asking EXCEPT ![x] = q] BY <1>1 DEF q
<1> QED BY <1>2, <1>3, <1>6, <1>7, AskStep

\* A warehouse is found, and its owner compared
LEMMA OpenStep ==
  \A x \in Clients, u \in People, h \in Houses : LotsInv /\ OpenHouse(x, u, h) => LotsInv'
<1> SUFFICES ASSUME NEW x \in Clients, NEW u \in People, NEW h \in Houses, LotsInv,
                    OpenHouse(x, u, h)
             PROVE LotsInv'
  OBVIOUS
<1> USE LotsAssumption
<1> DEFINE q == [state |-> "opening", who |-> u, of |-> h]
<1>1. MayOpen(u, h) /\ asking' = [asking EXCEPT ![x] = q]
      /\ UNCHANGED <<coopOf, left, token, lot, house, stock>>
  BY DEF OpenHouse
<1>2. q \in Asking /\ q.state = "opening" /\ q.who = u /\ q.of = h BY DEF Asking
<1>3. u \in Farmers => house[h] = u BY <1>1 DEF MayOpen, RoleOf
<1> HIDE DEF q
<1>4. AskingRow(q) BY <1>2, <1>3 DEF AskingRow
<1> QED BY <1>1, <1>2, <1>4, AskStep

\* A request writes or lists, and is over
LEMMA AnswerStep ==
  \A x \in Clients : LotsInv /\ (UpdateLot(x) \/ DeleteLot(x) \/ ListLots(x)) => LotsInv'
<1> SUFFICES ASSUME NEW x \in Clients, LotsInv, UpdateLot(x) \/ DeleteLot(x) \/ ListLots(x)
             PROVE LotsInv'
  OBVIOUS
<1>1. CASE UpdateLot(x) \/ ListLots(x)
  BY <1>1, IdleAsks, AskStep DEF UpdateLot, ListLots
<1>2. CASE DeleteLot(x)
  <2> DEFINE l == asking[x].of
  <2>1. asking[x].state = "deleting" /\ asking' = [asking EXCEPT ![x] = Idle]
        /\ lot' = [lot EXCEPT ![l].state = "gone"] /\ stock' = {s \in stock : s[2] # l}
        /\ UNCHANGED <<coopOf, left, token, house>>
    BY <1>2 DEF DeleteLot
  <2>2. l \in LotRows /\ lot[l].state # "new" BY <2>1 DEF LotsInv, AskingRow
  <2> HIDE DEF l
  <2>3. PICK w \in LotRow : w = lot[l] BY <2>2 DEF LotsInv, LotsTypes
  <2>4. [w EXCEPT !.state = "gone"] \in LotRow /\ [w EXCEPT !.state = "gone"].state = "gone"
        /\ [w EXCEPT !.state = "gone"].farmer = w.farmer
        /\ [w EXCEPT !.state = "gone"].coop = w.coop
    BY DEF LotRow
  <2>5. lot' = [lot EXCEPT ![l] = [w EXCEPT !.state = "gone"]] BY <2>1, <2>3
  <2>6. lot' \in [LotRows -> LotRow] /\ \A k \in LotRows :
          /\ lot'[k].farmer = lot[k].farmer /\ lot'[k].coop = lot[k].coop
          /\ lot'[k].state = "new" <=> lot[k].state = "new"
    BY <2>2, <2>3, <2>4, <2>5 DEF LotsInv, LotsTypes
  <2>7. LotsTypes' BY <2>1, <2>6, IdleAsks DEF LotsInv, LotsTypes
  <2>8. LotsOwned' BY <2>6 DEF LotsInv, LotsOwned
  <2>9. MembersLeft' /\ CoopTokens' /\ HousesKept'
    BY <2>1 DEF LotsInv, MembersLeft, CoopTokens, HousesKept
  <2>10. \A y \in Clients : AskingRow(asking[y])'
    <3> SUFFICES ASSUME NEW y \in Clients PROVE AskingRow(asking[y])' OBVIOUS
    <3>1. CASE y = x BY <2>1, <3>1 DEF LotsInv, LotsTypes, AskingRow, Idle
    <3>2. CASE y # x
      <4>1. asking'[y] = asking[y] BY <2>1, <3>2 DEF LotsInv, LotsTypes
      <4> QED BY <2>1, <2>6, <4>1 DEF LotsInv, AskingRow, Speaks
    <3> QED BY <3>1, <3>2
  <2> QED BY <2>7, <2>8, <2>9, <2>10 DEF LotsInv
<1> QED BY <1>1, <1>2

\* A warehouse is opened or closed
LEMMA HouseStep ==
  \A u \in People, h \in Houses :
    LotsInv /\ (CreateHouse(u, h) \/ DeleteHouse(u, h)) => LotsInv'
<1> SUFFICES ASSUME NEW u \in People, NEW h \in Houses, LotsInv,
                    CreateHouse(u, h) \/ DeleteHouse(u, h)
             PROVE LotsInv'
  OBVIOUS
<1> USE LotsAssumption
<1>1. UNCHANGED <<coopOf, left, token, lot, stock, asking>> BY DEF CreateHouse, DeleteHouse
<1>2. \/ house[h] = Nobody /\ house' = [house EXCEPT ![h] = u]
      \/ house' = [house EXCEPT ![h] = Gone] /\ \A s \in stock : s[1] # h
  BY DEF CreateHouse, DeleteHouse
<1>3. house' \in [Houses -> People \cup {Nobody, Gone}] BY <1>2 DEF LotsInv, LotsTypes
<1>4. LotsTypes' BY <1>1, <1>3 DEF LotsInv, LotsTypes
<1>5. MembersLeft' /\ CoopTokens' /\ LotsOwned'
  BY <1>1 DEF LotsInv, MembersLeft, CoopTokens, LotsOwned
<1>6. HousesKept' BY <1>1, <1>2 DEF LotsInv, LotsTypes, HousesKept
<1>7. \A x \in Clients : AskingRow(asking[x])'
  BY <1>1, <1>2 DEF LotsInv, LotsTypes, AskingRow, Speaks, People
<1> QED BY <1>4, <1>5, <1>6, <1>7 DEF LotsInv

\* A lot goes into a warehouse, or out of it
LEMMA StockStep ==
  \A h \in Houses, l \in LotRows : LotsInv /\ (Keep(h, l) \/ TakeOut(h, l)) => LotsInv'
<1> SUFFICES ASSUME NEW h \in Houses, NEW l \in LotRows, LotsInv, Keep(h, l) \/ TakeOut(h, l)
             PROVE LotsInv'
  OBVIOUS
<1>1. UNCHANGED <<coopOf, left, token, lot, house, asking>> BY DEF Keep, TakeOut
<1>2. stock' \subseteq stock \cup {<<h, l>>} /\ (<<h, l>> \in stock' => house[h] \in People)
  BY DEF Keep, TakeOut, LotsInv, HousesKept
<1>3. LotsTypes' BY <1>1, <1>2 DEF LotsInv, LotsTypes
<1>4. HousesKept' BY <1>1, <1>2 DEF LotsInv, HousesKept
<1>5. MembersLeft' /\ CoopTokens' /\ LotsOwned'
  BY <1>1 DEF LotsInv, MembersLeft, CoopTokens, LotsOwned
<1>6. \A x \in Clients : AskingRow(asking[x])' BY <1>1 DEF LotsInv, AskingRow, Speaks
<1> QED BY <1>3, <1>4, <1>5, <1>6 DEF LotsInv

\* Each step preserves the invariant
LEMMA LotsNextInv == LotsInv /\ [LotsNext]_lotsVars => LotsInv'
<1>1. LotsInv /\ UNCHANGED lotsVars => LotsInv'
  BY DEF lotsVars, LotsInv, LotsTypes, MembersLeft, CoopTokens, LotsOwned, HousesKept, AskingRow,
         Speaks
<1> QED BY <1>1, IssueStep, TickStep, MemberStep, CreateLotStep, FindStep, OpenStep, AnswerStep,
           HouseStep, StockStep, Zenon DEF LotsNext

\* Whatever joins, leaves and tokens come, a token is no younger than the time since its
\* farmer left the cooperative it names, and a request was allowed by such a token (StockService)
THEOREM LotsInvariance == LotsSpec => []LotsInv
  BY LotsInitInv, LotsNextInv, PTL DEF LotsSpec

\* ... and it is enough
LEMMA LotsInvImplies == LotsInv => LotsSafety
<1> SUFFICES ASSUME LotsInv PROVE LotsSafety OBVIOUS
<1> USE LotsAssumption
<1>1. LotsTypeOK
  <2>1. \A s \in stock : house[s[1]] \in People
    BY DEF LotsInv, LotsTypes, HousesKept
  <2> QED BY <2>1 DEF LotsInv, LotsTypes, LotsTypeOK, Token, LotsOwned
<1>2. SpeaksForItself BY DEF LotsInv, AskingRow, Speaks, SpeaksForItself
<1>3. OpensOwnWarehouse
  <2> SUFFICES ASSUME NEW x \in Clients, asking[x].state = "opening", LotsShown(x) # {},
                      asking[x].who \notin Coops
               PROVE  house[asking[x].of] = asking[x].who
    BY DEF OpensOwnWarehouse
  <2>1. asking[x].of \in Houses /\ asking[x].who \in Farmers
        /\ house[asking[x].of] \in {asking[x].who, Gone}
    BY DEF LotsInv, AskingRow, People
  <2>2. PICK l \in LotRows : <<asking[x].of, l>> \in stock BY DEF LotsShown
  <2>3. house[asking[x].of] \in People BY <2>1, <2>2 DEF LotsInv, HousesKept
  <2> QED BY <2>1, <2>3 DEF People
<1> QED BY <1>1, <1>2, <1>3 DEF LotsSafety

-----------------------------------------------------------------------------
(***************************************************************************)
(* Paged lists. The rank of a row is the number of rows before it in the   *)
(* window the page is cut from. What was seen has a rank before the page's *)
(* end unless it was pushed, what waits has one beyond it; a row that      *)
(* comes before another pushes it, one that leaves pulls it, and so no     *)
(* other rank crosses the cut. A count of the window is past the rank of   *)
(* every row that waits, so the last page is not behind it.                *)
(*                                                                         *)
(* A list of members is cut from a window that may still hold the rows of  *)
(* one who left; they are behind every row that stayed and was not pulled, *)
(* so the next page, which no longer has them, begins where it should.     *)
(***************************************************************************)

\* Names, or dates, of which each row and each move takes one
Keys == 1 .. 2 * MaxRows + MaxMoves
\* A page asked for, and what its queries have read
PageRequests == [page : 1 .. MaxRows, state : {"idle", "asked", "done"},
                 todo : SUBSET {"rows", "count"}, ids : SUBSET Owners, rows : Seq(Nat),
                 total : 0 .. MaxRows]

\* The rows of a state, and the histories, which are of those rows
PageRows ==
  /\ list \in Lists /\ asked \in BOOLEAN /\ limit \in Limits
  /\ rows \in Seq([owner : Owners, open : BOOLEAN, key : Keys]) /\ Len(rows) <= MaxRows
  /\ members \in SUBSET Owners /\ moves \in 0 .. MaxMoves
  /\ request \in PageRequests /\ shown \in Seq(Nat) /\ torn \in BOOLEAN /\ tied \in BOOLEAN
  /\ stayed \cup pulled \cup pushed \cup ToSet(shown) \cup ToSet(request.rows) \subseteq 1 .. Len(rows)

\* Dates only grow, so two rows never have the same
Dated ==
  list.by # "name" =>
    /\ \A r \in 1 .. Len(rows) : rows[r].key <= Len(rows) + moves
    /\ \A r, q \in 1 .. Len(rows) : rows[r].key = rows[q].key => r = q

\* The rows that the page asked for is cut from, and those before a row
Window == IF request.state = "asked" THEN Where(request.ids) ELSE Listed
\* The rows of the window before this one, and how many they are
Before(r) == {x \in Window : rows[x].key > rows[r].key}
Rank(r) == Cardinality(Before(r))

\* A row still listed under members read before one of them left is behind those that stayed
Behind ==
  /\ stayed \subseteq Listed
  /\ request.state = "asked" /\ list.of = "members" => members \subseteq request.ids
  /\ \A x \in Window \ Listed, r \in stayed \ pulled : rows[x].key < rows[r].key

\* The rows of the pages so far, and the place they go up to
RowsRead == request.state = "asked" /\ "rows" \notin request.todo
Seen == ToSet(shown) \cup (IF RowsRead THEN ToSet(request.rows) ELSE {})
Upto == IF RowsRead THEN Skipped(request.page + 1) ELSE Skipped(request.page)

\* The rows that stayed, kept their place and have not been read yet
Waiting == (stayed \ pulled) \ Seen

\* Rows that were not seen are beyond that place, those that were are not
Cut ==
  ~tied /\ request.state # "done" =>
    /\ \A r \in Waiting : Rank(r) >= Upto
    /\ \A r \in (Seen \cap Window) \ pushed : Rank(r) < Upto

\* A sequence has each element once
Distinct(s) == \A i, j \in 1 .. Len(s) : i # j => s[i] # s[j]

\* A page has each row once, and none that was shown unless it was pushed
PageApart ==
  RowsRead => /\ Distinct(request.rows)
              /\ ~tied => ToSet(shown) \cap ToSet(request.rows) \subseteq pushed

\* What the count says of the rows that wait
PageCounted ==
  request.state = "asked" /\ "count" \notin request.todo /\ ~torn =>
    IF RowsRead THEN ~tied => \A r \in Waiting : request.total > Skipped(request.page + 1)
    ELSE Cardinality(Window) <= request.total

\* The invariant: the page a client has got to splits the window in what he saw and what waits
PagesInv ==
  /\ PageRows /\ Dated /\ Behind
  /\ Cut /\ PageApart /\ PageCounted
  /\ NoneSkipped /\ NoneTwice

-----------------------------------------------------------------------------

\* Whoever the owners are, a list is a finite set of rows of the table
LEMMA WhereType ==
  ASSUME PageRows, NEW I
  PROVE  /\ Where(I) \subseteq 1 .. Len(rows) /\ IsFiniteSet(Where(I))
         /\ Cardinality(Where(I)) \in 0 .. MaxRows
<1>1. rows \in Seq([owner : Owners, open : BOOLEAN, key : Keys]) /\ Len(rows) \in 0 .. MaxRows
      /\ MaxRows \in Nat
  BY PagesAssumption DEF PageRows
<1>2. DOMAIN rows = 1 .. Len(rows)
  BY <1>1
<1>3. Where(I) \subseteq 1 .. Len(rows)
  BY <1>2 DEF Where
<1>4. IsFiniteSet(1 .. Len(rows)) /\ Cardinality(1 .. Len(rows)) = Len(rows)
  <2>1. PICK n \in Nat : n = Len(rows)
    BY <1>1
  <2>2. IsFiniteSet(1 .. n) /\ Cardinality(1 .. n) = IF 1 > n THEN 0 ELSE n - 1 + 1
    BY FS_Interval
  <2> QED BY <2>1, <2>2
<1>5. IsFiniteSet(Where(I)) /\ Cardinality(Where(I)) <= Len(rows)
  BY <1>3, <1>4, FS_Subset
<1>6. Cardinality(Where(I)) \in Nat
  BY <1>5, FS_CardinalityType
<1> QED BY <1>1, <1>3, <1>5, <1>6

\* So is the window, and a row has a rank among all of them
LEMMA WindowType ==
  ASSUME PageRows
  PROVE  /\ Window \subseteq 1 .. Len(rows) /\ IsFiniteSet(Window)
         /\ Cardinality(Window) \in 0 .. MaxRows
         /\ \A r : /\ Before(r) \subseteq Window /\ IsFiniteSet(Before(r))
                   /\ Rank(r) \in Nat /\ Rank(r) <= Cardinality(Window)
<1>1. /\ Window \subseteq 1 .. Len(rows) /\ IsFiniteSet(Window)
      /\ Cardinality(Window) \in 0 .. MaxRows
  BY WhereType DEF Window, Listed
<1>2. ASSUME NEW r
      PROVE  /\ Before(r) \subseteq Window /\ IsFiniteSet(Before(r))
             /\ Rank(r) \in Nat /\ Rank(r) <= Cardinality(Window)
  <2>1. Before(r) \subseteq Window
    BY DEF Before
  <2>2. IsFiniteSet(Before(r)) /\ Cardinality(Before(r)) <= Cardinality(Window)
    BY <1>1, <2>1, FS_Subset
  <2> QED BY <2>1, <2>2, FS_CardinalityType DEF Rank
<1> QED BY <1>1, <1>2

\* The window after a step is a finite set of rows as well
LEMMA NextWindow ==
  ASSUME PageRows'
  PROVE  Window' \subseteq 1 .. Len(rows') /\ IsFiniteSet(Window')
<1>1. rows' \in Seq([owner : Owners, open : BOOLEAN, key : Keys]) /\ Len(rows') \in Nat
  BY PagesAssumption DEF PageRows, Keys
<1>2. DOMAIN rows' = 1 .. Len(rows')
  BY <1>1
<1>3. Window' \subseteq DOMAIN rows'
  BY DEF Window, Listed, Where
<1>4. IsFiniteSet(1 .. Len(rows'))
  BY <1>1, FS_Interval
<1> QED BY <1>2, <1>3, <1>4, FS_Subset

\* A row keeps at least its rank when no row leaves from before it
LEMMA RankGrows ==
  ASSUME PageRows, PageRows', NEW r, Before(r) \subseteq Before(r)'
  PROVE  Rank(r) <= Rank(r)'
<1>1. Before(r)' \subseteq Window'
  BY DEF Before
<1>2. IsFiniteSet(Before(r)')
  BY <1>1, NextWindow, FS_Subset
<1> QED BY <1>2, FS_Subset DEF Rank

\* A row keeps at most its rank when no row comes before it
LEMMA RankShrinks ==
  ASSUME PageRows, PageRows', NEW r, Before(r)' \subseteq Before(r)
  PROVE  Rank(r)' <= Rank(r)
<1>1. IsFiniteSet(Before(r))
  BY WindowType
<1> QED BY <1>1, FS_Subset DEF Rank

\* A row that becomes the first has a rank no greater than it had
LEMMA FirstRank ==
  ASSUME PageRows, PageRows', NEW r, Before(r)' = {}
  PROVE  Rank(r)' <= Rank(r)
<1>1. Rank(r)' = 0 /\ Rank(r) \in Nat
  BY WindowType, FS_EmptySet DEF Rank
<1> QED BY <1>1

\* Where a page begins and ends
LEMMA PageTurns ==
  ASSUME limit \in Nat \ {0}, NEW p \in Nat \ {0}
  PROVE  /\ Skipped(p) \in Nat /\ Skipped(p + 1) = Skipped(p) + limit
         /\ Skipped(p + 1) = p * limit
<1>1. (p - 1) * limit \in Nat /\ (p + 1 - 1) * limit = (p - 1) * limit + limit
      /\ (p + 1 - 1) * limit = p * limit
  <2>1. PICK q \in Nat : p = q + 1
    <3>1. p - 1 \in Nat /\ p = (p - 1) + 1
      OBVIOUS
    <3> QED BY <3>1
  <2>2. p - 1 = q /\ p + 1 - 1 = q + 1 /\ q * limit \in Nat /\ (q + 1) * limit = q * limit + limit
    BY <2>1
  <2> QED BY <2>1, <2>2
<1> QED BY <1>1 DEF Skipped

\* last_page is beyond every page after which some of the total is left, and never beyond the total
LEMMA LastPageBounds ==
  ASSUME limit \in Nat \ {0}, NEW total \in Nat
  PROVE  /\ LastPage(total) \in Nat /\ (total > 0 => LastPage(total) <= total)
         /\ (total = 0 => LastPage(total) = 1)
         /\ \A p \in Nat \ {0} : total > Skipped(p + 1) => p < LastPage(total)
<1>1. CASE total = 0
  <2>1. LastPage(total) = 1
    BY <1>1 DEF LastPage
  <2>2. \A p \in Nat \ {0} : Skipped(p + 1) \in Nat
    BY PageTurns
  <2> QED BY <1>1, <2>1, <2>2
<1>2. CASE total > 0
  <2>1. PICK n \in Nat : n = total + limit - 1
    BY <1>2
  <2>2. PICK q : q = n \div limit
    OBVIOUS
  <2>3. q \in Nat /\ limit * q <= n /\ n < limit * q + limit
    <3>1. n % limit \in 0 .. limit - 1 /\ n = (limit * (n \div limit)) + (n % limit) /\ n \div limit \in Int
      OBVIOUS
    <3>2. n \div limit \in Nat
      OBVIOUS
    <3> QED BY <2>2, <3>1, <3>2
  <2>4. LastPage(total) = q
    BY <1>2, <2>1, <2>2 DEF LastPage
  <2>5. q <= total
    <3>1. SUFFICES ASSUME q >= total + 1 PROVE FALSE
      BY <2>3
    <3>2. limit * q >= limit * (total + 1)
      BY <2>3, <3>1
    <3>3. limit * (total + 1) = limit * total + limit /\ limit * total >= total
      OBVIOUS
    <3>4. limit * q \in Nat /\ limit * total \in Nat /\ limit * (total + 1) \in Nat
      BY <2>3
    <3> QED BY <2>1, <2>3, <3>2, <3>3, <3>4
  <2>6. ASSUME NEW p \in Nat \ {0}, total > Skipped(p + 1) PROVE p < q
    <3>1. total > p * limit /\ p * limit \in Nat /\ p * limit = limit * p
      BY <2>6, PageTurns
    <3>2. SUFFICES ASSUME q <= p PROVE FALSE
      BY <2>3
    <3>3. limit * q <= limit * p /\ limit * q \in Nat
      BY <2>3, <3>2
    <3> QED BY <2>1, <2>3, <3>1, <3>3
  <2> QED BY <1>2, <2>3, <2>4, <2>5, <2>6
<1> QED BY <1>1, <1>2

\* A set in the order of the list, when no two keys are the same
Ordered(s, S) ==
  /\ s \in Seq(Nat) /\ Len(s) = Cardinality(S) /\ Distinct(s)
  /\ \A r \in S : \E i \in 1 .. Len(s) : s[i] = r
  /\ \A i \in 1 .. Len(s) :
       s[i] \in S /\ Cardinality({x \in S : rows[x].key > rows[s[i]].key}) = i - 1

\* Without ties, orderBy leaves one order: the place of a row is its rank
LEMMA SortedOrder ==
  ASSUME PageRows, NEW S \in SUBSET (1 .. Len(rows)), NEW s \in Sorted(S),
         \A r, q \in S : rows[r].key = rows[q].key => r = q
  PROVE  Ordered(s, S)
<1>1. /\ rows \in Seq([owner : Owners, open : BOOLEAN, key : Keys]) /\ Len(rows) \in Nat
      /\ \A r \in S : rows[r].key \in Int /\ r \in Nat
  <2>1. rows \in Seq([owner : Owners, open : BOOLEAN, key : Keys]) /\ Len(rows) \in Nat
    BY DEF PageRows
  <2>2. \A r \in 1 .. Len(rows) : rows[r] \in [owner : Owners, open : BOOLEAN, key : Keys]
    BY <2>1, ElementOfSeq
  <2>3. Keys \subseteq Int
    BY DEF Keys
  <2>4. \A r \in S : r \in 1 .. Len(rows) /\ r \in Nat
    BY <2>1
  <2> QED BY <2>1, <2>2, <2>3, <2>4
<1>2. IsFiniteSet(S)
  <2>1. IsFiniteSet(1 .. Len(rows))
    BY <1>1, FS_Interval
  <2> QED BY <2>1, FS_Subset
<1>3. PICK n \in Nat : n = Cardinality(S)
  BY <1>2, FS_CardinalityType
<1>4. /\ s \in [1 .. n -> S] /\ \A i, j \in 1 .. n : i # j => s[i] # s[j]
      /\ \A i, j \in DOMAIN s : i < j => rows[s[i]].key >= rows[s[j]].key
  BY <1>3 DEF Sorted, SetToSeqs
<1>5. s \in Seq(Nat) /\ Len(s) = n
  <2>1. s \in [1 .. n -> Nat]
    BY <1>1, <1>4
  <2>2. s \in Seq(Nat)
    BY <2>1, <1>3, SeqDef
  <2> QED BY <2>1, <2>2, LenProperties, <1>3
<1>6. \A r \in S : \E i \in 1 .. n : s[i] = r
  <2>1. s \in Injection(1 .. n, S)
    BY <1>4 DEF Injection, IsInjective
  <2>2. Cardinality(1 .. n) = n /\ IsFiniteSet(1 .. n)
    BY <1>3, FS_Interval
  <2>3. s \in Surjection(1 .. n, S)
    BY <1>2, <1>3, <2>1, <2>2, FS_Injection
  <2> QED BY <2>3 DEF Surjection
<1>7. ASSUME NEW i \in 1 .. n
      PROVE  Cardinality({x \in S : rows[x].key > rows[s[i]].key}) = i - 1
  <2> DEFINE B == {x \in S : rows[x].key > rows[s[i]].key}
             f == [j \in 1 .. i - 1 |-> s[j]]
  <2>1. \A j \in 1 .. n : rows[s[j]].key > rows[s[i]].key <=> j < i
    <3>1. TAKE j \in 1 .. n
    <3>2. s[j] \in S /\ s[i] \in S /\ rows[s[j]].key \in Int /\ rows[s[i]].key \in Int
      BY <1>1, <1>4
    <3>3. j < i => rows[s[j]].key >= rows[s[i]].key /\ s[j] # s[i]
      BY <1>4
    <3>4. i < j => rows[s[i]].key >= rows[s[j]].key
      BY <1>4
    <3>5. rows[s[j]].key = rows[s[i]].key => s[j] = s[i]
      BY <3>2
    <3> QED BY <3>2, <3>3, <3>4, <3>5, <1>3
  <2>2. \A j \in 1 .. i - 1 : j \in 1 .. n /\ j < i
    BY <1>3
  <2>3. f \in [1 .. i - 1 -> B]
    BY <2>1, <2>2, <1>4
  <2>4. f \in Bijection(1 .. i - 1, B)
    <3>1. f \in Injection(1 .. i - 1, B)
      BY <2>2, <2>3, <1>4 DEF Injection, IsInjective
    <3>2. \A x \in B : \E j \in 1 .. i - 1 : f[j] = x
      <4>1. TAKE x \in B
      <4>2. PICK j \in 1 .. n : s[j] = x
        BY <1>6
      <4>3. j < i
        BY <2>1, <4>2
      <4>4. j \in 1 .. i - 1
        BY <4>3, <1>3
      <4> QED BY <4>2, <4>4
    <3> QED BY <3>1, <3>2, <2>3 DEF Bijection, Surjection
  <2>5. ExistsBijection(1 .. i - 1, B)
    BY <2>4 DEF ExistsBijection
  <2>6. IsFiniteSet(1 .. i - 1) /\ Cardinality(1 .. i - 1) = i - 1
    <3>1. i - 1 \in Nat
      BY <1>3
    <3> QED BY <3>1, FS_Interval
  <2>7. Cardinality(B) = i - 1
    BY <2>5, <2>6, FS_Bijection
  <2> QED BY <2>7
<1>8. \A i \in 1 .. n : s[i] \in S
  BY <1>4
<1> QED BY <1>3, <1>4, <1>5, <1>6, <1>7, <1>8 DEF Ordered, Distinct

\* A page of a sequence
LEMMA TakenType ==
  ASSUME limit \in Nat \ {0}, NEW s \in Seq(Nat), NEW p \in Nat \ {0}
  PROVE  Taken(s, p) \in Seq(Nat)
<1>1. PICK k \in Nat : k = Skipped(p)
  BY PageTurns
<1>2. PICK m : m = Least(k + limit, Len(s)) /\ m \in Int /\ m <= Len(s)
  BY DEF Least
<1>3. SubSeq(s, k + 1, m) \in Seq(Nat)
  <2>1. \A i \in k + 1 .. m : s[i] \in Nat
    <3>1. \A i \in k + 1 .. m : i \in 1 .. Len(s)
      BY <1>2
    <3> QED BY <3>1, ElementOfSeq
  <2>2. k + 1 \in Int /\ m \in Int
    BY <1>2
  <2> QED BY <2>1, <2>2, SubSeqProperties
<1>4. <<>> \in Seq(Nat)
  OBVIOUS
<1> QED BY <1>1, <1>2, <1>3, <1>4 DEF Taken

\* What skip and take leave: the places after those skipped, up to the next page
LEMMA TakenRows ==
  ASSUME limit \in Nat \ {0}, NEW s \in Seq(Nat), NEW p \in Nat \ {0},
         NEW t \in Seq(Nat), t = Taken(s, p)
  PROVE  /\ \A i \in 1 .. Len(t) : /\ Skipped(p) + i \in 1 .. Len(s) /\ i <= limit
                                   /\ t[i] = s[Skipped(p) + i]
         /\ \A j \in 1 .. Len(s) : Skipped(p) < j /\ j <= Skipped(p + 1) =>
              j - Skipped(p) \in 1 .. Len(t) /\ t[j - Skipped(p)] = s[j]
<1>1. PICK k \in Nat : k = Skipped(p) /\ Skipped(p + 1) = k + limit
  BY PageTurns
<1>2. PICK n \in Nat : n = Len(s)
  OBVIOUS
<1>3. CASE k >= n
  <2>1. t = <<>>
    BY <1>1, <1>2, <1>3 DEF Taken
  <2>2. t \in Seq(Nat) /\ Len(t) = 0
    BY <2>1
  <2> QED BY <1>1, <1>2, <1>3, <2>2
<1>4. CASE k < n
  <2>1. PICK m \in Nat : m = Least(k + limit, n) /\ m <= k + limit /\ m <= n /\ k < m
                         /\ (m = n \/ m = k + limit)
    BY <1>4 DEF Least
  <2>2. t = SubSeq(s, k + 1, m)
    <3>1. ~(Skipped(p) >= Len(s)) /\ Least(Skipped(p) + limit, Len(s)) = m
      BY <1>1, <1>2, <1>4, <2>1
    <3> QED BY <1>1, <3>1 DEF Taken
  <2>3. \A i \in k + 1 .. m : s[i] \in Nat
    <3>1. \A i \in k + 1 .. m : i \in 1 .. Len(s)
      BY <1>2, <2>1
    <3> QED BY <3>1
  <2>4. /\ SubSeq(s, k + 1, m) \in Seq(Nat)
        /\ Len(SubSeq(s, k + 1, m)) = IF k + 1 <= m THEN m - (k + 1) + 1 ELSE 0
        /\ \A i \in 1 .. m - (k + 1) + 1 : SubSeq(s, k + 1, m)[i] = s[k + 1 + i - 1]
    <3>1. k + 1 \in Int /\ m \in Int
      OBVIOUS
    <3> QED BY <2>3, <3>1, SubSeqProperties
  <2>5. t \in Seq(Nat) /\ Len(t) = m - k /\ \A i \in 1 .. m - k : t[i] = s[k + i]
    <3>1. m - (k + 1) + 1 = m - k /\ k + 1 <= m
      BY <2>1
    <3>2. \A i \in 1 .. m - k : k + 1 + i - 1 = k + i
      OBVIOUS
    <3> QED BY <2>2, <2>4, <3>1, <3>2
  <2>6. ASSUME NEW i \in 1 .. Len(t)
        PROVE  k + i \in 1 .. Len(s) /\ i <= limit /\ t[i] = s[k + i]
    BY <2>1, <2>5, <1>2, SMTT(20)
  <2>7. ASSUME NEW j \in 1 .. Len(s), k < j, j <= k + limit
        PROVE  j - k \in 1 .. Len(t) /\ t[j - k] = s[j]
    <3>1. j - k \in 1 .. m - k /\ k + (j - k) = j
      BY <2>1, <2>7, <1>2, SMTT(20)
    <3> QED BY <2>5, <3>1
  <2> QED BY <1>1, <2>5, <2>6, <2>7
<1> QED BY <1>3, <1>4

-----------------------------------------------------------------------------

\* Keys are numbers
LEMMA KeyType ==
  ASSUME PageRows
  PROVE  \A r \in 1 .. Len(rows) : rows[r].key \in Keys /\ rows[r].key \in Int
<1>1. rows \in Seq([owner : Owners, open : BOOLEAN, key : Keys])
  BY DEF PageRows
<1>2. \A r \in 1 .. Len(rows) : rows[r] \in [owner : Owners, open : BOOLEAN, key : Keys]
  BY <1>1, ElementOfSeq
<1>3. Keys \subseteq Int
  BY DEF Keys
<1> QED BY <1>2, <1>3

\* Pages and limits are numbers from 1, so what is skipped is a number
LEMMA PageNumbers ==
  ASSUME PageRows
  PROVE  /\ limit \in Nat \ {0} /\ request.page \in Nat \ {0} /\ request.total \in Nat
         /\ Skipped(request.page) \in Nat /\ Skipped(request.page + 1) \in Nat
         /\ Skipped(request.page + 1) = Skipped(request.page) + limit
<1>1. limit \in Nat \ {0} /\ request.page \in Nat \ {0} /\ request.total \in Nat
  <2>1. request.page \in 1 .. MaxRows /\ request.total \in 0 .. MaxRows
    BY DEF PageRows, PageRequests
  <2> QED BY <2>1, PagesAssumption DEF PageRows
<1>2. Skipped(request.page) \in Nat /\ Skipped(request.page + 1) = Skipped(request.page) + limit
  BY <1>1, PageTurns
<1> QED BY <1>1, <1>2

\* A row that waits is in the window, and not before itself
LEMMA WaitingIn ==
  ASSUME PagesInv, request.state = "asked", NEW r \in Waiting
  PROVE  r \in Window /\ Rank(r) \in Nat /\ Rank(r) < Cardinality(Window)
<1>1. r \in Window
  <2>1. r \in Listed
    BY DEF PagesInv, Behind, Waiting
  <2>2. Listed \subseteq Window
    BY DEF PagesInv, Behind, Window, Listed, Where
  <2> QED BY <2>1, <2>2
<1>2. PageRows
  BY DEF PagesInv
<1>3. r \notin Before(r)
  <2>1. rows[r].key \in Int
    BY <1>1, <1>2, WindowType, KeyType
  <2> QED BY <2>1 DEF Before
<1>4. Before(r) \subseteq Window \ {r} /\ IsFiniteSet(Window) /\ Cardinality(Window) \in Nat /\ Rank(r) \in Nat
  BY <1>2, <1>3, WindowType
<1>5. IsFiniteSet(Window \ {r}) /\ Cardinality(Window \ {r}) = Cardinality(Window) - 1
  BY <1>1, <1>4, FS_RemoveElement
<1>6. Rank(r) <= Cardinality(Window \ {r})
  BY <1>4, <1>5, FS_Subset DEF Rank
<1> QED BY <1>1, <1>4, <1>5, <1>6

\* A step of the client that is not a page: the queries of a request read, and it shows
LEMMA QueryRest ==
  ASSUME PagesInv, UNCHANGED <<queryVars, tableVars>>,
         request' \in PageRequests, shown' \in Seq(Nat), torn' \in BOOLEAN, tied' \in BOOLEAN,
         ToSet(shown') \cup ToSet(request'.rows) \subseteq 1 .. Len(rows)
  PROVE  PageRows' /\ Dated' /\ Listed' = Listed
<1>1. UNCHANGED <<list, asked, limit, rows, members, moves, stayed, pulled, pushed>>
  BY DEF queryVars, tableVars
<1>2. PageRows'
  BY <1>1 DEF PagesInv, PageRows
<1>3. Dated'
  BY <1>1 DEF PagesInv, Dated
<1>4. Listed' = Listed
  BY <1>1 DEF Listed, Where, Filtered
<1> QED BY <1>2, <1>3, <1>4

\* Asking for a page reads nothing yet: the window is that of the members read
LEMMA AskPageStep ==
  ASSUME PagesInv, AskPage
  PROVE  PagesInv'
<1>1. /\ request.state = "idle"
      /\ request' = [request EXCEPT !.state = "asked", !.todo = {"rows", "count"},
                               !.ids = IF list.of = "members" THEN members ELSE {}]
      /\ UNCHANGED <<queryVars, tableVars, shown, torn, tied>>
  BY DEF AskPage
<1>2. UNCHANGED <<list, asked, limit, rows, members, moves, stayed, pulled, pushed, shown, torn, tied>>
  BY <1>1 DEF queryVars, tableVars
<1>3. request \in PageRequests /\ members \in SUBSET Owners
  BY DEF PagesInv, PageRows
<1>4. /\ request' \in PageRequests /\ request'.rows = request.rows /\ request'.page = request.page
      /\ request'.state = "asked" /\ request'.todo = {"rows", "count"}
      /\ request'.ids = IF list.of = "members" THEN members ELSE {}
  BY <1>1, <1>3 DEF PageRequests
<1>5. PageRows' /\ Dated' /\ Listed' = Listed
  <2>1. ToSet(shown) \cup ToSet(request.rows) \subseteq 1 .. Len(rows) /\ shown \in Seq(Nat)
        /\ torn \in BOOLEAN /\ tied \in BOOLEAN
    BY DEF PagesInv, PageRows
  <2> QED BY <1>1, <1>2, <1>4, <2>1, QueryRest
<1>6. Window' = Listed /\ Window = Listed
  BY <1>1, <1>2, <1>4 DEF Window, Listed, Where, Filtered
<1>7. ~RowsRead /\ ~RowsRead'
  BY <1>1, <1>4 DEF RowsRead
<1>8. Seen' = Seen /\ Upto' = Upto /\ Waiting' = Waiting
  BY <1>2, <1>4, <1>7 DEF Seen, Upto, Waiting, Skipped
<1>9. \A r : Before(r)' = Before(r)
  BY <1>2, <1>6 DEF Before
<1>10. Behind'
  BY <1>2, <1>4, <1>5, <1>6 DEF PagesInv, Behind
<1>11. Cut'
  BY <1>1, <1>2, <1>6, <1>8, <1>9 DEF PagesInv, Cut, Rank
<1>12. PageApart' /\ PageCounted'
  BY <1>4, <1>7 DEF PageApart, PageCounted
<1>13. NoneSkipped' /\ NoneTwice'
  BY <1>2, <1>4 DEF PagesInv, NoneSkipped, NoneTwice
<1> QED BY <1>5, <1>10, <1>11, <1>12, <1>13 DEF PagesInv

\* The count is of the window, so it is past every row that waits
LEMMA ReadCountStep ==
  ASSUME PagesInv, ReadCount
  PROVE  PagesInv'
<1>1. /\ request.state = "asked" /\ "count" \in request.todo
      /\ request' = [request EXCEPT !.total = Cardinality(Where(request.ids)), !.todo = @ \ {"count"}]
      /\ UNCHANGED <<queryVars, tableVars, shown, torn, tied>>
  BY DEF ReadCount
<1>2. UNCHANGED <<list, asked, limit, rows, members, moves, stayed, pulled, pushed, shown, torn, tied>>
  BY <1>1 DEF queryVars, tableVars
<1>3. request \in PageRequests /\ PageRows /\ Cardinality(Where(request.ids)) \in 0 .. MaxRows
  BY WhereType DEF PagesInv, PageRows
<1>4. /\ request' \in PageRequests /\ request'.rows = request.rows /\ request'.page = request.page
      /\ request'.state = "asked" /\ request'.todo = request.todo \ {"count"}
      /\ request'.ids = request.ids /\ request'.total = Cardinality(Window)
  BY <1>1, <1>3 DEF PageRequests, Window
<1>5. PageRows' /\ Dated' /\ Listed' = Listed
  <2>1. ToSet(shown) \cup ToSet(request.rows) \subseteq 1 .. Len(rows) /\ shown \in Seq(Nat)
        /\ torn \in BOOLEAN /\ tied \in BOOLEAN
    BY DEF PagesInv, PageRows
  <2> QED BY <1>1, <1>2, <1>4, <2>1, QueryRest
<1>6. Window' = Window
  BY <1>1, <1>2, <1>4 DEF Window, Where, Filtered
<1>7. RowsRead' <=> RowsRead
  BY <1>1, <1>4 DEF RowsRead
<1>8. Seen' = Seen /\ Upto' = Upto /\ Waiting' = Waiting
  BY <1>2, <1>4, <1>7 DEF Seen, Upto, Waiting, Skipped
<1>9. \A r : Before(r)' = Before(r)
  BY <1>2, <1>6 DEF Before
<1>10. Behind'
  BY <1>1, <1>2, <1>4, <1>5, <1>6 DEF PagesInv, Behind
<1>11. Cut'
  BY <1>1, <1>2, <1>4, <1>6, <1>8, <1>9 DEF PagesInv, Cut, Rank
<1>12. PageApart'
  BY <1>2, <1>4, <1>7 DEF PagesInv, PageApart
<1>13. NoneSkipped' /\ NoneTwice'
  BY <1>2, <1>4 DEF PagesInv, NoneSkipped, NoneTwice
<1>14. PageCounted'
  <2>1. CASE ~RowsRead
    <3>1. Cardinality(Window') <= request'.total
      BY <1>3, <1>4, <1>6, WindowType
    <3> QED BY <2>1, <1>7, <3>1 DEF PageCounted
  <2>2. CASE RowsRead
    <3> SUFFICES ASSUME ~tied, NEW r \in Waiting
                 PROVE  Cardinality(Window) > Skipped(request.page + 1)
      BY <2>2, <1>2, <1>4, <1>7, <1>8 DEF PageCounted, Skipped
    <3>1. Rank(r) >= Skipped(request.page + 1)
      BY <1>1, <2>2 DEF PagesInv, Cut, Upto
    <3>2. Rank(r) \in Nat /\ Rank(r) < Cardinality(Window)
      BY <1>1, WaitingIn
    <3>3. Skipped(request.page + 1) \in Nat /\ Cardinality(Window) \in Int
      BY <1>3, PageNumbers, WindowType
    <3> QED BY <3>1, <3>2, <3>3
  <2> QED BY <2>1, <2>2
<1> QED BY <1>5, <1>10, <1>11, <1>12, <1>13, <1>14 DEF PagesInv

\* The rows of a page are those with the next ranks, which nobody saw unless pushed
LEMMA ReadRowsStep ==
  ASSUME PagesInv, ReadRows
  PROVE  PagesInv'
<1> DEFINE W == Where(request.ids)
<1>0. PICK p \in Nat \ {0} : p = request.page
  BY PageNumbers DEF PagesInv
<1>1. PICK s \in Sorted(W) :
        request' = [request EXCEPT !.rows = Taken(s, p), !.todo = @ \ {"rows"}]
  BY <1>0 DEF ReadRows
<1>2. /\ request.state = "asked" /\ "rows" \in request.todo
      /\ tied' = (tied \/ \E r, q \in W : r # q /\ rows[r].key = rows[q].key)
      /\ UNCHANGED <<list, asked, limit, rows, members, moves, stayed, pulled, pushed, shown, torn>>
      /\ UNCHANGED <<queryVars, tableVars>>
  BY DEF ReadRows, queryVars, tableVars
<1>3. PageRows /\ W = Window /\ W \in SUBSET (1 .. Len(rows)) /\ IsFiniteSet(W)
      /\ request \in PageRequests
  <2>1. PageRows
    BY DEF PagesInv
  <2> QED BY <1>2, <2>1, WhereType DEF Window, PageRows
<1>4. PICK t \in Seq(Nat) : t = Taken(s, p)
  <2>1. s \in Seq(Nat)
    <3>1. s \in [1 .. Cardinality(W) -> W] /\ Cardinality(W) \in Nat
      BY <1>3, FS_CardinalityType DEF Sorted, SetToSeqs
    <3>2. s \in [1 .. Cardinality(W) -> Nat]
      BY <1>3, <3>1
    <3> QED BY <3>1, <3>2, SeqDef
  <2> QED BY <1>0, <1>3, <2>1, TakenType, PageNumbers
<1>5. /\ request' \in PageRequests /\ request'.rows = t /\ request'.page = p
      /\ request'.state = "asked" /\ request'.todo = request.todo \ {"rows"}
      /\ request'.ids = request.ids /\ request'.total = request.total
  BY <1>0, <1>1, <1>2, <1>3, <1>4 DEF PageRequests
<1>6. s \in Seq(Nat) /\ \A i \in 1 .. Len(s) : s[i] \in W
  <2>1. s \in [1 .. Cardinality(W) -> W] /\ Cardinality(W) \in Nat
    BY <1>3, FS_CardinalityType DEF Sorted, SetToSeqs
  <2>2. s \in [1 .. Cardinality(W) -> Nat]
    BY <1>3, <2>1
  <2>3. s \in Seq(Nat)
    BY <2>1, <2>2, SeqDef
  <2>4. Len(s) = Cardinality(W)
    BY <2>1, <2>3, LenProperties
  <2> QED BY <2>1, <2>3, <2>4
<1>7. PICK k \in Nat : k = Skipped(p)
  BY <1>0, <1>3, PageNumbers
<1>8. limit \in Nat \ {0} /\ p \in Nat \ {0} /\ Skipped(p + 1) = k + limit
  BY <1>0, <1>3, <1>7, PageNumbers
<1>9. /\ \A i \in 1 .. Len(t) : k + i \in 1 .. Len(s) /\ i <= limit /\ t[i] = s[k + i]
      /\ \A j \in 1 .. Len(s) : k < j /\ j <= k + limit => j - k \in 1 .. Len(t) /\ t[j - k] = s[j]
  <2>1. /\ \A i \in 1 .. Len(t) : /\ Skipped(p) + i \in 1 .. Len(s) /\ i <= limit
                                  /\ t[i] = s[Skipped(p) + i]
        /\ \A j \in 1 .. Len(s) : Skipped(p) < j /\ j <= Skipped(p + 1) =>
             j - Skipped(p) \in 1 .. Len(t) /\ t[j - Skipped(p)] = s[j]
    <3>1. limit \in Nat \ {0} /\ s \in Seq(Nat) /\ p \in Nat \ {0} /\ t = Taken(s, p)
      BY <1>4, <1>6, <1>8
    <3> HIDE DEF W
    <3>3. \A i \in 1 .. Len(t) : /\ Skipped(p) + i \in 1 .. Len(s) /\ i <= limit
                                 /\ t[i] = s[Skipped(p) + i]
      BY <3>1, TakenRows, SMTT(30)
    <3>4. \A j \in 1 .. Len(s) : Skipped(p) < j /\ j <= Skipped(p + 1) =>
             j - Skipped(p) \in 1 .. Len(t) /\ t[j - Skipped(p)] = s[j]
      BY <3>1, TakenRows, SMTT(30)
    <3> QED BY <3>3, <3>4
  <2>2. \A i \in 1 .. Len(t) : k + i \in 1 .. Len(s) /\ i <= limit /\ t[i] = s[k + i]
    BY <1>7, <2>1
  <2>3. \A j \in 1 .. Len(s) : k < j /\ j <= k + limit => j - k \in 1 .. Len(t) /\ t[j - k] = s[j]
    BY <1>7, <1>8, <2>1
  <2> QED BY <2>2, <2>3
<1>10. ToSet(t) = {t[i] : i \in 1 .. Len(t)}
  BY <1>4 DEF ToSet
<1>11. ToSet(t) \subseteq W
  BY <1>6, <1>9, <1>10
<1>12. PageRows' /\ Dated' /\ Listed' = Listed
  <2>1. ToSet(shown) \cup ToSet(t) \subseteq 1 .. Len(rows) /\ shown \in Seq(Nat)
        /\ torn \in BOOLEAN /\ tied' \in BOOLEAN
    BY <1>2, <1>3, <1>11 DEF PageRows
  <2> QED BY <1>2, <1>5, <2>1, QueryRest
<1>13. Window' = Window
  BY <1>2, <1>5 DEF Window, Where, Filtered
<1>14. RowsRead' /\ ~RowsRead
  BY <1>2, <1>5 DEF RowsRead
<1>15. Seen' = Seen \cup ToSet(t) /\ Seen = ToSet(shown) /\ Upto' = k + limit /\ Upto = k
  BY <1>0, <1>2, <1>5, <1>7, <1>8, <1>14 DEF Seen, Upto, Skipped
<1>16. \A r : Before(r)' = Before(r) /\ Rank(r)' = Rank(r)
  BY <1>2, <1>13 DEF Before, Rank
<1>17. Waiting' \subseteq Waiting
  BY <1>2, <1>15 DEF Waiting
<1>18. Behind'
  BY <1>2, <1>5, <1>12, <1>13 DEF PagesInv, Behind
<1>19. ASSUME ~tied'
       PROVE  /\ ~tied /\ Distinct(s)
              /\ \A r \in W : \E i \in 1 .. Len(s) : s[i] = r
              /\ \A i \in 1 .. Len(s) : Rank(s[i]) = i - 1
  <2>1. ~tied /\ \A r, q \in W : rows[r].key = rows[q].key => r = q
    BY <1>2, <1>19
  <2>2. Ordered(s, W)
    BY <1>3, <2>1, SortedOrder
  <2> QED BY <1>3, <2>1, <2>2 DEF Ordered, Rank, Before
<1>20. ASSUME ~tied', NEW i \in 1 .. Len(t)
       PROVE  Rank(t[i]) >= k /\ Rank(t[i]) < k + limit
  <2>1. k + i \in 1 .. Len(s) /\ i <= limit /\ t[i] = s[k + i]
    BY <1>9
  <2>2. Rank(t[i]) = k + i - 1
    BY <1>19, <1>20, <2>1
  <2> QED BY <1>8, <2>1, <2>2
<1>21. ASSUME ~tied', NEW r \in Waiting'
       PROVE  Rank(r) >= k + limit
  <2>1. r \in Waiting /\ r \notin ToSet(t)
    BY <1>15, <1>17, <1>21 DEF Waiting
  <2>2. r \in W /\ Rank(r) \in Nat /\ Rank(r) >= k
    BY <1>2, <1>3, <1>15, <1>19, <1>21, <2>1, WaitingIn DEF PagesInv, Cut
  <2>3. PICK j \in 1 .. Len(s) : s[j] = r
    BY <1>19, <1>21, <2>2
  <2>4. Rank(r) = j - 1
    BY <1>19, <1>21, <2>3
  <2>5. ~(j <= k + limit)
    <3>1. SUFFICES ASSUME j <= k + limit PROVE FALSE
      OBVIOUS
    <3>2. k < j
      BY <2>2, <2>4
    <3>3. j - k \in 1 .. Len(t) /\ t[j - k] = r
      BY <1>9, <2>3, <3>1, <3>2
    <3> QED BY <1>10, <2>1, <3>3
  <2> QED BY <1>8, <2>4, <2>5
<1>22. Cut'
  <2> SUFFICES ASSUME ~tied'
               PROVE  /\ \A r \in Waiting' : Rank(r)' >= Upto'
                      /\ \A r \in (Seen' \cap Window') \ pushed' : Rank(r)' < Upto'
    BY DEF Cut
  <2>1. \A r \in Waiting' : Rank(r)' >= Upto'
    BY <1>15, <1>16, <1>21
  <2>2. ASSUME NEW r \in (Seen' \cap Window') \ pushed'
        PROVE  Rank(r)' < Upto'
    <3>1. CASE r \in ToSet(t)
      BY <1>10, <1>15, <1>16, <1>20, <3>1
    <3>2. CASE r \in (Seen \cap Window) \ pushed
      <4>1. Rank(r) < k /\ Rank(r) \in Nat
        BY <1>2, <1>3, <1>15, <1>19, <3>2, WindowType DEF PagesInv, Cut
      <4> QED BY <1>8, <1>15, <1>16, <4>1
    <3> QED BY <1>2, <1>13, <1>15, <2>2, <3>1, <3>2
  <2> QED BY <2>1, <2>2
<1>23. PageApart'
  <2>1. Distinct(t)
    <3>1. \A i, j \in 1 .. Len(s) : i # j => s[i] # s[j]
      <4>1. s \in [1 .. Cardinality(W) -> W] /\ \A i, j \in 1 .. Cardinality(W) : i # j => s[i] # s[j]
        BY DEF Sorted, SetToSeqs
      <4>2. Cardinality(W) \in Nat
        BY <1>3, FS_CardinalityType
      <4>3. Len(s) = Cardinality(W)
        BY <1>6, <4>1, <4>2, LenProperties
      <4> QED BY <4>1, <4>3
    <3>2. SUFFICES ASSUME NEW i \in 1 .. Len(t), NEW j \in 1 .. Len(t), i # j PROVE t[i] # t[j]
      BY DEF Distinct
    <3>3. k + i \in 1 .. Len(s) /\ k + j \in 1 .. Len(s) /\ t[i] = s[k + i] /\ t[j] = s[k + j]
      BY <1>9
    <3>4. k + i # k + j
      BY <3>2
    <3> QED BY <3>1, <3>3, <3>4
  <2>2. ASSUME ~tied', NEW r \in ToSet(shown), r \in ToSet(t), r \notin pushed
        PROVE  FALSE
    <3>1. PICK i \in 1 .. Len(t) : t[i] = r
      BY <1>10, <2>2
    <3>2. Rank(r) >= k
      BY <1>20, <2>2, <3>1
    <3>3. Rank(r) < k /\ Rank(r) \in Nat
      BY <1>2, <1>3, <1>11, <1>15, <1>19, <2>2, WindowType DEF PagesInv, Cut
    <3> QED BY <3>2, <3>3
  <2>3. ~tied' => ToSet(shown') \cap ToSet(request'.rows) \subseteq pushed'
    BY <1>2, <1>5, <2>2
  <2> QED BY <1>5, <2>1, <2>3 DEF PageApart
<1>24. PageCounted'
  <2> SUFFICES ASSUME "count" \notin request.todo, ~torn, ~tied', NEW r \in Waiting'
               PROVE  request.total > k + limit
    BY <1>0, <1>2, <1>5, <1>7, <1>8, <1>14 DEF PageCounted, Skipped
  <2>1. Cardinality(Window) <= request.total /\ request.total \in Nat
    BY <1>2, <1>3, <1>14, PageNumbers DEF PagesInv, PageCounted
  <2>2. Rank(r) >= k + limit
    BY <1>21
  <2>3. Rank(r) \in Nat /\ Rank(r) < Cardinality(Window)
    BY <1>2, <1>17, WaitingIn
  <2>4. Cardinality(Window) \in Nat
    BY <1>3, WindowType
  <2> QED BY <1>8, <2>1, <2>2, <2>3, <2>4
<1>25. NoneSkipped' /\ NoneTwice'
  BY <1>2, <1>5 DEF PagesInv, NoneSkipped, NoneTwice
<1> QED BY <1>12, <1>18, <1>22, <1>23, <1>24, <1>25 DEF PagesInv

\* What is shown was read; when the last page is reached no row waits
LEMMA ShowPageStep ==
  ASSUME PagesInv, ShowPage
  PROVE  PagesInv'
<1> DEFINE p == request.page
           t == request.rows
<1>1. /\ request.state = "asked" /\ request.todo = {}
      /\ shown' = shown \o t
      /\ request' = IF p < LastPage(request.total) THEN [Opened EXCEPT !.page = p + 1]
                    ELSE [request EXCEPT !.state = "done"]
      /\ UNCHANGED <<list, asked, limit, rows, members, moves, stayed, pulled, pushed, torn, tied>>
      /\ UNCHANGED <<queryVars, tableVars>>
  BY DEF ShowPage, queryVars, tableVars
<1>2. PageRows /\ request \in PageRequests /\ shown \in Seq(Nat) /\ t \in Seq(Nat)
  BY DEF PagesInv, PageRows, PageRequests
<1>3. /\ limit \in Nat \ {0} /\ p \in Nat \ {0} /\ request.total \in Nat
      /\ Skipped(p + 1) \in Nat
  BY <1>2, PageNumbers
<1>4. /\ shown' \in Seq(Nat) /\ Len(shown') = Len(shown) + Len(t)
      /\ \A i \in 1 .. Len(shown) + Len(t) :
           shown'[i] = IF i <= Len(shown) THEN shown[i] ELSE t[i - Len(shown)]
  BY <1>1, <1>2, ConcatProperties
<1>5. ToSet(shown') = ToSet(shown) \cup ToSet(t)
  <2>1. /\ ToSet(shown) = {shown[i] : i \in 1 .. Len(shown)} /\ ToSet(t) = {t[i] : i \in 1 .. Len(t)}
        /\ ToSet(shown') = {shown'[i] : i \in 1 .. Len(shown')}
        /\ Len(shown) \in Nat /\ Len(t) \in Nat
    <3>1. DOMAIN shown = 1 .. Len(shown) /\ DOMAIN t = 1 .. Len(t) /\ DOMAIN shown' = 1 .. Len(shown')
      BY <1>2, <1>4
    <3>2. Len(shown) \in Nat /\ Len(t) \in Nat
      BY <1>2
    <3> QED BY <3>1, <3>2 DEF ToSet
  <2>2. ASSUME NEW i \in 1 .. Len(shown) PROVE i \in 1 .. Len(shown') /\ shown'[i] = shown[i]
    BY <1>4, <2>1, SMTT(20)
  <2>3. ASSUME NEW i \in 1 .. Len(t)
        PROVE  Len(shown) + i \in 1 .. Len(shown') /\ shown'[Len(shown) + i] = t[i]
    <3>1. Len(shown) + i \in 1 .. Len(shown) + Len(t) /\ ~(Len(shown) + i <= Len(shown))
          /\ Len(shown) + i - Len(shown) = i
      BY <2>1
    <3> QED BY <1>4, <3>1
  <2>4. ASSUME NEW i \in 1 .. Len(shown')
        PROVE  \/ i \in 1 .. Len(shown) /\ shown'[i] = shown[i]
               \/ i - Len(shown) \in 1 .. Len(t) /\ shown'[i] = t[i - Len(shown)]
    BY <1>4, <2>1
  <2>5. ToSet(shown') \subseteq ToSet(shown) \cup ToSet(t)
    BY <2>1, <2>4
  <2>6. ToSet(shown) \cup ToSet(t) \subseteq ToSet(shown')
    BY <2>1, <2>2, <2>3
  <2> QED BY <2>5, <2>6
<1>6. /\ request' \in PageRequests
      /\ request'.rows = <<>> \/ request'.rows = t
      /\ IF p < LastPage(request.total)
         THEN request'.state = "idle" /\ request'.page = p + 1
         ELSE request'.state = "done"
  <2>1. CASE p < LastPage(request.total)
    <3>1. p + 1 \in 1 .. MaxRows
      <4>1. request.total \in 0 .. MaxRows
        BY <1>2 DEF PageRequests
      <4>2. LastPage(request.total) \in Nat /\ (request.total > 0 => LastPage(request.total) <= request.total)
            /\ (request.total = 0 => LastPage(request.total) = 1)
        BY <1>3, LastPageBounds
      <4>3. p + 1 <= LastPage(request.total)
        BY <1>3, <2>1, <4>2
      <4>4. request.total > 0
        BY <1>3, <2>1, <4>2
      <4> QED BY <1>3, <4>1, <4>2, <4>3, <4>4, PagesAssumption
    <3>2. request' = [page |-> p + 1, state |-> "idle", todo |-> {}, ids |-> {}, rows |-> <<>>, total |-> 0]
      BY <1>1, <2>1 DEF Opened
    <3>3. <<>> \in Seq(Nat) /\ 0 \in 0 .. MaxRows
      BY PagesAssumption
    <3> QED BY <2>1, <3>1, <3>2, <3>3 DEF PageRequests
  <2>2. CASE ~(p < LastPage(request.total))
    BY <1>1, <1>2, <2>2 DEF PageRequests
  <2> QED BY <2>1, <2>2
<1>7. ToSet(request'.rows) \subseteq ToSet(t)
  <2>1. ToSet(<<>>) = {}
    BY DEF ToSet
  <2> QED BY <1>6, <2>1
<1>8. PageRows' /\ Dated' /\ Listed' = Listed
  <2>1. ToSet(shown') \cup ToSet(request'.rows) \subseteq 1 .. Len(rows)
        /\ torn' \in BOOLEAN /\ tied' \in BOOLEAN
    BY <1>1, <1>2, <1>5, <1>7 DEF PageRows
  <2> QED BY <1>1, <1>4, <1>6, <2>1, QueryRest
<1>9. RowsRead /\ ~RowsRead'
  BY <1>1, <1>6 DEF RowsRead
<1>10. Seen' = Seen /\ Waiting' = Waiting
  BY <1>1, <1>5, <1>9 DEF Seen, Waiting
<1>11. Window' = Listed /\ Listed \subseteq Window
  <2>1. Window' = Listed
    BY <1>6, <1>8 DEF Window
  <2> QED BY <1>1, <2>1 DEF PagesInv, Behind, Window, Listed, Where
<1>12. Behind'
  BY <1>1, <1>6, <1>8, <1>11 DEF PagesInv, Behind
<1>13. Cut'
  <2> SUFFICES ASSUME ~tied, request'.state # "done"
               PROVE  /\ \A r \in Waiting : Rank(r)' >= Upto'
                      /\ \A r \in (Seen \cap Window') \ pushed : Rank(r)' < Upto'
    BY <1>1, <1>10 DEF Cut
  <2>1. request'.page = p + 1 /\ Upto' = Skipped(p + 1) /\ Upto = Skipped(p + 1)
    BY <1>1, <1>6, <1>9 DEF Upto, Skipped
  <2>2. \A r : /\ Before(r)' = {x \in Listed : rows[x].key > rows[r].key}
               /\ Before(r) = {x \in Window : rows[x].key > rows[r].key}
    BY <1>1, <1>11 DEF Before
  <2>3. ASSUME NEW r \in Waiting PROVE Rank(r)' >= Upto'
    <3>1. Before(r) \subseteq Before(r)'
      <4>1. ASSUME NEW x \in Window, rows[x].key > rows[r].key, x \notin Listed PROVE FALSE
        <5>1. rows[x].key < rows[r].key
          BY <4>1 DEF PagesInv, Behind, Waiting
        <5>2. rows[x].key \in Int /\ rows[r].key \in Int
          BY <1>1, <1>2, KeyType, WindowType, WaitingIn
        <5> QED BY <4>1, <5>1, <5>2
      <4> QED BY <2>2, <4>1
    <3>2. Rank(r) <= Rank(r)' /\ Rank(r) \in Nat
      BY <1>2, <1>8, <3>1, RankGrows, WindowType
    <3>3. Rank(r)' \in Nat
      <4>1. IsFiniteSet(Before(r)')
        BY <1>8, NextWindow, FS_Subset DEF Before
      <4> QED BY <4>1, FS_CardinalityType DEF Rank
    <3>4. Rank(r) >= Upto
      BY <1>1 DEF PagesInv, Cut
    <3> QED BY <1>3, <2>1, <3>2, <3>3, <3>4
  <2>4. ASSUME NEW r \in (Seen \cap Window') \ pushed PROVE Rank(r)' < Upto'
    <3>1. Before(r)' \subseteq Before(r)
      BY <1>11, <2>2
    <3>2. Rank(r)' <= Rank(r) /\ Rank(r) \in Nat
      BY <1>2, <1>8, <3>1, RankShrinks, WindowType
    <3>3. Rank(r)' \in Nat
      <4>1. IsFiniteSet(Before(r)')
        BY <1>8, NextWindow, FS_Subset DEF Before
      <4> QED BY <4>1, FS_CardinalityType DEF Rank
    <3>4. Rank(r) < Upto
      BY <1>1, <1>11 DEF PagesInv, Cut
    <3> QED BY <1>3, <2>1, <3>2, <3>3, <3>4
  <2> QED BY <2>3, <2>4
<1>14. PageApart' /\ PageCounted'
  BY <1>6, <1>9 DEF PageApart, PageCounted
<1>15. NoneSkipped'
  <2> SUFFICES ASSUME request'.state = "done", ~torn, ~tied,
                      NEW r \in stayed, r \notin ToSet(shown'), r \notin pulled
               PROVE  FALSE
    BY <1>1 DEF NoneSkipped
  <2>1. r \in Waiting
    BY <1>5, <1>9 DEF Waiting, Seen
  <2>2. request.total > Skipped(p + 1)
    BY <1>1, <1>9, <2>1 DEF PagesInv, PageCounted
  <2>3. p < LastPage(request.total)
    BY <1>3, <2>2, LastPageBounds
  <2> QED BY <1>6, <2>3
<1>16. NoneTwice'
  <2> SUFFICES ASSUME NEW i \in 1 .. Len(shown'), NEW j \in 1 .. Len(shown'), i < j,
                      shown'[i] = shown'[j], ~tied
               PROVE  shown'[i] \in pushed
    <3>1. DOMAIN shown' = 1 .. Len(shown')
      BY <1>4
    <3> QED BY <1>1, <3>1 DEF NoneTwice
  <2>1. Len(shown) \in Nat /\ Len(t) \in Nat /\ DOMAIN shown = 1 .. Len(shown) /\ DOMAIN t = 1 .. Len(t)
    BY <1>2
  <2>2. CASE j <= Len(shown)
    <3>1. i \in DOMAIN shown /\ j \in DOMAIN shown /\ shown[i] = shown[j] /\ shown'[i] = shown[i]
      BY <1>4, <2>1, <2>2
    <3> QED BY <3>1 DEF PagesInv, NoneTwice
  <2>3. CASE i <= Len(shown) /\ j > Len(shown)
    <3>1. shown'[i] = shown[i] /\ i \in 1 .. Len(shown) /\ j - Len(shown) \in 1 .. Len(t)
          /\ shown'[j] = t[j - Len(shown)]
      <4>1. PICK a \in Nat, b \in Nat : a = Len(shown) /\ b = Len(t)
        BY <2>1
      <4>2. i \in 1 .. a + b /\ j \in 1 .. a + b /\ i <= a /\ j > a
        BY <1>4, <2>3, <4>1
      <4>3. i \in 1 .. a /\ j - a \in 1 .. b /\ ~(j <= a)
        BY <4>2
      <4>4. shown'[i] = shown[i] /\ shown'[j] = t[j - a]
        BY <1>4, <4>1, <4>2, <4>3
      <4> QED BY <4>1, <4>3, <4>4
    <3>2. shown'[i] \in ToSet(shown) \cap ToSet(t)
      BY <2>1, <3>1 DEF ToSet
    <3> QED BY <1>9, <3>2 DEF PagesInv, PageApart
  <2>4. CASE i > Len(shown)
    <3>1. /\ i - Len(shown) \in 1 .. Len(t) /\ j - Len(shown) \in 1 .. Len(t)
          /\ i - Len(shown) # j - Len(shown)
          /\ shown'[i] = t[i - Len(shown)] /\ shown'[j] = t[j - Len(shown)]
      <4>1. PICK a \in Nat, b \in Nat : a = Len(shown) /\ b = Len(t)
        BY <2>1
      <4>2. i \in 1 .. a + b /\ j \in 1 .. a + b /\ i > a /\ j > a
        BY <1>4, <2>4, <4>1
      <4>3. i - a \in 1 .. b /\ j - a \in 1 .. b /\ i - a # j - a
        BY <4>2
      <4> QED BY <1>4, <4>1, <4>2, <4>3
    <3> QED BY <1>9, <3>1 DEF PagesInv, PageApart, Distinct
  <2> QED BY <2>1, <2>2, <2>3, <2>4
<1> QED BY <1>8, <1>12, <1>13, <1>14, <1>15, <1>16 DEF PagesInv

-----------------------------------------------------------------------------

\* What a row that comes, goes or moves leaves in its place
Moved ==
  /\ UNCHANGED <<list, asked, limit, request, shown, tied>> /\ request.state # "done"
  /\ stayed' \subseteq stayed /\ pulled \subseteq pulled' /\ pushed \subseteq pushed'
  /\ \A r \in stayed' \ pulled' : Before(r) \subseteq Before(r)'
  /\ \A r \in (Seen \cap Window') \ pushed' :
       r \in Window /\ (Before(r)' \subseteq Before(r) \/ Before(r)' = {})
  /\ ~torn' => ~torn /\ (request.todo = {"rows"} => Cardinality(Window') <= Cardinality(Window))

\* A row that comes or goes leaves what waits behind, and what was seen before, the cut
LEMMA MoveStep ==
  ASSUME PagesInv, PageRows', Dated', Behind', Moved
  PROVE  PagesInv'
<1>1. UNCHANGED <<list, asked, limit, request, shown, tied>> /\ request.state # "done"
  BY DEF Moved
<1>2. (RowsRead' <=> RowsRead) /\ Seen' = Seen /\ Upto' = Upto
  BY <1>1 DEF RowsRead, Seen, Upto, Skipped
<1>3. PageRows
  BY DEF PagesInv
<1>4. Waiting' \subseteq Waiting
  BY <1>2 DEF Moved, Waiting
<1>5. \A r : Rank(r) \in Nat /\ Rank(r)' \in Nat
  <2>1. \A r : IsFiniteSet(Before(r)')
    BY NextWindow, FS_Subset DEF Before
  <2>2. \A r : Rank(r)' \in Nat
    BY <2>1, FS_CardinalityType DEF Rank
  <2> QED BY <1>3, <2>2, WindowType
<1>6. Upto \in Nat
  BY <1>3, PageNumbers DEF Upto
<1>7. Cut'
  <2>1. ASSUME ~tied, NEW r \in Waiting' PROVE Rank(r)' >= Upto
    <3>1. Rank(r) >= Upto
      BY <1>1, <1>4, <2>1 DEF PagesInv, Cut
    <3>2. Before(r) \subseteq Before(r)'
      BY <2>1 DEF Moved, Waiting
    <3>3. Rank(r) <= Rank(r)'
      BY <1>3, <3>2, RankGrows
    <3> QED BY <1>5, <1>6, <3>1, <3>3
  <2>2. ASSUME ~tied, NEW r \in (Seen \cap Window') \ pushed' PROVE Rank(r)' < Upto
    <3>1. r \in Window /\ (Before(r)' \subseteq Before(r) \/ Before(r)' = {}) /\ r \notin pushed
      BY <2>2 DEF Moved
    <3>2. Rank(r) < Upto
      BY <1>1, <2>2, <3>1 DEF PagesInv, Cut
    <3>3. Rank(r)' <= Rank(r)
      BY <1>3, <3>1, RankShrinks, FirstRank
    <3> QED BY <1>5, <1>6, <3>2, <3>3
  <2> QED BY <1>1, <1>2, <2>1, <2>2 DEF Cut
<1>8. PageApart'
  BY <1>1, <1>2 DEF PagesInv, PageApart, Moved
<1>9. PageCounted'
  <2> SUFFICES ASSUME request.state = "asked", "count" \notin request.todo, ~torn'
               PROVE  IF RowsRead THEN ~tied => \A r \in Waiting' : request.total > Skipped(request.page + 1)
                      ELSE Cardinality(Window') <= request.total
    BY <1>1, <1>2 DEF PageCounted, Skipped
  <2>1. ~torn
    BY DEF Moved
  <2>2. CASE RowsRead
    BY <1>4, <2>1, <2>2 DEF PagesInv, PageCounted
  <2>3. CASE ~RowsRead
    <3>1. request.todo = {"rows"}
      BY <1>3, <2>3 DEF RowsRead, PageRows, PageRequests
    <3>2. Cardinality(Window') <= Cardinality(Window)
      BY <3>1 DEF Moved
    <3>3. Cardinality(Window) <= request.total
      BY <2>1, <2>3 DEF PagesInv, PageCounted
    <3>4. Cardinality(Window') \in Nat /\ Cardinality(Window) \in Nat /\ request.total \in Nat
      BY <1>3, NextWindow, WindowType, FS_CardinalityType, PageNumbers
    <3> QED BY <2>3, <3>2, <3>3, <3>4
  <2> QED BY <2>2, <2>3
<1>10. NoneSkipped'
  BY <1>1 DEF NoneSkipped
<1>11. NoneTwice'
  BY <1>1 DEF PagesInv, NoneTwice, Moved
<1> QED BY <1>7, <1>8, <1>9, <1>10, <1>11 DEF PagesInv

\* A row is in the window of whoever reads when it is of one of the owners read
LEMMA InWindow ==
  ASSUME PageRows, Behind
  PROVE  /\ Listed \subseteq Window
         /\ Window = Where(IF request.state = "asked" THEN request.ids ELSE members)
         /\ list.of # "members" => Window = Listed
  BY DEF Behind, Window, Listed, Where

\* A row that is created comes before those with a smaller key, which are pushed
LEMMA RowCreatedStep ==
  ASSUME PagesInv, RowCreated
  PROVE  PagesInv'
<1>1. PICK o \in Owners, open \in BOOLEAN, k \in NewKeys :
        /\ rows' = Append(rows, [owner |-> o, open |-> open, key |-> k])
        /\ Comes(o, k)
  BY DEF RowCreated
<1>2. /\ Len(rows) < MaxRows /\ moves < MaxMoves /\ moves' = moves + 1 /\ request.state # "done"
      /\ UNCHANGED <<list, asked, limit, members, request, shown, stayed, tied>>
  BY DEF RowCreated, Moving, queryVars
<1>3. PageRows /\ Behind
  BY DEF PagesInv
<1>4. PICK n \in Nat : n = Len(rows) + 1
  BY <1>3 DEF PageRows
<1> DEFINE row == [owner |-> o, open |-> open, key |-> k]
           Rows == [owner : Owners, open : BOOLEAN, key : Keys]
<1>5. k \in Keys /\ (list.by # "name" => k = n + moves)
  <2>1. DOMAIN rows = 1 .. Len(rows) /\ Len(rows) \in Nat /\ moves \in 0 .. MaxMoves
    BY <1>3 DEF PageRows
  <2>2. Cardinality(DOMAIN rows) = n - 1
    <3>1. PICK m \in Nat : m = Len(rows)
      BY <2>1
    <3>2. Cardinality(1 .. m) = IF 1 > m THEN 0 ELSE m - 1 + 1
      BY FS_Interval
    <3> QED BY <1>4, <2>1, <3>1, <3>2, SMTT(20)
  <2>3. CASE list.by = "name"
    BY <2>3, PagesAssumption DEF NewKeys, Keys
  <2>4. CASE list.by # "name"
    <3>1. k = 1 + (n - 1) + moves
      BY <2>2, <2>4 DEF NewKeys, Latest
    <3> QED BY <1>2, <1>4, <2>1, <2>4, <3>1, PagesAssumption DEF Keys
  <2> QED BY <2>3, <2>4
<1>6. /\ rows' \in Seq(Rows) /\ Len(rows') = n /\ rows'[n] = row
      /\ \A r \in 1 .. Len(rows) : rows'[r] = rows[r]
  <2>1. row \in Rows /\ rows \in Seq(Rows)
    BY <1>3, <1>5 DEF PageRows
  <2> QED BY <1>1, <1>4, <2>1, AppendProperties
<1>7. /\ 1 .. Len(rows') = 1 .. Len(rows) \cup {n} /\ n \notin 1 .. Len(rows)
      /\ DOMAIN rows = 1 .. Len(rows) /\ DOMAIN rows' = 1 .. Len(rows')
  <2>1. Len(rows) \in Nat
    BY <1>3 DEF PageRows
  <2> QED BY <1>3, <1>4, <1>6, <2>1 DEF PageRows
<1>8. /\ pushed' = pushed \cup {x \in DOMAIN rows : rows[x].key <= k}
      /\ pulled' = IF o \in request.ids \ members
                   THEN pulled \cup {x \in DOMAIN rows : rows[x].key <= k} ELSE pulled
      /\ torn' = (torn \/ request.todo = {"rows"})
  BY <1>1 DEF Comes
<1>9. PageRows'
  <2>1. moves' \in 0 .. MaxMoves /\ Len(rows') <= MaxRows
    BY <1>2, <1>3, <1>4, <1>6, PagesAssumption DEF PageRows
  <2>2. stayed' \cup pulled' \cup pushed' \cup ToSet(shown') \cup ToSet(request'.rows) \subseteq 1 .. Len(rows')
    BY <1>2, <1>3, <1>7, <1>8 DEF PageRows
  <2>3. torn' \in BOOLEAN
    BY <1>3, <1>8 DEF PageRows
  <2> QED BY <1>2, <1>3, <1>6, <2>1, <2>2, <2>3 DEF PageRows
<1>10. Dated'
  <2> SUFFICES ASSUME list.by # "name"
               PROVE  /\ \A r \in 1 .. n : rows'[r].key <= n + moves'
                      /\ \A r, q \in 1 .. n : rows'[r].key = rows'[q].key => r = q
    BY <1>2, <1>6 DEF Dated
  <2>1. moves \in Nat /\ k = n + moves
    BY <1>3, <1>5 DEF PageRows
  <2>2. \A r \in 1 .. Len(rows) : rows'[r].key = rows[r].key /\ rows[r].key < k /\ rows[r].key \in Int
    <3>1. \A r \in 1 .. Len(rows) : rows[r].key <= Len(rows) + moves
      BY DEF PagesInv, Dated
    <3>2. Len(rows) + moves < k /\ Len(rows) + moves \in Int
      BY <1>3, <1>4, <2>1 DEF PageRows
    <3> QED BY <1>3, <1>6, <2>1, <3>1, <3>2, KeyType
  <2>3. rows'[n].key = k /\ 1 .. n = 1 .. Len(rows) \cup {n}
    BY <1>6, <1>7
  <2>4. \A r, q \in 1 .. Len(rows) : rows[r].key = rows[q].key => r = q
    BY DEF PagesInv, Dated
  <2>5. rows'[n].key <= n + moves' /\ \A r \in 1 .. Len(rows) : rows'[r].key <= n + moves'
    BY <1>2, <2>1, <2>2, <2>3
  <2>6. \A r \in 1 .. Len(rows) : rows'[r].key # rows'[n].key
    BY <2>1, <2>2, <2>3
  <2> QED BY <2>2, <2>3, <2>4, <2>5, <2>6
<1> HIDE DEF row, Rows
<1>11. /\ Window \subseteq Window' /\ Window' \subseteq Window \cup {n}
       /\ Listed \subseteq Listed' /\ (n \in Window' /\ n \notin Listed' => o \in request.ids \ members)
  <2>1. \A I : Where(I) \subseteq Where(I)' /\ Where(I)' \subseteq Where(I) \cup {n}
    BY <1>2, <1>6, <1>7 DEF Where, Filtered
  <2>2. \A I, J : n \in Where(I)' /\ n \notin Where(J)' => row.owner \in I \ J
    BY <1>2, <1>6, <1>7 DEF Where, Filtered
  <2>3. Listed' = Where(members)' /\ Listed = Where(members)
    BY <1>2 DEF Listed, Where
  <2>4. /\ Window = IF request.state = "asked" THEN Where(request.ids) ELSE Where(members)
        /\ Window' = IF request.state = "asked" THEN Where(request.ids)' ELSE Where(members)'
    BY <1>2 DEF Window, Listed, Where
  <2>5. Window \subseteq Window' /\ Window' \subseteq Window \cup {n} /\ Listed \subseteq Listed'
    <3>1. CASE request.state = "asked"
      BY <1>2, <2>1, <2>3, <2>4, <3>1
    <3>2. CASE request.state # "asked"
      BY <1>2, <2>1, <2>3, <2>4, <3>2
    <3> QED BY <3>1, <3>2
  <2>6. ASSUME n \in Window', n \notin Listed' PROVE row.owner \in request.ids \ members
    BY <1>2, <2>2, <2>3, <2>4, <2>6
  <2>7. row.owner = o
    BY DEF row
  <2> QED BY <2>5, <2>6, <2>7
<1>12. \A r \in 1 .. Len(rows) :
         /\ Before(r) \subseteq Before(r)'
         /\ rows[r].key > k => Before(r)' \subseteq Before(r)
  <2>1. TAKE r \in 1 .. Len(rows)
  <2>2. /\ Before(r) = {x \in Window : rows[x].key > rows[r].key}
        /\ Before(r)' = {x \in Window' : rows'[x].key > rows'[r].key}
    BY DEF Before
  <2>3. Window \subseteq 1 .. Len(rows) /\ rows'[r] = rows[r] /\ rows'[n].key = k /\ k \in Int /\ rows[r].key \in Int
    BY <1>3, <1>5, <1>6, WindowType, KeyType DEF Keys, row
  <2>4. \A x \in Window : rows'[x] = rows[x]
    BY <1>6, <2>3
  <2>5. Before(r) \subseteq Before(r)'
    BY <1>11, <2>2, <2>3, <2>4
  <2>6. ASSUME rows[r].key > k, NEW x \in Window', rows'[x].key > rows'[r].key
        PROVE  x \in Before(r)
    <3>1. x # n
      BY <2>3, <2>6
    <3> QED BY <1>11, <2>2, <2>3, <2>4, <2>6, <3>1
  <2> QED BY <2>2, <2>5, <2>6
<1>13. Behind'
  <2>1. stayed' \subseteq Listed' /\ (request'.state = "asked" /\ list'.of = "members" => members' \subseteq request'.ids)
    BY <1>2, <1>3, <1>11 DEF Behind
  <2>2. ASSUME NEW x \in Window' \ Listed', NEW r \in stayed' \ pulled' PROVE rows'[x].key < rows'[r].key
    <3>1. r \in stayed \ pulled /\ r \in 1 .. Len(rows) /\ rows'[r] = rows[r]
      BY <1>2, <1>3, <1>6, <1>8, <2>2 DEF PageRows
    <3>2. CASE x \in Window
      <4>1. x \in Window \ Listed /\ x \in 1 .. Len(rows)
        BY <1>3, <1>11, <2>2, <3>2, WindowType
      <4> QED BY <1>3, <1>6, <3>1, <4>1 DEF Behind
    <3>3. CASE x = n
      <4>1. ~(rows[r].key <= k)
        BY <1>7, <1>8, <1>11, <2>2, <3>1, <3>3
      <4>2. rows'[x].key = k /\ k \in Int /\ rows[r].key \in Int
        BY <1>3, <1>5, <1>6, <3>1, <3>3, KeyType DEF row, Keys
      <4> QED BY <3>1, <4>1, <4>2
    <3> QED BY <1>11, <2>2, <3>2, <3>3
  <2> QED BY <2>1, <2>2 DEF Behind
<1>14. Moved
  <2>1. \A r \in stayed' \ pulled' : Before(r) \subseteq Before(r)'
    <3>1. stayed' \subseteq 1 .. Len(rows)
      BY <1>2, <1>3 DEF PageRows
    <3> QED BY <1>12, <3>1
  <2>2. ASSUME NEW r \in (Seen \cap Window') \ pushed'
        PROVE  r \in Window /\ Before(r)' \subseteq Before(r)
    <3>1. r \in 1 .. Len(rows)
      BY <1>3 DEF PageRows, Seen
    <3>2. ~(rows[r].key <= k)
      BY <1>7, <1>8, <3>1
    <3>3. rows[r].key > k
      BY <1>3, <1>5, <3>1, <3>2, KeyType DEF Keys
    <3>4. r \in Window
      BY <1>7, <1>11, <3>1
    <3> QED BY <1>12, <3>1, <3>3, <3>4
  <2>3. ~torn' => ~torn /\ request.todo # {"rows"}
    BY <1>8
  <2> QED BY <1>2, <1>8, <2>1, <2>2, <2>3 DEF Moved
<1> QED BY <1>9, <1>10, <1>13, <1>14, MoveStep

\* A row that leaves pulls those behind it, and no other
LEMMA RowLeavesStep ==
  ASSUME PagesInv, RowLeaves
  PROVE  PagesInv'
<1>1. PICK q \in Listed :
        /\ rows' = [rows EXCEPT ![q].open = FALSE]
        /\ stayed' = stayed \ {q}
        /\ pulled' = pulled \cup {x \in Listed : rows[x].key <= rows[q].key}
  BY DEF RowLeaves
<1>2. /\ moves < MaxMoves /\ moves' = moves + 1 /\ request.state # "done" /\ Filtered
      /\ UNCHANGED <<list, asked, limit, members, request, shown, pushed, torn, tied>>
  BY DEF RowLeaves, Moving, queryVars
<1>3. PageRows /\ Behind
  BY DEF PagesInv
<1>4. Listed \subseteq Window /\ Window \subseteq 1 .. Len(rows) /\ q \in 1 .. Len(rows) /\ IsFiniteSet(Window)
  BY <1>3, InWindow, WindowType
<1>5. /\ rows' \in Seq([owner : Owners, open : BOOLEAN, key : Keys]) /\ Len(rows') = Len(rows)
      /\ ~rows'[q].open
      /\ \A r \in 1 .. Len(rows) : /\ rows'[r].key = rows[r].key /\ rows'[r].owner = rows[r].owner
                                   /\ r # q => rows'[r].open = rows[r].open
  <2>1. rows[q] \in [owner : Owners, open : BOOLEAN, key : Keys]
    BY <1>3, <1>4, ElementOfSeq DEF PageRows
  <2>2. rows' = [rows EXCEPT ![q] = [rows[q] EXCEPT !.open = FALSE]]
    BY <1>1
  <2>3. [rows[q] EXCEPT !.open = FALSE] \in [owner : Owners, open : BOOLEAN, key : Keys]
    BY <2>1
  <2>4. /\ rows' \in Seq([owner : Owners, open : BOOLEAN, key : Keys]) /\ Len(rows') = Len(rows)
        /\ \A r \in 1 .. Len(rows) : rows'[r] = IF r = q THEN [rows[q] EXCEPT !.open = FALSE] ELSE rows[r]
    BY <1>3, <1>4, <2>2, <2>3, ExceptSeq DEF PageRows
  <2> QED BY <1>4, <2>1, <2>4
<1>6. DOMAIN rows = 1 .. Len(rows) /\ DOMAIN rows' = 1 .. Len(rows)
  BY <1>3, <1>5 DEF PageRows
<1>7. PageRows'
  <2>1. moves' \in 0 .. MaxMoves /\ Len(rows') <= MaxRows
    BY <1>2, <1>3, <1>5, PagesAssumption DEF PageRows
  <2>2. stayed' \cup pulled' \cup pushed' \cup ToSet(shown') \cup ToSet(request'.rows) \subseteq 1 .. Len(rows')
    BY <1>1, <1>2, <1>3, <1>4, <1>5 DEF PageRows
  <2> QED BY <1>2, <1>3, <1>5, <2>1, <2>2 DEF PageRows
<1>8. Dated'
  <2>1. moves \in Nat /\ Len(rows) \in Nat
    BY <1>3 DEF PageRows
  <2>2. \A r \in 1 .. Len(rows) : rows[r].key \in Int
    BY <1>3, KeyType
  <2>3. SUFFICES ASSUME list.by # "name"
                 PROVE  /\ \A r \in 1 .. Len(rows) : rows'[r].key <= Len(rows) + moves'
                        /\ \A r, x \in 1 .. Len(rows) : rows'[r].key = rows'[x].key => r = x
    BY <1>2, <1>5 DEF Dated
  <2>4. \A r \in 1 .. Len(rows) : rows'[r].key <= Len(rows) + moves'
    <3>1. TAKE r \in 1 .. Len(rows)
    <3>2. rows[r].key <= Len(rows) + moves /\ rows[r].key \in Int
      BY <2>2, <2>3 DEF PagesInv, Dated
    <3>3. rows'[r].key = rows[r].key
      BY <1>5
    <3> QED BY <1>2, <2>1, <3>2, <3>3
  <2>5. \A r, x \in 1 .. Len(rows) : rows'[r].key = rows'[x].key => r = x
    BY <1>5, <2>3 DEF PagesInv, Dated
  <2> QED BY <2>4, <2>5
<1>9. /\ \A I : Where(I)' = Where(I) \ {q}
      /\ Window' = Window \ {q} /\ Listed' = Listed \ {q}
  <2>1. \A I : Where(I)' = Where(I) \ {q}
    BY <1>2, <1>5, <1>6 DEF Where, Filtered
  <2> QED BY <1>2, <2>1 DEF Window, Listed
<1>10. \A r \in 1 .. Len(rows) : Before(r)' = Before(r) \ {q}
  BY <1>4, <1>5, <1>9 DEF Before
<1>11. \A r \in stayed' \ pulled' : /\ r \in stayed \ pulled /\ r \in Listed /\ r \in 1 .. Len(rows)
                                    /\ rows[r].key > rows[q].key
  <2>1. \A r \in stayed' \ pulled' : /\ r \in stayed \ pulled /\ r \in Listed
                                     /\ ~(rows[r].key <= rows[q].key)
    BY <1>1, <1>3 DEF Behind
  <2>2. TAKE r \in stayed' \ pulled'
  <2>3. /\ r \in stayed \ pulled /\ r \in Listed /\ r \in 1 .. Len(rows)
        /\ ~(rows[r].key <= rows[q].key)
    BY <1>4, <2>1, <2>2
  <2>4. rows[r].key \in Int /\ rows[q].key \in Int
    BY <1>3, <1>4, <2>3, KeyType
  <2>5. \A a, b \in Int : ~(a <= b) => a > b
    OBVIOUS
  <2>6. rows[r].key > rows[q].key
    BY <2>3, <2>4, <2>5
  <2> QED BY <2>3, <2>6
<1>12. Behind'
  <2>1. stayed' \subseteq Listed' /\ (request'.state = "asked" /\ list'.of = "members" => members' \subseteq request'.ids)
    BY <1>1, <1>2, <1>3, <1>9 DEF Behind
  <2>2. ASSUME NEW x \in Window' \ Listed', NEW r \in stayed' \ pulled' PROVE rows'[x].key < rows'[r].key
    <3>1. x \in Window \ Listed /\ x \in 1 .. Len(rows)
      BY <1>4, <1>9, <2>2
    <3> QED BY <1>3, <1>5, <1>11, <3>1 DEF Behind
  <2> QED BY <2>1, <2>2 DEF Behind
<1>13. Moved
  <2>1. \A r \in stayed' \ pulled' : Before(r) \subseteq Before(r)'
    <3>1. TAKE r \in stayed' \ pulled'
    <3>2. rows[r].key > rows[q].key /\ r \in 1 .. Len(rows) /\ rows[r].key \in Int /\ rows[q].key \in Int
      BY <1>3, <1>4, <1>11, KeyType
    <3>3. q \notin Before(r)
      BY <3>2 DEF Before
    <3> QED BY <1>10, <3>2, <3>3
  <2>2. \A r \in (Seen \cap Window') \ pushed' : r \in Window /\ Before(r)' \subseteq Before(r)
    BY <1>4, <1>9, <1>10
  <2>3. Cardinality(Window') <= Cardinality(Window)
    BY <1>4, <1>9, FS_Subset
  <2> QED BY <1>1, <1>2, <2>1, <2>2, <2>3 DEF Moved
<1> QED BY <1>7, <1>8, <1>12, <1>13, MoveStep

\* A row that returns comes before those behind it, which are pushed
LEMMA RowReturnsStep ==
  ASSUME PagesInv, RowReturns
  PROVE  PagesInv'
<1>1. PICK q \in DOMAIN rows :
        /\ ~rows[q].open /\ rows' = [rows EXCEPT ![q].open = TRUE]
        /\ Comes(rows[q].owner, rows[q].key)
  BY DEF RowReturns
<1>2. /\ moves < MaxMoves /\ moves' = moves + 1 /\ request.state # "done" /\ Filtered
      /\ UNCHANGED <<list, asked, limit, members, request, shown, stayed, tied>>
  BY DEF RowReturns, Moving, queryVars
<1>3. PageRows /\ Behind
  BY DEF PagesInv
<1>4. Listed \subseteq Window /\ Window \subseteq 1 .. Len(rows) /\ q \in 1 .. Len(rows)
      /\ DOMAIN rows = 1 .. Len(rows)
  <2>1. DOMAIN rows = 1 .. Len(rows)
    BY <1>3 DEF PageRows
  <2> QED BY <1>3, <2>1, InWindow, WindowType
<1>5. /\ rows' \in Seq([owner : Owners, open : BOOLEAN, key : Keys]) /\ Len(rows') = Len(rows)
      /\ rows'[q].open
      /\ \A r \in 1 .. Len(rows) : /\ rows'[r].key = rows[r].key /\ rows'[r].owner = rows[r].owner
                                   /\ r # q => rows'[r].open = rows[r].open
  <2>1. rows[q] \in [owner : Owners, open : BOOLEAN, key : Keys]
    BY <1>3, <1>4, ElementOfSeq DEF PageRows
  <2>2. rows' = [rows EXCEPT ![q] = [rows[q] EXCEPT !.open = TRUE]]
    BY <1>1
  <2>3. [rows[q] EXCEPT !.open = TRUE] \in [owner : Owners, open : BOOLEAN, key : Keys]
    BY <2>1
  <2>4. /\ rows' \in Seq([owner : Owners, open : BOOLEAN, key : Keys]) /\ Len(rows') = Len(rows)
        /\ \A r \in 1 .. Len(rows) : rows'[r] = IF r = q THEN [rows[q] EXCEPT !.open = TRUE] ELSE rows[r]
    BY <1>3, <1>4, <2>2, <2>3, ExceptSeq DEF PageRows
  <2> QED BY <1>4, <2>1, <2>4
<1>6. DOMAIN rows' = 1 .. Len(rows)
  BY <1>5
<1>7. /\ pushed' = pushed \cup {x \in 1 .. Len(rows) : rows[x].key <= rows[q].key}
      /\ pulled' = IF rows[q].owner \in request.ids \ members
                   THEN pulled \cup {x \in 1 .. Len(rows) : rows[x].key <= rows[q].key} ELSE pulled
      /\ torn' = (torn \/ request.todo = {"rows"})
  BY <1>1, <1>4 DEF Comes
<1>8. PageRows'
  <2>1. moves' \in 0 .. MaxMoves /\ Len(rows') <= MaxRows
    BY <1>2, <1>3, <1>5, PagesAssumption DEF PageRows
  <2>2. stayed' \cup pulled' \cup pushed' \cup ToSet(shown') \cup ToSet(request'.rows) \subseteq 1 .. Len(rows')
    BY <1>2, <1>3, <1>5, <1>7 DEF PageRows
  <2>3. torn' \in BOOLEAN
    BY <1>3, <1>7 DEF PageRows
  <2> QED BY <1>2, <1>3, <1>5, <2>1, <2>2, <2>3 DEF PageRows
<1>9. Dated'
  <2>1. moves \in Nat /\ Len(rows) \in Nat
    BY <1>3 DEF PageRows
  <2>2. \A r \in 1 .. Len(rows) : rows[r].key \in Int
    BY <1>3, KeyType
  <2>3. SUFFICES ASSUME list.by # "name"
                 PROVE  /\ \A r \in 1 .. Len(rows) : rows'[r].key <= Len(rows) + moves'
                        /\ \A r, x \in 1 .. Len(rows) : rows'[r].key = rows'[x].key => r = x
    BY <1>2, <1>5 DEF Dated
  <2>4. \A r \in 1 .. Len(rows) : rows'[r].key <= Len(rows) + moves'
    <3>1. TAKE r \in 1 .. Len(rows)
    <3>2. rows[r].key <= Len(rows) + moves /\ rows[r].key \in Int
      BY <2>2, <2>3 DEF PagesInv, Dated
    <3>3. rows'[r].key = rows[r].key
      BY <1>5
    <3> QED BY <1>2, <2>1, <3>2, <3>3
  <2>5. \A r, x \in 1 .. Len(rows) : rows'[r].key = rows'[x].key => r = x
    BY <1>5, <2>3 DEF PagesInv, Dated
  <2> QED BY <2>4, <2>5
<1>10. /\ Window \subseteq Window' /\ Window' \subseteq Window \cup {q}
       /\ Listed \subseteq Listed'
       /\ (q \in Window' /\ q \notin Listed' => rows[q].owner \in request.ids \ members)
  <2>1. \A I : Where(I) \subseteq Where(I)' /\ Where(I)' \subseteq Where(I) \cup {q}
    BY <1>2, <1>4, <1>5, <1>6 DEF Where, Filtered
  <2>2. \A I, J : q \in Where(I)' /\ q \notin Where(J)' => rows[q].owner \in I \ J
    BY <1>2, <1>4, <1>5, <1>6 DEF Where, Filtered
  <2>3. Listed' = Where(members)' /\ Listed = Where(members)
    BY <1>2 DEF Listed, Where
  <2>4. /\ Window = IF request.state = "asked" THEN Where(request.ids) ELSE Where(members)
        /\ Window' = IF request.state = "asked" THEN Where(request.ids)' ELSE Where(members)'
    BY <1>2 DEF Window, Listed, Where
  <2>5. Window \subseteq Window' /\ Window' \subseteq Window \cup {q} /\ Listed \subseteq Listed'
    <3>1. CASE request.state = "asked"
      BY <1>2, <2>1, <2>3, <2>4, <3>1
    <3>2. CASE request.state # "asked"
      BY <1>2, <2>1, <2>3, <2>4, <3>2
    <3> QED BY <3>1, <3>2
  <2>6. ASSUME q \in Window', q \notin Listed' PROVE rows[q].owner \in request.ids \ members
    BY <1>2, <2>2, <2>3, <2>4, <2>6
  <2> QED BY <2>5, <2>6
<1>11. /\ rows[q].key \in Int /\ \A r \in 1 .. Len(rows) : rows[r].key \in Int
  BY <1>3, <1>4, KeyType
<1>12. \A r \in 1 .. Len(rows) :
         /\ Before(r) \subseteq Before(r)'
         /\ rows[r].key > rows[q].key => Before(r)' \subseteq Before(r)
  <2>1. TAKE r \in 1 .. Len(rows)
  <2>2. /\ Before(r) = {x \in Window : rows[x].key > rows[r].key}
        /\ Before(r)' = {x \in Window' : rows'[x].key > rows'[r].key}
    BY DEF Before
  <2>3. \A x \in Window' : x \in 1 .. Len(rows) /\ rows'[x].key = rows[x].key
    BY <1>4, <1>5, <1>10
  <2>4. Before(r) \subseteq Before(r)'
    BY <1>5, <1>10, <2>2, <2>3
  <2>5. ASSUME rows[r].key > rows[q].key, NEW x \in Window', rows'[x].key > rows'[r].key
        PROVE  x \in Before(r)
    <3>1. rows[x].key > rows[r].key /\ x \in 1 .. Len(rows)
      BY <1>5, <2>3, <2>5
    <3>2. x # q
      BY <1>11, <2>5, <3>1
    <3> QED BY <1>10, <2>2, <2>5, <3>1, <3>2
  <2> QED BY <2>2, <2>4, <2>5
<1>13. Behind'
  <2>1. stayed' \subseteq Listed' /\ (request'.state = "asked" /\ list'.of = "members" => members' \subseteq request'.ids)
    BY <1>2, <1>3, <1>10 DEF Behind
  <2>2. ASSUME NEW x \in Window' \ Listed', NEW r \in stayed' \ pulled' PROVE rows'[x].key < rows'[r].key
    <3>1. r \in stayed \ pulled /\ r \in 1 .. Len(rows) /\ rows'[r].key = rows[r].key
      BY <1>2, <1>3, <1>5, <1>7, <2>2 DEF PageRows
    <3>2. CASE x \in Window
      <4>1. x \in Window \ Listed /\ x \in 1 .. Len(rows)
        BY <1>4, <1>10, <2>2, <3>2
      <4> QED BY <1>3, <1>5, <3>1, <4>1 DEF Behind
    <3>3. CASE x = q
      <4>1. ~(rows[r].key <= rows[q].key)
        BY <1>7, <1>10, <2>2, <3>1, <3>3
      <4> QED BY <1>4, <1>5, <1>11, <3>1, <3>3, <4>1
    <3> QED BY <1>10, <2>2, <3>2, <3>3
  <2> QED BY <2>1, <2>2 DEF Behind
<1>14. Moved
  <2>1. \A r \in stayed' \ pulled' : Before(r) \subseteq Before(r)'
    <3>1. stayed' \subseteq 1 .. Len(rows)
      BY <1>2, <1>3 DEF PageRows
    <3> QED BY <1>12, <3>1
  <2>2. ASSUME NEW r \in (Seen \cap Window') \ pushed'
        PROVE  r \in Window /\ Before(r)' \subseteq Before(r)
    <3>1. r \in 1 .. Len(rows)
      BY <1>3 DEF PageRows, Seen
    <3>2. ~(rows[r].key <= rows[q].key)
      BY <1>7, <3>1
    <3>3. rows[r].key > rows[q].key
      BY <1>11, <3>1, <3>2
    <3>4. r \in Window
      BY <1>10, <1>11, <3>3
    <3> QED BY <1>12, <3>1, <3>3, <3>4
  <2>3. ~torn' => ~torn /\ request.todo # {"rows"}
    BY <1>7
  <2> QED BY <1>2, <1>7, <2>1, <2>2, <2>3 DEF Moved
<1> QED BY <1>8, <1>9, <1>13, <1>14, MoveStep

\* A conversation that moves first pushes those it overtakes, and is pulled itself
LEMMA RowActiveStep ==
  ASSUME PagesInv, RowActive
  PROVE  PagesInv'
<1>1. PICK q \in Listed :
        /\ rows' = [rows EXCEPT ![q].key = Latest]
        /\ pulled' = pulled \cup {q}
        /\ pushed' = pushed \cup {x \in Listed : rows[x].key > rows[q].key}
  BY DEF RowActive
<1>2. /\ moves < MaxMoves /\ moves' = moves + 1 /\ request.state # "done" /\ list.by = "activity"
      /\ UNCHANGED <<list, asked, limit, members, request, shown, stayed, torn, tied>>
  BY DEF RowActive, Moving, queryVars
<1>3. PageRows /\ Behind /\ list.by # "name" /\ list.of # "members"
  BY <1>2, PagesAssumption DEF PagesInv, PageRows
<1>4. Listed = Window /\ Window \subseteq 1 .. Len(rows) /\ q \in 1 .. Len(rows) /\ IsFiniteSet(Window)
      /\ DOMAIN rows = 1 .. Len(rows)
  <2>1. DOMAIN rows = 1 .. Len(rows)
    BY <1>3 DEF PageRows
  <2> QED BY <1>3, <2>1, InWindow, WindowType
<1>5. PICK k \in Int : k = Latest /\ k = Len(rows) + moves + 1 /\ k \in Keys
  <2>1. PICK m \in Nat : m = Len(rows)
    BY <1>3 DEF PageRows
  <2>2. Cardinality(1 .. m) = IF 1 > m THEN 0 ELSE m - 1 + 1
    BY FS_Interval
  <2>3. Latest = 1 + m + moves
    BY <1>4, <2>1, <2>2 DEF Latest
  <2>4. moves \in 0 .. MaxMoves /\ m <= MaxRows
    BY <1>3, <2>1 DEF PageRows
  <2> QED BY <1>2, <2>1, <2>3, <2>4, PagesAssumption DEF Keys
<1>6. /\ rows' \in Seq([owner : Owners, open : BOOLEAN, key : Keys]) /\ Len(rows') = Len(rows)
      /\ rows'[q].key = k
      /\ \A r \in 1 .. Len(rows) : /\ rows'[r].open = rows[r].open /\ rows'[r].owner = rows[r].owner
                                   /\ r # q => rows'[r].key = rows[r].key
  <2>1. rows[q] \in [owner : Owners, open : BOOLEAN, key : Keys]
    BY <1>3, <1>4, ElementOfSeq DEF PageRows
  <2>2. rows' = [rows EXCEPT ![q] = [rows[q] EXCEPT !.key = k]]
    BY <1>1, <1>5
  <2>3. [rows[q] EXCEPT !.key = k] \in [owner : Owners, open : BOOLEAN, key : Keys]
    BY <1>5, <2>1
  <2>4. /\ rows' \in Seq([owner : Owners, open : BOOLEAN, key : Keys]) /\ Len(rows') = Len(rows)
        /\ \A r \in 1 .. Len(rows) : rows'[r] = IF r = q THEN [rows[q] EXCEPT !.key = k] ELSE rows[r]
    BY <1>3, <1>4, <2>2, <2>3, ExceptSeq DEF PageRows
  <2> QED BY <1>4, <2>1, <2>4
<1>7. DOMAIN rows' = 1 .. Len(rows)
  BY <1>6
<1>8. /\ \A r \in 1 .. Len(rows) : rows[r].key \in Int /\ rows[r].key < k
      /\ \A r, x \in 1 .. Len(rows) : rows[r].key = rows[x].key => r = x
      /\ moves \in Nat /\ Len(rows) \in Nat
  <2>1. moves \in Nat /\ Len(rows) \in Nat
    BY <1>3 DEF PageRows
  <2>2. \A r \in 1 .. Len(rows) : rows[r].key <= Len(rows) + moves
    BY <1>3 DEF PagesInv, Dated
  <2>3. \A r \in 1 .. Len(rows) : rows[r].key \in Int
    BY <1>3, KeyType
  <2> QED BY <1>3, <1>5, <2>1, <2>2, <2>3 DEF PagesInv, Dated
<1>9. PageRows'
  <2>1. moves' \in 0 .. MaxMoves /\ Len(rows') <= MaxRows
    BY <1>2, <1>3, <1>6, PagesAssumption DEF PageRows
  <2>2. stayed' \cup pulled' \cup pushed' \cup ToSet(shown') \cup ToSet(request'.rows) \subseteq 1 .. Len(rows')
    BY <1>1, <1>2, <1>3, <1>4, <1>6 DEF PageRows
  <2> QED BY <1>2, <1>3, <1>6, <2>1, <2>2 DEF PageRows
<1>10. Dated'
  <2>1. \A r \in 1 .. Len(rows) : rows'[r].key <= Len(rows) + moves'
    BY <1>2, <1>5, <1>6, <1>8
  <2>2. \A r, x \in 1 .. Len(rows) : rows'[r].key = rows'[x].key => r = x
    BY <1>6, <1>8, SMTT(20)
  <2> QED BY <1>6, <2>1, <2>2 DEF Dated
<1>11. /\ \A I : Where(I)' = Where(I)
       /\ Window' = Window /\ Listed' = Listed
  <2>1. \A I : Where(I)' = Where(I)
    BY <1>2, <1>4, <1>6, <1>7 DEF Where, Filtered
  <2> QED BY <1>2, <2>1 DEF Window, Listed
<1>12. \A r : /\ Before(r) = {x \in Window : rows[x].key > rows[r].key}
              /\ Before(r)' = {x \in Window : rows'[x].key > rows'[r].key}
  BY <1>11 DEF Before
<1>13. Behind'
  <2>1. Window' \ Listed' = {}
    BY <1>4, <1>11
  <2> QED BY <1>2, <1>3, <1>11, <2>1 DEF Behind
<1>14. Moved
  <2>1. \A r \in stayed' \ pulled' : Before(r) \subseteq Before(r)'
    <3>1. TAKE r \in stayed' \ pulled'
    <3>2. r # q /\ r \in 1 .. Len(rows)
      BY <1>1, <1>2, <1>3 DEF PageRows
    <3>3. rows'[r].key = rows[r].key
      BY <1>6, <3>2
    <3>4. \A x \in Window : rows[x].key > rows[r].key => rows'[x].key > rows'[r].key
      <4>1. TAKE x \in Window
      <4>2. CASE x = q
        BY <1>6, <1>8, <3>2, <3>3, <4>2
      <4>3. CASE x # q
        BY <1>4, <1>6, <3>3, <4>3
      <4> QED BY <4>2, <4>3
    <3> QED BY <1>12, <3>4
  <2>2. ASSUME NEW r \in (Seen \cap Window') \ pushed'
        PROVE  r \in Window /\ (Before(r)' \subseteq Before(r) \/ Before(r)' = {})
    <3>1. r \in Window /\ r \in 1 .. Len(rows)
      BY <1>4, <1>11
    <3>2. CASE r = q
      <4>1. \A x \in Window : ~(rows'[x].key > rows'[r].key)
        <5>1. TAKE x \in Window
        <5>2. x \in 1 .. Len(rows)
          BY <1>4
        <5>3. CASE x = q
          BY <1>6, <3>2, <5>3
        <5>4. CASE x # q
          BY <1>6, <1>8, <3>2, <5>2, <5>4
        <5> QED BY <5>3, <5>4
      <4> QED BY <1>12, <3>1, <4>1
    <3>3. CASE r # q
      <4>1. ~(rows[r].key > rows[q].key)
        BY <1>1, <1>4, <2>2, <3>1
      <4>2. rows[q].key > rows[r].key
        BY <1>4, <1>8, <3>1, <3>3, <4>1
      <4>3. rows'[r].key = rows[r].key
        BY <1>6, <3>1, <3>3
      <4>4. \A x \in Window : rows'[x].key > rows'[r].key => rows[x].key > rows[r].key
        BY <1>4, <1>6, <4>2, <4>3
      <4> QED BY <1>12, <3>1, <4>4
    <3> QED BY <3>2, <3>3
  <2>3. Cardinality(Window') <= Cardinality(Window)
    <3>1. Cardinality(Window) \in Nat
      BY <1>4, FS_CardinalityType
    <3> QED BY <1>11, <3>1
  <2> QED BY <1>1, <1>2, <2>1, <2>2, <2>3 DEF Moved
<1> QED BY <1>9, <1>10, <1>13, <1>14, MoveStep

\* A member who leaves takes his rows away, at once or for the next page
LEMMA MemberLeavesStep ==
  ASSUME PagesInv, MemberLeaves
  PROVE  PagesInv'
<1>1. PICK o \in members, gone \in SUBSET Listed :
        /\ gone = {r \in Listed : rows[r].owner = o}
        /\ members' = members \ {o} /\ stayed' = stayed \ gone
        /\ pulled' = pulled \cup {x \in Listed : \E g \in gone : rows[x].key <= rows[g].key}
  BY DEF MemberLeaves
<1>2. /\ moves < MaxMoves /\ moves' = moves + 1 /\ request.state # "done" /\ list.of = "members"
      /\ UNCHANGED <<list, asked, limit, rows, request, shown, pushed, torn, tied>>
  BY DEF MemberLeaves, Moving, queryVars
<1>3. PageRows /\ Behind
  BY DEF PagesInv
<1>4. Listed \subseteq Window /\ Window \subseteq 1 .. Len(rows) /\ IsFiniteSet(Window)
  BY <1>3, InWindow, WindowType
<1>5. /\ \A r \in 1 .. Len(rows) : rows[r].key \in Int
      /\ moves \in Nat /\ Len(rows) \in Nat
  BY <1>3, KeyType DEF PageRows
<1>6. PageRows'
  <2>1. moves' \in 0 .. MaxMoves /\ members' \in SUBSET Owners
    BY <1>1, <1>2, <1>3, PagesAssumption DEF PageRows
  <2>2. stayed' \cup pulled' \cup pushed' \cup ToSet(shown') \cup ToSet(request'.rows) \subseteq 1 .. Len(rows')
    BY <1>1, <1>2, <1>3, <1>4 DEF PageRows
  <2> QED BY <1>2, <1>3, <2>1, <2>2 DEF PageRows
<1>7. Dated'
  BY <1>2, <1>5, SMTT(20) DEF PagesInv, Dated
<1>8. Listed' = Listed \ gone
  BY <1>1, <1>2 DEF Listed, Where, Filtered
<1>9. Window' = Window \/ Window' = Window \ gone
  <2>1. CASE request.state = "asked"
    BY <1>2, <2>1 DEF Window, Where, Filtered
  <2>2. CASE request.state # "asked"
    BY <1>2, <1>8, <2>2 DEF Window
  <2> QED BY <2>1, <2>2
<1>10. /\ request.state = "asked" => members \subseteq request.ids
       /\ request.state # "asked" => Window' = Listed'
  BY <1>2, <1>3 DEF Behind, Window
<1>11. \A r \in stayed' \ pulled' :
         /\ r \in stayed \ pulled /\ r \in Listed /\ r \in 1 .. Len(rows)
         /\ \A g \in gone : rows[r].key > rows[g].key
  <2>1. \A r \in stayed' \ pulled' :
          /\ r \in stayed \ pulled /\ r \in Listed
          /\ \A g \in gone : ~(rows[r].key <= rows[g].key)
    BY <1>1, <1>3 DEF Behind
  <2>2. TAKE r \in stayed' \ pulled'
  <2>3. r \in stayed \ pulled /\ r \in Listed /\ r \in 1 .. Len(rows)
    BY <1>4, <2>1, <2>2
  <2>4. \A a, b \in Int : ~(a <= b) => a > b
    OBVIOUS
  <2>5. ASSUME NEW g \in gone PROVE rows[r].key > rows[g].key
    <3>1. ~(rows[r].key <= rows[g].key)
      BY <2>1, <2>2
    <3>2. g \in 1 .. Len(rows)
      BY <1>4
    <3>3. rows[r].key \in Int /\ rows[g].key \in Int
      BY <1>5, <2>3, <3>2
    <3> QED BY <2>4, <3>1, <3>3
  <2> QED BY <2>3, <2>5
<1>12. \A r : /\ Before(r) = {x \in Window : rows[x].key > rows[r].key}
              /\ Before(r)' = {x \in Window' : rows[x].key > rows[r].key}
  BY <1>2 DEF Before
<1>13. Behind'
  <2>1. stayed' \subseteq Listed' /\ (request'.state = "asked" /\ list'.of = "members" => members' \subseteq request'.ids)
    BY <1>1, <1>2, <1>3, <1>8, <1>10 DEF Behind
  <2>2. ASSUME NEW x \in Window' \ Listed', NEW r \in stayed' \ pulled' PROVE rows'[x].key < rows'[r].key
    <3>1. x \in Window /\ (x \in gone \/ x \notin Listed)
      BY <1>8, <1>9, <2>2
    <3>2. CASE x \in gone
      BY <1>2, <1>4, <1>5, <1>11, <3>1, <3>2
    <3>3. CASE x \notin Listed
      BY <1>2, <1>3, <1>11, <3>1, <3>3 DEF Behind
    <3> QED BY <3>1, <3>2, <3>3
  <2> QED BY <2>1, <2>2 DEF Behind
<1>14. Moved
  <2>1. \A r \in stayed' \ pulled' : Before(r) \subseteq Before(r)'
    <3>1. TAKE r \in stayed' \ pulled'
    <3>2. \A g \in gone : ~(rows[g].key > rows[r].key)
      <4>1. \A g \in gone : g \in 1 .. Len(rows)
        BY <1>4
      <4> QED BY <1>5, <1>11, <4>1
    <3> QED BY <1>9, <1>12, <3>2
  <2>2. \A r \in (Seen \cap Window') \ pushed' : r \in Window /\ Before(r)' \subseteq Before(r)
    BY <1>9, <1>12
  <2>3. Cardinality(Window') <= Cardinality(Window)
    <3>1. Window' \in SUBSET Window
      BY <1>9
    <3> QED BY <1>4, <3>1, FS_Subset
  <2> QED BY <1>1, <1>2, <2>1, <2>2, <2>3 DEF Moved
<1> QED BY <1>6, <1>7, <1>13, <1>14, MoveStep

\* Before the first page every row listed waits, at rank 0 or more
LEMMA PagesInitInv == PagesInit => PagesInv
<1> SUFFICES ASSUME PagesInit PROVE PagesInv
  OBVIOUS
<1>1. /\ list \in Lists /\ asked \in BOOLEAN /\ limit \in Limits /\ members = Owners
      /\ request = Opened /\ shown = <<>> /\ moves = 0
      /\ stayed = Listed /\ pulled = {} /\ pushed = {} /\ torn = FALSE /\ tied = FALSE
  BY DEF PagesInit
<1>2. PICK n \in 0 .. MaxRows : rows \in [1 .. n -> [owner : Owners, open : BOOLEAN, key : 1 .. MaxRows]]
  BY DEF PagesInit
<1>3. n \in Nat /\ n <= MaxRows /\ MaxRows \in Nat /\ 1 \in 1 .. MaxRows /\ 0 \in 0 .. MaxRows
      /\ MaxMoves \in Nat /\ 0 \in 0 .. MaxMoves
  BY PagesAssumption
<1>4. rows \in Seq([owner : Owners, open : BOOLEAN, key : Keys]) /\ Len(rows) = n
      /\ DOMAIN rows = 1 .. n
  <2>1. 1 .. MaxRows \subseteq Keys
    BY <1>3 DEF Keys
  <2>2. rows \in [1 .. n -> [owner : Owners, open : BOOLEAN, key : Keys]]
    BY <1>2, <2>1
  <2>3. rows \in Seq([owner : Owners, open : BOOLEAN, key : Keys])
    <3>1. ASSUME NEW S, NEW f \in [1 .. n -> S] PROVE f \in Seq(S)
      BY <1>3, <3>1, SeqDef
    <3> QED BY <2>2, <3>1
  <2> QED BY <1>3, <2>2, <2>3, LenProperties
<1>5. request \in PageRequests /\ request.state = "idle" /\ request.rows = <<>>
  <2>1. request = [page |-> 1, state |-> "idle", todo |-> {}, ids |-> {}, rows |-> <<>>, total |-> 0]
    BY <1>1 DEF Opened
  <2>2. <<>> \in Seq(Nat)
    OBVIOUS
  <2> QED BY <1>3, <2>1, <2>2 DEF PageRequests
<1>6. ToSet(<<>>) = {}
  BY DEF ToSet
<1>7. PageRows
  <2>1. Listed \subseteq 1 .. n
    BY <1>4 DEF Listed, Where
  <2>2. shown \in Seq(Nat)
    BY <1>1
  <2> QED BY <1>1, <1>3, <1>4, <1>5, <1>6, <2>1, <2>2 DEF PageRows
<1>8. Dated
  <2>1. list.by # "name" => \A r \in 1 .. n : rows[r].key = r
    BY <1>4 DEF PagesInit
  <2> QED BY <1>1, <1>3, <1>4, <2>1 DEF Dated
<1>9. Window = Listed
  BY <1>5 DEF Window
<1>10. Behind
  BY <1>1, <1>5, <1>9 DEF Behind
<1>11. ~RowsRead /\ Seen = {} /\ Upto = 0
  <2>1. ~RowsRead
    BY <1>5 DEF RowsRead
  <2>2. Skipped(request.page) = 0
    <3>1. request.page = 1 /\ limit \in Nat
      BY <1>1, <1>7, PageNumbers DEF Opened
    <3> QED BY <3>1 DEF Skipped
  <2> QED BY <1>1, <1>6, <2>1, <2>2 DEF Seen, Upto
<1>12. Cut
  <2>1. \A r : Rank(r) \in Nat
    BY <1>7, WindowType
  <2> QED BY <1>11, <2>1 DEF Cut
<1>13. PageApart /\ PageCounted /\ NoneSkipped
  BY <1>5, <1>11 DEF PageApart, PageCounted, NoneSkipped
<1>14. NoneTwice
  BY <1>1 DEF NoneTwice
<1> QED BY <1>7, <1>8, <1>10, <1>12, <1>13, <1>14 DEF PagesInv

\* Every step keeps the invariant
LEMMA PagesStep == PagesInv /\ [PagesNext]_pagesVars => PagesInv'
<1> SUFFICES ASSUME PagesInv, [PagesNext]_pagesVars PROVE PagesInv'
  OBVIOUS
<1>1. CASE UNCHANGED pagesVars
  BY <1>1
      DEF pagesVars, PagesInv, PageRows, Dated, Behind, Cut, PageApart, PageCounted, NoneSkipped,
     NoneTwice, Window, Before, Rank, RowsRead, Seen, Upto, Waiting, Where, Listed, Filtered, Skipped
<1> QED
  BY <1>1, AskPageStep, ReadRowsStep, ReadCountStep, ShowPageStep, RowCreatedStep, RowLeavesStep,
     RowReturnsStep, RowActiveStep, MemberLeavesStep DEF PagesNext

\* The invariant says what the run checks
LEMMA PagesInvSafe == PagesInv => PagesSafety
<1> SUFFICES ASSUME PagesInv PROVE PagesSafety
  OBVIOUS
<1>1. PageRows
  BY DEF PagesInv
<1>2. rows \in Seq([owner : Owners, open : BOOLEAN, key : Keys]) /\ DOMAIN rows = 1 .. Len(rows)
  BY <1>1 DEF PageRows
<1>3. \A r \in DOMAIN rows : rows[r] \in [owner : Owners, open : BOOLEAN, key : 1 .. 2 * MaxRows + MaxMoves]
  BY <1>2, ElementOfSeq DEF Keys
<1>4. request.page \in 1 .. MaxRows /\ request.total \in 0 .. MaxRows
  BY <1>1 DEF PageRows, PageRequests
<1>5. ToSet(shown) \cup stayed \cup pulled \cup pushed \subseteq DOMAIN rows
  BY <1>1, <1>2 DEF PageRows
<1> QED BY <1>3, <1>4, <1>5 DEF PagesInv, PagesSafety, PagesTypeOK

\* The invariant holds of every list, as its rows come and go
THEOREM PagesInvariance == PagesSpec => []PagesInv
  BY PagesInitInv, PagesStep, PTL DEF PagesSpec

\* Read page by page with skip and take (findMany) up to the last_page of the count, a list
\* shows each row that stayed, and once, unless another left or came before it, two were
\* tied, or a row came between the count and the rows: whatever the list, the limit and
\* the number of rows, owners and moves
THEOREM PagesMissNothing == PagesSpec => []PagesSafety
  BY PagesInvariance, PagesInvSafe, PTL

-----------------------------------------------------------------------------
(***************************************************************************)
(* Together, as the runs check them                                        *)
(***************************************************************************)

\* What is on sale and in stock: a listing has all the treatments declared for it, a lot is
\* changed by those it belongs to, or did until a token's life ago (createPublicationCoop,
\* createAnnonceVente, StockService), for any number of listings, products,
\* farmers, cooperatives and requests
THEOREM GoodsAreSafe == DeclarationsSpec /\ LotsSpec => []GoodsSafety
<1>1. DeclarationsSpec => []DeclarationsSafety
  BY DeclInvariance, DeclInvImplies, PTL
<1>2. LotsSpec => []LotsSafety
  BY LotsInvariance, LotsInvImplies, PTL
<1>3. DeclarationsSafety /\ LotsSafety => GoodsSafety
  BY DEF GoodsSafety
<1> QED BY <1>1, <1>2, <1>3, PTL

=============================================================================
