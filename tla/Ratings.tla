------------------------------ MODULE Ratings ------------------------------
(***************************************************************************)
(* Reviews: laisserAvis and deleteAvis of InteractionsService for listings *)
(* and evaluateShipment of LogisticsService for deliveries.  Only the last *)
(* keeps users.rating and users.rating_count of the transporter, from an   *)
(* aggregate read in its transaction at READ COMMITTED.                    *)
(***************************************************************************)
EXTENDS Naturals, FiniteSets, Functions

CONSTANTS
  Trips,      \* shipments of one transporter, each with its buyer
  Bought,     \* a buyer and the listing he ordered from
  Reviews,    \* 1..n: rows of avis
  Marks,      \* notes
  Raters      \* requests in flight

ASSUME RatingsAssumption ==
  /\ Trips \cap Bought = {} /\ "none" \notin Trips \cup Bought
  /\ Marks \subseteq Nat /\ IsFiniteSet(Reviews)

VARIABLES
  delivered,  \* what was delivered
  avis,       \* the reviews: context and note (of = "none": no row)
  rating,     \* users.rating of the transporter, kept as the sum it is the average of, and rating_count
  grade,      \* the request in each hand; what its aggregate read
  outdated,   \* history: the last aggregate missed a row, or one went since
  doubled     \* history: contexts that two requests reviewed at once

ratingsVars == <<delivered, avis, rating, grade, outdated, doubled>>

NoReview == [of |-> "none", note |-> 0]
NoGrade == [at |-> "idle", of |-> "none", note |-> 0, sum |-> 0, count |-> 0, met |-> FALSE]

Written == {i \in Reviews : avis[i].of # "none"}
OfTrips == {i \in Written : avis[i].of \in Trips}
Total(S) == SumFunctionOnSet([i \in Reviews |-> avis[i].note], S)
Pausing(r) == grade[r].at = "idle"

\* Those whose aggregate was read meet what is committed now
Meets(r) == [q \in Raters |-> IF q # r /\ grade[q].at = "commit" THEN [grade[q] EXCEPT !.met = TRUE] ELSE grade[q]]

\* environment: a trip ends in DELIVERED, an order in DELIVERED or COMPLETED
Deliver(x) ==
  /\ x \notin delivered
  /\ delivered' = delivered \cup {x}
  /\ UNCHANGED <<avis, rating, grade, outdated, doubled>>

\* Mutant: reviews are not looked up
RateableAgain(x) == x \in delivered

\* Mutant: whatever its status
RateableEarly(x) == \A i \in Written : avis[i].of # x

\* evaluateShipment and laisserAvis: delivered, and no review of it by this buyer
Rateable(x) == x \in delivered /\ \A i \in Written : avis[i].of # x

Begins(r, x, note) ==
  /\ Pausing(r) /\ Rateable(x)
  /\ grade' = [grade EXCEPT ![r] = [NoGrade EXCEPT !.at = "insert", !.of = x, !.note = note]]
  /\ doubled' = IF \E q \in Raters : grade[q].of = x THEN doubled \cup {x} ELSE doubled
  /\ UNCHANGED <<delivered, avis, rating, outdated>>

BeginEvaluate(r, x, note) == x \in Trips /\ Begins(r, x, note)

BeginReview(r, x, note) == x \in Bought /\ Begins(r, x, note)

\* Mutant: the aggregate is read before the review is created
AggregateBefore(r) ==
  /\ grade[r].at = "insert" /\ grade[r].of \in Trips
  /\ grade' = [grade EXCEPT ![r].at = "commit", ![r].sum = Total(OfTrips),
                            ![r].count = Cardinality(OfTrips)]
  /\ UNCHANGED <<delivered, avis, rating, outdated, doubled>>

\* evaluateShipment: its transaction creates the review and reads the aggregate,
\* which sees what is committed and its own row ...
Aggregate(r) ==
  /\ grade[r].at = "insert" /\ grade[r].of \in Trips
  /\ grade' = [grade EXCEPT ![r].at = "commit", ![r].sum = Total(OfTrips) + grade[r].note,
                            ![r].count = Cardinality(OfTrips) + 1]
  /\ UNCHANGED <<delivered, avis, rating, outdated, doubled>>

\* ... writes it to users, and commits
CommitGrade(r, i) ==
  LET g == grade[r] IN
  /\ g.at = "commit" /\ i \notin Written /\ \A j \in Reviews : j < i => j \in Written
  /\ avis' = [avis EXCEPT ![i] = [of |-> g.of, note |-> g.note]]
  /\ rating' = [sum |-> g.sum, count |-> g.count]
  /\ outdated' = g.met
  /\ grade' = [Meets(r) EXCEPT ![r] = NoGrade]
  /\ UNCHANGED <<delivered, doubled>>

\* laisserAvis: the review is created; no rating is written
InsertReview(r, i) ==
  LET g == grade[r] IN
  /\ g.at = "insert" /\ g.of \in Bought
  /\ i \notin Written /\ \A j \in Reviews : j < i => j \in Written
  /\ avis' = [avis EXCEPT ![i] = [of |-> g.of, note |-> g.note]]
  /\ grade' = [grade EXCEPT ![r] = NoGrade]
  /\ UNCHANGED <<delivered, rating, outdated, doubled>>

\* deleteAvis of one's own, of a delivery too: the rating stays
DeleteReview(i) ==
  /\ i \in Written
  /\ avis' = [avis EXCEPT ![i] = NoReview]
  /\ outdated' = (outdated \/ avis[i].of \in Trips)
  /\ grade' = IF avis[i].of \in Trips
              THEN [q \in Raters |-> [grade[q] EXCEPT !.met = @ \/ grade[q].at = "commit"]]
              ELSE grade
  /\ UNCHANGED <<delivered, rating, doubled>>

RatingsInit ==
  /\ delivered = {} /\ doubled = {} /\ outdated = FALSE
  /\ avis = [i \in Reviews |-> NoReview]
  /\ rating = [sum |-> 0, count |-> 0]
  /\ grade = [r \in Raters |-> NoGrade]

RatingsNext ==
  \/ \E x \in Trips \cup Bought : Deliver(x)
  \/ \E r \in Raters, x \in Trips \cup Bought, note \in Marks :
       BeginEvaluate(r, x, note) \/ BeginReview(r, x, note)
  \/ \E r \in Raters : Aggregate(r)
  \/ \E i \in Reviews :
       \/ DeleteReview(i)
       \/ \E r \in Raters : CommitGrade(r, i) \/ InsertReview(r, i)

RatingsSpec == RatingsInit /\ [][RatingsNext]_ratingsVars

-----------------------------------------------------------------------------
(* Properties                                                              *)

\* Types; only what was delivered has a review
RatingsTypeOK ==
  /\ \A i \in Written : avis[i].of \in delivered /\ avis[i].note \in Marks
  /\ rating.count \in Nat /\ outdated \in BOOLEAN /\ doubled \subseteq delivered
  /\ \A r \in Raters : grade[r].at \in {"idle", "insert", "commit"}

\* A buyer has one review of a delivery or a listing, unless two of his requests overlapped
OneReview ==
  \A i, j \in Written : avis[i].of = avis[j].of /\ avis[i].of \notin doubled => i = j

\* The rating of a transporter is that of the reviews of his deliveries, unless the last
\* two evaluations overlapped or a review was deleted since
RatingIsAverage ==
  outdated \/ rating = [sum |-> Total(OfTrips), count |-> Cardinality(OfTrips)]

\* One review of a delivery, and the rating of a transporter is the average of his
RatingsSafety == RatingsTypeOK /\ OneReview /\ RatingIsAverage

=============================================================================
