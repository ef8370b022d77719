------------------------------- MODULE Pages -------------------------------
(***************************************************************************)
(* The lists of the API.  Every one of them answers a page with two        *)
(* queries that no transaction ties together, the rows (findMany with skip *)
(* and take) and their number (count), while other requests create rows,   *)
(* change the column the list filters on, or move a row in its order.  A   *)
(* client turns the pages from the first to the last_page it is told.      *)
(* A list is told apart by whose rows it shows, whether a column that      *)
(* changes takes part in its filter, and what it is sorted by; filters on  *)
(* columns that never change (a product, a region) only make it shorter.   *)
(***************************************************************************)
EXTENDS Integers, Sequences, SequencesExt

CONSTANTS
  Lists,     \* the lists a client may read, among those below
  Limits,    \* the sizes of page a client asks for
  Owners,    \* the users rows belong to
  Reader,    \* the one who reads
  MaxRows,   \* bound on the rows of a table
  MaxMoves,  \* bound on the rows that come, go or move while a client reads
  Names      \* the values a list sorted by name is sorted by

\* The list sorted by activity, of conversations, is the asker's
ASSUME PagesAssumption ==
  /\ Lists \subseteq [of : {"anyone", "asker", "members"}, state : {"always", "asked", "never"},
                      by : {"created", "name", "activity"}]
  /\ \A l \in Lists : l.by = "activity" => l.of # "members"
  /\ Limits \subseteq Nat \ {0} /\ Reader \in Owners
  /\ MaxRows \in Nat \ {0} /\ MaxMoves \in Nat /\ Names \subseteq 1 .. MaxRows

VARIABLES
  list,      \* the list read
  asked,     \* whether the query filters on the column that changes
  limit,
  rows,      \* the rows of the table, in the order they were created
  members,   \* the owners who are members of the reader's cooperative
  request,   \* the page asked for, and what its queries have read
  shown,     \* the rows shown so far, page after page
  moves,
  stayed,    \* history: rows that belonged to the list from the beginning
  pulled,    \* history: rows one of whose predecessors left, or that moved themselves
  pushed,    \* history: rows before which another came
  torn,      \* history: a row came after the count of a page and before its rows
  tied       \* history: two rows of a page had the same place in the order

pagesVars == <<list, asked, limit, rows, members, request, shown, moves,
               stayed, pulled, pushed, torn, tied>>

\* of: "anyone", "asker" or the "members" of the asker's cooperative
\* state: whether the changing column is filtered on "always", when "asked" or "never"
\* by: "created", "name" or "activity"
AnnoncesVente == [of |-> "anyone", state |-> "always", by |-> "created"]
AnnoncesAchat == [of |-> "anyone", state |-> "always", by |-> "created"]
PublicationsCoop == [of |-> "anyone", state |-> "always", by |-> "created"]
NewsForUser == [of |-> "anyone", state |-> "always", by |-> "created"]
AllNews == [of |-> "anyone", state |-> "never", by |-> "created"]
AllUsers == [of |-> "anyone", state |-> "never", by |-> "created"]
AllTransactions == [of |-> "anyone", state |-> "asked", by |-> "created"]
AllOrders == [of |-> "anyone", state |-> "asked", by |-> "created"]
Cooperatives == [of |-> "anyone", state |-> "never", by |-> "name"]
Treatments == [of |-> "anyone", state |-> "always", by |-> "name"]
MyOrders == [of |-> "asker", state |-> "asked", by |-> "created"]
MyTransactions == [of |-> "asker", state |-> "never", by |-> "created"]
MyNotifications == [of |-> "asker", state |-> "asked", by |-> "created"]
MyConversations == [of |-> "asker", state |-> "never", by |-> "activity"]
ConversationMessages == [of |-> "asker", state |-> "never", by |-> "created"]
MyAnalyses == [of |-> "asker", state |-> "never", by |-> "created"]
MyB2bOrders == [of |-> "asker", state |-> "never", by |-> "created"]
MyOffres == [of |-> "asker", state |-> "never", by |-> "created"]
CoopMembers == [of |-> "asker", state |-> "always", by |-> "created"]
CoopAnyMembers == [of |-> "asker", state |-> "never", by |-> "created"]
AssignedAnnonces == [of |-> "asker", state |-> "always", by |-> "created"]
AssignedPrevisions == [of |-> "asker", state |-> "always", by |-> "created"]
Advances == [of |-> "asker", state |-> "asked", by |-> "created"]
SollicitationsOfCoop == [of |-> "asker", state |-> "asked", by |-> "created"]
MemberAnnonces == [of |-> "members", state |-> "always", by |-> "created"]
MemberOrders == [of |-> "members", state |-> "never", by |-> "created"]

Filtered == list.state = "always" \/ (list.state = "asked" /\ asked)

\* where; ids is what getMemberIds has read
Where(ids) ==
  {r \in DOMAIN rows :
    /\ list.of = "asker" => rows[r].owner = Reader
    /\ list.of = "members" => rows[r].owner \in ids
    /\ Filtered => rows[r].open}

\* the rows a request that began and ended now would find
Listed == Where(members)

\* orderBy, in descending order of the key; the database is free to choose among ties
Sorted(S) ==
  {s \in SetToSeqs(S) : \A i, j \in DOMAIN s : i < j => rows[s[i]].key >= rows[s[j]].key}

\* skip
Skipped(page) == (page - 1) * limit

Least(a, b) == IF a < b THEN a ELSE b

\* Mutant: one more, to know whether there is a next page
TakenAndNext(s, page) ==
  IF Skipped(page) >= Len(s) THEN <<>>
  ELSE SubSeq(s, Skipped(page) + 1, Least(Skipped(page) + limit + 1, Len(s)))

\* take
Taken(s, page) ==
  IF Skipped(page) >= Len(s) THEN <<>>
  ELSE SubSeq(s, Skipped(page) + 1, Least(Skipped(page) + limit, Len(s)))

\* Mutant: the last page only when it is full
LastFullPage(total) == IF total < limit THEN 1 ELSE total \div limit

\* Mutant: one page too many when the last one is full
LastPageAfter(total) == total \div limit + 1

\* last_page: Math.ceil(total / limit) || 1
LastPage(total) == IF total = 0 THEN 1 ELSE (total + limit - 1) \div limit

Opened == [page |-> 1, state |-> "idle", todo |-> {}, ids |-> {}, rows |-> <<>>, total |-> 0]

\* What tells rows apart in this list, and nothing else
Plain(row) ==
  /\ list.of = "anyone" => row.owner = Reader
  /\ ~Filtered => row.open

\* A column of dates only grows
Latest == 1 + Cardinality(DOMAIN rows) + moves

NewKeys == IF list.by = "name" THEN Names ELSE {Latest}

PagesInit ==
  /\ list \in Lists /\ asked \in BOOLEAN /\ limit \in Limits
  /\ list.state # "asked" => ~asked
  /\ \E n \in 0 .. MaxRows :
       rows \in [1 .. n -> [owner : Owners, open : BOOLEAN, key : 1 .. MaxRows]]
  /\ \A r \in DOMAIN rows :
       Plain(rows[r]) /\ (IF list.by = "name" THEN rows[r].key \in Names ELSE rows[r].key = r)
  /\ members = Owners
  /\ request = Opened /\ shown = <<>> /\ moves = 0
  /\ stayed = Listed /\ pulled = {} /\ pushed = {} /\ torn = FALSE /\ tied = FALSE

queryVars == <<list, asked, limit>>
tableVars == <<rows, members, moves, stayed, pulled, pushed>>

\* The client asks for a page; the lists of members read who they are first
AskPage ==
  /\ request.state = "idle"
  /\ request' = [request EXCEPT !.state = "asked", !.todo = {"rows", "count"},
                               !.ids = IF list.of = "members" THEN members ELSE {}]
  /\ UNCHANGED <<queryVars, tableVars, shown, torn, tied>>

\* findMany
ReadRows ==
  /\ request.state = "asked" /\ "rows" \in request.todo
  /\ \E s \in Sorted(Where(request.ids)) :
       request' = [request EXCEPT !.rows = Taken(s, request.page), !.todo = @ \ {"rows"}]
  /\ tied' = (tied \/ \E r, q \in Where(request.ids) : r # q /\ rows[r].key = rows[q].key)
  /\ UNCHANGED <<queryVars, tableVars, shown, torn>>

\* count, with the same filter
ReadCount ==
  /\ request.state = "asked" /\ "count" \in request.todo
  /\ request' = [request EXCEPT !.total = Cardinality(Where(request.ids)), !.todo = @ \ {"count"}]
  /\ UNCHANGED <<queryVars, tableVars, shown, torn, tied>>

\* The client shows the rows, and goes on until the last page it has been told
ShowPage ==
  /\ request.state = "asked" /\ request.todo = {}
  /\ shown' = shown \o request.rows
  /\ request' = IF request.page < LastPage(request.total)
                THEN [Opened EXCEPT !.page = request.page + 1]
                ELSE [request EXCEPT !.state = "done"]
  /\ UNCHANGED <<queryVars, tableVars, torn, tied>>

Moving == request.state # "done" /\ moves < MaxMoves /\ moves' = moves + 1

\* A row of this owner comes with this key; a page that read the members before the owner
\* left counts it, and the next one does not
Comes(o, key) ==
  LET after == {x \in DOMAIN rows : rows[x].key <= key} IN
  /\ pushed' = pushed \cup after
  /\ pulled' = IF o \in request.ids \ members THEN pulled \cup after ELSE pulled
  /\ torn' = (torn \/ request.todo = {"rows"})

RowCreated ==
  /\ Moving /\ Len(rows) < MaxRows
  /\ \E o \in Owners, open \in BOOLEAN, k \in NewKeys :
       LET row == [owner |-> o, open |-> open, key |-> k] IN
         Plain(row) /\ rows' = Append(rows, row) /\ Comes(o, k)
  /\ UNCHANGED <<queryVars, members, request, shown, stayed, tied>>

\* sold, withdrawn, read, answered, deleted ...
RowLeaves ==
  /\ Moving /\ Filtered
  /\ \E r \in Listed :
       /\ rows' = [rows EXCEPT ![r].open = FALSE]
       /\ stayed' = stayed \ {r}
       /\ pulled' = pulled \cup {x \in Listed : rows[x].key <= rows[r].key}
  /\ UNCHANGED <<queryVars, members, request, shown, pushed, torn, tied>>

\* ... and on sale again, at the place its date gives it
RowReturns ==
  /\ Moving /\ Filtered
  /\ \E r \in DOMAIN rows :
       /\ ~rows[r].open /\ rows' = [rows EXCEPT ![r].open = TRUE]
       /\ Comes(rows[r].owner, rows[r].key)
  /\ UNCHANGED <<queryVars, members, request, shown, stayed, tied>>

\* A message puts its conversation first
RowActive ==
  /\ Moving /\ list.by = "activity"
  /\ \E r \in Listed :
       /\ rows' = [rows EXCEPT ![r].key = Latest]
       /\ pulled' = pulled \cup {r}
       /\ pushed' = pushed \cup {x \in Listed : rows[x].key > rows[r].key}
  /\ UNCHANGED <<queryVars, members, request, shown, stayed, torn, tied>>

MemberLeaves ==
  /\ Moving /\ list.of = "members"
  /\ \E o \in members :
       LET gone == {r \in Listed : rows[r].owner = o} IN
         /\ members' = members \ {o}
         /\ stayed' = stayed \ gone
         /\ pulled' = pulled \cup {x \in Listed : \E g \in gone : rows[x].key <= rows[g].key}
  /\ UNCHANGED <<queryVars, rows, request, shown, pushed, torn, tied>>

PagesNext ==
  \/ AskPage \/ ReadRows \/ ReadCount \/ ShowPage
  \/ RowCreated \/ RowLeaves \/ RowReturns \/ RowActive \/ MemberLeaves

PagesSpec == PagesInit /\ [][PagesNext]_pagesVars

-----------------------------------------------------------------------------

\* Rows are those of the table, and no page is asked for beyond what the table can fill.
PagesTypeOK ==
  /\ \A r \in DOMAIN rows :
       rows[r] \in [owner : Owners, open : BOOLEAN, key : 1 .. 2 * MaxRows + MaxMoves]
  /\ request.page \in 1 .. MaxRows /\ request.total \in 0 .. MaxRows
  /\ ToSet(shown) \cup stayed \cup pulled \cup pushed \subseteq DOMAIN rows

\* A row that was in a list from the first page to the last is shown by one of them,
\* unless a row before it left, it moved itself, two rows were tied (coop and treatment
\* names are not unique), or a row came after the count of a page and before its rows.
NoneSkipped ==
  request.state = "done" /\ ~torn /\ ~tied => stayed \ ToSet(shown) \subseteq pulled

\* A row is shown twice only when another came before it in the meantime.
NoneTwice ==
  \A i, j \in DOMAIN shown : i < j /\ shown[i] = shown[j] => tied \/ shown[i] \in pushed

\* Read page by page while its rows come and go, a list shows each row that stayed, and
\* once, but for the shifts that offsets and counts cannot survive
PagesSafety == PagesTypeOK /\ NoneSkipped /\ NoneTwice

=============================================================================
