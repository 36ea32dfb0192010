------------------------------ MODULE History ------------------------------
(***************************************************************************)
(* GET /users/{user_id}/transactions (app/api/users.py over                *)
(* app/repository.py), walked page by page by a client that follows        *)
(* has_more, while workers go on inserting rows.                           *)
(*                                                                         *)
(* The COUNT and the SELECT of one request are two statements with an      *)
(* await between them; PostgreSQL's READ COMMITTED gives each its own      *)
(* snapshot.  Rows are only ever inserted.                                 *)
(*                                                                         *)
(* A row is a number, in the order of the ids; its user and its timestamp  *)
(* are functions of it.                                                    *)
(***************************************************************************)
EXTENDS Integers, FiniteSets

CONSTANTS
  Row,          \* the transactions there are to insert
  User,
  UserOf,       \* Transaction.user_id
  TimeOf,       \* Transaction.timestamp
  Bound,        \* what clients give as "from" and "to"
  Limit,        \* what clients give as "limit"
  MaxPageSize,  \* settings.api_max_page_size
  Nobody        \* no query

ASSUME HistoryAssumption ==
  /\ Row \subseteq Int /\ IsFiniteSet(Row)
  /\ UserOf \in [Row -> User] /\ TimeOf \in [Row -> Int]
  /\ Bound \subseteq Int
  /\ Limit \subseteq Nat \ {0} /\ MaxPageSize \in Nat \ {0}

VARIABLES
  table,   \* the rows inserted so far
  query,   \* what the client asks for
  phase,   \* of the walk: "idle", "count", "list" (counted, to list), "over"
  offset,  \* of the next page
  total,   \* what count_transactions returned
  seen,    \* the rows the client has been shown
  known,   \* the rows that matched when the walk began
  raced    \* a row came in between the last COUNT and its SELECT

walkVars == <<query, phase, offset, total, seen, known, raced>>
historyVars == <<table, walkVars>>

\* _range_filter: both bounds are inclusive.
Query == [user : User, from : Bound, to : Bound, limit : Limit]
Matches(r, q) == UserOf[r] = q.user /\ q.from <= TimeOf[r] /\ TimeOf[r] <= q.to
\* (Bug variant: rows whose transaction has not committed are read too.)
MatchingUncommitted == {r \in Row : Matches(r, query)}
Matching == {r \in table : Matches(r, query)}

\* ORDER BY timestamp DESC, id DESC
Newer(r, k) == TimeOf[r] > TimeOf[k] \/ (TimeOf[r] = TimeOf[k] /\ r > k)
Ahead(r) == {k \in Matching : Newer(k, r)}
Rank(r) == Cardinality(Ahead(r))

\* min(limit or api_page_size, api_max_page_size)
PageSize == IF query.limit < MaxPageSize THEN query.limit ELSE MaxPageSize

\* LIMIT .. OFFSET ..  (bug variant: one row too far)
PageAfterOffset == {r \in Matching : offset < Rank(r) /\ Rank(r) < offset + PageSize}
Page == {r \in Matching : offset <= Rank(r) /\ Rank(r) < offset + PageSize}

\* has_more = offset + len(rows) < total
\* (Bug variants: off by one, to either side.)
HasMoreLate == offset + Cardinality(Page) <= total
HasMoreEarly == offset + Cardinality(Page) + 1 < total
HasMore == offset + Cardinality(Page) < total

Init ==
  /\ table = {} /\ phase = "idle" /\ query = Nobody
  /\ offset = 0 /\ total = 0
  /\ seen = {} /\ known = {} /\ raced = FALSE

\* A worker commits a row.
Insert(r) ==
  /\ r \notin table
  /\ table' = table \cup {r}
  /\ raced' = IF phase = "list" /\ Matches(r, query) THEN TRUE ELSE raced
  /\ UNCHANGED <<query, phase, offset, total, seen, known>>

\* The client begins a walk; with from > to it gets a 400 and no walk.
Ask(q) ==
  /\ phase \in {"idle", "over"} /\ q.from <= q.to
  /\ query' = q /\ phase' = "count"
  /\ offset' = 0 /\ total' = 0
  /\ seen' = {} /\ known' = {r \in table : Matches(r, q)} /\ raced' = FALSE
  /\ UNCHANGED table

\* count_transactions
Count ==
  /\ phase = "count" /\ phase' = "list"
  /\ total' = Cardinality(Matching) /\ raced' = FALSE
  /\ UNCHANGED <<table, query, offset, seen, known>>

\* list_transactions, and the client goes on as has_more says.
List ==
  /\ phase = "list"
  /\ seen' = seen \cup Page
  /\ IF HasMore
     THEN phase' = "count" /\ offset' = offset + PageSize
     ELSE phase' = "over" /\ UNCHANGED offset
  /\ UNCHANGED <<table, query, total, known, raced>>

Next ==
  \/ \E r \in Row : Insert(r)
  \/ \E q \in Query : Ask(q)
  \/ Count \/ List

Spec == Init /\ [][Next]_historyVars

-----------------------------------------------------------------------------
TypeOK ==
  /\ table \subseteq Row
  /\ query \in Query \cup {Nobody} /\ (phase # "idle" => query \in Query)
  /\ phase \in {"idle", "count", "list", "over"}
  /\ offset \in Nat /\ total \in Nat
  /\ seen \subseteq table /\ known \subseteq table
  /\ raced \in BOOLEAN

Walking == phase \in {"count", "list"}

\* Rows that come in during a walk push others to later pages, never to pages
\* the client has left behind: what it has not seen yet of what was there when
\* it began is still ahead of it.
NothingLeftBehind ==
  Walking => \A r \in known \ seen : r \in Matching /\ Rank(r) >= offset

\* has_more never sends a client to a page with nothing on it.
NoEmptyPage == (phase = "count" /\ offset > 0) => Cardinality(Matching) > offset

\* A walk that is over has shown every row that was there when it began,
\* unless an insert fell between the COUNT and the SELECT of its last page.
MissedOnlyByRace == (phase = "over" /\ ~raced) => known \subseteq seen
===============================================================================
