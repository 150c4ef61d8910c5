---------------------------- MODULE AuditQuery ----------------------------
(***************************************************************************)
(* The query API of services/event-sink: ListAuditEvents answers one page  *)
(* with two queries, a Count and a Find, while the consumer goes on saving *)
(* events; ExportAuditEventsCsv answers the newest events with one query.  *)
(* A client pages through a listing, one request after the other.          *)
(*                                                                         *)
(* The values of the filters are fixed: a request is the set of filters it *)
(* gives, and Satisfies[e] is the set of filters that e passes.            *)
(***************************************************************************)
EXTENDS Integers, FiniteSetsExt

CONSTANTS
  Events,       \* events that may be saved
  Timestamp,    \* Timestamp[e]: the column timestamp
  Satisfies,    \* Satisfies[e] \subseteq Filters
  Requests,     \* the sets of filters that clients give
  PageSizes,    \* the values of page_size that clients give; Omitted
  Omitted,      \* a parameter that is not in the query string
  DefaultSize,  \* 20
  MaximumSize,  \* 100, the maximum of page_size in openapi.yaml, which the code does not know
  ExportLimit   \* 10000

Filters ==
  {"category", "action", "operation_type", "status", "actor_id", "correlation_id",
   "source_service", "search", "from", "to", "event_type", "is_name", "actor_display_name"}

ASSUME QueryAssumption ==
  /\ IsFiniteSet(Events)
  /\ Timestamp \in [Events -> Int]
  /\ Satisfies \in [Events -> SUBSET Filters]
  /\ Requests \subseteq SUBSET Filters
  /\ PageSizes \subseteq Int \union {Omitted}
  /\ Omitted \notin Int
  /\ DefaultSize \in Nat
  /\ MaximumSize \in Nat
  /\ ExportLimit \in Nat

VARIABLES
  stored,       \* the rows of audit_events
  pc,           \* "idle", or the query that ListAuditEvents is at: "count" or "find"
  request,      \* the request at hand, or the last one
  total,        \* what its Count found
  answer,       \* the last page answered
  since,        \* history: what matched when the client began with page 1
  seen,         \* what the client has received since
  received,     \* how many items these were
  late,         \* history: matching events saved since the client began
  pushed,       \* history: matching events saved since the last Count
  export        \* the last export: its filters and rows

pageVars == <<request, total, answer>>
clientVars == <<since, seen, received>>
vars == <<stored, pc, pageVars, clientVars, late, pushed, export>>

NoAnswer == [page |-> 0, items |-> {}, total_pages |-> 0, pushed |-> 0]

Init ==
  /\ stored = {}
  /\ pc = "idle"
  /\ request = [given |-> {}, page |-> 1, page_size |-> 0]
  /\ total = 0
  /\ answer = NoAnswer
  /\ since = {} /\ seen = {} /\ received = 0
  /\ late = 0 /\ pushed = 0
  /\ export = [given |-> {}, rows |-> {}]
-----------------------------------------------------------------------------
\* The WHERE clauses of ListAuditEvents and of ExportAuditEventsCsv.
ListFilters == Filters
ExportFilters_NoCorrelationId == Filters \ {"correlation_id"}
ExportFilters == Filters

Matching(given, applied) == {e \in stored : given \intersect applied \subseteq Satisfies[e]}
Listed == Matching(request.given, ListFilters)

\* S ORDER BY timestamp DESC LIMIT limit OFFSET offset; ties come in any order,
\* and not in the same each time.  GORM writes no LIMIT below 0 and no OFFSET below 1.
Skipped(S, offset) == IF offset > 0 THEN Min({offset, Cardinality(S)}) ELSE 0
Taken(rest, limit) == IF limit < 0 THEN rest ELSE Min({limit, rest})

Window_Unlimited(S, offset, limit) ==
  kSubset(Cardinality(S) - Skipped(S, offset), S)
Window_Unordered(S, offset, limit) ==
  kSubset(Taken(Cardinality(S) - Skipped(S, offset), limit), S)
Window(S, offset, limit) ==
  LET before == Skipped(S, offset)
  IN  {W \in kSubset(Taken(Cardinality(S) - before, limit), S) :
         \E B \in kSubset(before, S \ W) :
           /\ \A b \in B, w \in W : Timestamp[b] >= Timestamp[w]
           /\ \A n \in B \union W, o \in S \ (B \union W) : Timestamp[n] >= Timestamp[o]}

Offset_FromZero(page, page_size) == page * page_size
Offset(page, page_size) == (page - 1) * page_size

\* a / b of Go, which drops the fraction: below 0, \div would round away from 0.
Quotient(a, b) ==
  LET Size(x) == IF x < 0 THEN -x ELSE x
      q == Size(a) \div Size(b)
  IN  IF (a < 0) = (b < 0) THEN q ELSE -q

TotalPages_OneMore(n, page_size) == Quotient(n, page_size) + 1
TotalPages(n, page_size) == Quotient(n + page_size - 1, page_size)

\* The parameters of a request, after they have been bound one by one.  A value that
\* does not parse ends the request with a 400 and changes nothing; one that openapi.yaml
\* forbids, as a page_size of 0 or -1, is taken as it is.
OrDefault(value, default) == IF value = Omitted THEN default ELSE value
Bind(given, page, page_size) ==
  [given |-> given, page |-> OrDefault(page, 1), page_size |-> OrDefault(page_size, DefaultSize)]

\* Save inserts an event.
Save(e) ==
  /\ e \notin stored
  /\ stored' = stored \union {e}
  /\ LET new == IF request.given \intersect ListFilters \subseteq Satisfies[e] THEN 1 ELSE 0
     IN  late' = late + new /\ pushed' = pushed + new
  /\ UNCHANGED <<pc, pageVars, clientVars, export>>

\* The client asks for the first page.
FirstPage(given, page_size) ==
  /\ pc = "idle"
  /\ pc' = "count"
  /\ request' = Bind(given, Omitted, page_size)
  /\ answer' = NoAnswer
  /\ since' = Matching(given, ListFilters)
  /\ seen' = {} /\ received' = 0
  /\ late' = 0 /\ pushed' = 0
  /\ UNCHANGED <<stored, total, export>>

\* query.Count
CountEvents ==
  /\ pc = "count"
  /\ pc' = "find"
  /\ total' = Cardinality(Listed)
  /\ pushed' = 0
  /\ UNCHANGED <<stored, request, answer, clientVars, late, export>>

\* query.Find, and the page is answered: all that matches, for a page_size below 0.
FindEvents ==
  /\ pc = "find"
  /\ request.page_size # 0
  /\ \E items \in Window(Listed, Offset(request.page, request.page_size), request.page_size) :
       /\ answer' = [page |-> request.page, items |-> items,
                     total_pages |-> TotalPages(total, request.page_size), pushed |-> pushed]
       /\ seen' = seen \union items
       /\ received' = received + Cardinality(items)
  /\ pc' = "idle"
  /\ UNCHANGED <<stored, request, total, since, late, pushed, export>>

\* A page_size of 0: after the queries the division panics, and the client gets a 500.
FindEventsPanics ==
  /\ pc = "find"
  /\ request.page_size = 0
  /\ pc' = "idle"
  /\ UNCHANGED <<stored, pageVars, clientVars, late, pushed, export>>

\* A query fails; the client gets a 500 and asks again.
QueryFails ==
  /\ pc = "find"
  /\ pc' = "count"
  /\ UNCHANGED <<stored, pageVars, clientVars, late, pushed, export>>

\* The client asks for the next page, as long as total_pages says there is one.
NextPage ==
  /\ pc = "idle"
  /\ answer.page = request.page
  /\ request.page < answer.total_pages
  /\ pc' = "count"
  /\ request' = Bind(request.given, request.page + 1, request.page_size)
  /\ UNCHANGED <<stored, total, answer, clientVars, late, pushed, export>>

\* ExportAuditEventsCsv
ExportCsv(given) ==
  /\ \E rows \in Window(Matching(given, ExportFilters), 0, ExportLimit) :
       export' = [given |-> given, rows |-> rows]
  /\ UNCHANGED <<stored, pc, pageVars, clientVars, late, pushed>>

Next ==
  \/ \E e \in Events : Save(e)
  \/ \E given \in Requests, page_size \in PageSizes : FirstPage(given, page_size)
  \/ CountEvents
  \/ FindEvents
  \/ FindEventsPanics
  \/ QueryFails
  \/ NextPage
  \/ \E given \in Requests : ExportCsv(given)

Spec == Init /\ [][Next]_vars
-----------------------------------------------------------------------------
(***************************************************************************)
(* Properties.                                                             *)
(***************************************************************************)
\* Every variable has its type, and a page that was asked for with a size of at least
\* 1 holds no more than that; one asked for with less may hold anything.
TypeOK ==
  /\ stored \subseteq Events
  /\ pc \in {"idle", "count", "find"}
  /\ request.given \subseteq Filters
  /\ request.page \in Nat \ {0}
  /\ request.page_size \in Int
  /\ total \in Nat
  /\ answer.page \in 0 .. request.page
  /\ answer.items \subseteq stored
  /\ request.page_size > 0 => Cardinality(answer.items) <= request.page_size
  /\ answer.total_pages \in Int
  /\ answer.pushed \in Nat
  /\ since \subseteq stored
  /\ seen \subseteq stored
  /\ received \in Nat
  /\ late \in Nat
  /\ pushed \in 0 .. late
  /\ export.rows \subseteq stored

\* The client has the last page that total_pages told of.
Finished ==
  pc = "idle" /\ answer.page = request.page /\ request.page >= answer.total_pages

Tied(e) == \E d \in Listed \ {e} : Timestamp[d] = Timestamp[e]

\* A client that takes the pages one after the other receives every event that
\* matched when it began, but for as many as were saved between the Count and the
\* Find of the last page, which push others off it; of events with equal
\* timestamps nothing is said.
MissedWerePushed ==
  Finished => Cardinality({e \in since \ seen : ~Tied(e)}) <= answer.pushed

\* Nothing is saved that matches, and no timestamps tie.
Still == late = 0 /\ \A e \in Listed : ~Tied(e)

\* No event comes twice while nothing is saved that matches and no timestamps tie.
EachOnce == Still => received = Cardinality(seen)

\* With a page_size of at least 1, a page within total_pages is never empty, and a page
\* beyond it is, unless an event was saved between the two queries.
PagesAgree ==
  answer.page > 0 /\ request.page_size > 0 =>
    /\ answer.page <= answer.total_pages => answer.items # {}
    /\ answer.items # {} => answer.page <= answer.total_pages \/ answer.pushed > 0

\* The parts of the inductive invariant.  Where the client is: it has not yet, or has just
\* received the page it asks for; the Find knows how many match more than at the Count.
Paging ==
  /\ since \subseteq Listed
  /\ seen \subseteq Listed
  /\ answer.page \in {request.page - 1, request.page}
  /\ pc # "idle" => answer.page = request.page - 1
  /\ answer.page > 0 => request.page_size # 0
  /\ pc = "find" => Cardinality(Listed) = total + pushed

\* What the client misses of what was there has, in front of it, as many events as the
\* pages so far can hold: what is saved pushes it back, never forward.
Newer(e) == {d \in Listed : Timestamp[d] > Timestamp[e]}

MissedIsBehind ==
  \A e \in since \ seen :
    ~Tied(e) => Cardinality(Newer(e)) >= answer.page * request.page_size

\* After a page that total_pages calls the last.
LastPage ==
  answer.page > 0 /\ answer.page >= answer.total_pages =>
    Cardinality({e \in since \ seen : ~Tied(e)}) <= answer.pushed

\* While nothing is saved total_pages is that of the listing; so a page_size below 0, of
\* which the first page holds all, has a second page only if there is nothing to list.
AnswerCounts ==
  late = 0 =>
    /\ answer.page > 0 => answer.total_pages = TotalPages(Cardinality(Listed), request.page_size)
    /\ request.page_size < 0 /\ request.page > 1 => Listed = {}

\* Without ties and new events the client has the newest, as many as fit on the pages.
Newest(T, S) == \A d \in T, e \in S \ T : Timestamp[d] >= Timestamp[e]

Fitting ==
  IF request.page_size < 0 THEN (IF answer.page = 0 THEN 0 ELSE Cardinality(Listed))
                           ELSE Min({answer.page * request.page_size, Cardinality(Listed)})

SeenAreNewest ==
  Still => /\ received = Cardinality(seen)
           /\ received = Fitting
           /\ Newest(seen, Listed)

QueryInv ==
  TypeOK /\ Paging /\ MissedIsBehind /\ LastPage /\ AnswerCounts /\ SeenAreNewest /\ PagesAgree

\* The listing and the export apply the same filters, each in code of its own.  What a
\* client has listed and finds missing in an export with the same filters is older than
\* all the export holds, which is full; and while nothing is saved and nothing ties,
\* the export has nothing that was not on one of the pages, once it has taken them all.
ExportAgrees ==
  [][export' # export /\ export'.given = request.given =>
       /\ \A e \in seen \ export'.rows :
            /\ Cardinality(export'.rows) = ExportLimit
            /\ \A d \in export'.rows : Timestamp[d] >= Timestamp[e]
       /\ Finished /\ Still => export'.rows \subseteq seen]_vars

\* "minimum: 1, maximum: 100", says openapi.yaml of page_size: so no page holds more
\* than that maximum.
PageIsBounded == Cardinality(answer.items) <= MaximumSize
=============================================================================
