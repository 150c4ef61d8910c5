-------------------------- MODULE AuditQuery_proof --------------------------
(***************************************************************************)
(* Proofs about AuditQuery, for any events, filters, page sizes and limit: *)
(* what pages and exports hold while events are saved between the queries. *)
(***************************************************************************)
EXTENDS AuditQuery, FiniteSetTheorems, TLAPS

\* The smaller of two.
Less(a, b) == IF a <= b THEN a ELSE b

\* The Min of the model is the smaller one.
LEMMA MinOfTwo ==
  ASSUME NEW a \in Int, NEW b \in Int
  PROVE  Min({a, b}) = Less(a, b)
<1> DEFINE m == Less(a, b)
<1>1. m \in {a, b} /\ m <= a /\ m <= b /\ m \in Int
  BY DEF Less
<1>2. \A x \in {a, b} : (\A y \in {a, b} : x <= y) <=> x = m
  BY <1>1
<1>3. m = CHOOSE x \in {a, b} : \A y \in {a, b} : x <= y
  BY <1>1, <1>2
<1> QED  BY <1>3 DEF Min

\* Multiplication by a page size keeps the order.
LEMMA MoreTimes ==
  ASSUME NEW a \in Nat, NEW b \in Nat, NEW s \in Nat, a <= b
  PROVE  a * s <= b * s
<1>1. PICK c \in Nat : b = a + c
  <2>1. b - a \in Nat /\ b = a + (b - a)
    OBVIOUS
  <2> QED  BY <2>1
<1>2. b * s = a * s + c * s /\ c * s \in Nat /\ a * s \in Nat
  BY <1>1
<1> QED  BY <1>2

\* For a page size of at least 1 the quotient is the usual one.
LEMMA QuotientAbove ==
  ASSUME NEW n \in Nat, NEW s \in Nat \ {0}
  PROVE  TotalPages(n, s) = (n + s - 1) \div s
<1>1. n + s - 1 >= 0 /\ s > 0
  OBVIOUS
<1> QED  BY <1>1 DEF TotalPages, Quotient

\* For one below 0 there is never a second page, unless nothing is listed.
LEMMA QuotientBelow ==
  ASSUME NEW n \in Nat, NEW s \in Int, s < 0
  PROVE  /\ TotalPages(n, s) \in Int
         /\ n > 0 => TotalPages(n, s) <= 1
<1>1. PICK k \in Nat \ {0} : s = -k
  <2>1. -s \in Nat \ {0} /\ s = -(-s)
    OBVIOUS
  <2> QED  BY <2>1
<1>2. CASE n + s - 1 < 0
  <2>1. PICK m \in Nat : m = -(n + s - 1)
    <3>1. -(n + s - 1) \in Nat
      BY <1>2
    <3> QED  BY <3>1
  <2>2. TotalPages(n, s) = m \div k
    BY <1>1, <1>2, <2>1 DEF TotalPages, Quotient
  <2>3. m \div k \in Nat /\ (m \div k) * k <= m
    BY <1>1
  <2>4. n > 0 => m \div k <= 1
    <3> PICK q \in Nat : q = m \div k
      BY <2>3
    <3>1. q > 1 => 2 * k <= q * k
      BY MoreTimes
    <3>2. n > 0 => m <= k
      BY <1>1, <2>1
    <3>3. q * k \in Nat /\ q * k <= m
      BY <2>3
    <3> QED  BY <3>1, <3>2, <3>3
  <2> QED  BY <2>2, <2>3, <2>4
<1>3. CASE n + s - 1 >= 0
  <2>1. PICK m \in Nat : m = n + s - 1
    BY <1>3
  <2>2. TotalPages(n, s) = -(m \div k)
    BY <1>1, <1>3, <2>1 DEF TotalPages, Quotient
  <2>3. m \div k \in Nat
    BY <1>1
  <2> QED  BY <2>2, <2>3
<1> QED  BY <1>2, <1>3

\* n events are on TotalPages pages: a page is one of them if the pages before it do not
\* hold all, and not if they do.
LEMMA PagesHold ==
  ASSUME NEW n \in Nat, NEW s \in Nat \ {0}
  PROVE  /\ TotalPages(n, s) \in Nat
         /\ \A p \in Nat \ {0} : p <= TotalPages(n, s) <=> (p - 1) * s < n
         /\ \A p \in Nat : p >= TotalPages(n, s) => p * s >= n
<1> DEFINE q == TotalPages(n, s)
<1>1. q \in Nat /\ q * s <= n + s - 1 /\ n + s - 1 < q * s + s
  <2>1. q = (n + s - 1) \div s
    BY QuotientAbove
  <2> QED  BY <2>1
<1> HIDE DEF q
<1>2. ASSUME NEW p \in Nat, p >= q
      PROVE  p * s >= n
  <2>1. q * s <= p * s /\ q * s \in Nat /\ p * s \in Nat
    BY <1>1, <1>2, MoreTimes
  <2> QED  BY <1>1, <2>1
<1>3. ASSUME NEW p \in Nat \ {0}
      PROVE  p <= q <=> (p - 1) * s < n
  <2>1. CASE p <= q
    <3>1. (p - 1) * s <= (q - 1) * s /\ p - 1 \in Nat /\ q - 1 \in Nat
      BY <1>1, <2>1, MoreTimes
    <3>2. (q - 1) * s = q * s - s
      BY <1>1
    <3>3. q * s \in Int /\ (p - 1) * s \in Int
      BY <1>1
    <3> QED  BY <1>1, <2>1, <3>1, <3>2, <3>3
  <2>2. CASE p > q
    <3>1. p - 1 \in Nat /\ p - 1 >= q
      BY <1>1, <2>2
    <3>2. (p - 1) * s >= n /\ (p - 1) * s \in Nat
      BY <1>2, <3>1
    <3> QED  BY <1>1, <2>2, <3>2
  <2> QED  BY <1>1, <2>1, <2>2
<1> QED  BY <1>1, <1>2, <1>3 DEF q
-----------------------------------------------------------------------------
\* Sets of events are finite.
LEMMA FiniteEvents ==
  ASSUME NEW S \in SUBSET Events
  PROVE  IsFiniteSet(S) /\ Cardinality(S) \in Nat
BY QueryAssumption, FS_Subset, FS_CardinalityType

\* A part of a set of events is smaller, unless it is all of it.
LEMMA SubsetCardinality ==
  ASSUME NEW S \in SUBSET Events, NEW T \in SUBSET S
  PROVE  /\ Cardinality(T) <= Cardinality(S)
         /\ Cardinality(T) = Cardinality(S) => T = S
         /\ Cardinality(S \ T) = Cardinality(S) - Cardinality(T)
<1>1. IsFiniteSet(S) /\ IsFiniteSet(T) /\ Cardinality(S) \in Nat /\ Cardinality(T) \in Nat
  BY FiniteEvents
<1>2. Cardinality(T) <= Cardinality(S) /\ (Cardinality(T) = Cardinality(S) => T = S)
  BY <1>1, FS_Subset
<1>3. S \cap T = T
  OBVIOUS
<1>4. Cardinality(S \ T) = Cardinality(S) - Cardinality(S \cap T)
  BY <1>1, FS_Difference
<1> QED  BY <1>2, <1>3, <1>4

\* Disjoint sets add up.
LEMMA DisjointUnion ==
  ASSUME NEW S \in SUBSET Events, NEW T \in SUBSET Events, S \cap T = {}
  PROVE  Cardinality(S \union T) = Cardinality(S) + Cardinality(T)
<1>1. IsFiniteSet(S) /\ IsFiniteSet(T) /\ Cardinality(S) \in Nat /\ Cardinality(T) \in Nat
  BY FiniteEvents
<1>2. Cardinality(S \union T) = Cardinality(S) + Cardinality(T) - Cardinality(S \cap T)
  BY <1>1, FS_Union
<1>3. Cardinality(S \cap T) = 0
  BY FS_EmptySet
<1> QED  BY <1>1, <1>2, <1>3

\* One page more.
LEMMA OneMorePage ==
  ASSUME NEW k \in Nat, NEW size \in Nat
  PROVE  (k + 1) * size = k * size + size
OBVIOUS

\* B are the events of S that the window W at offset skips: W is the next limit, and no
\* event outside is newer than one inside.
Precedes(B, W, S, offset, limit) ==
  /\ W \in SUBSET S
  /\ Cardinality(B) = Less(offset, Cardinality(S))
  /\ Cardinality(W) = Less(limit, Cardinality(S) - Cardinality(B))
  /\ Cardinality(B \union W) = Cardinality(B) + Cardinality(W)
  /\ Newest(B, S)
  /\ Newest(B \union W, S)

\* A window on S: it follows the newest events, as many as offset says, and with them it
\* is, again, the newest.
LEMMA WindowIs ==
  ASSUME NEW S \in SUBSET Events, NEW offset \in Nat, NEW limit \in Nat,
         NEW W \in Window(S, offset, limit)
  PROVE  \E B \in SUBSET (S \ W) : Precedes(B, W, S, offset, limit)
<1> DEFINE n == Cardinality(S)
           before == Less(offset, n)
           size == Less(limit, n - before)
<1>1. n \in Nat /\ before \in Nat /\ n - before \in Int
  BY FiniteEvents DEF Less
<1>2. Skipped(S, offset) = before /\ Taken(n - before, limit) = size
  <2>1. Min({offset, n}) = before /\ Min({limit, n - before}) = size
    BY <1>1, MinOfTwo
  <2> QED  BY <1>1, <2>1 DEF Skipped, Taken, Less
<1>3. Window(S, offset, limit) =
        {V \in kSubset(size, S) :
           \E B \in kSubset(before, S \ V) :
             /\ \A b \in B, w \in V : Timestamp[b] >= Timestamp[w]
             /\ \A m \in B \union V, o \in S \ (B \union V) : Timestamp[m] >= Timestamp[o]}
  BY <1>2 DEF Window
<1>4. W \in SUBSET S /\ Cardinality(W) = size
  BY <1>3 DEF kSubset
<1>5. PICK B \in SUBSET (S \ W) :
        /\ Cardinality(B) = before
        /\ \A b \in B, w \in W : Timestamp[b] >= Timestamp[w]
        /\ \A m \in B \union W, o \in S \ (B \union W) : Timestamp[m] >= Timestamp[o]
  BY <1>3 DEF kSubset
<1>6. Cardinality(B \union W) = Cardinality(B) + Cardinality(W)
  BY <1>4, DisjointUnion
<1>7. Newest(B, S) /\ Newest(B \union W, S)
  BY <1>4, <1>5 DEF Newest
<1> QED  BY <1>4, <1>5, <1>6, <1>7 DEF Precedes

\* Without LIMIT and OFFSET the window is everything.
LEMMA WindowAll ==
  ASSUME NEW S \in SUBSET Events, NEW offset \in Int, NEW limit \in Int,
         offset <= 0, limit < 0, NEW W \in Window(S, offset, limit)
  PROVE  W = S
<1>1. Cardinality(S) \in Nat
  BY FiniteEvents
<1>2. Skipped(S, offset) = 0 /\ Taken(Cardinality(S) - 0, limit) = Cardinality(S)
  BY <1>1 DEF Skipped, Taken
<1>3. W \in SUBSET S /\ Cardinality(W) = Cardinality(S)
  BY <1>2 DEF Window, kSubset
<1> QED  BY <1>3, SubsetCardinality

\* Without ties, the newest k events are the same however they are taken.
LEMMA NewestUnique ==
  ASSUME NEW S \in SUBSET Events, NEW A \in SUBSET S, NEW B \in SUBSET S,
         Cardinality(A) = Cardinality(B), Newest(A, S), Newest(B, S),
         \A d, e \in S : d # e => Timestamp[d] # Timestamp[e]
  PROVE  A = B
<1>1. A \subseteq B => A = B
  BY SubsetCardinality
<1>2. B \subseteq A => A = B
  BY SubsetCardinality
<1>3. ASSUME NEW a \in A \ B, NEW b \in B \ A
      PROVE  FALSE
  <2>1. Timestamp[a] >= Timestamp[b] /\ Timestamp[b] >= Timestamp[a]
    BY DEF Newest
  <2>2. Timestamp[a] \in Int /\ Timestamp[b] \in Int
    BY QueryAssumption
  <2> QED  BY <2>1, <2>2
<1> QED  BY <1>1, <1>2, <1>3
-----------------------------------------------------------------------------
\* What a request lists are events that are stored.
LEMMA ListedEvents ==
  ASSUME TypeOK
  PROVE  Listed \in SUBSET Events /\ Listed \subseteq stored
BY DEF TypeOK, Listed, Matching

\* Initially nothing was asked and nothing answered.
LEMMA QueryInit ==
  ASSUME Init
  PROVE  QueryInv
<1>1. Cardinality({}) = 0
  BY FS_EmptySet
<1>2. TypeOK
  BY <1>1, QueryAssumption DEF Init, TypeOK, NoAnswer
<1>3. Listed = {}
  BY DEF Init, Listed, Matching
<1>4. Paging
  BY <1>3 DEF Init, Paging, NoAnswer
<1>5. MissedIsBehind
  BY DEF Init, MissedIsBehind
<1>6. LastPage /\ PagesAgree /\ AnswerCounts
  BY DEF Init, LastPage, PagesAgree, AnswerCounts, NoAnswer
<1>7. SeenAreNewest
  <2>1. answer.page * request.page_size = 0 /\ ~ (request.page_size < 0)
    BY DEF Init, NoAnswer
  <2>2. Min({0, 0}) = 0
    BY MinOfTwo DEF Less
  <2>3. Fitting = 0
    BY <1>1, <1>3, <2>1, <2>2 DEF Fitting
  <2> QED  BY <1>1, <2>3 DEF Init, SeenAreNewest, Newest
<1> QED  BY <1>2, <1>4, <1>5, <1>6, <1>7 DEF QueryInv

\* An event is saved: whoever was listed still is, and what was newer than an event is.
LEMMA SaveStep ==
  ASSUME QueryInv, NEW e \in Events, Save(e)
  PROVE  QueryInv'
<1> DEFINE matches == request.given \intersect ListFilters \subseteq Satisfies[e]
<1>1. /\ TypeOK /\ Paging /\ MissedIsBehind /\ LastPage /\ AnswerCounts /\ SeenAreNewest
      /\ PagesAgree /\ late \in Nat /\ pushed \in Nat
  <2>1. late \in Nat /\ pushed \in 0 .. late
    BY DEF QueryInv, TypeOK
  <2> QED  BY <2>1 DEF QueryInv
<1>2. /\ e \notin stored /\ stored' = stored \union {e}
      /\ UNCHANGED <<pc, request, total, answer, since, seen, received, export>>
      /\ matches => late' = late + 1 /\ pushed' = pushed + 1
      /\ ~ matches => late' = late /\ pushed' = pushed
  BY <1>1 DEF Save, pageVars, clientVars
<1>3. Listed' = IF matches THEN Listed \union {e} ELSE Listed
  BY <1>2 DEF Listed, Matching
<1> HIDE DEF matches
<1>4. Listed \in SUBSET Events /\ Listed' \in SUBSET Events /\ e \notin Listed
  BY <1>1, <1>2, <1>3, ListedEvents
<1>5. Listed \subseteq Listed'
  BY <1>3
<1>6. TypeOK'
  <2>1. pushed' \in 0 .. late'
    BY <1>1, <1>2 DEF TypeOK
  <2> QED  BY <1>1, <1>2, <2>1 DEF TypeOK
<1>7. Paging'
  <2>1. Cardinality(Listed') = Cardinality(Listed) + (pushed' - pushed)
    <3>1. Cardinality(Listed) \in Nat /\ IsFiniteSet(Listed)
      BY <1>4, FiniteEvents
    <3>2. CASE matches
      <4>1. Cardinality(Listed \union {e}) = Cardinality(Listed) + 1
        BY <1>4, <3>1, FS_AddElement
      <4> QED  BY <1>1, <1>2, <1>3, <3>2, <4>1
    <3>3. CASE ~ matches
      BY <1>1, <1>2, <1>3, <3>1, <3>3
    <3> QED  BY <3>2, <3>3
  <2>2. pushed' \in Nat /\ total \in Nat
    BY <1>1, <1>2 DEF TypeOK
  <2> QED  BY <1>1, <1>2, <1>5, <2>1, <2>2 DEF Paging
<1>8. \A x : Tied(x) => Tied(x)'
  BY <1>5 DEF Tied
<1>9. MissedIsBehind'
  <2> SUFFICES ASSUME NEW x \in since \ seen, ~ Tied(x)'
               PROVE  Cardinality(Newer(x)') >= answer.page * request.page_size
    BY <1>2 DEF MissedIsBehind
  <2>1. Cardinality(Newer(x)) >= answer.page * request.page_size
    BY <1>1, <1>8 DEF MissedIsBehind
  <2>2. Newer(x)' \in SUBSET Events /\ Newer(x) \in SUBSET Newer(x)'
    BY <1>4, <1>5 DEF Newer
  <2>3. Cardinality(Newer(x)) <= Cardinality(Newer(x)')
    BY <2>2, SubsetCardinality
  <2>4. Cardinality(Newer(x)) \in Nat /\ Cardinality(Newer(x)') \in Nat
    BY <2>2, FiniteEvents
  <2>5. answer.page * request.page_size \in Int
    BY <1>1 DEF TypeOK
  <2> QED  BY <2>1, <2>3, <2>4, <2>5
<1>10. LastPage'
  <2> DEFINE missed == {x \in since \ seen : ~ Tied(x)}
  <2>1. missed \in SUBSET Events /\ missed' \in SUBSET missed
    BY <1>1, <1>2, <1>4, <1>8 DEF Paging
  <2> HIDE DEF missed
  <2>2. /\ Cardinality(missed') <= Cardinality(missed)
        /\ Cardinality(missed') \in Nat /\ Cardinality(missed) \in Nat
    BY <2>1, SubsetCardinality, FiniteEvents
  <2>3. answer.pushed \in Nat
    BY <1>1 DEF TypeOK
  <2>4. answer.page > 0 /\ answer.page >= answer.total_pages =>
          Cardinality(missed) <= answer.pushed
    BY <1>1 DEF LastPage, missed
  <2>5. answer.page > 0 /\ answer.page >= answer.total_pages =>
          Cardinality(missed') <= answer.pushed
    BY <2>2, <2>3, <2>4
  <2> QED  BY <1>2, <2>5 DEF LastPage, missed
<1>11. late' = 0 => ~ matches /\ late = 0 /\ Listed' = Listed
  BY <1>1, <1>2, <1>3
<1>12. SeenAreNewest'
  <2> SUFFICES ASSUME Still'
               PROVE  (received = Cardinality(seen) /\ received = Fitting /\ Newest(seen, Listed))'
    BY DEF SeenAreNewest
  <2>1. Listed' = Listed /\ late = 0
    BY <1>11 DEF Still
  <2>2. Still
    BY <1>8, <2>1 DEF Still
  <2>3. Fitting' = Fitting
    BY <1>2, <2>1 DEF Fitting
  <2> QED  BY <1>1, <1>2, <2>1, <2>2, <2>3 DEF SeenAreNewest
<1>13. PagesAgree'
  BY <1>1, <1>2 DEF PagesAgree
<1>14. AnswerCounts'
  BY <1>1, <1>2, <1>11 DEF AnswerCounts
<1> QED  BY <1>6, <1>7, <1>9, <1>10, <1>12, <1>13, <1>14 DEF QueryInv

\* A step that saves nothing and answers nothing leaves what the client has as it is.
LEMMA ClientStays ==
  ASSUME MissedIsBehind, LastPage, AnswerCounts, SeenAreNewest, PagesAgree,
         UNCHANGED <<stored, answer, since, seen, received, late>>,
         request'.given = request.given, request'.page_size = request.page_size
  PROVE  /\ Listed' = Listed /\ MissedIsBehind' /\ LastPage' /\ SeenAreNewest' /\ PagesAgree'
         /\ request'.page = request.page => AnswerCounts'
<1>1. Listed' = Listed
  BY DEF Listed, Matching
<1>2. \A x : Tied(x)' <=> Tied(x)
  BY <1>1 DEF Tied
<1>3. \A x : Newer(x)' = Newer(x)
  BY <1>1 DEF Newer
<1>4. MissedIsBehind'
  BY <1>2, <1>3 DEF MissedIsBehind
<1>5. LastPage'
  BY <1>2 DEF LastPage
<1>6. SeenAreNewest'
  <2>1. Still' <=> Still
    BY <1>1, <1>2 DEF Still
  <2>2. Fitting' = Fitting
    BY <1>1 DEF Fitting
  <2> QED  BY <1>1, <2>1, <2>2 DEF SeenAreNewest
<1>7. PagesAgree'
  BY DEF PagesAgree
<1>8. request'.page = request.page => AnswerCounts'
  BY <1>1 DEF AnswerCounts
<1> QED  BY <1>1, <1>4, <1>5, <1>6, <1>7, <1>8

\* The client begins.
LEMMA FirstPageStep ==
  ASSUME QueryInv, NEW given \in Requests, NEW page_size \in PageSizes,
         FirstPage(given, page_size)
  PROVE  QueryInv'
<1>1. /\ pc' = "count" /\ answer' = NoAnswer /\ since' = Matching(given, ListFilters)
      /\ seen' = {} /\ received' = 0 /\ late' = 0 /\ pushed' = 0
      /\ UNCHANGED <<stored, total, export>>
      /\ request' = Bind(given, Omitted, page_size)
  BY DEF FirstPage
<1>2. /\ request'.given = given /\ request'.page = 1 /\ request'.page_size \in Int
  BY <1>1, QueryAssumption DEF Bind, OrDefault
<1>3. /\ answer'.page = 0 /\ answer'.items = {} /\ answer'.total_pages = 0
      /\ answer'.pushed = 0
  BY <1>1 DEF NoAnswer
<1>4. Listed' = since'
  BY <1>1, <1>2 DEF Listed, Matching
<1>5. Cardinality({}) = 0
  BY FS_EmptySet
<1>6. TypeOK'
  <2>1. since' \subseteq stored'
    BY <1>1 DEF Matching
  <2>2. given \subseteq Filters
    BY QueryAssumption
  <2> QED  BY <1>1, <1>2, <1>3, <1>5, <2>1, <2>2 DEF QueryInv, TypeOK
<1>7. answer'.page * request'.page_size = 0
  BY <1>2, <1>3
<1>8. Listed' \in SUBSET Events
  BY <1>6, <1>4, <1>1 DEF TypeOK
<1>9. Paging'
  BY <1>1, <1>2, <1>3, <1>4 DEF Paging
<1>10. MissedIsBehind'
  <2> SUFFICES ASSUME NEW e \in (since \ seen)'
               PROVE  Cardinality(Newer(e)') >= 0
    BY <1>7 DEF MissedIsBehind
  <2>1. Newer(e)' \in SUBSET Events
    BY <1>8 DEF Newer
  <2> QED  BY <2>1, FiniteEvents
<1>11. LastPage' /\ PagesAgree' /\ AnswerCounts'
  BY <1>2, <1>3 DEF LastPage, PagesAgree, AnswerCounts
<1>12. SeenAreNewest'
  <2>1. Min({0, Cardinality(Listed')}) = 0
    BY <1>8, FiniteEvents, MinOfTwo DEF Less
  <2>2. Fitting' = 0
    BY <1>3, <1>7, <2>1 DEF Fitting
  <2> QED  BY <1>1, <1>5, <2>2 DEF SeenAreNewest, Newest
<1> QED  BY <1>6, <1>9, <1>10, <1>11, <1>12 DEF QueryInv

\* Count, a failure, and the next request.
LEMMA CountStep ==
  ASSUME QueryInv, CountEvents
  PROVE  QueryInv'
<1>1. /\ pc = "count" /\ pc' = "find" /\ total' = Cardinality(Listed) /\ pushed' = 0
      /\ UNCHANGED <<stored, request, answer, since, seen, received, late, export>>
  BY DEF CountEvents, clientVars
<1>2. /\ Listed' = Listed /\ MissedIsBehind' /\ LastPage' /\ AnswerCounts' /\ SeenAreNewest'
      /\ PagesAgree'
  BY <1>1, ClientStays DEF QueryInv
<1>3. Cardinality(Listed) \in Nat
  BY ListedEvents, FiniteEvents DEF QueryInv
<1>4. pushed' \in 0 .. late'
  <2>1. late \in Nat
    BY DEF QueryInv, TypeOK
  <2> QED  BY <1>1, <2>1
<1>5. TypeOK'
  BY <1>1, <1>3, <1>4 DEF QueryInv, TypeOK
<1>6. Paging'
  BY <1>1, <1>2, <1>3 DEF QueryInv, Paging
<1> QED  BY <1>2, <1>5, <1>6 DEF QueryInv

\* A query that fails, or panics, leaves the client where it was: it has received nothing.
LEMMA FailStep ==
  ASSUME QueryInv, FindEventsPanics \/ QueryFails
  PROVE  QueryInv'
<1>1. /\ pc = "find" /\ pc' \in {"idle", "count"}
      /\ UNCHANGED <<stored, request, total, answer, since, seen, received, late, pushed, export>>
  BY DEF FindEventsPanics, QueryFails, pageVars, clientVars
<1>2. /\ Listed' = Listed /\ MissedIsBehind' /\ LastPage' /\ AnswerCounts' /\ SeenAreNewest'
      /\ PagesAgree'
  BY <1>1, ClientStays DEF QueryInv
<1>3. TypeOK'
  BY <1>1 DEF QueryInv, TypeOK
<1>4. Paging'
  BY <1>1, <1>2 DEF QueryInv, Paging
<1> QED  BY <1>2, <1>3, <1>4 DEF QueryInv

\* The client asks for the next page; what it has so far stays what it was.
LEMMA NextPageStep ==
  ASSUME QueryInv, NextPage
  PROVE  QueryInv'
<1>1. /\ pc' = "count" /\ answer.page = request.page
      /\ request' = Bind(request.given, request.page + 1, request.page_size)
      /\ request.page < answer.total_pages
      /\ UNCHANGED <<stored, total, answer, since, seen, received, late, pushed, export>>
  BY DEF NextPage, clientVars
<1>2. /\ request.page \in Nat \ {0} /\ request.page_size \in Int /\ answer.total_pages \in Int
  BY DEF QueryInv, TypeOK
<1>3. /\ request'.given = request.given /\ request'.page = request.page + 1
      /\ request'.page_size = request.page_size
  BY <1>1, <1>2, QueryAssumption DEF Bind, OrDefault
<1>4. Listed' = Listed /\ MissedIsBehind' /\ LastPage' /\ SeenAreNewest' /\ PagesAgree'
  BY <1>1, <1>3, ClientStays DEF QueryInv
<1>5. TypeOK'
  BY <1>1, <1>2, <1>3 DEF QueryInv, TypeOK
<1>6. Paging'
  BY <1>1, <1>2, <1>3, <1>4 DEF QueryInv, Paging
<1>7. AnswerCounts'
  <2> SUFFICES ASSUME late = 0
               PROVE  /\ answer.total_pages = TotalPages(Cardinality(Listed), request.page_size)
                      /\ request.page_size < 0 => Listed = {}
    BY <1>1, <1>3, <1>4 DEF AnswerCounts
  <2>1. answer.total_pages = TotalPages(Cardinality(Listed), request.page_size)
    BY <1>1, <1>2 DEF QueryInv, AnswerCounts
  <2>2. Listed \in SUBSET Events
    BY ListedEvents DEF QueryInv
  <2>3. Cardinality(Listed) \in Nat /\ IsFiniteSet(Listed)
    BY <2>2, FiniteEvents
  <2>4. request.page_size < 0 => ~ (Cardinality(Listed) > 0)
    BY <1>1, <1>2, <2>1, <2>3, QuotientBelow
  <2>5. Cardinality(Listed) = 0 => Listed = {}
    BY <2>3, FS_EmptySet
  <2> QED  BY <2>1, <2>3, <2>4, <2>5
<1> QED  BY <1>4, <1>5, <1>6, <1>7 DEF QueryInv

\* An export.
LEMMA ExportStep ==
  ASSUME QueryInv, NEW given \in Requests, ExportCsv(given)
  PROVE  QueryInv'
<1>1. UNCHANGED <<stored, pc, request, total, answer, since, seen, received, late, pushed>>
  BY DEF ExportCsv, pageVars, clientVars
<1>2. /\ Listed' = Listed /\ MissedIsBehind' /\ LastPage' /\ AnswerCounts' /\ SeenAreNewest'
      /\ PagesAgree'
  BY <1>1, ClientStays DEF QueryInv
<1>3. PICK rows \in Window(Matching(given, ExportFilters), 0, ExportLimit) :
        export' = [given |-> given, rows |-> rows]
  BY DEF ExportCsv
<1>4. Matching(given, ExportFilters) \in SUBSET Events
  BY DEF Matching, QueryInv, TypeOK
<1>5. rows \in SUBSET Matching(given, ExportFilters)
  <2> PICK limit \in Nat : limit = ExportLimit
    BY QueryAssumption
  <2>1. PICK B \in SUBSET (Matching(given, ExportFilters) \ rows) :
          Precedes(B, rows, Matching(given, ExportFilters), 0, limit)
    BY <1>4, WindowIs
  <2> QED  BY <2>1 DEF Precedes
<1>6. export'.rows \subseteq stored
  BY <1>3, <1>5 DEF Matching
<1>7. TypeOK'
  BY <1>1, <1>6 DEF QueryInv, TypeOK
<1>8. Paging'
  BY <1>1, <1>2 DEF QueryInv, Paging
<1> QED  BY <1>2, <1>7, <1>8 DEF QueryInv

\* Find tells of as many pages as the listing has while nothing is saved.
LEMMA FindCounts ==
  ASSUME QueryInv, FindEvents
  PROVE  AnswerCounts'
<1>1. /\ pc = "find" /\ UNCHANGED <<stored, request, late>>
      /\ answer'.total_pages = TotalPages(total, request.page_size)
  BY DEF FindEvents
<1>2. Listed' = Listed
  BY <1>1 DEF Listed, Matching
<1>3. late = 0 => Cardinality(Listed) = total
  <2>1. pushed \in 0 .. late /\ total \in Nat /\ Cardinality(Listed) = total + pushed
    BY <1>1 DEF QueryInv, TypeOK, Paging
  <2> QED  BY <2>1
<1>4. late = 0 /\ request.page_size < 0 /\ request.page > 1 => Listed = {}
  BY DEF QueryInv, AnswerCounts
<1> QED  BY <1>1, <1>2, <1>3, <1>4 DEF AnswerCounts

\* Find: the page that is answered goes on where the pages before it ended, in the
\* listing as it is now.
LEMMA FindAbove ==
  ASSUME QueryInv, FindEvents, request.page_size > 0
  PROVE  QueryInv'
<1> DEFINE L == Listed
           n == Cardinality(Listed)
           s == request.page_size
           page == request.page
           before == (page - 1) * s
           upTo == page * s
<1>1. /\ TypeOK /\ Paging /\ MissedIsBehind /\ LastPage /\ SeenAreNewest /\ PagesAgree
      /\ pc = "find" /\ pc' = "idle"
      /\ UNCHANGED <<stored, request, total, since, late, pushed, export>>
  BY DEF QueryInv, FindEvents
<1>2. /\ s \in Nat \ {0} /\ page \in Nat \ {0} /\ total \in Nat /\ pushed \in Nat /\ late \in Nat
  <2>1. s > 0
    OBVIOUS
  <2>2. pushed \in 0 .. late /\ late \in Nat
    BY <1>1 DEF TypeOK
  <2> QED  BY <1>1, <2>1, <2>2 DEF TypeOK
<1>3. before \in Nat /\ upTo \in Nat /\ upTo = before + s /\ before >= 0
  <2>1. upTo \in Nat
    BY <1>2
  <2>2. page - 1 \in Nat
    BY <1>2
  <2>3. before \in Nat
    BY <1>2, <2>2
  <2>4. upTo = before + s
    <3>1. PICK k \in Nat : k = page - 1
      BY <2>2
    <3>2. page = k + 1
      BY <1>2, <3>1
    <3>3. upTo = (k + 1) * s /\ before = k * s
      BY <3>1, <3>2
    <3>4. (k + 1) * s = k * s + s
      BY <1>2, OneMorePage
    <3> QED  BY <3>3, <3>4
  <2> QED  BY <2>1, <2>3, <2>4
<1>4. L \in SUBSET Events /\ L \subseteq stored /\ n \in Nat
  BY <1>1, ListedEvents, FiniteEvents
<1>5. answer.page = page - 1 /\ n = total + pushed /\ since \subseteq L /\ seen \subseteq L
  BY <1>1 DEF Paging
<1>6. PICK W \in Window(L, before, s) :
        /\ answer' = [page |-> page, items |-> W, total_pages |-> TotalPages(total, s),
                      pushed |-> pushed]
        /\ seen' = seen \union W
        /\ received' = received + Cardinality(W)
  BY DEF FindEvents, Offset
<1> HIDE DEF L, n, s, page, before, upTo
<1>7. PICK B \in SUBSET (L \ W) :
        /\ W \in SUBSET L
        /\ Cardinality(B) = Less(before, n)
        /\ Cardinality(W) = Less(s, n - Cardinality(B))
        /\ Cardinality(B \union W) = Cardinality(B) + Cardinality(W)
        /\ Newest(B, L) /\ Newest(B \union W, L)
  <2>1. s \in Nat /\ n = Cardinality(L)
    BY <1>2 DEF n, L
  <2>2. PICK B \in SUBSET (L \ W) : Precedes(B, W, L, before, s)
    BY <1>3, <1>4, <2>1, WindowIs
  <2> QED  BY <2>1, <2>2 DEF Precedes
<1>8. /\ answer'.page = page /\ answer'.items = W /\ answer'.pushed = pushed
      /\ answer'.total_pages = TotalPages(total, s)
  BY <1>6
<1>9. Listed' = L /\ (\A e : Tied(e)' <=> Tied(e)) /\ (\A e : Newer(e)' = Newer(e))
  <2>1. Listed' = Listed
    BY <1>1 DEF Listed, Matching
  <2> QED  BY <2>1 DEF Tied, Newer, L
<1> DEFINE T == B \union W
<1>10. T \in SUBSET L /\ B \in SUBSET L /\ B \intersect W = {}
  BY <1>7
<1>11. /\ Cardinality(B) \in Nat /\ Cardinality(W) \in Nat /\ Cardinality(T) \in Nat
  BY <1>4, <1>7, <1>10, FiniteEvents
<1>12. /\ Cardinality(T) = Less(upTo, n)
       /\ Cardinality(B) <= before
       /\ Cardinality(W) <= s
       /\ n > before => Cardinality(W) > 0
       /\ n <= before => Cardinality(W) = 0
  BY <1>2, <1>3, <1>4, <1>7, <1>11 DEF Less
<1>13. \A e \in L : Newer(e) \in SUBSET L /\ Cardinality(Newer(e)) \in Nat
  <2>1. \A e : Newer(e) \in SUBSET L
    BY DEF Newer, L
  <2> QED  BY <2>1, <1>4, FiniteEvents
<1>14. \A e \in L : Timestamp[e] \in Int
  BY <1>4, QueryAssumption
\* What the client misses and has no tie is behind the window.
<1>15. ASSUME NEW e \in since \ seen', ~ Tied(e)
       PROVE  e \in L \ T /\ Cardinality(Newer(e)) >= upTo
  <2>1. e \in L /\ e \notin seen /\ e \notin W
    BY <1>5, <1>6
  <2>2. Cardinality(Newer(e)) >= before
    BY <1>1, <1>5, <1>15, <2>1 DEF MissedIsBehind, before, s
  <2>3. e \notin B
    <3> SUFFICES ASSUME e \in B
                 PROVE  FALSE
      OBVIOUS
    <3>1. Newer(e) \in SUBSET (B \ {e})
      <4> SUFFICES ASSUME NEW d \in Newer(e)
                   PROVE  d \in B /\ d # e
        OBVIOUS
      <4>1. d \in L /\ Timestamp[d] > Timestamp[e]
        BY DEF Newer, L
      <4>2. d \notin B => Timestamp[e] >= Timestamp[d]
        BY <4>1, <1>7 DEF Newest
      <4> QED  BY <4>1, <4>2, <1>14, <2>1
    <3>2. B \ {e} \in SUBSET Events /\ B \in SUBSET Events /\ {e} \in SUBSET B
      BY <1>4, <1>10
    <3>3. Cardinality(Newer(e)) <= Cardinality(B \ {e})
      BY <3>1, <3>2, SubsetCardinality
    <3>4. Cardinality(B \ {e}) = Cardinality(B) - 1
      <4>1. Cardinality({e}) = 1
        BY FS_Singleton
      <4> QED  BY <3>2, <4>1, SubsetCardinality
    <3> QED  BY <1>3, <1>11, <1>12, <1>13, <2>1, <2>2, <3>3, <3>4
  <2>4. e \in L \ T
    BY <2>1, <2>3
  <2>5. Cardinality(T) = upTo
    <3>1. T # L
      BY <2>4
    <3>2. Cardinality(T) # n
      BY <3>1, <1>4, <1>10, SubsetCardinality DEF n, L
    <3> QED  BY <3>2, <1>12 DEF Less
  <2>6. T \in SUBSET Newer(e)
    <3> SUFFICES ASSUME NEW t \in T
                 PROVE  t \in Newer(e)
      OBVIOUS
    <3>1. t \in L /\ t # e /\ Timestamp[t] >= Timestamp[e]
      BY <1>7, <1>10, <2>4 DEF Newest
    <3>2. Timestamp[t] # Timestamp[e]
      BY <1>15, <3>1 DEF Tied, L
    <3> QED  BY <3>1, <3>2, <1>14, <2>1 DEF Newer, L
  <2>7. Newer(e) \in SUBSET Events
    BY <1>4, <1>13, <2>1
  <2>8. Cardinality(T) <= Cardinality(Newer(e))
    BY <2>6, <2>7, SubsetCardinality
  <2> QED  BY <1>3, <1>13, <2>1, <2>4, <2>5, <2>8
<1>16. MissedIsBehind'
  <2> SUFFICES ASSUME NEW e \in since' \ seen', ~ Tied(e)'
               PROVE  Cardinality(Newer(e)') >= answer'.page * request'.page_size
    BY DEF MissedIsBehind
  <2>1. Cardinality(Newer(e)) >= upTo
    BY <1>1, <1>9, <1>15
  <2>2. answer'.page * request'.page_size = upTo
    BY <1>1, <1>8 DEF upTo, page, s
  <2> QED  BY <1>9, <2>1, <2>2
<1>17. LastPage'
  <2> DEFINE missed == {e \in since \ seen' : ~ Tied(e)}
  <2>1. missed \in SUBSET (L \ T)
    BY <1>15
  <2>2. {e \in since' \ seen' : ~ Tied(e)'} = missed
    BY <1>1, <1>9
  <2> HIDE DEF missed
  <2>3. L \ T \in SUBSET Events /\ missed \in SUBSET Events
    BY <1>4, <2>1
  <2>4. Cardinality(missed) <= Cardinality(L \ T) /\ Cardinality(missed) \in Nat
    BY <2>1, <2>3, SubsetCardinality, FiniteEvents
  <2>5. Cardinality(L \ T) = n - Cardinality(T)
    BY <1>4, <1>10, SubsetCardinality DEF n, L
  <2>6. ASSUME page >= TotalPages(total, s)
        PROVE  Cardinality(missed) <= pushed
    <3>1. upTo >= total
      BY <2>6, <1>2, PagesHold DEF upTo
    <3> QED  BY <3>1, <1>2, <1>3, <1>4, <1>5, <1>11, <1>12, <2>4, <2>5 DEF Less
  <2> QED  BY <1>8, <2>2, <2>6 DEF LastPage
<1>18. SeenAreNewest'
  <2> SUFFICES ASSUME Still'
               PROVE  (received = Cardinality(seen) /\ received = Fitting /\ Newest(seen, Listed))'
    BY DEF SeenAreNewest
  <2>1. Still /\ \A e \in L : ~ Tied(e)
    BY <1>1, <1>9 DEF Still, L
  <2>2. /\ received = Cardinality(seen)
        /\ received = Min({before, n})
        /\ Newest(seen, L)
    <3>1. ~ (request.page_size < 0)
      BY <1>2 DEF s
    <3>2. Fitting = Min({before, n})
      BY <1>5, <3>1 DEF Fitting, n, before, s
    <3> QED  BY <1>1, <2>1, <3>2 DEF SeenAreNewest, L
  <2>3. received = Less(before, n)
    BY <1>3, <1>4, <2>2, MinOfTwo
  <2>4. \A d, e \in L : d # e => Timestamp[d] # Timestamp[e]
    BY <2>1 DEF Tied, L
  <2>5. seen = B
    BY <1>4, <1>5, <1>7, <1>10, <2>2, <2>3, <2>4, NewestUnique
  <2>6. seen' = T
    BY <1>6, <2>5
  <2>7. received' = Cardinality(T)
    BY <1>6, <1>7, <2>2, <2>5
  <2>8. Min({upTo, n}) = Less(upTo, n)
    BY <1>3, <1>4, MinOfTwo
  <2>9. answer'.page * request'.page_size = upTo
    BY <1>1, <1>8 DEF upTo, page, s
  <2>10. Cardinality(Listed') = n
    BY <1>9 DEF n, L
  <2>11. Fitting' = Cardinality(T)
    <3>1. ~ (request'.page_size < 0)
      BY <1>1, <1>2 DEF s
    <3> QED  BY <1>12, <2>8, <2>9, <2>10, <3>1 DEF Fitting
  <2> QED  BY <1>7, <1>9, <2>6, <2>7, <2>11
<1>19. PagesAgree'
  <2>1. page <= TotalPages(total, s) <=> before < total
    BY <1>2, PagesHold DEF before
  <2>2. Cardinality(W) = 0 <=> W = {}
    <3>1. IsFiniteSet(W)
      BY <1>4, <1>7, FiniteEvents
    <3> QED  BY <3>1, FS_EmptySet
  <2>3. page <= TotalPages(total, s) => W # {}
    BY <1>2, <1>3, <1>4, <1>5, <1>12, <2>1, <2>2
  <2>4. W # {} => page <= TotalPages(total, s) \/ pushed > 0
    BY <1>2, <1>3, <1>4, <1>5, <1>12, <2>1, <2>2
  <2> QED  BY <1>8, <2>3, <2>4 DEF PagesAgree
<1>20. TypeOK'
  <2>1. /\ TotalPages(total, s) \in Nat
        /\ received' \in Nat
    <3>1. received \in Nat
      BY <1>1 DEF TypeOK
    <3>2. TotalPages(total, s) \in Nat
      BY <1>2, PagesHold
    <3> QED  BY <3>1, <3>2, <1>6, <1>11
  <2>2. /\ page \in 0 .. page
        /\ W \subseteq stored /\ seen' \subseteq stored
    BY <1>1, <1>2, <1>4, <1>6, <1>7 DEF TypeOK
  <2> QED  BY <1>1, <1>2, <1>8, <1>12, <2>1, <2>2 DEF TypeOK, page, s
<1>21. Paging'
  BY <1>1, <1>5, <1>6, <1>7, <1>8, <1>9 DEF Paging, page
<1>22. AnswerCounts'
  BY FindCounts
<1> QED  BY <1>16, <1>17, <1>18, <1>19, <1>20, <1>21, <1>22 DEF QueryInv

\* A page_size below 0: the page holds all that is listed, whatever its number.
LEMMA FindBelow ==
  ASSUME QueryInv, FindEvents, request.page_size < 0
  PROVE  QueryInv'
<1> DEFINE L == Listed
           s == request.page_size
<1>1. /\ TypeOK /\ Paging /\ AnswerCounts /\ SeenAreNewest
      /\ pc = "find" /\ pc' = "idle"
      /\ UNCHANGED <<stored, request, total, since, late, pushed, export>>
  BY DEF QueryInv, FindEvents
<1>2. /\ s \in Int /\ request.page \in Nat \ {0} /\ total \in Nat /\ pushed \in Nat
      /\ answer.page = request.page - 1 /\ received \in Nat
  <2>1. pushed \in 0 .. late /\ late \in Nat
    BY <1>1 DEF TypeOK
  <2> QED  BY <1>1, <2>1 DEF TypeOK, Paging
<1>3. L \in SUBSET Events /\ L \subseteq stored /\ Cardinality(L) \in Nat
  BY <1>1, ListedEvents, FiniteEvents
<1>4. PICK W \in Window(L, Offset(request.page, s), s) :
        /\ answer' = [page |-> request.page, items |-> W, total_pages |-> TotalPages(total, s),
                      pushed |-> pushed]
        /\ seen' = seen \union W
        /\ received' = received + Cardinality(W)
  BY DEF FindEvents
<1>5. Offset(request.page, s) \in Int /\ Offset(request.page, s) <= 0
  <2>1. PICK k \in Nat : k = request.page - 1
    BY <1>2
  <2>2. PICK m \in Nat : s = -m
    <3>1. -s \in Nat /\ s = -(-s)
      BY <1>2
    <3> QED  BY <3>1
  <2>3. k * m \in Nat /\ k * (-m) = -(k * m)
    OBVIOUS
  <2> QED  BY <2>1, <2>2, <2>3 DEF Offset
<1> HIDE DEF L
<1>6. W = L
  BY <1>2, <1>3, <1>4, <1>5, WindowAll
<1>7. /\ answer'.page = request.page /\ answer'.items = L /\ answer'.pushed = pushed
      /\ answer'.total_pages = TotalPages(total, s)
      /\ seen' = L /\ received' = received + Cardinality(L)
  <2>1. seen \subseteq L
    BY <1>1 DEF Paging, L
  <2> QED  BY <1>4, <1>6, <2>1
<1>8. Listed' = L
  BY <1>1 DEF Listed, Matching, L
<1>9. since' \ seen' = {}
  BY <1>1, <1>7 DEF Paging, L
<1>10. TypeOK'
  <2>1. TotalPages(total, s) \in Int
    BY <1>2, QuotientBelow
  <2>2. received' \in Nat
    BY <1>2, <1>3, <1>7
  <2>3. request.page \in 0 .. request.page
    BY <1>2
  <2> QED  BY <1>1, <1>2, <1>3, <1>7, <2>1, <2>2, <2>3 DEF TypeOK
<1>11. Paging'
  BY <1>1, <1>2, <1>7, <1>8 DEF Paging, L
<1>12. MissedIsBehind'
  BY <1>9 DEF MissedIsBehind
<1>13. LastPage'
  <2>1. {e \in since' \ seen' : ~ Tied(e)'} = {} /\ Cardinality({}) = 0
    BY <1>9, FS_EmptySet
  <2> QED  BY <1>2, <1>7, <2>1 DEF LastPage
<1>14. AnswerCounts'
  BY FindCounts
<1>15. PagesAgree'
  <2>1. ~ (request'.page_size > 0)
    BY <1>1, <1>2
  <2> QED  BY <2>1 DEF PagesAgree
<1>16. SeenAreNewest'
  <2> SUFFICES ASSUME Still'
               PROVE  (received = Cardinality(seen) /\ received = Fitting /\ Newest(seen, Listed))'
    BY DEF SeenAreNewest
  <2>1. Still
    BY <1>1, <1>8 DEF Still, Tied, L
  <2>2. received = Fitting
    BY <1>1, <2>1 DEF SeenAreNewest
  <2>3. received = 0
    <3>1. CASE request.page = 1
      BY <1>2, <2>2, <3>1 DEF Fitting
    <3>2. CASE request.page > 1
      <4>1. L = {}
        BY <1>1, <2>1, <3>2 DEF AnswerCounts, Still, L
      <4>2. Cardinality(Listed) = 0
        BY <4>1, FS_EmptySet DEF L
      <4> QED  BY <1>2, <2>2, <3>2, <4>2 DEF Fitting
    <3> QED  BY <1>2, <3>1, <3>2
  <2>4. received' = Cardinality(L)
    BY <1>3, <1>7, <2>3
  <2>5. Fitting' = Cardinality(L)
    BY <1>1, <1>2, <1>7, <1>8 DEF Fitting
  <2> QED  BY <1>7, <1>8, <2>4, <2>5 DEF Newest
<1> QED  BY <1>10, <1>11, <1>12, <1>13, <1>14, <1>15, <1>16 DEF QueryInv

\* Find, for any page_size but 0, for which it panics.
LEMMA FindStep ==
  ASSUME QueryInv, FindEvents
  PROVE  QueryInv'
<1>1. request.page_size \in Int /\ request.page_size # 0
  BY DEF QueryInv, TypeOK, FindEvents
<1>2. request.page_size > 0 \/ request.page_size < 0
  BY <1>1
<1> QED  BY <1>2, FindAbove, FindBelow

\* The invariant is inductive.
LEMMA QueryStep ==
  ASSUME QueryInv, [Next]_vars
  PROVE  QueryInv'
<1>1. CASE UNCHANGED vars
  <2>1. UNCHANGED <<stored, pc, request, total, answer, since, seen, received, late, pushed, export>>
    BY <1>1 DEF vars, pageVars, clientVars
  <2>2. /\ Listed' = Listed /\ MissedIsBehind' /\ LastPage' /\ AnswerCounts' /\ SeenAreNewest'
        /\ PagesAgree'
    BY <2>1, ClientStays DEF QueryInv
  <2>3. TypeOK'
    BY <2>1 DEF QueryInv, TypeOK
  <2>4. Paging'
    BY <2>1, <2>2 DEF QueryInv, Paging
  <2> QED  BY <2>2, <2>3, <2>4 DEF QueryInv
<1> QED  BY <1>1, SaveStep, FirstPageStep, CountStep, FindStep, FailStep, NextPageStep,
            ExportStep DEF Next

\* A client that has taken all pages while nothing was saved has all that is listed.
LEMMA FinishedHasAll ==
  ASSUME QueryInv, Finished, Still
  PROVE  seen = Listed
<1> DEFINE n == Cardinality(Listed)
           s == request.page_size
<1>1. /\ seen \in SUBSET Listed /\ Listed \in SUBSET Events /\ n \in Nat
      /\ s \in Int /\ answer.page \in Nat \ {0} /\ answer.page >= answer.total_pages
      /\ received = Cardinality(seen) /\ received = Fitting
      /\ answer.total_pages = TotalPages(n, s)
  <2>1. Listed \in SUBSET Events
    BY ListedEvents DEF QueryInv
  <2>2. answer.page = request.page /\ request.page \in Nat \ {0}
    BY DEF QueryInv, TypeOK, Finished
  <2>3. answer.total_pages = TotalPages(n, s)
    BY <2>2 DEF QueryInv, AnswerCounts, Still
  <2> QED  BY <2>1, <2>2, <2>3, FiniteEvents
           DEF QueryInv, TypeOK, Paging, SeenAreNewest, Finished
<1>2. Cardinality(seen) = n
  <2>1. CASE s < 0
    BY <1>1, <2>1 DEF Fitting
  <2>2. CASE s = 0
    BY <1>1, <2>2 DEF QueryInv, Paging
  <2>3. CASE s > 0
    <3>1. PICK m \in Nat : m = answer.page * s
      BY <1>1, <2>3
    <3>2. m >= n
      <4>1. s \in Nat \ {0} /\ answer.page \in Nat
        BY <1>1, <2>3
      <4>2. \A p \in Nat : p >= TotalPages(n, s) => p * s >= n
        BY <1>1, <4>1, PagesHold
      <4> QED  BY <1>1, <3>1, <4>1, <4>2
    <3>3. Fitting = Less(m, n)
      BY <1>1, <2>3, <3>1, MinOfTwo DEF Fitting
    <3> QED  BY <1>1, <3>1, <3>2, <3>3 DEF Less
  <2> QED  BY <1>1, <2>1, <2>2, <2>3
<1> QED  BY <1>1, <1>2, SubsetCardinality

\* An export with the filters of the listing is the newest part of it.
LEMMA ExportIsListed ==
  ASSUME QueryInv, [Next]_vars, export' # export, export'.given = request.given
  PROVE  /\ export'.rows \subseteq Listed
         /\ \A e \in Listed \ export'.rows :
              /\ Cardinality(export'.rows) = ExportLimit
              /\ \A d \in export'.rows : Timestamp[d] >= Timestamp[e]
<1>1. PICK given \in Requests : ExportCsv(given)
  BY DEF Next, Save, FirstPage, CountEvents, FindEvents, FindEventsPanics, QueryFails,
         NextPage, vars
<1> DEFINE S == Listed
<1>2. PICK rows \in Window(Matching(given, ExportFilters), 0, ExportLimit) :
        export' = [given |-> given, rows |-> rows]
  BY <1>1 DEF ExportCsv
<1>3. Matching(given, ExportFilters) = S
  BY <1>2 DEF Listed, ListFilters, ExportFilters
<1>4. S \in SUBSET Events
  BY ListedEvents DEF QueryInv
<1> HIDE DEF S
<1>5. PICK B \in SUBSET (S \ rows) : Precedes(B, rows, S, 0, ExportLimit)
  <2> PICK limit \in Nat : limit = ExportLimit
    BY QueryAssumption
  <2>1. rows \in Window(S, 0, limit)
    BY <1>3
  <2> QED  BY <1>4, <2>1, WindowIs
<1>6. Cardinality(S) \in Nat /\ Cardinality(B) = 0 /\ IsFiniteSet(B)
  BY <1>4, <1>5, FiniteEvents DEF Less, Precedes
<1>7. B = {} /\ rows \in SUBSET S
  BY <1>5, <1>6, FS_EmptySet DEF Precedes
<1>8. ASSUME NEW e \in S \ rows
      PROVE  /\ Cardinality(rows) = ExportLimit
             /\ \A d \in rows : Timestamp[d] >= Timestamp[e]
  <2>1. Cardinality(rows) # Cardinality(S)
    BY <1>4, <1>7, SubsetCardinality
  <2>2. Cardinality(rows) = ExportLimit
    BY <1>5, <1>6, <2>1 DEF Less, Precedes
  <2> QED  BY <1>5, <1>7, <2>2 DEF Newest, Precedes
<1> QED  BY <1>2, <1>7, <1>8 DEF S

\* So it agrees with what the client has received.
LEMMA ExportFits ==
  ASSUME QueryInv, [Next]_vars, export' # export, export'.given = request.given
  PROVE  /\ \A e \in seen \ export'.rows :
              /\ Cardinality(export'.rows) = ExportLimit
              /\ \A d \in export'.rows : Timestamp[d] >= Timestamp[e]
         /\ Finished /\ Still => export'.rows \subseteq seen
<1>1. seen \subseteq Listed
  BY DEF QueryInv, Paging
<1> QED  BY <1>1, ExportIsListed, FinishedHasAll
-----------------------------------------------------------------------------
\* Every page goes on where the ones before it ended.
THEOREM QueryCorrect == Spec => []QueryInv
<1>1. Init => QueryInv
  BY QueryInit
<1>2. QueryInv /\ [Next]_vars => QueryInv'
  BY QueryStep
<1> QED  BY <1>1, <1>2, PTL DEF Spec

\* The API is well typed, also for page sizes below 1; no page holds more than a size of
\* at least 1.
THEOREM TypeCorrect == Spec => []TypeOK
<1>1. QueryInv => TypeOK
  BY DEF QueryInv
<1> QED  BY <1>1, QueryCorrect, PTL

\* Who takes all pages misses no more than was pushed off the last one.
THEOREM MissedFew == Spec => []MissedWerePushed
<1>1. QueryInv => MissedWerePushed
  <2>1. TypeOK => request.page > 0
    BY DEF TypeOK
  <2> QED  BY <2>1 DEF QueryInv, LastPage, MissedWerePushed, Finished
<1> QED  BY <1>1, QueryCorrect, PTL

\* Who takes them while nothing is saved that matches gets no event twice.
THEOREM NoneTwice == Spec => []EachOnce
<1>1. QueryInv => EachOnce
  BY DEF QueryInv, SeenAreNewest, EachOnce
<1> QED  BY <1>1, QueryCorrect, PTL

\* total_pages and the pages agree, for page sizes of at least 1.
THEOREM PagesFit == Spec => []PagesAgree
<1>1. QueryInv => PagesAgree
  BY DEF QueryInv
<1> QED  BY <1>1, QueryCorrect, PTL

\* An export and a listing with the same filters agree.
THEOREM ExportFitsListing == Spec => ExportAgrees
<1>1. QueryInv /\ [Next]_vars =>
        [export' # export /\ export'.given = request.given =>
           /\ \A e \in seen \ export'.rows :
                /\ Cardinality(export'.rows) = ExportLimit
                /\ \A d \in export'.rows : Timestamp[d] >= Timestamp[e]
           /\ Finished /\ Still => export'.rows \subseteq seen]_vars
  BY ExportFits
<1> QED  BY <1>1, QueryCorrect, PTL DEF Spec, ExportAgrees
=============================================================================
