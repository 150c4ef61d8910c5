-------------------------- MODULE EventPath_proof --------------------------
(***************************************************************************)
(* Proofs about EventPath, for any authors, requests, configurations and   *)
(* number of calls: what enrichEvent keeps, and that the sink stores it.   *)
(***************************************************************************)
EXTENDS EventPath, SequenceTheorems, NaturalsInduction, WellFoundedInduction, TLAPS

\* Filling a field gives text, keeps text that is there, and may be repeated.
LEMMA FillText ==
  ASSUME NEW old \in Text, NEW new \in Text
  PROVE  /\ Fill(old, new) \in Text
         /\ Kept(old, Fill(old, new))
         /\ old = "" => Fill(old, new) = new
         /\ Fill(Fill(old, new), new) = Fill(old, new)
BY DEF Fill, Kept

\* The context of the request: EnrichContext gives a message, keeps what is in it, and
\* has nothing more to add the second time.
LEMMA ContextFilled ==
  ASSUME NEW c \in Configs, NEW m \in RequestMetadata,
         NEW context \in {Nil} \union RequestContexts
  PROVE  LET new == EnrichContext(c, m, context)
         IN  /\ new \in RequestContexts
             /\ context # Nil =>
                  /\ Kept(context.ClientIp, new.ClientIp)
                  /\ Kept(context.CorrelationId, new.CorrelationId)
                  /\ Kept(context.UserAgent, new.UserAgent)
                  /\ Kept(context.SourceService, new.SourceService)
                  /\ Kept(context.Environment, new.Environment)
                  /\ new.ClientIp = Fill(context.ClientIp, m.ClientIP)
                  /\ new.CorrelationId = Fill(context.CorrelationId, m.CorrelationID)
                  /\ new.UserAgent = Fill(context.UserAgent, m.UserAgent)
             /\ context = Nil =>
                  /\ new.ClientIp = m.ClientIP
                  /\ new.CorrelationId = m.CorrelationID
                  /\ new.UserAgent = m.UserAgent
             /\ EnrichContext(c, m, new) = new
<1> DEFINE rc == OrEmpty(context, EmptyContext)
           new == EnrichContext(c, m, context)
<1>1. rc \in RequestContexts
  BY MessageAssumption DEF OrEmpty, EmptyContext, RequestContexts
<1>2. /\ m.ClientIP \in Text /\ m.CorrelationID \in Text /\ m.UserAgent \in Text
      /\ c.ServiceName \in Text /\ c.Environment \in Text
  BY DEF RequestMetadata, Configs
<1>3. /\ rc.ClientIp \in Text /\ rc.CorrelationId \in Text /\ rc.UserAgent \in Text
      /\ rc.SourceService \in Text /\ rc.Environment \in Text
  BY <1>1 DEF RequestContexts
<1>4. new = [ClientIp |-> Fill(rc.ClientIp, m.ClientIP),
             CorrelationId |-> Fill(rc.CorrelationId, m.CorrelationID),
             UserAgent |-> Fill(rc.UserAgent, m.UserAgent),
             SourceService |-> Fill(rc.SourceService, c.ServiceName),
             Environment |-> Fill(rc.Environment, c.Environment)]
  BY DEF EnrichContext
<1> HIDE DEF rc, new
<1>5. new \in RequestContexts
  BY <1>2, <1>3, <1>4, FillText DEF RequestContexts
<1>6. context # Nil => rc = context
  BY DEF rc, OrEmpty
<1>7. context = Nil => rc.ClientIp = "" /\ rc.CorrelationId = "" /\ rc.UserAgent = ""
  BY DEF rc, OrEmpty, EmptyContext
<1>8. context = Nil => /\ new.ClientIp = m.ClientIP
                       /\ new.CorrelationId = m.CorrelationID
                       /\ new.UserAgent = m.UserAgent
  BY <1>2, <1>3, <1>4, <1>7, FillText
<1>9. EnrichContext(c, m, new) = new
  <2>1. OrEmpty(new, EmptyContext) = new
    BY <1>5, MessageAssumption DEF OrEmpty
  <2>2. EnrichContext(c, m, new) =
          [ClientIp |-> Fill(new.ClientIp, m.ClientIP),
           CorrelationId |-> Fill(new.CorrelationId, m.CorrelationID),
           UserAgent |-> Fill(new.UserAgent, m.UserAgent),
           SourceService |-> Fill(new.SourceService, c.ServiceName),
           Environment |-> Fill(new.Environment, c.Environment)]
    BY <2>1 DEF EnrichContext
  <2>3. /\ Fill(new.ClientIp, m.ClientIP) = new.ClientIp
        /\ Fill(new.CorrelationId, m.CorrelationID) = new.CorrelationId
        /\ Fill(new.UserAgent, m.UserAgent) = new.UserAgent
        /\ Fill(new.SourceService, c.ServiceName) = new.SourceService
        /\ Fill(new.Environment, c.Environment) = new.Environment
    BY <1>2, <1>3, <1>4, FillText
  <2> QED  BY <2>2, <2>3, <1>4
<1>10. context # Nil =>
         /\ Kept(context.ClientIp, new.ClientIp)
         /\ Kept(context.CorrelationId, new.CorrelationId)
         /\ Kept(context.UserAgent, new.UserAgent)
         /\ Kept(context.SourceService, new.SourceService)
         /\ Kept(context.Environment, new.Environment)
         /\ new.ClientIp = Fill(context.ClientIp, m.ClientIP)
         /\ new.CorrelationId = Fill(context.CorrelationId, m.CorrelationID)
         /\ new.UserAgent = Fill(context.UserAgent, m.UserAgent)
  BY <1>2, <1>3, <1>4, <1>6, FillText
<1> QED  BY <1>5, <1>8, <1>9, <1>10 DEF new

\* The actor, likewise; whether one without a type is a user or anonymous is decided
\* the first time.
LEMMA ActorFilled ==
  ASSUME NEW m \in RequestMetadata, NEW actor \in {Nil} \union ActorMessages
  PROVE  LET new == EnrichActor(m, actor)
         IN  /\ new \in ActorMessages
             /\ new.Type # ""
             /\ actor # Nil =>
                  /\ new.Id = Fill(actor.Id, m.UserID)
                  /\ Kept(actor.Type, new.Type)
                  /\ new.DisplayName = Fill(actor.DisplayName, m.UserEmail)
             /\ actor = Nil =>
                  /\ new.Id = m.UserID
                  /\ new.DisplayName = m.UserEmail
                  /\ new.Type = IF m.UserID = "" THEN "anonymous" ELSE "user"
             /\ EnrichActor(m, new) = new
<1> DEFINE a == OrEmpty(actor, EmptyActor)
           new == EnrichActor(m, actor)
           kind == IF Fill(a.Id, m.UserID) # "" THEN "user" ELSE "anonymous"
<1>1. a \in ActorMessages
  BY MessageAssumption DEF OrEmpty, EmptyActor, ActorMessages
<1>2. m.UserID \in Text /\ m.UserEmail \in Text /\ kind \in Text /\ kind # ""
  BY MessageAssumption DEF RequestMetadata
<1>3. a.Id \in Text /\ a.Type \in Text /\ a.DisplayName \in Text
  BY <1>1 DEF ActorMessages
<1>4. new = [Id |-> Fill(a.Id, m.UserID), Type |-> Fill(a.Type, kind),
             DisplayName |-> Fill(a.DisplayName, m.UserEmail)]
  BY DEF EnrichActor
<1>5. /\ actor # Nil => a = actor
      /\ actor = Nil => a.Id = "" /\ a.Type = "" /\ a.DisplayName = ""
  BY DEF OrEmpty, EmptyActor
<1>6. kind = IF Fill(a.Id, m.UserID) # "" THEN "user" ELSE "anonymous"
  OBVIOUS
<1> HIDE DEF a, new, kind
<1>7. new \in ActorMessages /\ new.Type # ""
  BY <1>2, <1>3, <1>4, FillText DEF ActorMessages, Fill
<1>8. actor = Nil => /\ new.Id = m.UserID
                     /\ new.DisplayName = m.UserEmail
                     /\ new.Type = IF m.UserID = "" THEN "anonymous" ELSE "user"
  BY <1>2, <1>4, <1>5, <1>6 DEF Fill
<1>9. EnrichActor(m, new) = new
  <2>1. OrEmpty(new, EmptyActor) = new
    BY <1>7, MessageAssumption DEF OrEmpty
  <2>2. EnrichActor(m, new) =
          [Id |-> Fill(new.Id, m.UserID),
           Type |-> Fill(new.Type, IF Fill(new.Id, m.UserID) # "" THEN "user" ELSE "anonymous"),
           DisplayName |-> Fill(new.DisplayName, m.UserEmail)]
    BY <2>1 DEF EnrichActor
  <2>3. /\ Fill(new.Id, m.UserID) = new.Id
        /\ Fill(new.DisplayName, m.UserEmail) = new.DisplayName
    BY <1>2, <1>3, <1>4, FillText
  <2>4. Fill(new.Type, IF Fill(new.Id, m.UserID) # "" THEN "user" ELSE "anonymous") = new.Type
    BY <1>7 DEF Fill
  <2> QED  BY <2>2, <2>3, <2>4, <1>4
<1>10. actor # Nil =>
         /\ new.Id = Fill(actor.Id, m.UserID)
         /\ Kept(actor.Type, new.Type)
         /\ new.DisplayName = Fill(actor.DisplayName, m.UserEmail)
  BY <1>2, <1>3, <1>4, <1>5, FillText
<1> QED  BY <1>7, <1>8, <1>9, <1>10 DEF new

\* The details: only service_version is ever written over.
LEMMA DetailsFilled ==
  ASSUME NEW c \in Configs, NEW details \in {Nil, NilMap} \union Structs
  PROVE  LET new == EnrichDetails(c, details)
         IN  /\ new \in {NilMap} \union Structs
             /\ details \notin {Nil, NilMap} =>
                  /\ new \notin {Nil, NilMap}
                  /\ details.environment # Absent => new.environment = details.environment
                  /\ c.ServiceVersion = "" => new.service_version = details.service_version
             /\ EnrichDetails(c, new) = new
<1> DEFINE d == OrEmpty(details, EmptyDetails)
           new == EnrichDetails(c, details)
<1>1. d \in {NilMap} \union Structs /\ (details # Nil => d = details)
  BY MessageAssumption DEF OrEmpty, EmptyDetails, Structs
<1>2. c.ServiceVersion \in Text /\ c.Environment \in Text
  BY DEF Configs
<1>3. CASE d = NilMap
  <2>1. new = NilMap
    BY <1>3 DEF EnrichDetails
  <2>2. EnrichDetails(c, NilMap) = NilMap
    BY MessageAssumption DEF EnrichDetails, OrEmpty
  <2>3. details \in {Nil, NilMap}
    BY <1>1, <1>3
  <2> QED  BY <2>1, <2>2, <2>3
<1>4. CASE d # NilMap
  <2>1. d \in Structs
    BY <1>1, <1>4
  <2>2. d.service_version \in {Absent} \union Text /\ d.environment \in {Absent} \union Text
    BY <2>1 DEF Structs
  <2>3. new = [service_version |-> IF c.ServiceVersion # "" THEN c.ServiceVersion
                                                           ELSE d.service_version,
               environment     |-> IF d.environment = Absent /\ c.Environment # ""
                                   THEN c.Environment ELSE d.environment]
    BY <1>4 DEF EnrichDetails
  <2> HIDE DEF d, new
  <2>4. new \in Structs
    BY <1>2, <2>2, <2>3 DEF Structs
  <2>5. new \notin {Nil, NilMap}
    BY <2>4, MessageAssumption
  <2>6. EnrichDetails(c, new) = new
    <3>1. OrEmpty(new, EmptyDetails) = new
      BY <2>5 DEF OrEmpty
    <3>2. new.environment = Absent => c.Environment = ""
      BY <2>3, <1>2, MessageAssumption DEF Absent
    <3> QED  BY <3>1, <3>2, <2>3, <2>5 DEF EnrichDetails
  <2>7. details # Nil =>
          /\ details.environment # Absent => new.environment = details.environment
          /\ c.ServiceVersion = "" => new.service_version = details.service_version
    BY <1>1, <2>3
  <2> QED  BY <2>4, <2>5, <2>6, <2>7 DEF new
<1> QED  BY <1>3, <1>4
\* A whole event: enrichEvent fills each part of it for itself, and changes nothing
\* when it is called again for the same request, whatever the time is.
LEMMA EventFilled ==
  ASSUME NEW c \in Configs, NEW m \in RequestMetadata, NEW t \in Int, NEW ev \in Events
  PROVE  LET new == EnrichEvent(c, m, t, ev)
         IN  /\ new \in Events
             /\ new.event_id = ev.event_id
             /\ Kept(ev.schema_version, new.schema_version)
             /\ new.timestamp = IF ev.timestamp = Nil THEN t ELSE ev.timestamp
             /\ new.context = EnrichContext(c, m, ev.context)
             /\ new.actor = EnrichActor(m, ev.actor)
             /\ new.details = EnrichDetails(c, ev.details)
             /\ \A u \in Int : EnrichEvent(c, m, u, new) = new
<1> DEFINE new == EnrichEvent(c, m, t, ev)
           context == EnrichContext(c, m, ev.context)
           actor == EnrichActor(m, ev.actor)
           details == EnrichDetails(c, ev.details)
           stamp == IF ev.timestamp = Nil THEN t ELSE ev.timestamp
<1>1. /\ ev.event_id \in Pointers \union HandwrittenIds
      /\ ev.schema_version \in Text
      /\ ev.timestamp \in {Nil} \union Int
      /\ ev.context \in {Nil} \union RequestContexts
      /\ ev.actor \in {Nil} \union ActorMessages
      /\ ev.details \in {Nil, NilMap} \union Structs
  BY DEF Events
<1>2. /\ context \in RequestContexts /\ EnrichContext(c, m, context) = context
      /\ actor \in ActorMessages /\ EnrichActor(m, actor) = actor
      /\ details \in {NilMap} \union Structs /\ EnrichDetails(c, details) = details
  BY <1>1, ContextFilled, ActorFilled, DetailsFilled
<1>3. stamp \in Int /\ stamp # Nil
  BY <1>1, MessageAssumption
<1>4. new = [event_id |-> ev.event_id, schema_version |-> Fill(ev.schema_version, "1.0"),
             timestamp |-> stamp, context |-> context, actor |-> actor, details |-> details]
  BY DEF EnrichEvent
<1> HIDE DEF new, context, actor, details, stamp
<1>5. /\ Fill(ev.schema_version, "1.0") \in Text
      /\ Kept(ev.schema_version, Fill(ev.schema_version, "1.0"))
      /\ Fill(Fill(ev.schema_version, "1.0"), "1.0") = Fill(ev.schema_version, "1.0")
  BY <1>1, FillText, MessageAssumption
<1>6. new \in Events
  BY <1>1, <1>2, <1>3, <1>4, <1>5 DEF Events
<1>7. ASSUME NEW u \in Int
      PROVE  EnrichEvent(c, m, u, new) = new
  <2>1. EnrichEvent(c, m, u, new) =
          [event_id |-> new.event_id, schema_version |-> Fill(new.schema_version, "1.0"),
           timestamp |-> IF new.timestamp = Nil THEN u ELSE new.timestamp,
           context |-> EnrichContext(c, m, new.context),
           actor |-> EnrichActor(m, new.actor), details |-> EnrichDetails(c, new.details)]
    BY DEF EnrichEvent
  <2> QED  BY <2>1, <1>2, <1>3, <1>4, <1>5
<1> QED  BY <1>4, <1>5, <1>6, <1>7 DEF new, context, actor, details, stamp

\* A set of natural numbers that is not empty has a least one.
LEMMA Least ==
  ASSUME NEW S \in SUBSET Nat, S # {}
  PROVE  \E first \in S : \A i \in S : first <= i
<1> DEFINE R == OpToRel(<, Nat)
<1>1. IsWellFoundedOn(R, Nat)
  BY NatLessThanWellFounded
<1>2. \A i, j \in Nat : i < j => <<i, j>> \in R
  BY DEF OpToRel
<1> HIDE DEF R
<1>3. \E x \in S : \A y \in S : ~ (<<y, x>> \in R)
  BY <1>1, WFMin
<1>4. PICK x \in S : \A y \in S : ~ (<<y, x>> \in R)
  BY <1>3
<1>5. \A y \in S : ~ (y < x)
  BY <1>2, <1>4
<1>6. \A y \in S : x <= y
  BY <1>5
<1> QED  BY <1>6

\* What is smaller than everything is the minimum.
LEMMA MinIs ==
  ASSUME NEW S \in SUBSET Int, NEW m \in S, \A y \in S : m <= y
  PROVE  Min(S) = m
<1>1. \A x \in S : (\A y \in S : x <= y) => x = m
  OBVIOUS
<1>2. \A x \in S : (\A y \in S : x <= y) <=> x = m
  BY <1>1
<1>3. m = CHOOSE x \in S : \A y \in S : x <= y
  BY <1>2
<1> QED  BY <1>3 DEF Min

\* The minimum of one number.
LEMMA MinOfOne ==
  ASSUME NEW m \in Int
  PROVE  Min({m}) = m
<1>1. {m} \in SUBSET Int /\ m \in {m}
  OBVIOUS
<1>2. \A y \in {m} : m <= y
  OBVIOUS
<1> QED  BY <1>1, <1>2, MinIs

\* One more request has its say where those before it said nothing.
LEMMA FirstGivenAppend ==
  ASSUME NEW requests \in Seq(Requests), NEW r \in Requests, NEW f
  PROVE  FirstGiven(Append(requests, r), f) = Fill(FirstGiven(requests, f), MetadataOf(r)[f])
<1> DEFINE more == Append(requests, r)
           given == {i \in DOMAIN requests : MetadataOf(requests[i])[f] # ""}
           givenMore == {i \in DOMAIN more : MetadataOf(more[i])[f] # ""}
<1>. PICK n \in Nat : n = Len(requests)
  OBVIOUS
<1>1. /\ DOMAIN requests = 1 .. n /\ DOMAIN more = 1 .. (n + 1)
      /\ more[n + 1] = r /\ \A i \in 1 .. n : more[i] = requests[i]
  OBVIOUS
<1>2. /\ FirstGiven(requests, f) =
            IF given = {} THEN "" ELSE MetadataOf(requests[Min(given)])[f]
      /\ FirstGiven(more, f) =
            IF givenMore = {} THEN "" ELSE MetadataOf(more[Min(givenMore)])[f]
  BY DEF FirstGiven
<1>3. /\ \A i : i \in given <=> i \in 1 .. n /\ MetadataOf(requests[i])[f] # ""
      /\ \A i : i \in givenMore <=> i \in 1 .. (n + 1) /\ MetadataOf(more[i])[f] # ""
  BY <1>1
<1> HIDE DEF more, given, givenMore
<1>4. /\ \A i : i \in given <=> i \in givenMore /\ i # n + 1
      /\ n + 1 \in givenMore <=> MetadataOf(r)[f] # ""
  <2>1. \A i : i \in 1 .. n <=> i \in 1 .. (n + 1) /\ i # n + 1
    OBVIOUS
  <2>2. n + 1 \in 1 .. (n + 1)
    OBVIOUS
  <2> QED  BY <1>1, <1>3, <2>1, <2>2
<1>5. CASE given = {} /\ n + 1 \in givenMore
  <2>1. givenMore = {n + 1}
    BY <1>4, <1>5
  <2>2. Min(givenMore) = n + 1
    <3>1. n + 1 \in Int
      OBVIOUS
    <3> QED  BY <2>1, <3>1, MinOfOne
  <2>3. FirstGiven(more, f) = MetadataOf(r)[f]
    BY <2>1, <2>2, <1>1, <1>2
  <2> QED  BY <2>3, <1>2, <1>5 DEF Fill, more
<1>6. CASE given = {} /\ n + 1 \notin givenMore
  <2>1. givenMore = {}
    BY <1>4, <1>6
  <2> QED  BY <2>1, <1>2, <1>4, <1>6 DEF Fill, more
<1>7. CASE given # {}
  <2>1. \A i \in given : i \in 1 .. n
    BY <1>3
  <2>2. given \in SUBSET Nat /\ given \in SUBSET Int /\ givenMore \in SUBSET Int
    <3>1. \A i \in 1 .. (n + 1) : i \in Nat /\ i \in Int
      OBVIOUS
    <3>2. \A i \in given : i \in Nat
      BY <2>1, <3>1
    <3>3. \A i \in givenMore : i \in Int
      BY <1>3, <3>1
    <3> QED  BY <3>2, <3>3
  <2>3. PICK first \in given : \A i \in given : first <= i
    BY <2>2, <1>7, Least
  <2>4. Min(given) = first
    BY <2>2, <2>3, MinIs
  <2>5. first \in givenMore /\ first \in 1 .. n
    BY <1>4, <2>1
  <2>6. \A i \in givenMore : first <= i
    <3> SUFFICES ASSUME NEW i \in givenMore
                 PROVE  first <= i
      OBVIOUS
    <3>1. i \in given \/ i = n + 1
      BY <1>4
    <3> QED  BY <3>1, <1>1, <2>3, <2>5
  <2>7. Min(givenMore) = first
    BY <2>2, <2>5, <2>6, MinIs
  <2>8. MetadataOf(more[first])[f] = MetadataOf(requests[first])[f]
    BY <1>1, <2>5
  <2>9. MetadataOf(more[first])[f] # ""
    BY <1>3, <2>5
  <2> QED  BY <1>2, <1>7, <2>4, <2>5, <2>7, <2>8, <2>9 DEF Fill, more
<1> QED  BY <1>5, <1>6, <1>7

\* No request says nothing.
LEMMA FirstGivenNone ==
  ASSUME NEW f
  PROVE  FirstGiven(<<>>, f) = ""
BY DEF FirstGiven

\* Enriching keeps what the author has set, ...
LEMMA AuthorKept ==
  ASSUME cfg \in Configs, NEW m \in RequestMetadata, NEW t \in Int,
         NEW author \in Events, NEW ev \in Events, KeepsAuthor(author, ev)
  PROVE  KeepsAuthor(author, EnrichEvent(cfg, m, t, ev))
<1> DEFINE new == EnrichEvent(cfg, m, t, ev)
<1>1. /\ ev.context \in {Nil} \union RequestContexts
      /\ ev.actor \in {Nil} \union ActorMessages
      /\ ev.details \in {Nil, NilMap} \union Structs
  BY DEF Events
<1>2. /\ new.event_id = ev.event_id
      /\ Kept(ev.schema_version, new.schema_version)
      /\ new.timestamp = IF ev.timestamp = Nil THEN t ELSE ev.timestamp
      /\ new.context = EnrichContext(cfg, m, ev.context)
      /\ new.actor = EnrichActor(m, ev.actor)
      /\ new.details = EnrichDetails(cfg, ev.details)
  BY EventFilled
<1> HIDE DEF new
<1>3. /\ new.event_id = author.event_id
      /\ Kept(author.schema_version, new.schema_version)
      /\ author.timestamp # Nil => new.timestamp = author.timestamp
  BY <1>2 DEF KeepsAuthor, Kept
<1>4. author.actor # Nil =>
        /\ new.actor # Nil
        /\ \A f \in {"Id", "Type", "DisplayName"} : Kept(author.actor[f], new.actor[f])
  <2> SUFFICES ASSUME author.actor # Nil
               PROVE  /\ new.actor # Nil
                      /\ Kept(author.actor.Id, new.actor.Id)
                      /\ Kept(author.actor.Type, new.actor.Type)
                      /\ Kept(author.actor.DisplayName, new.actor.DisplayName)
    OBVIOUS
  <2>1. /\ ev.actor # Nil
        /\ Kept(author.actor.Id, ev.actor.Id)
        /\ Kept(author.actor.Type, ev.actor.Type)
        /\ Kept(author.actor.DisplayName, ev.actor.DisplayName)
    BY DEF KeepsAuthor
  <2>2. /\ new.actor \in ActorMessages
        /\ new.actor.Id = Fill(ev.actor.Id, m.UserID)
        /\ Kept(ev.actor.Type, new.actor.Type)
        /\ new.actor.DisplayName = Fill(ev.actor.DisplayName, m.UserEmail)
    BY <1>1, <1>2, <2>1, ActorFilled
  <2> QED  BY <2>1, <2>2, MessageAssumption DEF Kept, Fill
<1>5. author.context # Nil =>
        /\ new.context # Nil
        /\ \A f \in {"ClientIp", "CorrelationId", "UserAgent", "SourceService", "Environment"} :
             Kept(author.context[f], new.context[f])
  <2> SUFFICES ASSUME author.context # Nil
               PROVE  /\ new.context # Nil
                      /\ Kept(author.context.ClientIp, new.context.ClientIp)
                      /\ Kept(author.context.CorrelationId, new.context.CorrelationId)
                      /\ Kept(author.context.UserAgent, new.context.UserAgent)
                      /\ Kept(author.context.SourceService, new.context.SourceService)
                      /\ Kept(author.context.Environment, new.context.Environment)
    OBVIOUS
  <2>1. /\ ev.context # Nil
        /\ Kept(author.context.ClientIp, ev.context.ClientIp)
        /\ Kept(author.context.CorrelationId, ev.context.CorrelationId)
        /\ Kept(author.context.UserAgent, ev.context.UserAgent)
        /\ Kept(author.context.SourceService, ev.context.SourceService)
        /\ Kept(author.context.Environment, ev.context.Environment)
    BY DEF KeepsAuthor
  <2>2. /\ new.context \in RequestContexts
        /\ Kept(ev.context.ClientIp, new.context.ClientIp)
        /\ Kept(ev.context.CorrelationId, new.context.CorrelationId)
        /\ Kept(ev.context.UserAgent, new.context.UserAgent)
        /\ Kept(ev.context.SourceService, new.context.SourceService)
        /\ Kept(ev.context.Environment, new.context.Environment)
    BY <1>1, <1>2, <2>1, ContextFilled
  <2> QED  BY <2>1, <2>2, MessageAssumption DEF Kept
<1>6. author.details \notin {Nil, NilMap} =>
        /\ new.details \notin {Nil, NilMap}
        /\ author.details.environment # Absent =>
             new.details.environment = author.details.environment
        /\ cfg.ServiceVersion = "" =>
             new.details.service_version = author.details.service_version
  <2> SUFFICES ASSUME author.details \notin {Nil, NilMap}
               PROVE  /\ new.details \notin {Nil, NilMap}
                      /\ author.details.environment # Absent =>
                           new.details.environment = author.details.environment
                      /\ cfg.ServiceVersion = "" =>
                           new.details.service_version = author.details.service_version
    OBVIOUS
  <2>1. /\ ev.details \notin {Nil, NilMap}
        /\ author.details.environment # Absent =>
             ev.details.environment = author.details.environment
        /\ cfg.ServiceVersion = "" =>
             ev.details.service_version = author.details.service_version
    BY DEF KeepsAuthor
  <2>2. /\ new.details \notin {Nil, NilMap}
        /\ ev.details.environment # Absent => new.details.environment = ev.details.environment
        /\ cfg.ServiceVersion = "" => new.details.service_version = ev.details.service_version
    BY <1>1, <1>2, <2>1, DetailsFilled
  <2> QED  BY <2>1, <2>2
<1> QED  BY <1>3, <1>4, <1>5, <1>6 DEF KeepsAuthor, new

\* ... which an event has that nobody has enriched.
LEMMA AuthorsOwn ==
  ASSUME NEW ev \in Events
  PROVE  KeepsAuthor(ev, ev)
BY DEF KeepsAuthor, Kept

\* The first request says what the author did not, ...
LEMMA FirstRequest ==
  ASSUME cfg \in Configs, NEW r \in Requests, NEW t \in Int, NEW author \in Events
  PROVE  KeepsRequests(author, Append(<<>>, r), EnrichEvent(cfg, MetadataOf(r), t, author))
<1> DEFINE m == MetadataOf(r)
           new == EnrichEvent(cfg, m, t, author)
           requests == Append(<<>>, r)
<1>1. /\ author.context \in {Nil} \union RequestContexts
      /\ author.actor \in {Nil} \union ActorMessages
  BY DEF Events
<1>2. m \in RequestMetadata
  BY PathAssumption
<1>3. /\ new.context = EnrichContext(cfg, m, author.context)
      /\ new.actor = EnrichActor(m, author.actor)
  BY <1>2, EventFilled
<1>4. \A f : FirstGiven(requests, f) = m[f]
  <2>1. <<>> \in Seq(Requests)
    OBVIOUS
  <2> QED  BY <2>1, FirstGivenAppend, FirstGivenNone DEF Fill
<1>5. requests[1] = r
  OBVIOUS
<1> HIDE DEF new, m, requests
<1>6. /\ new.context \in RequestContexts
      /\ author.context = Nil => /\ new.context.ClientIp = m.ClientIP
                                 /\ new.context.CorrelationId = m.CorrelationID
                                 /\ new.context.UserAgent = m.UserAgent
  BY <1>1, <1>2, <1>3, ContextFilled
<1>7. /\ new.actor \in ActorMessages
      /\ author.actor = Nil =>
           /\ new.actor.Id = m.UserID
           /\ new.actor.DisplayName = m.UserEmail
           /\ new.actor.Type = IF m.UserID = "" THEN "anonymous" ELSE "user"
  BY <1>1, <1>2, <1>3, ActorFilled
<1>8. KeepsRequests(author, requests, new)
  BY <1>4, <1>5, <1>6, <1>7, MessageAssumption DEF KeepsRequests, m
<1> QED  BY <1>8 DEF new, m, requests

\* ... and a later one what was not said before it.
LEMMA LaterRequest ==
  ASSUME cfg \in Configs, NEW r \in Requests, NEW t \in Int,
         NEW author \in Events, NEW ev \in Events,
         NEW requests \in Seq(Requests), requests # <<>>,
         KeepsRequests(author, requests, ev)
  PROVE  KeepsRequests(author, Append(requests, r), EnrichEvent(cfg, MetadataOf(r), t, ev))
<1> DEFINE m == MetadataOf(r)
           new == EnrichEvent(cfg, m, t, ev)
           more == Append(requests, r)
<1>1. /\ ev.context \in {Nil} \union RequestContexts /\ ev.context # Nil
      /\ ev.actor \in {Nil} \union ActorMessages /\ ev.actor # Nil
  BY DEF Events, KeepsRequests
<1>2. m \in RequestMetadata
  BY PathAssumption
<1>3. /\ new.context = EnrichContext(cfg, m, ev.context)
      /\ new.actor = EnrichActor(m, ev.actor)
  BY <1>2, EventFilled
<1>4. \A f : FirstGiven(more, f) = Fill(FirstGiven(requests, f), m[f])
  BY FirstGivenAppend
<1>5. more[1] = requests[1]
  OBVIOUS
<1> HIDE DEF new, m, more
<1>6. /\ new.context \in RequestContexts
      /\ new.context.ClientIp = Fill(ev.context.ClientIp, m.ClientIP)
      /\ new.context.CorrelationId = Fill(ev.context.CorrelationId, m.CorrelationID)
      /\ new.context.UserAgent = Fill(ev.context.UserAgent, m.UserAgent)
  BY <1>1, <1>2, <1>3, ContextFilled
<1>7. /\ new.actor \in ActorMessages
      /\ new.actor.Id = Fill(ev.actor.Id, m.UserID)
      /\ new.actor.DisplayName = Fill(ev.actor.DisplayName, m.UserEmail)
      /\ Kept(ev.actor.Type, new.actor.Type)
  BY <1>1, <1>2, <1>3, ActorFilled
<1>8. author.actor = Nil => ev.actor.Type # ""
  BY DEF KeepsRequests
<1>9. KeepsRequests(author, more, new)
  BY <1>4, <1>5, <1>6, <1>7, <1>8, MessageAssumption DEF KeepsRequests, Kept
<1> QED  BY <1>9 DEF new, m, more
-----------------------------------------------------------------------------
\* The set-up is one of those there are.
LEMMA FixedSetup ==
  ASSUME TypeOK
  PROVE  cfg \in Configs /\ sink \in Sinks
BY PathAssumption DEF TypeOK

\* A consumer reads a record when its set-up is the library's.
LEMMA ReadsSameWire ==
  ASSUME cfg \in Configs, sink \in Sinks, NEW key, NEW row
  PROVE  Reads(sink, Encode(cfg, key, row)) <=> SameWire
BY DEF Configs, Sinks, Reads, Encode, Plain, EncodeMessage, DecodesTo, SameWire

\* A service starts without events.
LEMMA PathInit ==
  ASSUME Init
  PROVE  PathInv
<1>1. TypeOK
  BY PathAssumption, EmptySeq DEF Init, TypeOK
<1>2. EventInv /\ RowInv /\ WireInv
  BY DEF Init, EventInv, RowInv, WireInv
<1>3. StoredOnce /\ StoredWhenSameWire
  BY DEF Init, StoredOnce, StoredWhenSameWire
<1> QED  BY <1>1, <1>2, <1>3 DEF PathInv

\* What an author or a publisher does leaves the topic and the sink as they are.
LEMMA DownstreamStays ==
  ASSUME WireInv, StoredOnce, StoredWhenSameWire, UNCHANGED <<env, downstream>>
  PROVE  WireInv' /\ StoredOnce' /\ StoredWhenSameWire'
<1>1. UNCHANGED <<cfg, sink, topic, read, stored>>
  BY DEF env, downstream
<1>2. WireInv'
  BY <1>1 DEF WireInv, SameWire
<1>3. StoredOnce'
  BY <1>1 DEF StoredOnce
<1>4. StoredWhenSameWire'
  BY <1>1 DEF StoredWhenSameWire, SameWire
<1> QED  BY <1>2, <1>3, <1>4

\* Rows do not change.
LEMMA RowsStay ==
  ASSUME RowInv, UNCHANGED <<cfg, outbox>>
  PROVE  RowInv'
BY DEF RowInv, KeepsAuthor

\* An author works on an event that has not been published.
LEMMA SetStep ==
  ASSUME PathInv, NEW p \in Pointers, NEW ev \in Events, Set(p, ev), under[p] = <<>>,
         ev.event_id \in {p} \union HandwrittenIds, ev.timestamp \in {Nil} \union Stamps
  PROVE  PathInv'
<1>1. /\ TypeOK /\ EventInv /\ RowInv /\ WireInv /\ StoredOnce /\ StoredWhenSameWire
      /\ event \in [Pointers -> {Nil} \union Events]
      /\ own \in [Pointers -> {Nil} \union Events]
  BY DEF PathInv, TypeOK
<1>2. /\ event' = [event EXCEPT ![p] = ev] /\ own' = [own EXCEPT ![p] = ev]
      /\ UNCHANGED <<cfg, sink, under, now, outbox, topic, read, stored>>
      /\ UNCHANGED <<env, downstream>>
  BY DEF Set, env, downstream
<1>3. TypeOK'
  <2>1. /\ event' \in [Pointers -> {Nil} \union Events]
        /\ own' \in [Pointers -> {Nil} \union Events]
    BY <1>1, <1>2
  <2>2. \A q \in Pointers : event'[q] # Nil => event'[q].timestamp \in {Nil} \union Stamps'
    BY <1>1, <1>2 DEF TypeOK, Stamps
  <2> QED  BY <1>1, <1>2, <2>1, <2>2 DEF TypeOK, Stamps
<1>4. EventInv'
  <2> SUFFICES ASSUME NEW q \in Pointers
               PROVE  (/\ (event[q] = Nil) <=> (own[q] = Nil)
                       /\ under[q] = <<>> => event[q] = own[q]
                       /\ under[q] # <<>> => event[q] # Nil
                       /\ event[q] # Nil =>
                            /\ event[q].event_id \in {q} \union HandwrittenIds
                            /\ KeepsAuthor(own[q], event[q])
                            /\ under[q] # <<>> => /\ KeepsRequests(own[q], under[q], event[q])
                                                  /\ Settled(under[q], event[q]))'
    BY DEF EventInv
  <2>1. CASE q = p
    <3>1. event'[q] = ev /\ own'[q] = ev /\ under'[q] = <<>>
      BY <1>1, <1>2, <2>1
    <3>2. KeepsAuthor(own[q], event[q])'
      BY <3>1, AuthorsOwn, <1>2 DEF KeepsAuthor
    <3> QED  BY <3>1, <3>2, <2>1
  <2>2. CASE q # p
    <3>1. event'[q] = event[q] /\ own'[q] = own[q] /\ under'[q] = under[q]
      BY <1>1, <1>2, <2>2
    <3> QED  BY <3>1, <1>1, <1>2 DEF EventInv, KeepsAuthor, Settled
  <2> QED  BY <2>1, <2>2
<1> QED  BY <1>1, <1>2, <1>3, <1>4, RowsStay, DownstreamStays DEF PathInv

\* The steps of authors.
LEMMA AuthorStep ==
  ASSUME PathInv, NEW p \in Pointers, Author(p)
  PROVE  PathInv'
<1>1. /\ event \in [Pointers -> {Nil} \union Events]
      /\ event[p] # Nil => event[p].timestamp \in {Nil} \union Stamps
      /\ now \in 0 .. MaxPublishes /\ EventInv
  BY DEF PathInv, TypeOK
<1>2. event[p] = Nil => under[p] = <<>>
  BY <1>1 DEF EventInv
<1>3. CASE NewEvent(p)
  <2> PICK ev : ev = [event_id |-> p, schema_version |-> "1.0", timestamp |-> now,
                      context |-> Nil, actor |-> Nil, details |-> Nil]
    OBVIOUS
  <2>1. Set(p, ev) /\ under[p] = <<>>
    BY <1>2, <1>3 DEF NewEvent
  <2>2. ev \in Events
    <3>1. now \in Int
      BY <1>1
    <3>2. "1.0" \in Text
      BY MessageAssumption
    <3> QED  BY <3>1, <3>2 DEF Events
  <2>3. now \in 0 .. now
    BY <1>1, PathAssumption
  <2> QED  BY <2>1, <2>2, <2>3, SetStep DEF Stamps
<1>4. CASE WriteLiteral(p)
  <2>1. PICK ev \in Literals : Set(p, ev)
    BY <1>4 DEF WriteLiteral
  <2>2. ev \in Events /\ ev.event_id \in HandwrittenIds /\ ev.timestamp \in Stamps
    BY PathAssumption DEF HandwrittenIds, Stamps
  <2> QED  BY <1>2, <1>4, <2>1, <2>2, SetStep DEF WriteLiteral
<1>5. CASE SetActor(p)
  <2>1. PICK a \in Actors : Set(p, [event[p] EXCEPT !.actor = a])
    BY <1>5 DEF SetActor
  <2> PICK ev : ev = [event[p] EXCEPT !.actor = a]
    OBVIOUS
  <2>2. event[p] \in Events /\ under[p] = <<>>
    BY <1>1, <1>5 DEF SetActor, Draft
  <2>3. ev \in Events /\ ev.event_id = event[p].event_id /\ ev.timestamp = event[p].timestamp
    BY <2>2, PathAssumption DEF Events
  <2>4. event[p] # Nil
    BY <1>5 DEF SetActor, Draft
  <2> QED  BY <1>1, <2>1, <2>2, <2>3, <2>4, SetStep DEF EventInv
<1>6. CASE SetDetails(p)
  <2>1. PICK d \in DetailMaps : Set(p, [event[p] EXCEPT !.details = d])
    BY <1>6 DEF SetDetails
  <2> PICK ev : ev = [event[p] EXCEPT !.details = d]
    OBVIOUS
  <2>2. event[p] \in Events /\ under[p] = <<>>
    BY <1>1, <1>6 DEF SetDetails, Draft
  <2>3. ev \in Events /\ ev.event_id = event[p].event_id /\ ev.timestamp = event[p].timestamp
    BY <2>2, PathAssumption DEF Events
  <2>4. event[p] # Nil
    BY <1>6 DEF SetDetails, Draft
  <2> QED  BY <1>1, <2>1, <2>2, <2>3, <2>4, SetStep DEF EventInv
<1> QED  BY <1>3, <1>4, <1>5, <1>6 DEF Author

\* A call of PublishEvent, whatever becomes of it: the event is enriched, and its row
\* may be inserted.
LEMMA EnrichStep ==
  ASSUME PathInv, NEW p \in Pointers, NEW r \in Requests, Enrich(p, r),
         \/ outbox' = outbox
         \/ outbox' = outbox \union
              {[event |-> event'[p], of |-> p, own |-> own[p], under |-> under'[p]]}
  PROVE  PathInv'
<1> DEFINE new == EnrichEvent(cfg, MetadataOf(r), now, event[p])
           requests == Append(under[p], r)
           row == [event |-> event'[p], of |-> p, own |-> own[p], under |-> under'[p]]
<1>1. /\ TypeOK /\ EventInv /\ RowInv /\ WireInv /\ StoredOnce /\ StoredWhenSameWire
      /\ event \in [Pointers -> {Nil} \union Events]
      /\ own \in [Pointers -> {Nil} \union Events]
      /\ under \in [Pointers -> Seq(Requests)]
      /\ now \in 0 .. MaxPublishes
  BY DEF PathInv, TypeOK
<1>2. /\ event[p] # Nil /\ now < MaxPublishes /\ now' = now + 1
      /\ event' = [event EXCEPT ![p] = new] /\ under' = [under EXCEPT ![p] = requests]
      /\ UNCHANGED <<cfg, sink, own, topic, read, stored>>
      /\ UNCHANGED <<env, downstream>>
  BY DEF Enrich, env, downstream
<1>3. cfg \in Configs /\ MetadataOf(r) \in RequestMetadata /\ now \in Int
  BY <1>1, FixedSetup, PathAssumption
<1>4. event[p] \in Events /\ own[p] \in Events /\ under[p] \in Seq(Requests)
  BY <1>1, <1>2 DEF EventInv
<1>5. /\ new \in Events
      /\ new.event_id = event[p].event_id
      /\ new.timestamp = IF event[p].timestamp = Nil THEN now ELSE event[p].timestamp
      /\ new.context = EnrichContext(cfg, MetadataOf(r), event[p].context)
      /\ new.actor = EnrichActor(MetadataOf(r), event[p].actor)
      /\ new.details = EnrichDetails(cfg, event[p].details)
      /\ \A u \in Int : EnrichEvent(cfg, MetadataOf(r), u, new) = new
  BY <1>3, <1>4, EventFilled
<1>6. /\ new.context \in RequestContexts /\ new.actor \in ActorMessages
      /\ new.details \in Structs \union {NilMap}
  <2>1. /\ event[p].context \in {Nil} \union RequestContexts
        /\ event[p].actor \in {Nil} \union ActorMessages
        /\ event[p].details \in {Nil, NilMap} \union Structs
    BY <1>4 DEF Events
  <2>2. new.context \in RequestContexts
    BY <1>3, <1>5, <2>1, ContextFilled
  <2>3. new.actor \in ActorMessages
    BY <1>3, <1>5, <2>1, ActorFilled
  <2>4. new.details \in Structs \union {NilMap}
    BY <1>3, <1>5, <2>1, DetailsFilled
  <2> QED  BY <2>2, <2>3, <2>4
<1>7. KeepsAuthor(own[p], new)
  <2>1. KeepsAuthor(own[p], event[p])
    BY <1>1, <1>2 DEF EventInv
  <2> QED  BY <1>3, <1>4, <2>1, AuthorKept
<1>8. KeepsRequests(own[p], requests, new)
  <2>1. CASE under[p] = <<>>
    <3>1. event[p] = own[p]
      BY <1>1, <2>1 DEF EventInv
    <3> QED  BY <3>1, <2>1, <1>3, <1>4, FirstRequest
  <2>2. CASE under[p] # <<>>
    <3>1. KeepsRequests(own[p], under[p], event[p])
      BY <1>1, <1>2, <2>2 DEF EventInv
    <3> QED  BY <3>1, <2>2, <1>3, <1>4, LaterRequest
  <2> QED  BY <2>1, <2>2
<1>9. Settled(requests, new)
  <2>1. requests[Len(requests)] = r
    BY <1>4
  <2>2. \A u \in 0 .. MaxPublishes : u \in Int
    OBVIOUS
  <2> QED  BY <1>5, <2>1, <2>2 DEF Settled
<1>10. new.timestamp \in Stamps' \ {Nil}
  <2>1. event[p].timestamp \in {Nil} \union Stamps
    BY <1>1, <1>2 DEF TypeOK
  <2>2. now \in 0 .. now' /\ \A x \in 0 .. now : x \in 0 .. now'
    BY <1>1, <1>2
  <2>3. now # Nil
    BY <1>3, MessageAssumption
  <2> QED  BY <1>5, <2>1, <2>2, <2>3 DEF Stamps
<1>11. Stamps \subseteq Stamps'
  BY <1>1, <1>2 DEF Stamps
<1>12. requests \in Seq(Requests) /\ requests # <<>>
  BY <1>4
<1> HIDE DEF new, requests
<1>13. event'[p] = new /\ under'[p] = requests
  BY <1>1, <1>2
<1>14. TypeOK'
  <2>1. /\ event' \in [Pointers -> {Nil} \union Events]
        /\ own' \in [Pointers -> {Nil} \union Events]
        /\ under' \in [Pointers -> Seq(Requests)]
        /\ now' \in 0 .. MaxPublishes
        /\ \E setup \in Setups : cfg' = setup[1] /\ sink' = setup[2]
    BY <1>1, <1>2, <1>5, <1>12, PathAssumption DEF TypeOK
  <2>2. \A q \in Pointers : event'[q] # Nil => event'[q].timestamp \in {Nil} \union Stamps'
    BY <1>1, <1>2, <1>10, <1>11 DEF TypeOK
  <2>3. outbox \subseteq outbox' /\ \A o \in outbox' : o \in outbox \/ o = row
    OBVIOUS
  <2>4. \A o \in outbox' :
          /\ o \in [event : Events, of : Pointers, own : Events, under : Seq(Requests)]
          /\ o.event.timestamp \in Stamps' \ {Nil}
          /\ o.event.context \in RequestContexts
          /\ o.event.actor \in ActorMessages
          /\ o.event.details \in Structs \union {NilMap}
    <3> SUFFICES ASSUME NEW o \in outbox'
                 PROVE  /\ o \in [event : Events, of : Pointers, own : Events, under : Seq(Requests)]
                        /\ o.event.timestamp \in Stamps' \ {Nil}
                        /\ o.event.context \in RequestContexts
                        /\ o.event.actor \in ActorMessages
                        /\ o.event.details \in Structs \union {NilMap}
      OBVIOUS
    <3>1. CASE o \in outbox
      BY <1>1, <1>11, <3>1 DEF TypeOK
    <3>2. CASE o = row
      BY <1>4, <1>5, <1>6, <1>10, <1>12, <1>13, <3>2
    <3> QED  BY <2>3, <3>1, <3>2
  <2>5. /\ \A rec \in topic' : rec.value.data \in outbox'
        /\ read' \subseteq topic'
        /\ \A s \in stored' : s.row \in outbox'
    BY <1>1, <1>2, <2>3 DEF TypeOK
  <2> QED  BY <2>1, <2>2, <2>4, <2>5 DEF TypeOK
<1>15. EventInv'
  <2> SUFFICES ASSUME NEW q \in Pointers
               PROVE  (/\ (event[q] = Nil) <=> (own[q] = Nil)
                       /\ under[q] = <<>> => event[q] = own[q]
                       /\ under[q] # <<>> => event[q] # Nil
                       /\ event[q] # Nil =>
                            /\ event[q].event_id \in {q} \union HandwrittenIds
                            /\ KeepsAuthor(own[q], event[q])
                            /\ under[q] # <<>> => /\ KeepsRequests(own[q], under[q], event[q])
                                                  /\ Settled(under[q], event[q]))'
    BY DEF EventInv
  <2>1. CASE q = p
    <3>1. event'[q] = new /\ own'[q] = own[p] /\ under'[q] = requests
      BY <1>2, <1>13, <2>1
    <3>2. new # Nil /\ own[p] # Nil
      BY <1>4, <1>5, PathAssumption
    <3>3. KeepsAuthor(own[q], event[q])'
      BY <1>2, <1>7, <3>1 DEF KeepsAuthor
    <3>4. KeepsRequests(own[q], under[q], event[q])'
      BY <1>8, <3>1
    <3>5. Settled(under[q], event[q])'
      BY <1>2, <1>9, <3>1 DEF Settled
    <3>6. event'[q].event_id \in {q} \union HandwrittenIds
      BY <1>1, <1>2, <1>5, <2>1, <3>1 DEF EventInv
    <3> QED  BY <1>12, <3>1, <3>2, <3>3, <3>4, <3>5, <3>6
  <2>2. CASE q # p
    <3>1. event'[q] = event[q] /\ own'[q] = own[q] /\ under'[q] = under[q]
      BY <1>1, <1>2, <2>2
    <3> QED  BY <3>1, <1>1, <1>2 DEF EventInv, KeepsAuthor, Settled
  <2> QED  BY <2>1, <2>2
<1>16. RowInv'
  <2> SUFFICES ASSUME NEW o \in outbox'
               PROVE  (/\ o.event.event_id \in {o.of} \union HandwrittenIds
                       /\ KeepsAuthor(o.own, o.event)
                       /\ KeepsRequests(o.own, o.under, o.event))'
    BY DEF RowInv
  <2>1. CASE o \in outbox
    BY <1>1, <1>2, <2>1 DEF RowInv, KeepsAuthor
  <2>2. CASE o = row
    <3>1. o.event = new /\ o.of = p /\ o.own = own[p] /\ o.under = requests
      BY <1>13, <2>2
    <3>2. new.event_id \in {p} \union HandwrittenIds
      BY <1>1, <1>2, <1>5 DEF EventInv
    <3>3. KeepsAuthor(o.own, o.event)'
      BY <1>2, <1>7, <3>1 DEF KeepsAuthor
    <3> QED  BY <1>8, <3>1, <3>2, <3>3
  <2> QED  BY <2>1, <2>2
<1> QED  BY <1>1, <1>2, <1>14, <1>15, <1>16, DownstreamStays DEF PathInv

\* Events and rows are not touched by the worker and the sink.
LEMMA UpstreamStays ==
  ASSUME EventInv, RowInv, UNCHANGED <<cfg, event, own, under, outbox>>
  PROVE  EventInv' /\ RowInv'
<1>1. EventInv'
  BY DEF EventInv, KeepsAuthor, Settled
<1> QED  BY <1>1, RowsStay

\* The worker sends a row.
LEMMA SendStep ==
  ASSUME PathInv, NEW row \in outbox, Send(row)
  PROVE  PathInv'
<1>1. /\ TypeOK /\ EventInv /\ RowInv /\ WireInv /\ StoredOnce /\ StoredWhenSameWire
      /\ cfg \in Configs
  BY FixedSetup DEF PathInv
<1>2. /\ topic' = topic \union {Encode(cfg, "key", row)}
      /\ UNCHANGED <<cfg, sink, event, own, under, now, outbox, read, stored>>
  BY DEF Send, env
<1>3. Encode(cfg, "key", row).value.data = row
  BY <1>1 DEF Encode, Plain, EncodeMessage, Configs
<1>4. TypeOK'
  BY <1>1, <1>2, <1>3 DEF TypeOK, Stamps
<1>5. WireInv'
  BY <1>1, <1>2, <1>3 DEF WireInv, SameWire
<1>6. StoredOnce'
  BY <1>1, <1>2 DEF StoredOnce
<1>7. StoredWhenSameWire'
  BY <1>1, <1>2 DEF StoredWhenSameWire, SameWire
<1> QED  BY <1>1, <1>2, <1>4, <1>5, <1>6, <1>7, UpstreamStays DEF PathInv

\* The sink reads a record, and stores the event unless it has it.
LEMMA ReceiveStep ==
  ASSUME PathInv, NEW rec \in topic, Receive(rec)
  PROVE  PathInv'
<1> DEFINE row == rec.value.data
           added == [model |-> ConvertToModel(row.event), row |-> row]
<1>1. /\ TypeOK /\ EventInv /\ RowInv /\ WireInv /\ StoredOnce /\ StoredWhenSameWire
      /\ cfg \in Configs /\ sink \in Sinks
  BY FixedSetup DEF PathInv
<1>2. /\ read' = read \union {rec}
      /\ UNCHANGED <<cfg, sink, event, own, under, now, outbox, topic>>
      /\ IF Reads(sink, rec) THEN Save(row) ELSE stored' = stored
  BY DEF Receive, env
<1>3. row \in outbox /\ rec = Encode(cfg, "key", row)
  BY <1>1 DEF TypeOK, WireInv
<1>4. Reads(sink, rec) <=> SameWire
  BY <1>1, <1>3, ReadsSameWire
<1>5. added.model = ConvertToModel(row.event) /\ added.row = row
      /\ added.model.EventID = row.event.event_id
  BY DEF ConvertToModel
<1>6. \/ stored' = stored /\ ~ SameWire
      \/ /\ stored' = stored /\ SameWire
         /\ \E s \in stored : s.model.EventID = row.event.event_id
      \/ /\ stored' = stored \union {added} /\ SameWire
         /\ \A s \in stored : s.model.EventID # row.event.event_id
  BY <1>2, <1>4 DEF Save
<1> HIDE DEF row, added
<1>7. \A s \in stored' : s \in stored \/ s = added
  BY <1>6
<1>8. TypeOK'
  <2>1. \A s \in stored' : s.row \in outbox'
    BY <1>1, <1>2, <1>3, <1>5, <1>7 DEF TypeOK
  <2>2. read' \subseteq topic'
    BY <1>1, <1>2 DEF TypeOK
  <2> QED  BY <1>1, <1>2, <2>1, <2>2 DEF TypeOK, Stamps
<1>9. WireInv'
  <2>1. SameWire' <=> SameWire
    BY <1>2 DEF SameWire
  <2>2. stored' # {} => SameWire
    BY <1>1, <1>6 DEF WireInv
  <2> QED  BY <1>1, <1>2, <1>5, <1>7, <2>1, <2>2 DEF WireInv
<1>10. StoredOnce'
  <2>1. \A s, t \in stored' : s.model.EventID = t.model.EventID => s = t
    BY <1>1, <1>5, <1>6 DEF StoredOnce
  <2>2. \A other \in read' :
          Reads(sink, other) =>
            \E s \in stored' :
              /\ s.model.EventID = other.value.data.event.event_id
              /\ other.value.data.event.event_id \notin HandwrittenIds =>
                   s.row.of = other.value.data.of
    <3> SUFFICES ASSUME NEW other \in read', Reads(sink, other)
                 PROVE  \E s \in stored' :
                          /\ s.model.EventID = other.value.data.event.event_id
                          /\ other.value.data.event.event_id \notin HandwrittenIds =>
                               s.row.of = other.value.data.of
      OBVIOUS
    <3>1. CASE other \in read
      <4>1. stored \subseteq stored'
        BY <1>6
      <4> QED  BY <1>1, <3>1, <4>1 DEF StoredOnce
    <3>2. CASE other = rec
      <4>1. PICK s \in stored' : s.model.EventID = row.event.event_id
        BY <1>4, <1>5, <1>6, <3>2
      <4>2. s.model = ConvertToModel(s.row.event) /\ s.row \in outbox
        BY <1>2, <1>8, <1>9 DEF TypeOK, WireInv
      <4>3. s.row.event.event_id = row.event.event_id
        BY <4>1, <4>2 DEF ConvertToModel
      <4>4. row.event.event_id \notin HandwrittenIds => s.row.of = row.of
        BY <1>1, <1>3, <4>2, <4>3 DEF RowInv
      <4> QED  BY <3>2, <4>1, <4>4 DEF row
    <3> QED  BY <1>2, <3>1, <3>2
  <2> QED  BY <1>2, <2>1, <2>2 DEF StoredOnce
<1>11. StoredWhenSameWire'
  <2>1. SameWire' <=> SameWire
    BY <1>2 DEF SameWire
  <2> SUFFICES ASSUME NEW other \in read'
               PROVE  (\E s \in stored' : s.model.EventID = other.value.data.event.event_id)
                        <=> SameWire
    BY <2>1 DEF StoredWhenSameWire
  <2>2. CASE ~ SameWire
    <3>1. stored' = {}
      BY <1>1, <1>6, <2>2 DEF WireInv
    <3> QED  BY <2>2, <3>1
  <2>3. CASE SameWire /\ other \in read
    <3>1. stored \subseteq stored'
      BY <1>6
    <3> QED  BY <1>1, <2>3, <3>1 DEF StoredWhenSameWire
  <2>4. CASE SameWire /\ other = rec
    BY <1>5, <1>6, <2>4 DEF row
  <2> QED  BY <1>2, <2>2, <2>3, <2>4
<1> QED  BY <1>1, <1>2, <1>8, <1>9, <1>10, <1>11, UpstreamStays DEF PathInv

\* The invariant is inductive.
LEMMA PathStep ==
  ASSUME PathInv, [Next]_vars
  PROVE  PathInv'
<1>1. ASSUME NEW p \in Pointers, Author(p)
      PROVE  PathInv'
  BY <1>1, AuthorStep
<1>2. ASSUME NEW p \in Pointers, NEW r \in Requests, PublishEvent(p, r)
      PROVE  PathInv'
  BY <1>2, EnrichStep DEF PublishEvent
<1>3. ASSUME NEW p \in Pointers, NEW r \in Requests, PublishEventFails(p, r)
      PROVE  PathInv'
  BY <1>3, EnrichStep DEF PublishEventFails
<1>4. ASSUME NEW row \in outbox, Send(row)
      PROVE  PathInv'
  BY <1>4, SendStep
<1>5. ASSUME NEW rec \in topic, Receive(rec)
      PROVE  PathInv'
  BY <1>5, ReceiveStep
<1>6. CASE UNCHANGED vars
  <2>1. /\ UNCHANGED <<cfg, sink, event, own, under, now, outbox, topic, read, stored>>
        /\ UNCHANGED <<env, downstream>>
    BY <1>6 DEF vars, env, downstream
  <2>2. TypeOK'
    BY <2>1 DEF PathInv, TypeOK, Stamps
  <2> QED  BY <2>1, <2>2, UpstreamStays, DownstreamStays DEF PathInv
<1> QED  BY <1>1, <1>2, <1>3, <1>4, <1>5, <1>6 DEF Next

\* The sink stores of a row what the author set.
LEMMA StoredAsAuthored ==
  ASSUME PathInv
  PROVE  AuthorPrevails
<1> SUFFICES ASSUME NEW s \in stored
             PROVE  LET author == s.row.own
                    IN  /\ s.model.EventID = author.event_id
                        /\ Kept(author.schema_version, s.model.SchemaVersion)
                        /\ author.timestamp # Nil => s.model.Timestamp = author.timestamp
                        /\ author.actor # Nil =>
                             /\ Kept(author.actor.Id, s.model.ActorID)
                             /\ Kept(author.actor.Type, s.model.ActorType)
                             /\ Kept(author.actor.DisplayName, s.model.ActorDisplayName)
                        /\ author.context # Nil =>
                             /\ Kept(author.context.ClientIp, s.model.ClientIP)
                             /\ Kept(author.context.CorrelationId, s.model.CorrelationID)
                             /\ Kept(author.context.UserAgent, s.model.UserAgent)
                             /\ Kept(author.context.SourceService, s.model.SourceService)
                             /\ Kept(author.context.Environment, s.model.Environment)
                        /\ author.details \notin {Nil, NilMap} =>
                             /\ author.details.environment # Absent =>
                                  s.model.Details.environment = author.details.environment
                             /\ cfg.ServiceVersion = "" =>
                                  s.model.Details.service_version = author.details.service_version
  BY DEF AuthorPrevails
<1> DEFINE author == s.row.own
           ev == s.row.event
<1>1. KeepsAuthor(author, ev) /\ s.model = ConvertToModel(ev)
  BY DEF PathInv, TypeOK, RowInv, WireInv
<1>2. ev.context # Nil /\ ev.actor # Nil
  BY DEF PathInv, TypeOK, RowInv, KeepsRequests
<1> HIDE DEF author, ev
<1>3. /\ s.model.EventID = ev.event_id /\ s.model.Timestamp = ev.timestamp
      /\ s.model.SchemaVersion = ev.schema_version
      /\ s.model.ActorID = ev.actor.Id /\ s.model.ActorType = ev.actor.Type
      /\ s.model.ActorDisplayName = ev.actor.DisplayName
      /\ s.model.ClientIP = ev.context.ClientIp
      /\ s.model.CorrelationID = ev.context.CorrelationId
      /\ s.model.UserAgent = ev.context.UserAgent
      /\ s.model.SourceService = ev.context.SourceService
      /\ s.model.Environment = ev.context.Environment
      /\ ev.details # NilMap => s.model.Details = ev.details
  BY <1>1, <1>2 DEF ConvertToModel, OrEmpty
<1>4. /\ author.actor # Nil =>
           /\ Kept(author.actor.Id, ev.actor.Id)
           /\ Kept(author.actor.Type, ev.actor.Type)
           /\ Kept(author.actor.DisplayName, ev.actor.DisplayName)
      /\ author.context # Nil =>
           /\ Kept(author.context.ClientIp, ev.context.ClientIp)
           /\ Kept(author.context.CorrelationId, ev.context.CorrelationId)
           /\ Kept(author.context.UserAgent, ev.context.UserAgent)
           /\ Kept(author.context.SourceService, ev.context.SourceService)
           /\ Kept(author.context.Environment, ev.context.Environment)
  BY <1>1 DEF KeepsAuthor
<1>5. author.details \notin {Nil, NilMap} =>
        /\ author.details.environment # Absent =>
             s.model.Details.environment = author.details.environment
        /\ cfg.ServiceVersion = "" =>
             s.model.Details.service_version = author.details.service_version
  BY <1>1, <1>3 DEF KeepsAuthor
<1> QED  BY <1>1, <1>3, <1>4, <1>5 DEF KeepsAuthor, author

\* ... and what the requests said.
LEMMA StoredAsRequested ==
  ASSUME PathInv
  PROVE  FirstRequestPrevails
<1> SUFFICES ASSUME NEW s \in stored
             PROVE  LET author == s.row.own
                        Given(f) == FirstGiven(s.row.under, f)
                    IN  /\ author.context = Nil =>
                             /\ s.model.ClientIP = Given("ClientIP")
                             /\ s.model.CorrelationID = Given("CorrelationID")
                             /\ s.model.UserAgent = Given("UserAgent")
                        /\ author.actor = Nil =>
                             /\ s.model.ActorID = Given("UserID")
                             /\ s.model.ActorDisplayName = Given("UserEmail")
                             /\ s.model.ActorType = IF MetadataOf(s.row.under[1]).UserID = ""
                                                    THEN "anonymous" ELSE "user"
  BY DEF FirstRequestPrevails
<1> DEFINE author == s.row.own
           ev == s.row.event
<1>1. KeepsRequests(author, s.row.under, ev) /\ s.model = ConvertToModel(ev)
  BY DEF PathInv, TypeOK, RowInv, WireInv
<1>2. ev.context # Nil /\ ev.actor # Nil
  BY <1>1 DEF KeepsRequests
<1>3. /\ s.model.ActorID = ev.actor.Id /\ s.model.ActorType = ev.actor.Type
      /\ s.model.ActorDisplayName = ev.actor.DisplayName
      /\ s.model.ClientIP = ev.context.ClientIp
      /\ s.model.CorrelationID = ev.context.CorrelationId
      /\ s.model.UserAgent = ev.context.UserAgent
  BY <1>1, <1>2 DEF ConvertToModel, OrEmpty
<1> QED  BY <1>1, <1>3 DEF KeepsRequests

\* A second call for the same request finds nothing to fill.
LEMMA RetryStep ==
  ASSUME PathInv, [Next]_vars, NEW p \in Pointers, Len(under[p]) > 0,
         under'[p] = Append(under[p], under[p][Len(under[p])])
  PROVE  event'[p] = event[p]
<1>1. /\ event \in [Pointers -> {Nil} \union Events]
      /\ under \in [Pointers -> Seq(Requests)] /\ now \in 0 .. MaxPublishes /\ EventInv
  BY DEF PathInv, TypeOK
<1>2. under'[p] # under[p]
  BY <1>1
<1>3. PICK q \in Pointers, r \in Requests : Enrich(q, r)
  BY <1>2 DEF Next, Author, NewEvent, WriteLiteral, SetActor, SetDetails, Set,
              PublishEvent, PublishEventFails, Send, Receive, vars
<1>4. /\ event' = [event EXCEPT ![q] = EnrichEvent(cfg, MetadataOf(r), now, event[q])]
      /\ under' = [under EXCEPT ![q] = Append(under[q], r)]
      /\ event[q] # Nil
  BY <1>3 DEF Enrich
<1>5. q = p
  BY <1>1, <1>2, <1>4
<1>6. under'[p] = Append(under[p], r)
  BY <1>1, <1>4, <1>5
<1>7. r = under[p][Len(under[p])]
  <2> PICK u \in Seq(Requests) : u = under[p]
    BY <1>1
  <2>1. Append(u, r) = Append(u, u[Len(u)]) /\ Len(u) > 0
    BY <1>6
  <2>2. Append(u, r)[Len(u) + 1] = r /\ Append(u, u[Len(u)])[Len(u) + 1] = u[Len(u)]
    BY <2>1
  <2> QED  BY <2>1, <2>2
<1>8. under[p] # <<>>
  BY <1>1
<1>9. Settled(under[p], event[p])
  BY <1>1, <1>4, <1>5, <1>8 DEF EventInv
<1> QED  BY <1>1, <1>4, <1>5, <1>7, <1>9 DEF Settled
-----------------------------------------------------------------------------
\* On its way, an event keeps what it owes to its author and its requests.
THEOREM PathCorrect == Spec => []PathInv
<1>1. Init => PathInv
  BY PathInit
<1>2. PathInv /\ [Next]_vars => PathInv'
  BY PathStep
<1> QED  BY <1>1, <1>2, PTL DEF Spec

\* Every reachable state is well typed: a row always has its messages and a time.
THEOREM TypeCorrect == Spec => []TypeOK
<1>1. PathInv => TypeOK
  BY DEF PathInv
<1> QED  BY <1>1, PathCorrect, PTL

\* enrichEvent never changes, in what is stored, what the author has set.
THEOREM AuthorsWord == Spec => []AuthorPrevails
<1>1. PathInv => AuthorPrevails
  BY StoredAsAuthored
<1> QED  BY <1>1, PathCorrect, PTL

\* What the author left open is filled from the first request that knows it.
THEOREM RequestsWord == Spec => []FirstRequestPrevails
<1>1. PathInv => FirstRequestPrevails
  BY StoredAsRequested
<1> QED  BY <1>1, PathCorrect, PTL

\* The sink keeps one row for an event_id, and every event that it reads has one.
THEOREM OneRow == Spec => []StoredOnce
<1>1. PathInv => StoredOnce
  BY DEF PathInv
<1> QED  BY <1>1, PathCorrect, PTL

\* A consumer stores everything it reads when mode and schema ids agree, and else
\* nothing.
THEOREM WireAgrees == Spec => []StoredWhenSameWire
<1>1. PathInv => StoredWhenSameWire
  BY DEF PathInv
<1> QED  BY <1>1, PathCorrect, PTL

\* Publishing an event again for the same request leaves it as it is.
THEOREM RetryIsHarmless == Spec => RetryChangesNothing
<1>1. PathInv /\ [Next]_vars =>
        [\A p \in Pointers :
           LET n == Len(under[p])
           IN  n > 0 /\ under'[p] = Append(under[p], under[p][n]) => event'[p] = event[p]]_vars
  BY RetryStep
<1> QED  BY <1>1, PathCorrect, PTL DEF Spec, RetryChangesNothing
=============================================================================
