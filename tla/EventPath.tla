----------------------------- MODULE EventPath -----------------------------
(***************************************************************************)
(* The way of an event: an author makes it and publishes it while a        *)
(* request is served, the library enriches and inserts it, the worker      *)
(* encodes and sends the row, a consumer of the sink reads the record and  *)
(* stores it.                                                              *)
(*                                                                         *)
(* enrichEvent works on the author's event, through its pointer: an event  *)
(* that is published again, after an error or for another request, starts  *)
(* from what the last attempt left.                                        *)
(*                                                                         *)
(* Order, failures and repetition on the way are the matter of OutboxRelay *)
(* and SinkConsumer: here the outbox and the topic are sets, from which    *)
(* anything may be taken next, or never, and a record that is read twice   *)
(* is stored once.                                                         *)
(***************************************************************************)
EXTENDS WireFormat, Enrichment, FiniteSetsExt

CONSTANTS
  Pointers,     \* the events in the memory of a service
  Literals,     \* events that an author writes as a struct, without NewEvent
  Actors,       \* arguments of SetActor
  DetailMaps,   \* arguments of SetDetails
  Requests,     \* the requests a service gets; Nil without a middleware
  Setups,       \* the Config of the library, with the consumer of the sink
  MaxPublishes  \* bound: calls of PublishEvent

\* The ids of hand-written events are their author's affair, but they are not made up
\* to equal the UUID that NewEvent gives to an event, which stands for its pointer.
HandwrittenIds == {ev.event_id : ev \in Literals}
Events ==
  [event_id : Pointers \union HandwrittenIds, schema_version : Text,
   timestamp : {Nil} \union Int, context : {Nil} \union RequestContexts,
   actor : {Nil} \union ActorMessages, details : {Nil, NilMap} \union Structs]

Configs ==
  [Mode : {"binary", "schema-registry"}, SchemaIDKey : Int, SchemaIDValue : Int,
   ServiceName : Text, ServiceVersion : Text, Environment : Text]
Sinks == [Kind : {"sarama", "rest"}, SchemaIDKey : Int, SchemaIDValue : Int]

ASSUME PathAssumption ==
  /\ Nil \notin Events
  /\ Literals \subseteq Events
  /\ Pointers \intersect HandwrittenIds = {}
  /\ Actors \subseteq ActorMessages
  /\ DetailMaps \subseteq Structs
  /\ \A r \in Requests : MetadataOf(r) \in RequestMetadata
  /\ Setups \subseteq Configs \X Sinks
  /\ MaxPublishes \in Nat

VARIABLES
  cfg,          \* the library's Config
  sink,         \* the consumer and the schema ids it expects
  event,        \* event[p]: what p points to; Nil before it is made
  own,          \* own[p], history: what the author has set
  under,        \* under[p], history: the requests p has been published for
  now,          \* the clock: calls of PublishEvent so far
  outbox,       \* rows inserted; with the history of their event
  topic,        \* records sent
  read,         \* history: the records the consumer has read
  stored        \* audit_events: the rows, and what they were made of

vars == <<cfg, sink, event, own, under, now, outbox, topic, read, stored>>
env == <<cfg, sink>>
downstream == <<topic, read, stored>>

Init ==
  /\ \E setup \in Setups : cfg = setup[1] /\ sink = setup[2]
  /\ event = [p \in Pointers |-> Nil]
  /\ own = event
  /\ under = [p \in Pointers |-> <<>>]
  /\ now = 0
  /\ outbox = {}
  /\ topic = {}
  /\ read = {}
  /\ stored = {}
-----------------------------------------------------------------------------
(***************************************************************************)
(* Authors.  They do not change an event that they have published.         *)
(***************************************************************************)
Set(p, ev) ==
  /\ event' = [event EXCEPT ![p] = ev]
  /\ own' = [own EXCEPT ![p] = ev]
  /\ UNCHANGED <<env, under, now, outbox, downstream>>

Draft(p) == event[p] # Nil /\ under[p] = <<>>

\* The UUID of the event stands for itself: no other event has it.
NewEvent(p) ==
  /\ event[p] = Nil
  /\ Set(p, [event_id |-> p, schema_version |-> "1.0", timestamp |-> now,
             context |-> Nil, actor |-> Nil, details |-> Nil])

WriteLiteral(p) ==
  /\ event[p] = Nil
  /\ \E ev \in Literals : Set(p, ev)

SetActor(p) ==
  /\ Draft(p)
  /\ \E a \in Actors : Set(p, [event[p] EXCEPT !.actor = a])

\* A nil map, or one with a value that a Struct cannot hold, changes nothing.
SetDetails(p) ==
  /\ Draft(p)
  /\ \E d \in DetailMaps : Set(p, [event[p] EXCEPT !.details = d])
-----------------------------------------------------------------------------
(***************************************************************************)
(* PublishEvent and PublishEventWithTx.                                    *)
(***************************************************************************)
\* The call begins: whatever becomes of it, p points to an enriched event.
Enrich(p, r) ==
  /\ event[p] # Nil
  /\ now < MaxPublishes
  /\ now' = now + 1
  /\ event' = [event EXCEPT ![p] = EnrichEvent(cfg, MetadataOf(r), now, @)]
  /\ under' = [under EXCEPT ![p] = Append(@, r)]
  /\ UNCHANGED <<env, own, downstream>>

\* The row is inserted, even if the answer to the INSERT is lost.
PublishEvent(p, r) ==
  /\ Enrich(p, r)
  /\ ~Panics(cfg, event[p])
  /\ Marshals(event'[p])
  /\ outbox' = outbox \union
       {[event |-> event'[p], of |-> p, own |-> own[p], under |-> under'[p]]}

\* Writing into the nil map panics, marshalling or the INSERT returns an error.
PublishEventFails(p, r) ==
  /\ Enrich(p, r)
  /\ UNCHANGED outbox
-----------------------------------------------------------------------------
(***************************************************************************)
(* The worker and the sink.                                                *)
(***************************************************************************)
Send(row) ==
  /\ row \in outbox
  /\ topic' = topic \union {Encode(cfg, "key", row)}
  /\ topic' # topic
  /\ UNCHANGED <<env, event, own, under, now, outbox, read, stored>>

\* An event that is read is stored, unless there is a row with its event_id.
Save_Inserts(row) ==
  stored' = stored \union {[model |-> ConvertToModel(row.event), row |-> row]}
Save(row) ==
  IF \E s \in stored : s.model.EventID = row.event.event_id
  THEN UNCHANGED stored
  ELSE stored' = stored \union {[model |-> ConvertToModel(row.event), row |-> row]}

Receive(rec) ==
  /\ rec \in topic \ read
  /\ read' = read \union {rec}
  /\ IF Reads(sink, rec) THEN Save(rec.value.data) ELSE UNCHANGED stored
  /\ UNCHANGED <<env, event, own, under, now, outbox, topic>>
-----------------------------------------------------------------------------
Author(p) == NewEvent(p) \/ WriteLiteral(p) \/ SetActor(p) \/ SetDetails(p)

Next ==
  \/ \E p \in Pointers : Author(p)
  \/ \E p \in Pointers, r \in Requests : PublishEvent(p, r) \/ PublishEventFails(p, r)
  \/ \E row \in outbox : Send(row)
  \/ \E rec \in topic : Receive(rec)

Spec == Init /\ [][Next]_vars
-----------------------------------------------------------------------------
(***************************************************************************)
(* Properties.                                                             *)
(***************************************************************************)
\* An event is stamped by the clock, or by the author who wrote it by hand.
Stamps == 0 .. now \union {ev.timestamp : ev \in Literals}

\* Messages may be missing in an author's event, but not in a row.
TypeOK ==
  /\ \E setup \in Setups : cfg = setup[1] /\ sink = setup[2]
  /\ event \in [Pointers -> {Nil} \union Events]
  /\ own \in [Pointers -> {Nil} \union Events]
  /\ now \in 0 .. MaxPublishes
  /\ under \in [Pointers -> Seq(Requests)]
  /\ \A p \in Pointers : event[p] # Nil => event[p].timestamp \in {Nil} \union Stamps
  /\ \A row \in outbox :
       /\ row \in [event : Events, of : Pointers, own : Events, under : Seq(Requests)]
       /\ row.event.timestamp \in Stamps \ {Nil}
       /\ row.event.context \in RequestContexts
       /\ row.event.actor \in ActorMessages
       /\ row.event.details \in Structs \union {NilMap}
  /\ \A rec \in topic : rec.value.data \in outbox
  /\ read \subseteq topic
  /\ \A s \in stored : s.row \in outbox

\* Whether text that an author may have set has come through.
Kept(text, value) == text # "" => value = text

\* What the author sets prevails over the request and the configuration, however
\* often the event is published: the event's id, schema_version and time, the actor, all
\* of the context, and the environment among the details; service_version only if the
\* library has none of its own.
AuthorPrevails ==
  \A s \in stored :
    LET author == s.row.own
    IN  /\ s.model.EventID = author.event_id
        /\ Kept(author.schema_version, s.model.SchemaVersion)
        /\ author.timestamp # Nil => s.model.Timestamp = author.timestamp
        /\ author.actor # Nil =>
             /\ Kept(author.actor.Id, s.model.ActorID)
             /\ Kept(author.actor.Type, s.model.ActorType)
             /\ Kept(author.actor.DisplayName, s.model.ActorDisplayName)
        /\ author.context # Nil =>
             /\ Kept(author.context.ClientIp, s.model.ClientIP)
             /\ Kept(author.context.CorrelationId, s.model.CorrelationID)
             /\ Kept(author.context.UserAgent, s.model.UserAgent)
             /\ Kept(author.context.SourceService, s.model.SourceService)
             /\ Kept(author.context.Environment, s.model.Environment)
        /\ author.details \notin {Nil, NilMap} =>
             /\ author.details.environment # Absent =>
                  s.model.Details.environment = author.details.environment
             /\ cfg.ServiceVersion = "" =>
                  s.model.Details.service_version = author.details.service_version

\* What the first request that knows it says of f.
FirstGiven(requests, f) ==
  LET given == {i \in DOMAIN requests : MetadataOf(requests[i])[f] # ""}
  IN  IF given = {} THEN "" ELSE MetadataOf(requests[Min(given)])[f]

\* An event is about the request it was first published for: what a later one says is
\* taken only where all before it said nothing, and an actor that was anonymous stays
\* so.  An event that is published for one request is not mixed with another.
FirstRequestPrevails ==
  \A s \in stored :
    LET author == s.row.own
        Given(f) == FirstGiven(s.row.under, f)
    IN  /\ author.context = Nil =>
             /\ s.model.ClientIP = Given("ClientIP")
             /\ s.model.CorrelationID = Given("CorrelationID")
             /\ s.model.UserAgent = Given("UserAgent")
        /\ author.actor = Nil =>
             /\ s.model.ActorID = Given("UserID")
             /\ s.model.ActorDisplayName = Given("UserEmail")
             /\ s.model.ActorType = IF MetadataOf(s.row.under[1]).UserID = ""
                                    THEN "anonymous" ELSE "user"

\* An event is stored once, and an event that NewEvent made is not displaced by
\* another; events that are written by hand without an id share one row.
StoredOnce ==
  /\ \A s, t \in stored : s.model.EventID = t.model.EventID => s = t
  /\ \A rec \in read :
       LET row == rec.value.data
       IN  Reads(sink, rec) =>
             \E s \in stored :
               /\ s.model.EventID = row.event.event_id
               /\ row.event.event_id \notin HandwrittenIds => s.row.of = row.of

\* The library and the sink are set up for each other: no header and no look for
\* one, or a header with the ids that the sink expects, once they are cut to 32 bits.
SameWire ==
  \/ cfg.Mode = "binary" /\ sink.Kind = "sarama"
  \/ /\ cfg.Mode = "schema-registry" /\ sink.Kind = "rest"
     /\ sink.SchemaIDKey = cfg.SchemaIDKey % IdModulus
     /\ sink.SchemaIDValue = cfg.SchemaIDValue % IdModulus

\* When both sides agree, audit_events has a row with the event_id of every record that
\* was read; when they do not, it has none for any of them, in silence.  A sink that
\* expects an id that does not fit expects in vain.
StoredWhenSameWire ==
  \A rec \in read :
    (\E s \in stored : s.model.EventID = rec.value.data.event.event_id) <=> SameWire

\* What an event on its way has kept of its author's, and what it owes the requests.
KeepsAuthor(author, ev) ==
  /\ ev.event_id = author.event_id
  /\ Kept(author.schema_version, ev.schema_version)
  /\ author.timestamp # Nil => ev.timestamp = author.timestamp
  /\ author.actor # Nil =>
       /\ ev.actor # Nil
       /\ \A f \in {"Id", "Type", "DisplayName"} : Kept(author.actor[f], ev.actor[f])
  /\ author.context # Nil =>
       /\ ev.context # Nil
       /\ \A f \in {"ClientIp", "CorrelationId", "UserAgent", "SourceService", "Environment"} :
            Kept(author.context[f], ev.context[f])
  /\ author.details \notin {Nil, NilMap} =>
       /\ ev.details \notin {Nil, NilMap}
       /\ author.details.environment # Absent =>
            ev.details.environment = author.details.environment
       /\ cfg.ServiceVersion = "" =>
            ev.details.service_version = author.details.service_version

KeepsRequests(author, requests, ev) ==
  /\ ev.context # Nil /\ ev.actor # Nil
  /\ author.context = Nil =>
       /\ ev.context.ClientIp = FirstGiven(requests, "ClientIP")
       /\ ev.context.CorrelationId = FirstGiven(requests, "CorrelationID")
       /\ ev.context.UserAgent = FirstGiven(requests, "UserAgent")
  /\ author.actor = Nil =>
       /\ ev.actor.Id = FirstGiven(requests, "UserID")
       /\ ev.actor.DisplayName = FirstGiven(requests, "UserEmail")
       /\ ev.actor.Type = IF MetadataOf(requests[1]).UserID = "" THEN "anonymous" ELSE "user"

\* The last request has nothing more to say.
Settled(requests, ev) ==
  \A t \in 0 .. MaxPublishes :
    EnrichEvent(cfg, MetadataOf(requests[Len(requests)]), t, ev) = ev

\* The parts of the inductive invariant.  In memory: an event that is not published yet
\* is the author's, one that is keeps what it owes to author and requests.
EventInv ==
  \A p \in Pointers :
    /\ (event[p] = Nil) <=> (own[p] = Nil)
    /\ under[p] = <<>> => event[p] = own[p]
    /\ under[p] # <<>> => event[p] # Nil
    /\ event[p] # Nil =>
         /\ event[p].event_id \in {p} \union HandwrittenIds
         /\ KeepsAuthor(own[p], event[p])
         /\ under[p] # <<>> =>
              KeepsRequests(own[p], under[p], event[p]) /\ Settled(under[p], event[p])

\* In the outbox: the row of an event, and it still does.
RowInv ==
  \A row \in outbox :
    /\ row.event.event_id \in {row.of} \union HandwrittenIds
    /\ KeepsAuthor(row.own, row.event)
    /\ KeepsRequests(row.own, row.under, row.event)

\* Beyond: a record is the encoding of a row, and what is stored is made of one.
WireInv ==
  /\ \A rec \in topic : rec = Encode(cfg, "key", rec.value.data)
  /\ \A s \in stored : s.model = ConvertToModel(s.row.event)
  /\ stored # {} => SameWire

PathInv == TypeOK /\ EventInv /\ RowInv /\ WireInv /\ StoredOnce /\ StoredWhenSameWire

\* To publish an event again for the same request, as one does after an error,
\* changes nothing in it: its copies in the outbox are equal.
RetryChangesNothing ==
  [][\A p \in Pointers :
       LET n == Len(under[p])
       IN  n > 0 /\ under'[p] = Append(under[p], under[p][n]) => event'[p] = event[p]]_vars
=============================================================================
