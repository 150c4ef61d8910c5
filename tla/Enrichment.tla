---------------------------- MODULE Enrichment ----------------------------
(***************************************************************************)
(* What an event holds: what its author sets, what enrichEvent fills in    *)
(* from the request and the configuration, and what the sink stores of it. *)
(*                                                                         *)
(* A message field that is a pointer is Nil or a record.  details has two  *)
(* keys here, the ones the library writes; NilMap is a Struct without a    *)
(* map.  Category, action, operation, status and the resource are the      *)
(* author's alone: nothing reads or writes them on the way.                *)
(***************************************************************************)
EXTENDS Integers, Sequences, Functions, TLC

CONSTANTS
  Nil,        \* a nil pointer, a key or claim that is not there
  NilMap,     \* &structpb.Struct{}
  Text        \* what the program's strings hold

Absent == Nil

\* The messages of event.proto, by the fields that something here reads or writes.
RequestContexts ==
  [ClientIp : Text, CorrelationId : Text, UserAgent : Text,
   SourceService : Text, Environment : Text]
ActorMessages == [Id : Text, Type : Text, DisplayName : Text]
Structs ==
  [service_version : {Absent} \union Text, environment : {Absent} \union Text]

\* Nil and NilMap are like no text, number or message.
ASSUME MessageAssumption ==
  /\ {"", "1.0", "user", "anonymous"} \subseteq Text
  /\ Nil # NilMap
  /\ Nil \notin Text
  /\ Nil \notin Int
  /\ Nil \notin RequestContexts
  /\ Nil \notin ActorMessages
  /\ {Nil, NilMap} \intersect Structs = {}

InvalidText == "<invalid UTF-8>"    \* a header may hold any bytes, a proto string may not

Fill_Overwrites(old, new) == IF new # "" THEN new ELSE old
Fill(old, new) == IF old = "" THEN new ELSE old
-----------------------------------------------------------------------------
(***************************************************************************)
(* Requests.                                                               *)
(***************************************************************************)
\* The first address of X-Forwarded-For, even when it is blank; else X-Real-IP, else
\* the peer.
ClientIP(r) ==
  IF r.Forwarded # <<>> THEN Head(r.Forwarded) ELSE Fill(r.RealIP, r.RemoteAddr)

\* %v of a float64 takes to the exponent at a million.
Sprintf(n) == IF n < 1000000 THEN ToString(n) ELSE ToString(n) \o "e+00"

\* The claims of the token, which nobody verifies: sub, even when it is empty; else
\* user_id as text, else as a number.
UserID(claims) ==
  CASE claims.Sub # Absent -> claims.Sub
    [] claims.Sub = Absent /\ claims.UserText # Absent -> claims.UserText
    [] claims.Sub = Absent /\ claims.UserText = Absent ->
         IF claims.UserNumber = Absent THEN "" ELSE Sprintf(claims.UserNumber)

\* Without a bearer token that parses, Claims has nothing in it.
ExtractRequestMetadata(r) ==
  [ClientIP      |-> ClientIP(r),
   UserAgent     |-> r.UserAgent,
   CorrelationID |-> r.RequestID,
   UserID        |-> UserID(r.Claims),
   UserEmail     |-> IF r.Claims.Email = Absent THEN "" ELSE r.Claims.Email]

RequestMetadata ==
  [ClientIP : Text, UserAgent : Text, CorrelationID : Text,
   UserID : Text, UserEmail : Text]

\* What PublishEvent finds in its context: Nil without one of the middlewares.  A nil
\* and an empty RequestMetadata fill the same.
MetadataOf(r) ==
  IF r = Nil
  THEN [ClientIP |-> "", UserAgent |-> "", CorrelationID |-> "", UserID |-> "", UserEmail |-> ""]
  ELSE ExtractRequestMetadata(r)
-----------------------------------------------------------------------------
(***************************************************************************)
(* enrichEvent.                                                            *)
(***************************************************************************)
EmptyContext == [ClientIp |-> "", CorrelationId |-> "", UserAgent |-> "",
                 SourceService |-> "", Environment |-> ""]
EmptyActor == [Id |-> "", Type |-> "", DisplayName |-> ""]
EmptyDetails == [service_version |-> Absent, environment |-> Absent]

OrEmpty(msg, empty) == IF msg = Nil THEN empty ELSE msg

EnrichContext(cfg, meta, context) ==
  LET rc == OrEmpty(context, EmptyContext)
  IN  [ClientIp      |-> Fill(rc.ClientIp, meta.ClientIP),
       CorrelationId |-> Fill(rc.CorrelationId, meta.CorrelationID),
       UserAgent     |-> Fill(rc.UserAgent, meta.UserAgent),
       SourceService |-> Fill(rc.SourceService, cfg.ServiceName),
       Environment   |-> Fill(rc.Environment, cfg.Environment)]

EnrichActor_TypeFirst(meta, actor) ==
  LET a == OrEmpty(actor, EmptyActor)
  IN  [Id          |-> Fill(a.Id, meta.UserID),
       Type        |-> Fill(a.Type, IF a.Id # "" THEN "user" ELSE "anonymous"),
       DisplayName |-> Fill(a.DisplayName, meta.UserEmail)]
EnrichActor(meta, actor) ==
  LET a  == OrEmpty(actor, EmptyActor)
      id == Fill(a.Id, meta.UserID)
  IN  [Id          |-> id,
       Type        |-> Fill(a.Type, IF id # "" THEN "user" ELSE "anonymous"),
       DisplayName |-> Fill(a.DisplayName, meta.UserEmail)]

\* service_version is written over what is there; environment only when it is missing.
EnrichDetails_NilStays(cfg, details) == details
EnrichDetails(cfg, details) ==
  LET d == OrEmpty(details, EmptyDetails)
  IN  IF d = NilMap THEN NilMap ELSE
      [service_version |-> IF cfg.ServiceVersion # "" THEN cfg.ServiceVersion
                                                      ELSE d.service_version,
       environment     |-> IF d.environment = Absent /\ cfg.Environment # ""
                           THEN cfg.Environment ELSE d.environment]

\* There is something to write, and no map to write it to.
Panics(cfg, ev) == ev.details = NilMap /\ (cfg.ServiceVersion # "" \/ cfg.Environment # "")

\* The event after enrichEvent; when that panics, details has not been changed yet.
EnrichEvent_NewTime(cfg, meta, now, ev) ==
  [event_id       |-> ev.event_id,
   schema_version |-> Fill(ev.schema_version, "1.0"),
   timestamp      |-> now,
   context        |-> EnrichContext(cfg, meta, ev.context),
   actor          |-> EnrichActor(meta, ev.actor),
   details        |-> EnrichDetails(cfg, ev.details)]
EnrichEvent(cfg, meta, now, ev) ==
  [event_id       |-> ev.event_id,
   schema_version |-> Fill(ev.schema_version, "1.0"),
   timestamp      |-> IF ev.timestamp = Nil THEN now ELSE ev.timestamp,
   context        |-> EnrichContext(cfg, meta, ev.context),
   actor          |-> EnrichActor(meta, ev.actor),
   details        |-> EnrichDetails(cfg, ev.details)]

\* proto.Marshal refuses an event with text that is not UTF-8.
Marshals(ev) == InvalidText \notin Range(ev.context) \union Range(ev.actor)
-----------------------------------------------------------------------------
(***************************************************************************)
(* The sink.                                                               *)
(***************************************************************************)
\* The row of audit_events that is made of an event.
ConvertToModel(pb) ==
  LET a  == OrEmpty(pb.actor, EmptyActor)
      rc == OrEmpty(pb.context, EmptyContext)
  IN  [EventID |-> pb.event_id, Timestamp |-> pb.timestamp,
       SchemaVersion |-> pb.schema_version,
       ActorID |-> a.Id, ActorType |-> a.Type, ActorDisplayName |-> a.DisplayName,
       ClientIP |-> rc.ClientIp, CorrelationID |-> rc.CorrelationId,
       UserAgent |-> rc.UserAgent, SourceService |-> rc.SourceService,
       Environment |-> rc.Environment,
       Details |-> IF pb.details = NilMap THEN EmptyDetails ELSE pb.details]
=============================================================================
