---------------------------- MODULE MCEventPath ----------------------------
(***************************************************************************)
(* EventPath for TLC: requests with and without headers, tokens and        *)
(* middleware, and configurations and consumers that fit or do not.        *)
(***************************************************************************)
EXTENDS EventPath

CONSTANTS p1, p2

MCText == STRING

Claims(sub, text, number, email) ==
  [Sub |-> sub, UserText |-> text, UserNumber |-> number, Email |-> email]
Request(forwarded, real, agent, id, claims) ==
  [Forwarded |-> forwarded, RealIP |-> real, RemoteAddr |-> "peer", UserAgent |-> agent,
   RequestID |-> id, Claims |-> claims]

MCRequests ==
  {Nil,
   Request(<<"client", "proxy">>, "proxy", "browser", "r1", Claims("ann", "a", 1, "ann@")),
   Request(<<>>, "real", InvalidText, "r2", Claims(Nil, Nil, 1000000, Nil)),
   Request(<<>>, "", "curl", "", Claims(Nil, Nil, Nil, Nil))}

MCLiterals ==
  {[event_id |-> "", schema_version |-> "", timestamp |-> Nil,
    context |-> [EmptyContext EXCEPT !.CorrelationId = "job", !.UserAgent = "import"],
    actor |-> Nil, details |-> NilMap],
   [event_id |-> "", schema_version |-> "2", timestamp |-> 0,
    context |-> [EmptyContext EXCEPT !.ClientIp = "known", !.SourceService = "proxy",
                                     !.Environment = "test"],
    actor |-> EmptyActor, details |-> EmptyDetails]}
MCActors == {[Id |-> "bob", Type |-> "", DisplayName |-> ""],
             [Id |-> "", Type |-> "system", DisplayName |-> ""]}
MCDetailMaps == {[service_version |-> "mine", environment |-> ""]}

Library(mode, key, value, text) ==
  [Mode |-> mode, SchemaIDKey |-> key, SchemaIDValue |-> value, ServiceName |-> text,
   ServiceVersion |-> text, Environment |-> text]
Sarama == [Kind |-> "sarama", SchemaIDKey |-> 0, SchemaIDValue |-> 0]
Rest(key, value) == [Kind |-> "rest", SchemaIDKey |-> key, SchemaIDValue |-> value]

MCSetups ==
  {<<Library("binary", 0, 0, "cfg"), Sarama>>,
   <<Library("binary", 0, 0, ""), Rest(0, 0)>>,
   <<Library("schema-registry", 1, 2, ""), Rest(1, 2)>>,
   <<Library("schema-registry", 1, 2, "cfg"), Sarama>>,
   <<Library("schema-registry", -1, 5, "cfg"), Rest(-1, 5)>>,
   <<Library("schema-registry", -1, 5, ""), Rest(3, 1)>>}

Symmetry == Permutations(Pointers)
=============================================================================
