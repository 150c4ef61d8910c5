---------------------------- MODULE WireFormat ----------------------------
(***************************************************************************)
(* What goes through the topic.  In mode "binary" key and payload are sent *)
(* as they are; in mode "schema-registry" both get a header of five bytes, *)
(* a zero and the 32 bits of a schema id.  A protobuf message never begins *)
(* with a zero (no field has number 0), and neither does a key of text: so *)
(* bytes are either plain or framed, and each reader tells them apart.     *)
(***************************************************************************)
EXTENDS Integers

CONSTANT IdModulus      \* 2^32

ASSUME WireAssumption == IdModulus \in Nat \ {0}

Plain(data) == [framed |-> FALSE, id |-> 0, data |-> data]

\* uint32(schemaID) drops what does not fit, and the sign.
EncodeMessage_Int(schemaID, data) == [framed |-> TRUE, id |-> schemaID, data |-> data]
EncodeMessage(schemaID, data) ==
  [framed |-> TRUE, id |-> schemaID % IdModulus, data |-> data]

\* DecodeMessage of go-outbox and decodeMessage of the sink find this id; on plain
\* bytes they fail, and so does every comparison with an id.
DecodesTo(bytes, schemaID) == bytes.framed /\ bytes.id = schemaID

\* Encode of the BinaryEncoder and of the SchemaRegistryEncoder.
Encode(cfg, key, protoBytes) ==
  IF cfg.Mode = "binary"
  THEN [key |-> Plain(key), value |-> Plain(protoBytes)]
  ELSE [key   |-> EncodeMessage(cfg.SchemaIDKey, key),
        value |-> EncodeMessage(cfg.SchemaIDValue, protoBytes)]

\* The consumer main starts unmarshals the value as it is; the REST consumer strips
\* the headers and skips a record with other ids than it expects.
Reads(sink, rec) ==
  \/ sink.Kind = "sarama" /\ ~rec.value.framed
  \/ /\ sink.Kind = "rest"
     /\ DecodesTo(rec.key, sink.SchemaIDKey)
     /\ DecodesTo(rec.value, sink.SchemaIDValue)
=============================================================================
