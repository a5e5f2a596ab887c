------------------------------ MODULE SinkRecords ------------------------------
(***************************************************************************)
(* kafka-sink: from a parser's outcome to the record that is produced      *)
(* (sink.rs, events.rs, utils.rs) and its wire format (schema_registry.rs).*)
(*                                                                         *)
(* Bytes are numbers; the data of a record is one byte, the JSON of a      *)
(* fallback event begins with an opening brace.                            *)
(***************************************************************************)
EXTENDS Integers, Sequences, SequencesExt

\* A parser without a fallback topic.
NoTopic == ""

\* What KafkaSinkBuilder keeps of a parser, for instructions and for accounts.
SinkParser(program, topic) == [program_id |-> program, topic |-> topic, fallback_topic |-> NoTopic]
SinkParserWithFallback(program, topic, fallback) ==
  [program_id |-> program, topic |-> topic, fallback_topic |-> fallback]

-----------------------------------------------------------------------------
(* The Confluent wire format.                                              *)

\* schema_id.to_be_bytes.
BigEndian(id) == <<id \div 2^24, (id \div 2^16) % 256, (id \div 2^8) % 256, id % 256>>

\* A mutation: the index is written without the zigzag encoding.
ZigzagPlain(value) == value

Zigzag(value) == IF value >= 0 THEN 2 * value ELSE 2 * (0 - value) - 1

\* ZigzagIter: seven bits a byte, the lowest first, the high bit set on all but the last.
Varint[value \in Nat] ==
  IF value < 128 THEN <<value>> ELSE <<(value % 128) + 128>> \o Varint[value \div 128]

EncodeIndices(indices) ==
  Varint[Zigzag(Len(indices))] \o FlattenSeq([i \in DOMAIN indices |-> Varint[Zigzag(indices[i])]])

\* wrap_payload_with_confluent_wire_format.
WrapPayload(schemaId, indices, payload) ==
  <<0>> \o BigEndian(schemaId) \o EncodeIndices(indices) \o payload

\* get_schema_for_topic finds one.
HasSchema(schemas, topic) == topic \in DOMAIN schemas

\* encode_payload_for_topic: the first message of a schema has an empty list of indices.
EncodePayloadForTopic(schemas, topic, data) ==
  IF HasSchema(schemas, topic)
  THEN WrapPayload(schemas[topic].schema_id,
                   IF schemas[topic].message_index = 0 THEN <<>> ELSE <<schemas[topic].message_index>>,
                   data)
  ELSE data

-----------------------------------------------------------------------------
(* Records.                                                                *)

MakeInstructionRecordKey(slot, signature, path) == <<slot, signature, path>>
MakeAccountRecordKey(slot, pubkey, writeVersion) == <<slot, pubkey, writeVersion>>

\* serde_json of a RawInstructionEvent or RawAccountEvent: the raw data inside an object.
RawEvent(data) == <<123>> \o data \o <<125>>

PreparedRecord(topic, payload, key, isDecoded, kind) ==
  [topic |-> topic, payload |-> payload, key |-> key, is_decoded |-> isDecoded, kind |-> kind]

\* The first parser of the program that decodes the value or has a fallback for its error;
\* 0 where there is none.  A filtered value is never given to a fallback.
Deciding(parsers, program, outcome) ==
  LET decides == {i \in DOMAIN parsers :
                    /\ parsers[i].program_id = program
                    /\ \/ outcome[i] = "parsed"
                       \/ outcome[i] = "error" /\ parsers[i].fallback_topic # NoTopic}
  IN IF decides = {} THEN 0 ELSE CHOOSE i \in decides : \A j \in decides : i <= j

\* The second result: a parser failed and no parser decoded the value.
HadError(parsers, program, outcome) ==
  LET d == Deciding(parsers, program, outcome)
  IN IF d # 0 THEN outcome[d] = "error"
     ELSE \E i \in DOMAIN parsers : parsers[i].program_id = program /\ outcome[i] = "error"

\* The record of a value that was decoded, and of one that a fallback topic is given raw.
PrepareDecoded(schemas, topic, data, key, kind) ==
  PreparedRecord(topic, EncodePayloadForTopic(schemas, topic, data), key, TRUE, kind)
PrepareFallback(topic, data, key, kind) == PreparedRecord(topic, RawEvent(data), key, FALSE, kind)

\* parse_instruction and parse_account: at most one record, and whether a parser failed.
ParseWith(parsers, schemas, program, outcome, key, data, kind) ==
  LET d == Deciding(parsers, program, outcome)
  IN [record |-> CASE d = 0 -> <<>>
                   [] d # 0 /\ outcome[d] = "parsed" ->
                        <<PrepareDecoded(schemas, parsers[d].topic, data, key, kind)>>
                   [] d # 0 /\ outcome[d] = "error" ->
                        <<PrepareFallback(parsers[d].fallback_topic, data, key, kind)>>,
      had_error |-> HadError(parsers, program, outcome)]
=============================================================================
