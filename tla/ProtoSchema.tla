------------------------------ MODULE ProtoSchema ------------------------------
(***************************************************************************)
(* proc-macro: the messages of the .proto schema that is generated for a   *)
(* program, and the indices of its dispatch messages among them            *)
(* (render/proto_schema_string.rs).                                        *)
(*                                                                         *)
(* A schema is [types, oneofs]: types with a name and a kind, and oneofs   *)
(* with the name of the message they are in, a kind and whether they have  *)
(* no variants.  The name of a message is <<prefix, name>>.  An index that *)
(* may be absent is a sequence of at most one number.                      *)
(***************************************************************************)
EXTENDS Integers, Sequences, SequencesExt

Kinds == {"defined", "account", "helper", "instruction", "event"}

NamesOf(schema, kinds) == {t.name : t \in {u \in ToSet(schema.types) : u.kind \in kinds}}

\* colliding_names: instructions and events that are named like a type or an account.
CollidingNames(schema) ==
  NamesOf(schema, {"instruction", "event"}) \cap NamesOf(schema, {"defined", "account", "helper"})

\* build_event_rename_map, build_instruction_rename_map and resolve_proto_name.
ProtoName(schema, t) ==
  CASE t.kind = "event" /\ t.name \in NamesOf(schema, Kinds \ {"event"}) -> <<"Evt", t.name>>
    [] t.kind = "instruction" /\ t.name \in CollidingNames(schema) -> <<"Ix", t.name>>
    [] OTHER -> <<"", t.name>>

\* The types that are written: a oneof's message is written later, and a name that was
\* seen is skipped.
RenderedTypes(schema) ==
  LET name(i) == ProtoName(schema, schema.types[i])
      rendered(i) == /\ name(i) \notin {<<"", o.parent>> : o \in ToSet(schema.oneofs)}
                     /\ \A j \in 1 .. i - 1 : name(j) # name(i)
      written == SelectSeq([i \in DOMAIN schema.types |-> i], rendered)
  IN [k \in DOMAIN written |-> name(written[k])]

\* The message around all accounts, if there are any.
AccountDispatch(schema) ==
  IF NamesOf(schema, {"account"}) = {} THEN <<>>
  ELSE <<<<"", IF "ProgramAccount" \in NamesOf(schema, {"account"})
               THEN "ProgramAccountOutput" ELSE "ProgramAccount">>>>

RenderedOneofs(schema) == SelectSeq(schema.oneofs, LAMBDA o : ~o.empty)

\* The position of the dispatch oneof of a kind among those written; 0 if there is none.
OneofOf(schema, kind) ==
  LET oneofs == RenderedOneofs(schema)
      found == {i \in DOMAIN oneofs : oneofs[i].kind = kind}
  IN IF found = {} THEN 0 ELSE CHOOSE i \in found : \A j \in found : j <= i

\* A mutation: a type is counted before it is found to be a duplicate.
TypesCountedFirst(schema) == Len(schema.types)

\* What message_count grows by over the types: those that are written.
TypesCounted(schema) == Len(RenderedTypes(schema))

\* proto_schema_string: the public key first, then the types, the accounts, the oneofs and
\* the wrapper of instructions and events; the indices are message_count at each.
ProtoSchemaString(schema) ==
  LET accounts == AccountDispatch(schema)
      oneofs == RenderedOneofs(schema)
      instructions == OneofOf(schema, "instruction")
      events == OneofOf(schema, "event")
      afterTypes == 1 + TypesCounted(schema)
      afterAccounts == afterTypes + Len(accounts)
      both == instructions # 0 /\ events # 0
  IN [messages |-> <<<<"", "PublicKey">>>> \o RenderedTypes(schema) \o accounts
                     \o [i \in DOMAIN oneofs |-> <<"", oneofs[i].parent>>]
                     \o (IF both THEN <<<<"", "ProgramEventOutput">>>> ELSE <<>>),
      account_dispatch_index |-> IF accounts = <<>> THEN <<>> ELSE <<afterTypes>>,
      instruction_dispatch_index |-> IF instructions = 0 THEN <<>> ELSE <<afterAccounts + instructions - 1>>,
      program_event_output_index |-> IF both THEN <<afterAccounts + Len(oneofs)>> ELSE <<>>]
=============================================================================
