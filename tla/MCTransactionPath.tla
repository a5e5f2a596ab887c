--------------------------- MODULE MCTransactionPath ---------------------------
(***************************************************************************)
(* Transactions of up to four instructions of two programs and a           *)
(* precompile, and of up to five calls of one program, so that a return    *)
(* can drop two levels.  Two parsers of program "A", one with a fallback   *)
(* topic, and one of "B".  The schema of the first is generated, with      *)
(* names that collide or come twice and an index that takes two bytes;     *)
(* that of the second has the one message of its topic.                    *)
(***************************************************************************)
EXTENDS TransactionPath

MCParsers ==
  <<SinkParser("A", "a"), SinkParserWithFallback("A", "a2", "raw"), SinkParser("B", "b")>>

MCType(name, kind) == [name |-> name, kind |-> kind]
MCOneof(parent, kind, empty) == [parent |-> parent, kind |-> kind, empty |-> empty]

MCProgram ==
  [types |-> [i \in 1 .. 60 |-> MCType(ToString(i), "defined")]
               \o <<MCType("ProgramAccount", "account"), MCType("Order", "defined"),
                    MCType("Withdraw", "instruction"), MCType("Withdraw", "event"),
                    MCType("Deposit", "instruction"), MCType("Deposit", "instruction"),
                    MCType("1", "instruction"), MCType("2", "event"), MCType("3", "helper")>>,
   oneofs |-> <<MCOneof("Order", "enum", FALSE), MCOneof("None", "enum", TRUE),
                MCOneof("Instructions", "instruction", FALSE), MCOneof("ProgramEvents", "event", FALSE)>>]

MCProto == ProtoSchemaString(MCProgram)

MCSchemaDefs ==
  <<[topic |-> "a", messages |-> MCProto.messages, message_index |-> MCProto.instruction_dispatch_index[1],
     dispatch |-> <<"", "Instructions">>],
    [topic |-> "a2", messages |-> <<<<"", "Instructions">>>>, message_index |-> 0,
     dispatch |-> <<"", "Instructions">>]>>

MCHandlersOf == [p \in {"p", "q", "t"} |-> IF p = "p" THEN {"h"} ELSE {"g", "h"}]
MCPipelines == <<"p", "q">>
=============================================================================
