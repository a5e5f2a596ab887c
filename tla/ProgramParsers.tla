---------------------------- MODULE ProgramParsers ----------------------------
(***************************************************************************)
(* The program parsers: what spl-token-parser, spl-token-extensions-       *)
(* parser, stake-pool-parser and bpf-loader-parser make of one instruction *)
(* and of one account.                                                     *)
(*                                                                         *)
(* An instruction is its name and the accounts it was called with; the     *)
(* accounts are numbers.  Each arm of a parser is a row of ProgramAccounts *)
(* and fills the struct declared there.  Arguments are passed through      *)
(* unchanged and left out.                                                 *)
(*                                                                         *)
(* The p-token batch is a machine of its own: a batch carries entries,     *)
(* each with a share of the accounts and an instruction that may again be  *)
(* a batch; the parser's recursion is the stack "frames".                  *)
(***************************************************************************)
EXTENDS ProgramAccounts, FiniteSets, SequencesExt, TLC

CONSTANTS
  MaxBatchDepth,   \* MAX_BATCH_DEPTH: 8 in the code
  MaxAccounts,     \* bound: the most accounts an instruction is called with
  MaxBatchAccounts,\* bound: the most accounts a batch is called with
  MaxEntries       \* bound: the most entries of one batch

ASSUME ParserBounds ==
  /\ MaxBatchDepth \in Nat \ {0}
  /\ MaxAccounts \in Nat /\ MaxBatchAccounts \in Nat /\ MaxEntries \in Nat

-----------------------------------------------------------------------------
(* One parser per family, and the struct an instruction fills.             *)

TokenRows == TokenTagRows @@ TokenSetupRows @@ TokenAuthorityRows @@ TokenCheckedRows

StakePoolRows ==
  StakePoolValidatorRows @@ StakePoolUserRows @@ StakePoolAuthorityRows
    @@ StakePoolReserveRows @@ StakePoolSlippageRows

\* The arms of each family; n is num_token_accounts, which only one arm looks at.
Arms(n) ==
  [token |-> TokenRows, extension |-> ExtensionRows, common |-> CommonRows,
   transfer_fee |-> TransferFeeRows(n),
   confidential_transfer |-> ConfidentialTransferRows @@ ConfidentialCreditRows,
   confidential_transfer_fee |-> ConfidentialTransferFeeRows,
   token_group |-> TokenGroupRows, token_metadata |-> TokenMetadataRows,
   stake_pool |-> StakePoolRows, bpf_loader |-> BpfLoaderRows]

\* The structs that several arms share.
Shared ==
  [InitializeMint2 |-> "InitializeMint", InitializeAccount3 |-> "InitializeAccount2",
   InitializeMultisig2 |-> "InitializeMultisig", EnableConfidentialCredits |-> "Credits",
   DisableConfidentialCredits |-> "Credits", EnableNonConfidentialCredits |-> "Credits",
   DisableNonConfidentialCredits |-> "Credits"]

Structs ==
  LET token == TokenFields @@ TokenCheckedFields IN
  [token |-> token,
   extension |-> ExtensionFields @@ [SetAuthority |-> token.SetAuthority],
   common |-> CommonFields, transfer_fee |-> TransferFeeFields,
   confidential_transfer |-> ConfidentialTransferFields @@ [InitializeMint |-> token.InitializeMint],
   confidential_transfer_fee |-> ConfidentialTransferFeeFields,
   token_group |-> TokenGroupFields, token_metadata |-> TokenMetadataFields,
   stake_pool |-> StakePoolValidatorFields @@ StakePoolUserFields @@ StakePoolDepositFields
                    @@ StakePoolAuthorityFields @@ StakePoolReserveFields @@ StakePoolSlippageFields,
   bpf_loader |-> BpfLoaderFields]

FieldsOf(family, ix) ==
  Structs[family][IF ix \in DOMAIN Shared THEN Shared[ix] ELSE ix]

-----------------------------------------------------------------------------
(* One arm.                                                                *)

Failed   == [out |-> "error"]
Filtered == [out |-> "filtered"]
Panicked == [out |-> "panic"]

\* A mutation: the check is off by one.
TooFewByTwo(actual, expected) == actual + 1 < expected

\* check_min_accounts_req
TooFew(actual, expected) == actual < expected

\* An index or the start of a slice past the end of the accounts.
ReadsPastEnd(row, n) ==
  \/ \E i \in DOMAIN row.at : row.at[i] >= n
  \/ row.mid # NoList /\ Len(row.at) + row.mid > n
  \/ row.tail # NoList /\ row.tail > n

\* The struct an arm fills: an account per field it reads, a list per slice it takes.
Filled(fields, row, accts) ==
  LET present == SelectSeq(row.opt, LAMBDA i : i < Len(accts))
      k == Len(row.at) + Len(row.opt)
      mids == IF row.mid = NoList THEN 0 ELSE 1
  IN [out |-> "parsed",
      one |-> [f \in {fields[i] : i \in 1 .. Len(row.at) + Len(present)} |->
                 LET i == CHOOSE j \in DOMAIN fields : fields[j] = f
                 IN accts[1 + (row.at \o present)[i]]],
      lists |-> [f \in {fields[k + i] : i \in 1 .. mids + (IF row.tail = NoList THEN 0 ELSE 1)} |->
                 IF f = fields[k + 1] /\ mids = 1
                 THEN SubSeq(accts, Len(row.at) + 1, Len(row.at) + row.mid)
                 ELSE SubSeq(accts, row.tail + 1, Len(accts))]]

ParseArm(family, ix, n, accts) ==
  LET row == Arms(n)[family][ix]
  IN IF TooFew(Len(accts), row.min) THEN Failed
     ELSE IF ReadsPastEnd(row, Len(accts)) THEN Panicked
     ELSE Filled(FieldsOf(family, ix), row, accts) @@ [family |-> family, ix |-> ix]

\* unpack_optional_u64, the argument of UnwrapLamports: what the payload may be.
Payloads == {"empty", "zero", "amount", "bad"}

\* parse_impl of the token parser on anything but a batch.
ParseToken(call, accts) ==
  IF \/ call.ix \notin DOMAIN TokenRows                       \* TokenInstruction::unpack fails
     \/ call.ix = "UnwrapLamports" /\ call.sub = "bad"
  THEN Failed ELSE ParseArm("token", call.ix, 0, accts)

-----------------------------------------------------------------------------
(* The token extensions: which parser gets an instruction.                 *)

\* get_instructions_supported
EnableAndDisable == {"CpiGuardExtension", "MemoTransferExtension"}
InitAndUpdate ==
  {"DefaultAccountStateExtension", "InterestBearingMintExtension", "GroupMemberPointerExtension",
   "GroupPointerExtension", "MetadataPointerExtension", "TransferHookExtension"}

\* The instruction types of the common extensions, in the order of their byte.
CommonTypes(extension) ==
  IF extension \in EnableAndDisable THEN <<"Enable", "Disable">> ELSE <<"Initialize", "Update">>

\* The extensions with an instruction parser of their own.
OwnParser ==
  [TransferFeeExtension |-> "transfer_fee",
   ConfidentialTransferExtension |-> "confidential_transfer",
   ConfidentialTransferFeeExtension |-> "confidential_transfer_fee"]

Extensions == EnableAndDisable \cup InitAndUpdate \cup DOMAIN OwnParser

\* Token-2022 instructions with no arm, which the token parser does not know either.
Token2022Only == {"ScaledUiAmountExtension", "PausableExtension"}

\* The second byte of an extension's instruction: its type, past the last type, or missing
\* (decode_extension_ix_type).
ExtensionTypes(extension) ==
  (IF extension \in DOMAIN OwnParser THEN DOMAIN Arms(0)[OwnParser[extension]]
   ELSE {CommonTypes(extension)[i] : i \in 1 .. 2}) \cup {"unknown", "missing"}

\* parse_impl of the token extensions: the arms of token-2022 instructions, then the token
\* parser; data that is none of those is tried as metadata, then as a group.
ParseExtensions(call, accts) ==
  CASE call.ix \in Extensions ->
         IF call.sub \in {"unknown", "missing"} THEN Failed
         ELSE IF call.ix \in DOMAIN OwnParser
         THEN ParseArm(OwnParser[call.ix], call.sub, call.n, accts)
         ELSE ParseArm("common", call.sub, 0, accts)
    [] call.ix \in DOMAIN ExtensionRows -> ParseArm("extension", call.ix, 0, accts)
    [] call.ix = "TokenMetadata" -> ParseArm("token_metadata", call.sub, 0, accts)
    [] call.ix = "TokenGroup" -> ParseArm("token_group", call.sub, 0, accts)
    [] OTHER -> ParseToken(call, accts)

\* parse of each parser: an instruction of another program is filtered.
Parse(call, accts) ==
  CASE call.foreign -> Filtered
    [] call.parser = "token" -> ParseToken(call, accts)
    [] call.parser = "extensions" -> ParseExtensions(call, accts)
    [] OTHER -> IF call.ix \in DOMAIN Arms(0)[call.parser]
                THEN ParseArm(call.parser, call.ix, 0, accts)
                ELSE Failed                                 \* deserialisation fails

Call(parser, ix, sub, n) == [parser |-> parser, ix |-> ix, sub |-> sub, n |-> n, foreign |-> FALSE]

\* The calls that differ: every instruction, every instruction type, every payload.
Calls ==
     {Call("token", ix, "amount", 0) : ix \in DOMAIN TokenRows \cup {"undecodable"}}
  \cup {Call("token", "UnwrapLamports", p, 0) : p \in Payloads}
  \cup UNION {{Call("extensions", e, t, 0) : t \in ExtensionTypes(e)} : e \in Extensions}
  \cup {Call("extensions", "TransferFeeExtension", "WithdrawWithheldTokensFromAccounts", n) :
          n \in 0 .. MaxAccounts}
  \cup {Call("extensions", ix, "amount", 0) :
          ix \in DOMAIN ExtensionRows \cup DOMAIN TokenRows \cup Token2022Only}
  \cup {Call("extensions", "TokenMetadata", t, 0) : t \in DOMAIN TokenMetadataRows}
  \cup {Call("extensions", "TokenGroup", t, 0) : t \in DOMAIN TokenGroupRows}
  \cup {Call(p, ix, "amount", 0) : p \in {"stake_pool"}, ix \in DOMAIN StakePoolRows \cup {"undecodable"}}
  \cup {Call(p, ix, "amount", 0) : p \in {"bpf_loader"}, ix \in DOMAIN BpfLoaderRows \cup {"undecodable"}}

-----------------------------------------------------------------------------
(* The account parsers.                                                    *)

\* AccountParser::parse of the token program, by the length of the data.
TokenAccountKind(acct) ==
  IF acct.length = "other" THEN Filtered
  ELSE IF acct.sound THEN [out |-> "parsed", kind |-> acct.length] ELSE Failed

\* extension_account_type: the first layout the data unpacks as.
ExtensionAccountType(acct) ==
  CASE "mint" \in acct.unpacksAs -> "mint"
    [] "account" \in acct.unpacksAs -> "account"
    [] "multisig" \in acct.unpacksAs -> "multisig"
    [] OTHER -> "none"

\* A mutation: an extension that cannot be read is left out.
ReadableExtensions(exts) ==
  [out |-> "parsed", extensions |-> SelectSeq(exts, LAMBDA e : e.sound)]

\* build_extensions_for_mint and _for_account: one unreadable extension fails the account.
BuildExtensions(exts) ==
  IF \E i \in DOMAIN exts : ~exts[i].sound THEN Failed
  ELSE [out |-> "parsed", extensions |-> exts]

\* TokenExtensionState::try_unpack; a multisig has no extensions.
TryUnpackExtensions(acct) ==
  CASE ExtensionAccountType(acct) = "none" -> Failed
    [] ExtensionAccountType(acct) = "multisig" -> [out |-> "parsed", extensions |-> <<>>]
    [] OTHER -> BuildExtensions(acct.extensions)

\* NativeStakePoolState::try_unpack: by the first byte, then borsh.
StakePoolNative(acct) ==
  CASE acct.first = 1 /\ acct.sound -> [out |-> "parsed", kind |-> "StakePool"]
    [] acct.first = 2 /\ acct.sound -> [out |-> "parsed", kind |-> "ValidatorList"]
    [] OTHER -> Failed

\* A mutation: the discriminators of the raw form are swapped.
StakePoolProtoSwapped(acct) ==
  CASE acct.first = 2 -> [out |-> "parsed", kind |-> "StakePool"]
    [] acct.first = 1 -> [out |-> "parsed", kind |-> "ValidatorList"]
    [] OTHER -> Failed

\* NativeStakePoolState::try_unpack_proto: by the first byte alone, the bytes are kept raw.
StakePoolProto(acct) ==
  CASE acct.first = 1 -> [out |-> "parsed", kind |-> "StakePool"]
    [] acct.first = 2 -> [out |-> "parsed", kind |-> "ValidatorList"]
    [] OTHER -> Failed

\* AccountParser::parse of the loader; an uninitialised account is filtered.
BpfLoaderAccount(acct) ==
  CASE ~acct.sound -> Failed
    [] acct.first = 0 -> Filtered
    [] OTHER -> [out |-> "parsed", kind |-> <<"Buffer", "Program", "ProgramData">>[acct.first]]

Byte == 0 .. 3
Extension == [type : {"TransferFeeConfig", "MetadataPointer"}, sound : BOOLEAN]

\* What an account's data may look like to each parser.  -1 stands for empty data.
Accounts ==
     {[parser |-> "token", length |-> l, sound |-> s] :
        l \in {"mint", "account", "multisig", "other"}, s \in BOOLEAN}
  \cup {[parser |-> "extensions", unpacksAs |-> u, extensions |-> e] :
        u \in SUBSET {"mint", "account", "multisig"},
        e \in {<<>>} \cup {<<a>> : a \in Extension} \cup {<<a, b>> : a \in Extension, b \in Extension}}
  \cup {[parser |-> "stake_pool", first |-> b, sound |-> s] : b \in {-1} \cup Byte, s \in BOOLEAN}
  \cup {[parser |-> "bpf_loader", first |-> b, sound |-> s] : b \in Byte, s \in BOOLEAN}

ParseAccount(acct) ==
  CASE acct.parser = "token" -> TokenAccountKind(acct)
    [] acct.parser = "extensions" -> TryUnpackExtensions(acct)
    [] acct.parser = "stake_pool" -> StakePoolProto(acct)
    [] acct.parser = "bpf_loader" -> BpfLoaderAccount(acct)

-----------------------------------------------------------------------------
VARIABLES
  input,    \* the call, account or batch being parsed
  frames,   \* the batches being parsed, the outermost first
  result    \* the outcome of the outermost parse, None while it runs

vars == <<input, frames, result>>

None == [out |-> "none"]

Numbered(n) == [i \in 1 .. n |-> i]

\* A batch being read: its accounts, how many the entries took, and the entries read.
Frame(accts) == [accts |-> accts, offset |-> 0, entries |-> <<>>]

Init ==
  /\ input = None /\ frames = <<>> /\ result = None

\* One instruction handed to a parser.
ParseInstruction(call, n, foreign) ==
  /\ input = None
  /\ input' = [call EXCEPT !.foreign = foreign]
  /\ result' = Parse([call EXCEPT !.foreign = foreign], Numbered(n))
  /\ UNCHANGED frames

\* One account handed to a parser.
DecodeAccount(acct) ==
  /\ input = None
  /\ input' = acct
  /\ result' = ParseAccount(acct)
  /\ UNCHANGED frames

\* parse_batch is entered for the outermost batch.
StartBatch(n) ==
  /\ input = None
  /\ input' = [batch |-> n]
  /\ frames' = <<Frame(Numbered(n))>>
  /\ UNCHANGED result

Top == frames[Len(frames)]

\* A mutation: a failed entry fails the batch around it.
EndWithFailure(r) ==
  IF Len(frames) = 1 \/ r.out = "error"
  THEN frames' = <<>> /\ result' = r
  ELSE /\ LET parent == frames[Len(frames) - 1]
              done == [accts |-> Top.accts, parsed |-> TRUE]
          IN frames' = [SubSeq(frames, 1, Len(frames) - 1) EXCEPT
                          ![Len(frames) - 1].entries = Append(parent.entries, done)]
       /\ UNCHANGED result

\* The outermost batch ends with r; an inner one becomes its parent's entry, which keeps
\* its accounts whether or not the inner parse went well (.ok()).
EndWith(r) ==
  IF Len(frames) = 1
  THEN frames' = <<>> /\ result' = r
  ELSE /\ LET parent == frames[Len(frames) - 1]
              done == [accts |-> Top.accts, parsed |-> r.out # "error"]
          IN frames' = [SubSeq(frames, 1, Len(frames) - 1) EXCEPT
                          ![Len(frames) - 1].entries = Append(parent.entries, done)]
       /\ UNCHANGED result

\* The share of the next entry.
Share(n) == SubSeq(Top.accts, Top.offset + 1, Top.offset + n)

\* A mutation: the accounts taken are not counted.
TakeNothing(n) == Top.offset

\* account_offset = account_end
Take(n) == Top.offset + n

\* An entry whose instruction is not a batch: it is parsed, and kept either way.
BatchEntry(call, n) ==
  /\ frames # <<>> /\ Len(Top.entries) < MaxEntries
  /\ Top.offset + n <= Len(Top.accts)
  /\ LET r == ParseToken(call, Share(n))
         e == [accts |-> Share(n), parsed |-> r.out = "parsed"]
     IN frames' = [frames EXCEPT ![Len(frames)].offset = Take(n),
                                 ![Len(frames)].entries = Append(Top.entries, e)]
  /\ UNCHANGED <<input, result>>

\* An entry that is a batch, below the depth limit.
NestedBatch(n) ==
  /\ frames # <<>> /\ Len(Top.entries) < MaxEntries
  /\ Top.offset + n <= Len(Top.accts)
  /\ Len(frames) < MaxBatchDepth
  /\ frames' = Append([frames EXCEPT ![Len(frames)].offset = Take(n)], Frame(Share(n)))
  /\ UNCHANGED <<input, result>>

\* An entry that is a batch at the depth limit: its parse fails at once.
TooDeep(n) ==
  /\ frames # <<>> /\ Len(Top.entries) < MaxEntries
  /\ Top.offset + n <= Len(Top.accts)
  /\ Len(frames) >= MaxBatchDepth
  /\ frames' = [frames EXCEPT
       ![Len(frames)].offset = Take(n),
       ![Len(frames)].entries = Append(Top.entries, [accts |-> Share(n), parsed |-> FALSE])]
  /\ UNCHANGED <<input, result>>

\* An entry without its length, with truncated data, or that asks for more accounts than
\* there are: the batch it belongs to fails.
BrokenEntry ==
  /\ frames # <<>> /\ EndWith(Failed) /\ UNCHANGED input

\* The data is used up: the accounts no entry took are the remaining ones.
BatchDone ==
  /\ frames # <<>>
  /\ EndWith([out |-> "batch", entries |-> Top.entries,
              remaining |-> SubSeq(Top.accts, Top.offset + 1, Len(Top.accts))])
  /\ UNCHANGED input

\* The parser is done with this input.
Done == result # None /\ UNCHANGED vars

Next ==
  \/ \E c \in Calls, n \in 0 .. MaxAccounts, f \in BOOLEAN : ParseInstruction(c, n, f)
  \/ \E a \in Accounts : DecodeAccount(a)
  \/ \E n \in 0 .. MaxBatchAccounts : StartBatch(n)
  \/ \E c \in {Call("token", ix, "amount", 0) : ix \in {"Revoke", "SyncNative", "undecodable"}},
        n \in 0 .. MaxBatchAccounts : BatchEntry(c, n)
  \/ \E n \in 0 .. MaxBatchAccounts : NestedBatch(n)
  \/ \E n \in 0 .. MaxBatchAccounts : TooDeep(n)
  \/ BrokenEntry
  \/ BatchDone
  \/ Done

Spec == Init /\ [][Next]_vars
-----------------------------------------------------------------------------
(* Properties.                                                             *)

\* No parser reads past the end: whatever the instruction, its type, its argument and the
\* number of accounts it came with, an arm's account check covers every index it reads and
\* every slice it takes.  A panic would take the handler's task with it.
NoParserPanics == result.out # "panic"

Flattened(ls) == UNION {{l[i] : i \in DOMAIN l} : l \in {ls[f] : f \in DOMAIN ls}}

\* What an arm reads it reads once: no account appears in two fields, or in a field and in
\* a trailing list, so a list starts after the last field.
EachAccountOnce ==
  result.out = "parsed" /\ "one" \in DOMAIN result =>
    /\ \A f, g \in DOMAIN result.one : f # g => result.one[f] # result.one[g]
    /\ \A f \in DOMAIN result.one : result.one[f] \notin Flattened(result.lists)
    /\ \A f, g \in DOMAIN result.lists : f # g =>
         \A i \in DOMAIN result.lists[f], j \in DOMAIN result.lists[g] :
           result.lists[f][i] # result.lists[g][j]

AuthorityFields ==
  {"owner", "authority", "current_authority", "mint_authority", "mint_freeze_authority",
   "withdraw_withheld_authority", "mint_fee_acc_owner", "extension_authority",
   "confidential_transfer_fee_authority"}

\* Where an instruction carries the signers of a multisig, the last account read by name
\* is the authority they sign for: the arm and the struct it fills agree on the order.
SignersFollowAuthority ==
  result.out = "parsed" /\ "one" \in DOMAIN result =>
    ("multisig_signers" \in DOMAIN result.lists =>
       \E f \in DOMAIN result.one \cap AuthorityFields :
         \A g \in DOMAIN result.one : result.one[g] <= result.one[f])

WithoutSlippage ==
  [DepositStakeWithSlippage |-> "DepositStake", WithdrawStakeWithSlippage |-> "WithdrawStake",
   DepositSolWithSlippage |-> "DepositSol", WithdrawSolWithSlippage |-> "WithdrawSol"]

\* An instruction of the stake pool with a slippage bound names the same accounts as the
\* one without, field by field.
SlippageVariantsAgree ==
  result.out = "parsed" /\ "one" \in DOMAIN result =>
    (result.family = "stake_pool" /\ result.ix \in DOMAIN WithoutSlippage =>
       \E n \in 0 .. MaxAccounts :
         ParseArm("stake_pool", WithoutSlippage[result.ix], 0, Numbered(n)).out = "parsed"
         /\ ParseArm("stake_pool", WithoutSlippage[result.ix], 0, Numbered(n)).one = result.one)

\* The two decoders of a stake-pool account agree: what the typed one accepts the raw one
\* accepts as the same kind of account, and an account is decoded with all of its
\* extensions, in their order, or not at all.
AccountsDecodedWhole ==
  "parser" \in DOMAIN input /\ "ix" \notin DOMAIN input =>
    /\ input.parser = "stake_pool" /\ StakePoolNative(input).out = "parsed" =>
         result = StakePoolNative(input)
    /\ input.parser = "extensions" /\ result.out = "parsed"
       /\ ExtensionAccountType(input) # "multisig" => result.extensions = input.extensions

Taken(frame) == FlattenSeq([i \in DOMAIN frame.entries |-> frame.entries[i].accts])

\* A batch hands out each of its accounts once and in order: at every depth the entries
\* read so far, with the nested batch being read, hold exactly the accounts counted as
\* taken, and in the end the entries and the remaining accounts are the batch's accounts.
BatchAccountsPartition ==
  /\ \A k \in DOMAIN frames :
       Taken(frames[k]) \o (IF k < Len(frames) THEN frames[k + 1].accts ELSE <<>>)
         = SubSeq(frames[k].accts, 1, frames[k].offset)
  /\ result.out = "batch" => Taken(result) \o result.remaining = Numbered(input.batch)

\* The recursion is bounded, and what happens inside a nested batch stays inside: when one
\* ends, well or badly, the batch around it goes on with one more entry.
NestedBatchesContained ==
  [][/\ Len(frames') <= MaxBatchDepth
     /\ Len(frames) > 1 /\ Len(frames') < Len(frames) =>
          /\ result' = result
          /\ Len(frames') = Len(frames) - 1
          /\ Len(frames'[Len(frames')].entries) = Len(frames[Len(frames')].entries) + 1]_vars

\* What a parser returns is read from what it was given: an arm reads no account past the
\* end and none twice, in the order of its struct, and the accounts' own decoders drop
\* nothing.
ParsedWhole ==
  /\ NoParserPanics /\ EachAccountOnce /\ SignersFollowAuthority
  /\ SlippageVariantsAgree /\ AccountsDecodedWhole

\* Batches, nested or not, divide their accounts and keep to themselves what goes wrong
\* inside them.
BatchesContained == []BatchAccountsPartition /\ NestedBatchesContained
=============================================================================
