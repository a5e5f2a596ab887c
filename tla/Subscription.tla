---------------------------- MODULE Subscription ----------------------------
(* A program that builds prefilters call by call, keeps them per parser in *)
(* a Filters, and connects a source with them: PrefilterBuilder and        *)
(* Filters of crates/core/src/lib.rs, the request of the gRPC source and   *)
(* the request of the preconf source.                                      *)
(*                                                                         *)
(* Calls about one kind of update do not touch the fields of another, so a *)
(* behaviour explores one kind (family), with at most MaxCalls calls per   *)
(* builder and MaxBuilds builders.                                         *)
EXTENDS Prefilters

CONSTANTS Ids,          \* parser ids
          BadKey,       \* bytes that are no pubkey
          FilterSets,   \* the argument of account_filters
          SliceLists,   \* the accounts_data_slice of the configuration
          MaxCalls, MaxBuilds

VARIABLES family,       \* the kind of update this behaviour is about
          config,       \* accounts_data_slice
          builder,      \* the PrefilterBuilder in hand
          calls,        \* the calls made on it, for the properties
          filters,      \* Filters: the Option of a prefilter per id
          merged,       \* the prefilters that went into each entry
          builds,       \* how many were built
          request       \* what the connected source sent

vars == <<family, config, builder, calls, filters, merged, builds, request>>

Families == {"account", "transaction", "block", "slot", "slices"}

(* The setters by the kind they are about; the name is the field's. *)
KeySetters == [account |-> {"accounts", "account_owners", "account_cuckoo"},
               transaction |-> {"transaction_accounts_include", "transaction_accounts_required",
                                "transaction_accounts_exclude",
                                "transaction_cuckoo_accounts_include"},
               block |-> {"block_accounts_include", "block_cuckoo_accounts_include"},
               slot |-> {}, slices |-> {}]
BoolSetters == [account |-> {"account_nonempty_txn_signature"},
                transaction |-> {"transaction_vote"},
                block |-> {}, slot |-> {"slot_interslot_updates"}, slices |-> {}]
Flags == [account |-> {"accounts_include_all"}, transaction |-> {},
          block |-> {"block_include_accounts", "block_include_transactions",
                     "block_include_entries"},
          slot |-> {"slots", "block_metas"}, slices |-> {}]
BlockFlags == Flags["block"]

OptFields == UNION {KeySetters[f] \cup BoolSetters[f] : f \in Families}
                \cup {"account_filters", "transaction_signature", "transaction_token_accounts"}

NewBuilder == [error |-> None, field |-> [f \in OptFields |-> None], flags |-> {}]

----------------------------------------------------------------------------
(* The builder. A call either fails or changes the builder; once a call    *)
(* failed the rest do nothing (mutate).                                    *)

(* The error of the last call counts. *)
MutateLast(b, error, changed) ==
    IF error # None THEN [b EXCEPT !.error = error] ELSE [changed EXCEPT !.error = None]
Mutate(b, error, changed) ==
    IF b.error # None THEN b
    ELSE IF error # None THEN [b EXCEPT !.error = error] ELSE changed

(* collect_pubkeys fails before set_opt looks at the field. *)
KeysError(arg) == When(~ arg \subseteq Keys, "BadPubkey")
SetOpt(b, field, argError, val) ==
    Mutate(b, FirstSome(<<argError, When(b.field[field] # None, "AlreadySet")>>),
           [b EXCEPT !.field[field] = Some(val)])

(* The errors a call on its own can give, remembered with the call. *)
Called(op, argError, set) ==
    calls' = Append(calls, [op |-> op, argError |-> argError, given |-> set])

CanCall == Len(calls) < MaxCalls /\ builds < MaxBuilds /\ request = None

CallKeys(op, arg) ==
    /\ CanCall
    /\ builder' = SetOpt(builder, op, KeysError(arg), arg \cap Keys)
    /\ Called(op, KeysError(arg), arg # {})
    /\ UNCHANGED <<family, config, filters, merged, builds, request>>

CallBool(op, b) ==
    /\ CanCall
    /\ builder' = SetOpt(builder, op, None, b)
    /\ Called(op, None, TRUE)
    /\ UNCHANGED <<family, config, filters, merged, builds, request>>

(* account_filters: repeats are dropped by a hash set, which also loses    *)
(* the order.                                                              *)
CallFilters(fs) ==
    /\ CanCall
    /\ \E list \in SetToSeqs(fs) :
          /\ builder' = SetOpt(builder, "account_filters", FirstFilterError(list), list)
          /\ Called("account_filters", FirstFilterError(list), fs # {})
    /\ UNCHANGED <<family, config, filters, merged, builds, request>>

CallText(op, v) ==
    /\ CanCall
    /\ builder' = SetOpt(builder, op, None, v)
    /\ Called(op, None, TRUE)
    /\ UNCHANGED <<family, config, filters, merged, builds, request>>

CallFlag(op) ==
    /\ CanCall
    /\ builder' = Mutate(builder, None, [builder EXCEPT !.flags = @ \cup {op}])
    /\ Called(op, None, TRUE)
    /\ UNCHANGED <<family, config, filters, merged, builds, request>>

(* PrefilterBuilder::build, of a builder without an error. *)
Given(b, f, default) == IF b.field[f] = None THEN default ELSE CHOOSE v \in b.field[f] : TRUE

BuiltAccount(b) ==
    LET account == [accounts |-> Given(b, "accounts", {}),
                    owners |-> Given(b, "account_owners", {}),
                    filters |-> Given(b, "account_filters", <<>>),
                    nonempty_txn_signature |-> b.field["account_nonempty_txn_signature"],
                    cuckoo_accounts |-> Given(b, "account_cuckoo", {})]
    IN  IF "accounts_include_all" \in b.flags
        THEN Some([NoAccount EXCEPT !.filters = account.filters,
                                    !.nonempty_txn_signature = account.nonempty_txn_signature])
        ELSE When(account # NoAccount, account)
BuiltTransaction(b) ==
    LET transaction ==
            [NoTransaction EXCEPT
                !.accounts_include = Given(b, "transaction_accounts_include", {}),
                !.accounts_exclude = Given(b, "transaction_accounts_exclude", {}),
                !.accounts_required = Given(b, "transaction_accounts_required", {}),
                !.vote = b.field["transaction_vote"],
                !.signature = b.field["transaction_signature"],
                !.token_accounts = b.field["transaction_token_accounts"],
                !.cuckoo_accounts_include = Given(b, "transaction_cuckoo_accounts_include", {})]
    IN  When(transaction # NoTransaction, transaction)
BuiltBlock(b) ==
    LET block == [accounts_include |-> Given(b, "block_accounts_include", {}),
                  include |-> b.flags \cap BlockFlags,
                  cuckoo_accounts_include |-> Given(b, "block_cuckoo_accounts_include", {})]
    IN  When(block # NoBlock, block)
BuiltSlotFlagOnly(b) ==
    When("slots" \in b.flags,
         [DefaultSlot EXCEPT !.interslot_updates = b.field["slot_interslot_updates"]])
BuiltSlot(b) ==
    LET slot == [DefaultSlot EXCEPT !.interslot_updates = b.field["slot_interslot_updates"]]
    IN  When("slots" \in b.flags \/ slot # DefaultSlot, slot)

Built(b) == [account |-> BuiltAccount(b), transaction |-> BuiltTransaction(b),
             block_meta |-> "block_metas" \in b.flags,
             block |-> BuiltBlock(b), slot |-> BuiltSlot(b)]

(* build gives the first error: nothing can be subscribed with. *)
BuildFails ==
    /\ calls # <<>> /\ builder.error # None
    /\ builder' = NewBuilder /\ calls' = <<>>
    /\ builds' = builds + 1
    /\ UNCHANGED <<family, config, filters, merged, request>>

CanBuild == calls # <<>> /\ builder.error = None

(* Filters::insert replaces what the parser asked for before. *)
InsertFilter(id) ==
    /\ CanBuild
    /\ filters' = [filters EXCEPT ![id] = Some(Built(builder))]
    /\ merged' = [merged EXCEPT ![id] = {Built(builder)}]
    /\ builder' = NewBuilder /\ calls' = <<>>
    /\ builds' = builds + 1
    /\ UNCHANGED <<family, config, request>>

(* Filters::merge *)
MergeFilter(id) ==
    /\ CanBuild
    /\ filters' = [filters EXCEPT ![id] = MergeOpt(@, Some(Built(builder)),
                                                   {MergePrefilter(p, Built(builder)) : p \in @})]
    /\ merged' = [merged EXCEPT ![id] = @ \cup {Built(builder)}]
    /\ builder' = NewBuilder /\ calls' = <<>>
    /\ builds' = builds + 1
    /\ UNCHANGED <<family, config, request>>

RemoveFilter(id) ==
    /\ filters[id] # None /\ calls = <<>> /\ request = None
    /\ filters' = [filters EXCEPT ![id] = None]
    /\ merged' = [merged EXCEPT ![id] = {}]
    /\ UNCHANGED <<family, config, builder, calls, builds, request>>

----------------------------------------------------------------------------
(* Connecting a source. *)

CanConnect == calls = <<>> /\ request = None

Cuckoos == UNION {{a.cuckoo_accounts : a \in p.account}
                    \cup {t.cuckoo_accounts_include : t \in p.transaction}
                    \cup {b.cuckoo_accounts_include : b \in p.block}
                  : p \in UNION {filters[id] : id \in Ids}}

(* The gRPC source: the data slices are validated, then the filters are    *)
(* converted, each cuckoo filter at one and perhaps at two capacities.     *)
ConnectGrpc ==
    /\ CanConnect
    /\ \E out, out2 \in CuckooOutcomes(UNION Cuckoos) :
          request' =
            IF SlicesError(config) # None
            THEN Some([to |-> "refused"])
            ELSE Some([to |-> "grpc", accounts_data_slice |-> config,
                       entries |-> [id \in {i \in Ids : filters[i] # None} |->
                          SubscribeEntry(CHOOSE p \in filters[id] : TRUE, out, out2)]])
    /\ UNCHANGED <<family, config, builder, calls, filters, merged, builds>>

(* The preconf source. *)
ConnectPreconf ==
    /\ CanConnect /\ family = "transaction"
    /\ LET r == PreconfTransactions(filters)
       IN  request' = IF r.errors # {} THEN Some([to |-> "refused"])
                      ELSE Some([to |-> "preconf", entries |-> r.filters,
                                 vote_rules |-> PreconfVoteRules(filters),
                                 unserved |-> PreconfUnserved(filters)])
    /\ UNCHANGED <<family, config, builder, calls, filters, merged, builds>>

Init ==
    /\ family \in Families
    /\ config \in IF family = "slices" THEN SliceLists ELSE {<<>>}
    /\ builder = NewBuilder /\ calls = <<>> /\ builds = 0
    /\ filters = [id \in Ids |-> None]
    /\ merged = [id \in Ids |-> {}]
    /\ request = None

Calls ==
    \/ \E op \in KeySetters[family], arg \in {{k} : k \in Keys} \cup {{}, {BadKey}} :
          CallKeys(op, arg)
    \/ \E op \in BoolSetters[family], b \in BOOLEAN : CallBool(op, b)
    \/ family = "account" /\ \E fs \in FilterSets : CallFilters(fs)
    \/ family = "transaction" /\ \E s \in {"s1", "s2"} : CallText("transaction_signature", s)
    \/ family = "transaction" /\ \E m \in {"All", "BalanceChanged"} :
          CallText("transaction_token_accounts", m)
    \/ \E op \in Flags[family] : CallFlag(op)

Next == \/ Calls
        \/ BuildFails
        \/ \E id \in Ids : InsertFilter(id) \/ MergeFilter(id) \/ RemoveFilter(id)
        \/ ConnectGrpc \/ ConnectPreconf

Spec == Init /\ [][Next]_vars

----------------------------------------------------------------------------
(* Properties *)

GoodFilters == {f \in UNION FilterSets : FilterError(f) = None}
AccountUpdates == [key : Keys, owner : Keys, satisfies : SUBSET GoodFilters, signed : BOOLEAN]
TransactionUpdates ==
    {u \in [keys : SUBSET Keys, owners : SUBSET Keys, changed : SUBSET Keys,
            vote : BOOLEAN, signature : {"s1", "s2"}, failed : {FALSE}] : u.changed \subseteq u.owners}

(* The entry and every prefilter that went into it leave the same sets     *)
(* empty, and require the same accounts: the fields the server reads as    *)
(* AND, which Filters::merge says it narrows.                              *)
AccountShape(a) == <<a.accounts \cup a.cuckoo_accounts = {}, a.owners = {}>>
TransactionShape(t) ==
    <<t.accounts_include \cup t.cuckoo_accounts_include = {}, t.accounts_required>>
BlockShape(b) == b.accounts_include \cup b.cuckoo_accounts_include = {}

(* Merging never takes anything away from a parser: an update that one of  *)
(* the merged prefilters receives, the entry receives, unless the two      *)
(* differ in a set the server reads as AND. Exclusions, token-account      *)
(* modes, votes, signatures and comparisons all have to widen together     *)
(* for this (the merge methods of core/src/lib.rs).                        *)
MergeReceivesBoth ==
    \A id \in Ids : \A p \in merged[id], m \in filters[id] :
        /\ \A a \in p.account, am \in m.account : AccountShape(a) = AccountShape(am) =>
              \A u \in AccountUpdates : ReceivesAccount(a, u) => ReceivesAccount(am, u)
        /\ \A t \in p.transaction, tm \in m.transaction :
              TransactionShape(t) = TransactionShape(tm) =>
                \A u \in TransactionUpdates : ReceivesTransaction(t, u) => ReceivesTransaction(tm, u)
        /\ \A b \in p.block, bm \in m.block : BlockShape(b) = BlockShape(bm) =>
              b.accounts_include \cup b.cuckoo_accounts_include
                  \subseteq bm.accounts_include \cup bm.cuckoo_accounts_include
              /\ b.include \subseteq bm.include
        /\ \A s \in p.slot, sm \in m.slot :
              (sm.filter_by_commitment => s.filter_by_commitment)
              /\ (TRUE \in s.interslot_updates => TRUE \in sm.interslot_updates)
        /\ (p.account # None => m.account # None) /\ (p.transaction # None => m.transaction # None)
        /\ (p.block # None => m.block # None) /\ (p.slot # None => m.slot # None)
        /\ (p.block_meta => m.block_meta)

(* The keys of an entry on the wire. *)
WireOf(e) == {a.keys : a \in e.accounts} \cup {t.keys : t \in e.transactions}
                \cup {b.keys : b \in e.blocks}
KeysOf(p) == UNION ({a.accounts \cup a.cuckoo_accounts : a \in p.account}
                    \cup {t.accounts_include \cup t.cuckoo_accounts_include : t \in p.transaction}
                    \cup {b.accounts_include \cup b.cuckoo_accounts_include : b \in p.block})

(* Whatever the cuckoo filter could hold, the request still matches every  *)
(* key that was asked for, lists no key twice (the server counts the raw   *)
(* list) and never turns a list of keys into a subscription to everything  *)
(* (CuckooAccounts::to_filter and wire_keys).                              *)
WireMatchesEveryKey ==
    \A r \in request : r.to = "grpc" => \A id \in DOMAIN r.entries : \A p \in filters[id] :
        \A w \in WireOf(r.entries[id]) :
            /\ \A k \in KeysOf(p) : WireMatches(w, {k})
            /\ Cardinality(Range(w.list)) = Len(w.list)
            /\ KeysOf(p) # {} => (w.list # <<>> \/ w.filter # None)

(* A builder reports the first call that went wrong, whatever came after   *)
(* it, and no error when every call was good (mutate and set_opt).         *)
CallError(i) ==
    FirstSome(<<calls[i].argError,
                When(\E j \in 1 .. i - 1 : calls[j].op = calls[i].op
                        /\ calls[i].op \in OptFields /\ calls[j].argError = None, "AlreadySet")>>)
FirstErrorSticks == builder.error = FirstSome([i \in DOMAIN calls |-> CallError(i)])

(* Every call that asks for something has its kind of update subscribed    *)
(* to: none is forgotten because the rest of the kind was left at its      *)
(* defaults (PrefilterBuilder::build).                                     *)
CallsSubscribe ==
    builder.error = None => \A i \in DOMAIN calls : calls[i].given =>
        LET p == Built(builder)
        IN  CASE family = "account" -> p.account # None
              [] family = "transaction" -> p.transaction # None
              [] family = "block" -> p.block # None
              [] calls[i].op = "block_metas" -> p.block_meta
              [] OTHER -> p.slot # None

(* The windows of account data that reach the server do not overlap, none  *)
(* is empty and none runs past the last offset, for any two of them and    *)
(* not only neighbours (AccountsDataSlice::validate_all).                  *)
SlicesDisjoint ==
    \A r \in request : r.to = "grpc" => \A i, j \in DOMAIN r.accounts_data_slice :
        LET a == r.accounts_data_slice[i]
            b == r.accounts_data_slice[j]
        IN  i < j => /\ a.length > 0 /\ b.length > 0
                     /\ a.offset + a.length <= b.offset
                     /\ b.offset + b.length < U64

(* What the preconf feed is asked for and what the source drops by vote    *)
(* together give a parser exactly the transactions its prefilter receives, *)
(* and a parser with a transaction prefilter is not left out               *)
(* (preconf-source/src/filter.rs).                                         *)
PreconfReceives(f, votes, u) ==
    /\ AnyOf(f.include, u.keys) /\ f.required \subseteq u.keys /\ f.exclude \cap u.keys = {}
    /\ \A s \in f.signature : u.signature = s
    /\ f.results = {} \/ (IF u.failed THEN "FeesOnly" ELSE "Success") \in f.results
    /\ \A v \in votes : u.vote = v
PreconfServesParsers ==
    \A r \in request : r.to = "preconf" => \A id \in Ids : \A p \in filters[id] :
        /\ id \in r.unserved <=> id \notin DOMAIN r.entries
        /\ \A t \in p.transaction, u \in TransactionUpdates :
              PreconfReceives(r.entries[id], r.vote_rules[id], u) <=> ReceivesTransaction(t, u)

(* Nothing a program asked for is lost on the way to its Filters: by the   *)
(* builder that collects the calls, or by the merge of what it builds.     *)
AskedForIsKept == FirstErrorSticks /\ CallsSubscribe /\ MergeReceivesBoth

(* The request a source sends serves every parser: the keys and data       *)
(* slices of the gRPC request, and the preconf feed's request with what    *)
(* the source drops after it.                                              *)
RequestServesParsers == WireMatchesEveryKey /\ SlicesDisjoint /\ PreconfServesParsers
=============================================================================
