----------------------------- MODULE Prefilters -----------------------------
(* What a parser asks a source to send it: the prefilters of               *)
(* crates/core/src/lib.rs, their merge, their validation and the           *)
(* subscribe request they become; and the request the preconf source makes *)
(* of them (crates/preconf-source/src/filter.rs).                          *)
(*                                                                         *)
(* An Option is a set of at most one element. Keys, signatures and parser  *)
(* ids are opaque; memcmp data is its two lengths. What the server matches *)
(* (Receives...) is external: it is read off the field comments and the    *)
(* comments on the merges.                                                 *)
EXTENDS Integers, FiniteSets, Sequences, SequencesExt

CONSTANTS Keys,                 \* pubkeys
          MaxPreconfFilters,    \* MAX_FILTERS of the preconf feed
          MaxPreconfAccounts,   \* MAX_ACCOUNTS of the preconf feed
          U64                   \* number of values of a u64 offset

None == {}
Some(v) == {v}
When(c, v) == IF c THEN Some(v) ELSE None

(* The first of a list of results that is not None. *)
FirstSome(os) ==
    LET some == {i \in DOMAIN os : os[i] # None}
    IN  IF some = {} THEN None ELSE os[CHOOSE i \in some : \A j \in some : i <= j]

----------------------------------------------------------------------------
(* Data comparisons on accounts. A memcmp gives the length of its text and *)
(* the number of bytes it decodes to, -1 when it does not decode.          *)

Memcmp(enc, chars, bytes) ==
    [kind |-> "Memcmp", enc |-> enc, chars |-> chars, bytes |-> bytes]
DataSize(n) == [kind |-> "DataSize", size |-> n]
TokenAccountState(b) == [kind |-> "TokenAccountState", state |-> b]
Lamports(n) == [kind |-> "Lamports", gt |-> n]

MaxDataBase58Size == 175
MaxDataBase64Size == 172
MaxDataSize == 128
MaxFilters == 4

(* AccountFilter::validate: the error, or None. *)
MemcmpError(m) ==
    FirstSome(<<When(m.enc = "Base58" /\ m.chars > MaxDataBase58Size, "MemcmpDataTooLarge"),
                When(m.enc = "Base64" /\ m.chars > MaxDataBase64Size, "MemcmpDataTooLarge"),
                When(m.bytes = -1, "BadMemcmpData"),
                When(m.bytes = 0, "EmptyMemcmpData"),
                When(m.bytes > MaxDataSize, "MemcmpDataTooLarge")>>)
FilterError(f) ==
    CASE f.kind = "Memcmp" -> MemcmpError(f)
      [] f.kind = "TokenAccountState" -> When(~f.state, "FalseTokenAccountState")
      [] OTHER -> None

(* AccountFilter::validate_all on a list. *)
FirstFilterError(fs) ==
    LET repeated(i) == /\ fs[i].kind = "DataSize"
                       /\ \E j \in 1 .. i - 1 : fs[j].kind = "DataSize"
        errorAt(i) == FirstSome(<<FilterError(fs[i]), When(repeated(i), "RepeatedDataSize")>>)
    IN  IF Len(fs) > MaxFilters THEN Some("TooManyAccountFilters")
        ELSE FirstSome([i \in DOMAIN fs |-> errorAt(i)])

(* AccountsDataSlice::validate and validate_all: the first error. *)
SliceError(s) ==
    FirstSome(<<When(s.length = 0, "ZeroLengthDataSlice"),
                When(s.offset + s.length >= U64, "DataSliceOverflow")>>)

SliceAfterError(prev, s) ==
    FirstSome(<<When(s.offset < prev.offset, "DataSliceOutOfOrder"),
                When(s.offset < prev.offset + prev.length, "DataSliceOverlap")>>)

(* Each slice is compared with the first one only. *)
SlicesErrorAgainstFirst(ss) ==
    FirstSome([i \in DOMAIN ss |->
        FirstSome(<<SliceError(ss[i]),
                    IF i > 1 THEN SliceAfterError(ss[1], ss[i]) ELSE None>>)])
SlicesError(ss) ==
    FirstSome([i \in DOMAIN ss |->
        FirstSome(<<SliceError(ss[i]),
                    IF i > 1 THEN SliceAfterError(ss[i - 1], ss[i]) ELSE None>>)])

----------------------------------------------------------------------------
(* The prefilters and their defaults. *)

NoAccount == [accounts |-> {}, owners |-> {}, filters |-> <<>>,
              nonempty_txn_signature |-> None, cuckoo_accounts |-> {}]
NoTransaction == [accounts_include |-> {}, accounts_exclude |-> {},
                  accounts_required |-> {}, vote |-> None, signature |-> None,
                  token_accounts |-> None, failed |-> Some(FALSE),
                  cuckoo_accounts_include |-> {}]
NoBlock == [accounts_include |-> {}, include |-> {},
            cuckoo_accounts_include |-> {}]
DefaultSlot == [filter_by_commitment |-> TRUE, interslot_updates |-> None]
NoPrefilter == [account |-> None, transaction |-> None, block_meta |-> FALSE,
                block |-> None, slot |-> None]

(* Equal as multisets: the lists narrow alike in any order. *)
SameAccountFilters(l, r) ==
    /\ Len(l) = Len(r)
    /\ \A f \in Range(l) \cup Range(r) :
          Cardinality({i \in DOMAIN l : l[i] = f}) = Cardinality({i \in DOMAIN r : r[i] = f})

(* A choice both sides made alike is kept, any other receives all. *)
Agreed(l, r) == IF l = r THEN l ELSE None

MergeAccount(l, r) ==
    [accounts |-> l.accounts \cup r.accounts,
     owners |-> l.owners \cup r.owners,
     filters |-> IF SameAccountFilters(l.filters, r.filters) THEN l.filters ELSE <<>>,
     nonempty_txn_signature |-> Agreed(l.nonempty_txn_signature, r.nonempty_txn_signature),
     cuckoo_accounts |-> l.cuckoo_accounts \cup r.cuckoo_accounts]

(* The wider of two modes that differ. *)
WiderTokens(l, r) == IF Some("All") \in {l, r} THEN Some("All") ELSE Some("BalanceChanged")

MergeTransaction(l, r) ==
    LET sameMode == l.token_accounts = r.token_accounts
    IN  [accounts_include |-> l.accounts_include \cup r.accounts_include,
         accounts_exclude |-> IF sameMode THEN l.accounts_exclude \cap r.accounts_exclude ELSE {},
         accounts_required |-> l.accounts_required \cup r.accounts_required,
         vote |-> Agreed(l.vote, r.vote),
         signature |-> Agreed(l.signature, r.signature),
         token_accounts |-> IF sameMode THEN l.token_accounts
                            ELSE WiderTokens(l.token_accounts, r.token_accounts),
         failed |-> Agreed(l.failed, r.failed),
         cuckoo_accounts_include |-> l.cuckoo_accounts_include \cup r.cuckoo_accounts_include]

MergeBlock(l, r) ==
    [accounts_include |-> l.accounts_include \cup r.accounts_include,
     include |-> l.include \cup r.include,
     cuckoo_accounts_include |-> l.cuckoo_accounts_include \cup r.cuckoo_accounts_include]

MergeSlot(l, r) ==
    [filter_by_commitment |-> l.filter_by_commitment /\ r.filter_by_commitment,
     interslot_updates |->
        LET asked == l.interslot_updates \cup r.interslot_updates
        IN  IF asked = {} THEN None ELSE Some(TRUE \in asked)]

(* merge_opt; both is what two values merge to. *)
MergeOpt(l, r, both) == IF l = None THEN r ELSE IF r = None THEN l ELSE both

(* Excluded keys of either side stay excluded. *)
MergePrefilterExcluding(l, r) ==
    LET both(a, b) == [MergeTransaction(a, b) EXCEPT
                          !.accounts_exclude = a.accounts_exclude \cup b.accounts_exclude]
    IN  [account |-> MergeOpt(l.account, r.account, {MergeAccount(a, b) : a \in l.account, b \in r.account}),
         transaction |-> MergeOpt(l.transaction, r.transaction, {both(a, b) : a \in l.transaction, b \in r.transaction}),
         block_meta |-> l.block_meta \/ r.block_meta,
         block |-> MergeOpt(l.block, r.block, {MergeBlock(a, b) : a \in l.block, b \in r.block}),
         slot |-> MergeOpt(l.slot, r.slot, {MergeSlot(a, b) : a \in l.slot, b \in r.slot})]
(* Prefilter::merge *)
MergePrefilter(l, r) ==
    [account |-> MergeOpt(l.account, r.account, {MergeAccount(a, b) : a \in l.account, b \in r.account}),
     transaction |-> MergeOpt(l.transaction, r.transaction,
                              {MergeTransaction(a, b) : a \in l.transaction, b \in r.transaction}),
     block_meta |-> l.block_meta \/ r.block_meta,
     block |-> MergeOpt(l.block, r.block, {MergeBlock(a, b) : a \in l.block, b \in r.block}),
     slot |-> MergeOpt(l.slot, r.slot, {MergeSlot(a, b) : a \in l.slot, b \in r.slot})]

----------------------------------------------------------------------------
(* The cuckoo filter. The library's outcome for one capacity: it cannot be *)
(* built, or the keys it holds afterwards, all of them unless an insert    *)
(* failed.                                                                 *)

CuckooOutcomes(keys) ==
    [built : {TRUE}, evicted : {TRUE}, held : SUBSET keys]
        \cup {[built |-> TRUE, evicted |-> FALSE, held |-> keys],
              [built |-> FALSE, evicted |-> FALSE, held |-> {}]}

CuckooBuild(keys, out) ==
    IF ~out.built THEN None
    ELSE Some([filter |-> out.held,
               missed |-> IF out.evicted THEN keys \ out.held ELSE {}])

(* The keys an insert dropped are not listed. *)
ToFilterDropping(keys, out, out2) ==
    LET b == CuckooBuild(keys, out)
    IN  IF keys = {} \/ b = None THEN [filter |-> None, missed |-> {}]
        ELSE [filter |-> Some((CHOOSE r \in b : TRUE).filter), missed |-> {}]

(* to_filter: once at the number of keys, then at twice that. *)
ToFilter(keys, out, out2) ==
    LET clean(b) == b # None /\ \A r \in b : r.missed = {}
        first == CuckooBuild(keys, out)
        second == CuckooBuild(keys, out2)
        result(b) == CHOOSE r \in b : TRUE
    IN  IF keys = {} THEN [filter |-> None, missed |-> {}]
        ELSE IF clean(first) THEN [filter |-> Some(result(first).filter), missed |-> {}]
        ELSE IF second # None
             THEN [filter |-> Some(result(second).filter), missed |-> result(second).missed]
        ELSE [filter |-> None, missed |-> keys]

WireKeys(keys, cuckoo, out, out2) ==
    LET f == ToFilter(cuckoo, out, out2)
    IN  [list |-> SetToSeq(keys) \o SetToSeq(f.missed \ keys), filter |-> f.filter]

(* From<Filters> for SubscribeRequest, one parser's entries. *)
WireAccount(p, out, out2) ==
    [keys |-> WireKeys(p.accounts, p.cuckoo_accounts, out, out2), owners |-> p.owners,
     filters |-> Range(p.filters), nonempty_txn_signature |-> p.nonempty_txn_signature]
WireTransaction(p, out, out2) ==
    [keys |-> WireKeys(p.accounts_include, p.cuckoo_accounts_include, out, out2),
     vote |-> p.vote, failed |-> p.failed, signature |-> p.signature,
     exclude |-> p.accounts_exclude, required |-> p.accounts_required,
     token_accounts |-> p.token_accounts]
WireBlock(p, out, out2) ==
    [keys |-> WireKeys(p.accounts_include, p.cuckoo_accounts_include, out, out2),
     include |-> p.include]
SubscribeEntry(p, out, out2) ==
    [accounts |-> {WireAccount(a, out, out2) : a \in p.account},
     transactions |-> {WireTransaction(t, out, out2) : t \in p.transaction},
     blocks |-> {WireBlock(b, out, out2) : b \in p.block},
     slots |-> p.slot, blocks_meta |-> p.block_meta]

----------------------------------------------------------------------------
(* preconf-source: the feed's request, or the reason it cannot be made. *)

(* list: a key named twice counts once. *)
PreconfListTooLong(keys) == Cardinality(keys) > MaxPreconfAccounts

PreconfExecutionResults(failed) ==
    CASE failed = None -> {}
      [] failed = Some(FALSE) -> {"Success"}
      [] failed = Some(TRUE) -> {"ExecutionFailure", "FeesOnly"}

(* transaction_filter, for a parser id of a legal length. *)
PreconfFilter(p) ==
    LET include == p.accounts_include \cup p.cuckoo_accounts_include
        lists == {include, p.accounts_required, p.accounts_exclude}
        filter == [include |-> include, exclude |-> p.accounts_exclude,
                   required |-> p.accounts_required, signature |-> p.signature,
                   results |-> PreconfExecutionResults(p.failed)]
    IN  [error |-> FirstSome(<<
            When(p.token_accounts # None, "TokenAccounts"),
            When(\E l \in lists : PreconfListTooLong(l), "TooManyAccounts"),
            When(include = {} /\ p.accounts_required = {} /\ p.signature = None,
                 "NoPositiveSelector")>>),
         filter |-> filter]

(* transactions, over the parsers ids of a Filters. *)
PreconfTransactions(filters) ==
    LET ids == {id \in DOMAIN filters : filters[id] # None
                                         /\ \A p \in filters[id] : p.transaction # None}
        result(id) == PreconfFilter(CHOOSE t \in UNION {p.transaction : p \in filters[id]} : TRUE)
        errors == UNION {result(id).error : id \in ids}
    IN  [errors |-> FirstSome(<<errors, When(ids = {}, "NoTransactionFilters"),
                                When(Cardinality(ids) > MaxPreconfFilters, "TooManyFilters")>>),
         filters |-> [id \in ids |-> result(id).filter]]
PreconfUnserved(filters) ==
    {id \in DOMAIN filters : \E p \in filters[id] : p.transaction = None}

(* Only parsers that ask for votes have a rule. *)
PreconfVoteRulesAsked(filters) ==
    [id \in DOMAIN filters |->
        {TRUE} \cap UNION {t.vote : t \in UNION {p.transaction : p \in filters[id]}}]
(* vote_rules: the feed cannot filter votes, the source does. *)
PreconfVoteRules(filters) ==
    [id \in DOMAIN filters |-> UNION {t.vote : t \in UNION {p.transaction : p \in filters[id]}}]

----------------------------------------------------------------------------
(* What the server sends for a subscription (external). *)

AnyOf(wanted, keys) == wanted = {} \/ wanted \cap keys # {}

(* An account update: its key, its owner, the comparisons it satisfies and *)
(* whether a transaction signature comes with it.                          *)
ReceivesAccount(p, u) ==
    /\ AnyOf(p.accounts \cup p.cuckoo_accounts, {u.key})
    /\ AnyOf(p.owners, {u.owner})
    /\ Range(p.filters) \subseteq u.satisfies
    /\ \A b \in p.nonempty_txn_signature : u.signed = b

(* The keys a transaction is matched by under a token-account mode. *)
Touched(mode, u) == u.keys \cup (CASE mode = None -> {}
                                   [] mode = Some("All") -> u.owners
                                   [] mode = Some("BalanceChanged") -> u.changed)
ReceivesTransaction(p, u) ==
    LET touched == Touched(p.token_accounts, u)
    IN  /\ AnyOf(p.accounts_include \cup p.cuckoo_accounts_include, touched)
        /\ p.accounts_required \subseteq touched
        /\ p.accounts_exclude \cap touched = {}
        /\ \A v \in p.vote : u.vote = v
        /\ \A s \in p.signature : u.signature = s
        /\ \A f \in p.failed : u.failed = f

(* A wire entry matches a key it lists or its cuckoo filter holds; with    *)
(* neither list nor filter it matches everything.                          *)
WireMatches(w, keys) ==
    \/ w.list = <<>> /\ w.filter = None
    \/ keys \cap (Range(w.list) \cup UNION w.filter) # {}
=============================================================================
