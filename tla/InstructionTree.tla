---------------------------- MODULE InstructionTree ----------------------------
(***************************************************************************)
(* core: the instruction tree of a transaction and the log lines of each   *)
(* instruction (instruction.rs, log_messages.rs).                          *)
(*                                                                         *)
(* A transaction carries its outer instructions, the inner instructions of *)
(* each as a flat list with stack heights, and one log for all of them.    *)
(* The tree, the paths and the ranges of the log are all rebuilt.  An      *)
(* instruction is known here by its id; ids are opaque to the algorithms.  *)
(* Positions in a log count from 1, and a range <<a, b>> ends before b.    *)
(***************************************************************************)
EXTENDS Integers, Sequences, SequencesExt, FiniteSets

CONSTANT None

-----------------------------------------------------------------------------
(* Account keys.                                                           *)

\* A mutation: the keys loaded for reading come before the keys loaded for writing.
KeyAtReadonlyFirst(keys, idx) ==
  LET all == keys.static \o keys.ro \o keys.rw
  IN IF idx < Len(all) THEN all[idx + 1] ELSE None

\* AccountKeys::get: each list is tried with what is left of the index.
KeyAt(keys, idx) ==
  LET rw == idx - Len(keys.static)
      ro == rw - Len(keys.rw)
  IN CASE idx < Len(keys.static) -> keys.static[idx + 1]
       [] idx >= Len(keys.static) /\ rw < Len(keys.rw) -> keys.rw[rw + 1]
       [] idx >= Len(keys.static) /\ rw >= Len(keys.rw) /\ ro < Len(keys.ro) -> keys.ro[ro + 1]
       [] OTHER -> None

-----------------------------------------------------------------------------
(* Paths and nesting, from the stack heights of one outer instruction.     *)

NextSibling(stack) == [stack EXCEPT ![Len(stack)] = @ + 1]

\* A mutation: a return goes up one level, however far it leads.
PathStepOneLevel(stack, height, previous) ==
  CASE height = None \/ previous = None -> NextSibling(stack)
    [] height # None /\ previous # None /\ height > previous -> Append(stack, 0)
    [] height # None /\ previous # None /\ height = previous -> NextSibling(stack)
    [] OTHER -> NextSibling(Front(stack))

\* One step of derive_paths_from_stackheights.
PathStep(stack, height, previous) ==
  CASE height = None \/ previous = None -> NextSibling(stack)
    [] height # None /\ previous # None /\ height > previous -> Append(stack, 0)
    [] height # None /\ previous # None /\ height = previous -> NextSibling(stack)
    [] OTHER -> NextSibling(SubSeq(stack, 1, IF height < Len(stack) THEN height ELSE Len(stack)))

DerivePaths(heights, outer) ==
  IF heights = <<>> THEN <<>>
  ELSE FoldLeft(LAMBDA paths, i : Append(paths, PathStep(Last(paths), heights[i], heights[i - 1])),
                <<<<outer, 0>>>>, [i \in 1 .. Len(heights) - 1 |-> i + 1])

\* The elements after position p that are higher than it, up to the first that is not.
Callees(list, height, p) ==
  LET stops == {i \in p + 1 .. Len(list) : height[list[i]] = None \/ height[list[i]] <= height[list[p]]}
      end == IF stops = {} THEN Len(list) + 1 ELSE CHOOSE i \in stops : \A j \in stops : i <= j
  IN SubSeq(list, p + 1, end - 1)

\* One turn of attach_inner_instructions' loop; without a height the parent stays flat.
Nest(state, height, p) ==
  IF height[state.list[p]] = None THEN state
  ELSE LET children == Callees(state.list, height, p)
       IN [list |-> SubSeq(state.list, 1, p) \o SubSeq(state.list, p + 1 + Len(children), Len(state.list)),
           inner |-> [state.inner EXCEPT ![state.list[p]] = @ \o children]]

\* The loop runs from the end to the front.
NestAll(list, height, inner) ==
  FoldLeft(LAMBDA state, p : Nest(state, height, p), [list |-> list, inner |-> inner],
           [k \in 1 .. Len(list) - 1 |-> Len(list) - k])

-----------------------------------------------------------------------------
(* Log lines.                                                              *)

\* A line is [program, second, tail, height]: whether it starts with "Program", the word
\* after that, what kind of text follows and the number in an invoke.

\* A mutation: the text a program logs is looked at as well.
ClassifyLogLineByTail(l) ==
  CASE l.tail = "invoke" -> "invoke"
    [] l.tail \in {"success", "failed"} -> "close"
    [] OTHER -> "other"

\* classify_log_line: the runtime's own tags are never an invoke or a close.
ClassifyLogLine(l) ==
  CASE ~l.program \/ l.second \in {"log:", "data:", "return:"} -> "other"
    [] l.program /\ l.second \notin {"log:", "data:", "return:"} /\ l.tail = "invoke" -> "invoke"
    [] l.program /\ l.second \notin {"log:", "data:", "return:"} /\ l.tail \in {"success", "failed"} -> "close"
    [] OTHER -> "other"

IsOuterInvoke(l) == ClassifyLogLine(l) = "invoke" /\ l.height = 1

\* assign_logs_recursive: ix began at start and the walk stands at pos, depth levels deep,
\* with the first k inner instructions given their lines.
RECURSIVE AssignLogs(_, _, _, _, _, _, _, _)
AssignLogs(log, inner, ix, start, pos, depth, k, ranges) ==
  LET end == [pos |-> pos, ranges |-> [ranges EXCEPT ![ix] = <<start, pos>>]]
  IN IF pos > Len(log) THEN end
     ELSE LET kind == ClassifyLogLine(log[pos])
          IN CASE kind = "invoke" /\ k < Len(inner[ix]) ->
                    LET callee == AssignLogs(log, inner, inner[ix][k + 1], pos, pos + 1, 1, 0, ranges)
                    IN AssignLogs(log, inner, ix, start, callee.pos, depth, k + 1, callee.ranges)
               [] kind = "invoke" /\ k >= Len(inner[ix]) ->
                    AssignLogs(log, inner, ix, start, pos + 1, depth + 1, k, ranges)
               [] kind = "close" /\ depth = 1 ->
                    [pos |-> pos + 1, ranges |-> [ranges EXCEPT ![ix] = <<start, pos + 1>>]]
               [] kind = "close" /\ depth > 1 ->
                    AssignLogs(log, inner, ix, start, pos + 1, depth - 1, k, ranges)
               [] kind = "other" -> AssignLogs(log, inner, ix, start, pos + 1, depth, k, ranges)

\* A mutation: an outer instruction takes the next outer invoke whoever it names.
TakesLineOfAnyone(l, program) == TRUE

TakesLine(l, program) == l.second = program

\* assign_log_messages.
AssignLogMessages(log, outer, inner, program, ranges) ==
  LET Step(state, ix) ==
        LET found == {p \in state.pos .. Len(log) : IsOuterInvoke(log[p])}
            pos == CHOOSE p \in found : \A q \in found : p <= q
        IN IF found = {} \/ ~TakesLine(log[pos], program[ix]) THEN state
           ELSE AssignLogs(log, inner, ix, pos, pos + 1, 1, 0, state.ranges)
  IN FoldLeft(Step, [pos |-> 1, ranges |-> ranges], outer).ranges

\* direct_log_messages: the positions of an instruction's own lines.
DirectLines(log, range) ==
  LET Step(state, p) ==
        LET kind == ClassifyLogLine(log[p])
            depth == CASE kind = "invoke" -> state.depth + 1
                       [] kind = "close" -> IF state.depth = 0 THEN 0 ELSE state.depth - 1
                       [] kind = "other" -> state.depth
            own == IF kind = "invoke" THEN depth = 1 ELSE state.depth = 1
        IN [depth |-> depth, lines |-> IF own THEN Append(state.lines, p) ELSE state.lines]
  IN FoldLeft(Step, [depth |-> 0, lines |-> <<>>],
              [k \in 1 .. range[2] - range[1] |-> range[1] + k - 1]).lines

\* split_logs_by_outer_ix: positions in place of lines.
SplitLogs(log) ==
  LET Step(state, p) ==
        LET kind == ClassifyLogLine(log[p])
        IN IF state.depth = 0
           THEN IF IsOuterInvoke(log[p])
                THEN [depth |-> 1, current |-> <<p>>,
                      result |-> IF state.current = <<>> THEN state.result
                                 ELSE Append(state.result, state.current)]
                ELSE state
           ELSE [depth |-> CASE kind = "invoke" -> state.depth + 1
                             [] kind = "close" -> state.depth - 1
                             [] kind = "other" -> state.depth,
                 current |-> Append(state.current, p), result |-> state.result]
      end == FoldLeft(Step, [depth |-> 0, current |-> <<>>, result |-> <<>>],
                      [p \in 1 .. Len(log) |-> p])
  IN IF end.current = <<>> THEN end.result ELSE Append(end.result, end.current)

-----------------------------------------------------------------------------
(* The transaction.                                                        *)

\* A transaction update: the part that is missing if one is, its keys, its instructions
\* and its log.
IdsOf(txn) ==
  {txn.outer[i].id : i \in DOMAIN txn.outer}
    \cup UNION {{txn.groups[g].ixs[i].id : i \in DOMAIN txn.groups[g].ixs} : g \in DOMAIN txn.groups}

\* build_from_txn: the tree, or None with an error.
BuildFromTxn(txn) ==
  LET ids == IdsOf(txn)
      ixs == {txn.outer[i] : i \in DOMAIN txn.outer}
               \cup UNION {{txn.groups[g].ixs[i] : i \in DOMAIN txn.groups[g].ixs} : g \in DOMAIN txn.groups}
      data == [id \in ids |-> CHOOSE ix \in ixs : ix.id = id]
      program == [id \in ids |-> KeyAt(txn.keys, data[id].program_id_index)]
      height == [id \in ids |-> data[id].stack_height]
      outer == [i \in DOMAIN txn.outer |-> txn.outer[i].id]
      flat(g) == [i \in DOMAIN txn.groups[g].ixs |-> txn.groups[g].ixs[i].id]
      none == [id \in ids |-> <<>>]
      attach(inner, g) ==
        LET nested == NestAll(flat(g), height, inner)
        IN [nested.inner EXCEPT ![outer[txn.groups[g].index + 1]] = @ \o nested.list]
      inner == FoldLeft(attach, none, [g \in DOMAIN txn.groups |-> g])
      path == [id \in ids |->
                 IF \E i \in DOMAIN outer : outer[i] = id
                 THEN <<(CHOOSE i \in DOMAIN outer : outer[i] = id) - 1>>
                 ELSE LET g == CHOOSE h \in DOMAIN txn.groups : \E i \in DOMAIN flat(h) : flat(h)[i] = id
                          at == CHOOSE i \in DOMAIN flat(g) : flat(g)[i] = id
                      IN DerivePaths([i \in DOMAIN flat(g) |-> height[flat(g)[i]]], txn.groups[g].index)[at]]
  IN IF \/ txn.missing # None
        \/ \E id \in ids : program[id] = None
        \/ \E g \in DOMAIN txn.groups : txn.groups[g].index >= Len(txn.outer)
     THEN None
     ELSE [outer |-> outer, inner |-> inner, path |-> path, program |-> program,
           logs |-> AssignLogMessages(txn.log, outer, inner, program, [id \in ids |-> <<1, 1>>])]

\* VisitAll: an instruction, then its inner instructions, depth first.
RECURSIVE VisitAll(_, _)
VisitAll(inner, ix) ==
  <<ix>> \o FlattenSeq([k \in DOMAIN inner[ix] |-> VisitAll(inner, inner[ix][k])])

\* A mutation: the count of inner instructions begins at one.
FlatIndexFromOne(visited, path, k) == IF k = 1 THEN path[visited[1]] ELSE <<path[visited[1]][1], k - 1>>

\* visit_all_with_flat_indices: the k-th instruction visited.
FlatIndex(visited, path, k) ==
  IF k = 1 THEN path[visited[1]] ELSE <<path[visited[1]][1], k - 2>>

\* Every instruction of the transaction with its flat index, in the order visited.
VisitedWithIndices(tree) ==
  FlattenSeq([i \in DOMAIN tree.outer |->
    LET visited == VisitAll(tree.inner, tree.outer[i])
    IN [k \in DOMAIN visited |-> <<visited[k], FlatIndex(visited, tree.path, k)>>]])
=============================================================================
