------------------------------ MODULE MCDriver ------------------------------
(***************************************************************************)
(* Small instances of DriverProps for TLC.                                 *)
(***************************************************************************)
EXTENDS DriverOnFirstFit

CONSTANTS
  Indices,   \* the block indices, the sizes and the number of operations
  Requests,  \* of the traces
  LengthAny, FilesAny,   \* ... with the allocator that answers anything
  LengthHonest           \* ... and with the others

Line(type, index, size) == [type |-> type, index |-> index, size |-> size]

LinesOver(ids, sz) ==
  {Line(t, id, n) : t \in {"a", "r"}, id \in ids, n \in sz}
    \cup {Line("f", id, 0) : id \in ids}

(* The blocks are numbered as they come.                                   *)
Numbered(lines) ==
  \A k \in DOMAIN lines : \A id \in {j \in Indices : j < lines[k].index} :
    \E n \in 1 .. k - 1 : lines[n].index = id

File(lines) ==
  [num_ids |-> MaxIndex(lines) + 1, num_ops |-> Len(lines), lines |-> lines]

(* Every trace of n operations that is in order ...                        *)
AllTraces(n) ==
  {File(s) : s \in {s \in [1 .. n -> LinesOver(Indices, Requests)] :
                      InOrder(s) /\ Numbered(s)}}

(* ... and some that end in an assertion: requests of no bytes (add_range  *)
(* asserts a positive size), a header with too few blocks, and the traces  *)
(* coalesceCase3.rep and coalesceCase4.rep, which have more lines than     *)
(* their headers announce.                                                 *)
Allocs(ids) == [k \in 1 .. ids |-> Line("a", k - 1, 80)]

OddTraces ==
  {File(<<Line("a", 0, 0)>>), File(<<Line("a", 0, 8), Line("r", 0, 0)>>),
   [num_ids |-> 1, num_ops |-> 2, lines |-> <<Line("a", 0, 8), Line("a", 1, 8)>>],
   [num_ids |-> 3, num_ops |-> 3,
    lines |-> Allocs(3) \o <<Line("f", 0, 0), Line("f", 1, 0)>>],
   [num_ids |-> 3, num_ops |-> 2,
    lines |-> Allocs(3) \o <<Line("f", 0, 0), Line("f", 2, 0), Line("f", 1, 0)>>]}

(* The allocator that answers anything is judged on short traces, several  *)
(* in a row, and on the odd ones too; the others on a longer one.          *)
TracesAny == AllTraces(LengthAny) \cup OddTraces
TracesHonest == AllTraces(LengthHonest)
Traces ==
  "any" :> TracesAny @@ "honest" :> TracesHonest @@ "mm-firstfit" :> TracesHonest

CommandLine == "any" :> FilesAny @@ "honest" :> 1 @@ "mm-firstfit" :> 1
=============================================================================
