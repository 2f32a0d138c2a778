---------------------------- MODULE DriverProof ----------------------------
(***************************************************************************)
(* Theorems about mdriver.c, for any allocator, any trace files in order   *)
(* and any number of them: what it says of an allocator is true.           *)
(***************************************************************************)
EXTENDS DriverProps, SequenceTheorems, FiniteSetTheorems, WellFoundedInduction,
        TLAPS

(* Behind the area, the address space has room for another one like it, so *)
(* that no sum of a pointer and a size wraps round into the heap.          *)
RoomAbove == mem_max_addr + MAX_HEAP < WORD_MOD

Records == [lo : Nat, hi : Nat]

(* The sizes of payloads, half of the address space at most.               *)
Sizes == {n \in Nat : n > 0 /\ n < WORD_MOD \div 2}

-----------------------------------------------------------------------------
(* The course of the evaluations: types, verdicts and errors.              *)

Evaluating == pc \in {"begin", "ops"}

Typed ==
  /\ mem_brk \in mem_start_brk .. mem_max_addr
  /\ allocator \in Allocators
  /\ pc \in {"read", "begin", "ops", "done", "exit", "assert", "crash"}
  /\ libc_left \in 0 .. NumTraces[allocator] /\ pass \in Passes /\ runs \in 0 .. SpeedRuns
  /\ trace \in TraceFiles[allocator] \cup {NoTrace}
  /\ i \in Nat \ {0} /\ (pc = "ops" => i <= Len(trace.lines) + 1)
  /\ ranges \in Seq(Records)
  /\ blocks \in [Ids -> Pointers \cup {NULL}]
  /\ block_sizes \in [Ids -> Nat]
  /\ valid \in Seq(BOOLEAN) /\ Len(valid) <= NumTraces[allocator]
  /\ granted \subseteq Records

(* An evaluation has a trace whose header fits, and what it counts is not  *)
(* at its limit yet.                                                       *)
Course ==
  /\ Evaluating => trace \in TraceFiles[allocator] /\ HeaderFits(trace)
  /\ Evaluating /\ pass = "valid" => Len(valid) < NumTraces[allocator]
  /\ Evaluating /\ pass \in LibcPasses => libc_left > 0
  /\ Evaluating /\ pass \in {"valid", "util", "libc valid"} => runs = 0
  /\ pc = "begin" => runs < SpeedRuns

Invalid == {k \in DOMAIN valid : ~valid[k]}

(* ... but where libc has run out of memory, which ends the program.       *)
Counted ==
  pass \notin LibcPasses \/ pc # "exit" => errors = Cardinality(Invalid)

(* A number below the modulus is its own remainder.                        *)
LEMMA NoWrap == \A x, y \in Nat : x < y => x % y = x
  BY SMT

(* ... and one modulus above it leaves the rest.                           *)
LEMMA Wraps == \A x, y, z \in Nat : x < y /\ z = x + y => z % y = x
  BY SMT

(* Numbers and types of the constants.                                     *)
LEMMA Constants ==
  /\ mem_start_brk \in Nat /\ mem_start_brk > 0 /\ MAX_HEAP \in Nat
  /\ mem_max_addr = mem_start_brk + MAX_HEAP /\ mem_max_addr < WORD_MOD
  /\ WORD_MOD \in Nat /\ WORD_MOD % 2 = 0 /\ Ids \subseteq Nat
  /\ \A a \in Allocators : /\ NumTraces[a] \in Nat
                           /\ TraceFiles[a] \subseteq UNION Range(TraceFiles)
  /\ SpeedRuns \in Nat \ {0}
  /\ Increments \subseteq 0 .. MAX_HEAP /\ Pointers \subseteq 0 .. WORD_MOD - 1
  <1>1. /\ mem_start_brk \in Nat /\ mem_start_brk > 0 /\ MAX_HEAP \in Nat
        /\ mem_max_addr = mem_start_brk + MAX_HEAP /\ mem_max_addr < WORD_MOD
        /\ WORD_MOD \in Nat /\ WORD_MOD % 2 = 0
    BY MemlibAssumption DEF MemlibAssumption, mem_max_addr
  <1>2. \A a \in Allocators : /\ NumTraces[a] \in Nat
                           /\ TraceFiles[a] \subseteq UNION Range(TraceFiles)
    BY DriverAssumption DEF DriverAssumption, Range
  <1> QED
    BY <1>1, <1>2, DriverAssumption DEF DriverAssumption

Line == [type : {"a", "r", "f"}, index : Ids, size : 0 .. WORD_MOD \div 2 - 1]
Lines == Seq(Line)

(* The lines of the trace in memory.                                       *)
LEMMA TraceType ==
  ASSUME Typed
  PROVE  /\ trace.lines \in Lines /\ trace.num_ops \in Nat
         /\ Evaluating /\ Course => trace.num_ops = Len(trace.lines)
         /\ Evaluating /\ Course => InOrder(trace.lines)
  <1>1. \A f \in UNION Range(TraceFiles) : f.lines \in Lines /\ f.num_ops \in Nat
    BY DriverAssumption DEF DriverAssumption, Lines, Line
  <1>2. TraceFiles[allocator] \subseteq UNION Range(TraceFiles)
    BY Constants DEF Typed
  <1>3. NoTrace.lines \in Lines /\ NoTrace.num_ops \in Nat
    BY DEF NoTrace, Lines
  <1>4. trace.lines \in Lines /\ trace.num_ops \in Nat
    BY <1>1, <1>2, <1>3 DEF Typed
  <1>5. Evaluating /\ Course => InOrder(trace.lines)
    BY <1>2, TracesInOrder DEF Course, TracesInOrder
  <1> QED
    BY <1>4, <1>5 DEF Course, HeaderFits

(* The operation under way.                                                *)
LEMMA OpType ==
  ASSUME Typed, Course, pc = "ops", i <= trace.num_ops
  PROVE  /\ Op.index \in Ids /\ Op.type \in {"a", "r", "f"}
         /\ Op.size \in Nat /\ Op.size < WORD_MOD \div 2
         /\ i \in DOMAIN trace.lines
  <1>1. trace.lines \in Lines /\ i \in 1 .. Len(trace.lines)
    BY TraceType DEF Typed, Evaluating
  <1>2. i \in DOMAIN trace.lines
    BY <1>1 DEF Lines
  <1>3. PICK op \in Line : op = Op
    BY <1>1 DEF Lines, Op
  <1>4. WORD_MOD \div 2 \in Int
    BY Constants
  <1>5. /\ op.index \in Ids /\ op.type \in {"a", "r", "f"}
        /\ op.size \in Nat /\ op.size < WORD_MOD \div 2
    BY <1>4 DEF Line
  <1> QED
    BY <1>2, <1>3, <1>5

(* The heap does not shrink, and what the allocator is granted it gets.    *)
LEMMA Grows ==
  ASSUME RoomAbove, mem_brk \in mem_start_brk .. mem_max_addr,
         NEW incr \in Increments, mem_sbrk(incr)
  PROVE  /\ mem_brk' \in mem_start_brk .. mem_max_addr
         /\ mem_brk \in Nat /\ mem_brk' \in Nat /\ mem_brk <= mem_brk'
         /\ SbrkSucceeds(mem_brk, incr) => mem_brk' = MovedBrk(mem_brk, incr)
  <1>1. incr \in Nat /\ mem_max_addr + incr < WORD_MOD
    BY Constants, incr \in 0 .. MAX_HEAP DEF RoomAbove
  <1>2. mem_brk + incr \in Nat /\ mem_brk + incr < WORD_MOD
    BY <1>1, Constants
  <1>3. MovedBrk(mem_brk, incr) = mem_brk + incr
    BY <1>2, NoWrap, Constants DEF MovedBrk
  <1>4. SbrkSucceeds(mem_brk, incr) => mem_brk + incr <= mem_max_addr
    BY <1>3 DEF SbrkSucceeds
  <1> QED
    BY <1>1, <1>2, <1>3, <1>4, Constants DEF mem_sbrk

(* The extent of an answer.                                                *)
LEMMA ExtentType ==
  ASSUME NEW p \in 0 .. WORD_MOD - 1, NEW size \in Nat
  PROVE  /\ Extent(p, size) \in Records /\ Extent(p, size).lo = p
         /\ size > 0 /\ p + size <= WORD_MOD => Extent(p, size).hi = p + size - 1
  <1>1. (p + size - 1) % WORD_MOD \in Nat
    BY Constants
  <1>2. size > 0 /\ p + size <= WORD_MOD =>
          (p + size - 1) % WORD_MOD = p + size - 1
    <2> HAVE size > 0 /\ p + size <= WORD_MOD
    <2>1. p + size - 1 \in Nat /\ p + size - 1 < WORD_MOD
      BY Constants
    <2> QED
      BY <2>1, NoWrap, Constants
  <1> QED
    BY <1>1, <1>2 DEF Extent, Records

(* The order of the numbers is well-founded: each set of them has a least.  *)
LEMMA Least ==
  ASSUME NEW T \in SUBSET Nat, T # {}
  PROVE  \E x \in T : \A y \in T : x <= y
  <1> DEFINE R == OpToRel(<, Nat)
  <1>1. IsWellFoundedOn(R, Nat)
    BY NatLessThanWellFounded
  <1>2. \A x, y \in Nat : x < y => <<x, y>> \in R
    BY DEF OpToRel
  <1> HIDE DEF R
  <1>3. PICK x \in T : \A y \in T : ~(<<y, x>> \in R)
    BY <1>1, WFMin
  <1>4. \A y \in T : ~(y < x)
    BY <1>2, <1>3
  <1> QED
    BY <1>3, <1>4

-----------------------------------------------------------------------------
(* The list of ranges.                                                     *)

(* No two ranges of the list begin at the same place.                      *)
Distinct(list) ==
  \A k, n \in DOMAIN list : k # n => list[k].lo # list[n].lo

(* Taking the kth element out of a list.                                   *)
LEMMA Without ==
  ASSUME NEW S, NEW list \in Seq(S), NEW k \in 1 .. Len(list)
  PROVE  /\ RemoveAt(list, k) \in Seq(S)
         /\ Len(RemoveAt(list, k)) = Len(list) - 1
         /\ \A n \in 1 .. Len(list) - 1 :
              RemoveAt(list, k)[n] = IF n < k THEN list[n] ELSE list[n + 1]
  <1>1. /\ SubSeq(list, 1, k - 1) \in Seq(S) /\ Len(SubSeq(list, 1, k - 1)) = k - 1
        /\ \A n \in 1 .. k - 1 : SubSeq(list, 1, k - 1)[n] = list[n]
    OBVIOUS
  <1>2. /\ SubSeq(list, k + 1, Len(list)) \in Seq(S)
        /\ Len(SubSeq(list, k + 1, Len(list))) = Len(list) - k
        /\ \A n \in 1 .. Len(list) - k :
             SubSeq(list, k + 1, Len(list))[n] = list[k + n]
    OBVIOUS
  <1>3. PICK s \in Seq(S), t \in Seq(S) :
          /\ s = SubSeq(list, 1, k - 1) /\ t = SubSeq(list, k + 1, Len(list))
    BY <1>1, <1>2
  <1>4. RemoveAt(list, k) = s \o t
    BY <1>3 DEF RemoveAt
  <1>5. /\ Len(s) = k - 1 /\ \A n \in 1 .. k - 1 : s[n] = list[n]
        /\ Len(t) = Len(list) - k
        /\ \A n \in 1 .. Len(list) - k : t[n] = list[k + n]
    BY <1>1, <1>2, <1>3
  <1>6. s \o t \in Seq(S) /\ Len(s \o t) = Len(list) - 1
    BY <1>5
  <1>7. ASSUME NEW n \in 1 .. Len(list) - 1
        PROVE  (s \o t)[n] = IF n < k THEN list[n] ELSE list[n + 1]
    <2>1. (s \o t)[n] = IF n < k THEN s[n] ELSE t[n - (k - 1)]
      BY <1>5
    <2>2. CASE n < k
      BY <1>5, <2>1, <2>2
    <2>3. CASE ~(n < k)
      <3>1. n - (k - 1) \in 1 .. Len(list) - k
        BY <2>3
      <3>2. t[n - (k - 1)] = list[k + (n - (k - 1))]
        BY <1>5, <3>1
      <3>3. k + (n - (k - 1)) = n + 1
        OBVIOUS
      <3> QED
        BY <2>1, <2>3, <3>2, <3>3
    <2> QED
      BY <2>2, <2>3
  <1> QED
    BY <1>4, <1>6, <1>7

(* remove_range takes out the range that begins at lo, and no other.       *)
LEMMA Removed ==
  ASSUME NEW list \in Seq(Records), Distinct(list), NEW k \in DOMAIN list
  PROVE  remove_range(list, list[k].lo) = RemoveAt(list, k)
  <1>1. {n \in 1 .. Len(list) : list[n].lo = list[k].lo} = {k}
    BY DEF Distinct
  <1>2. Min({k}) = k
    BY DEF Min
  <1> QED
    BY <1>1, <1>2 DEF remove_range, RemoveFirstMatch, SelectInSeq
-----------------------------------------------------------------------------
(* The verdicts: one more of them, and one more invalid trace if it is bad. *)
LEMMA Verdict ==
  ASSUME valid \in Seq(BOOLEAN), NEW b \in BOOLEAN, valid' = Append(valid, b)
  PROVE  /\ valid' \in Seq(BOOLEAN) /\ Len(valid') = Len(valid) + 1
         /\ Cardinality(Invalid) \in Nat
         /\ Cardinality(Invalid') = Cardinality(Invalid) + (IF b THEN 0 ELSE 1)
  <1>1. /\ valid' \in Seq(BOOLEAN) /\ Len(valid') = Len(valid) + 1 /\ Len(valid) \in Nat
        /\ valid'[Len(valid) + 1] = b
        /\ \A k \in 1 .. Len(valid) : valid'[k] = valid[k]
    OBVIOUS
  <1>2. DOMAIN valid = 1 .. Len(valid) /\ DOMAIN valid' = 1 .. Len(valid) + 1
    BY <1>1
  <1>3. IsFiniteSet(1 .. Len(valid)) /\ Invalid \in SUBSET (1 .. Len(valid))
    BY <1>1, <1>2, FS_Interval DEF Invalid
  <1>4. IsFiniteSet(Invalid) /\ Cardinality(Invalid) \in Nat
    BY <1>3, FS_Subset, FS_CardinalityType
  <1>5. Len(valid) + 1 \notin Invalid
    BY <1>1, <1>3
  <1>6. CASE b
    <2>1. Invalid' = Invalid
      BY <1>1, <1>2, <1>6 DEF Invalid
    <2> QED
      BY <1>1, <1>4, <1>6, <2>1
  <1>7. CASE ~b
    <2>1. Invalid' = Invalid \cup {Len(valid) + 1}
      BY <1>1, <1>2, <1>7 DEF Invalid
    <2> QED
      BY <1>1, <1>4, <1>5, <1>7, <2>1, FS_AddElement
  <1> QED
    BY <1>6, <1>7

(* A run of the driver is typed and its counts are right.                  *)
Ctl == Typed /\ Course /\ Counted

(* What the state variables an evaluation works on are.                    *)
Tracked(brk, list, ptrs, lens, given) ==
  /\ brk \in mem_start_brk .. mem_max_addr
  /\ list \in Seq(Records)
  /\ ptrs \in [Ids -> Pointers \cup {NULL}]
  /\ lens \in [Ids -> Nat]
  /\ given \subseteq Records

TrackedNext == Tracked(mem_brk', ranges', blocks', block_sizes', granted')

(* An evaluation goes on to the next operation.                            *)
LEMMA GoesOn ==
  ASSUME Ctl, pc = "ops", i <= trace.num_ops, Advance, UNCHANGED allocator, TrackedNext
  PROVE  Ctl'
  <1>1. trace.num_ops = Len(trace.lines) /\ Len(trace.lines) \in Nat
    BY TraceType DEF Ctl, Evaluating, Lines
  <1>2. /\ i' = i + 1
        /\ UNCHANGED <<libc_left, pass, runs, trace, pc, errors, msg, valid>>
    BY DEF Advance, results
  <1>3. Typed'
    BY <1>1, <1>2 DEF Ctl, Typed, TrackedNext, Tracked
  <1>4. Course' /\ Counted'
    BY <1>2 DEF Ctl, Course, Counted, Evaluating, Invalid, HeaderFits
  <1> QED
    BY <1>3, <1>4 DEF Ctl

(* The driver leaves an evaluation, with a verdict or without one.         *)
LEMMA Leaves ==
  ASSUME Ctl, Evaluating, pass \notin LibcPasses,
         UNCHANGED <<allocator, libc_left, pass, runs, trace, i>>, TrackedNext,
         \/ pc' \in {"exit", "assert"} /\ UNCHANGED results
         \/ pass = "valid" /\ \E what : Complain(what)
  PROVE  Ctl'
  <1>1. CASE pc' \in {"exit", "assert"} /\ UNCHANGED results
    <2>1. Typed'
      <3>1. Typed
        BY DEF Ctl
      <3>2. valid' = valid /\ pc' \in {"exit", "assert"}
        BY <1>1 DEF results
      <3> QED
        BY <3>1, <3>2 DEF Typed, TrackedNext, Tracked
    <2> QED
      BY <1>1, <2>1 DEF Ctl, Course, Counted, Evaluating, Invalid, results
  <1>2. CASE pass = "valid" /\ \E what : Complain(what)
    <2>1. /\ errors' = errors + 1 /\ valid' = Append(valid, FALSE) /\ pc' = "read"
      BY <1>2 DEF Complain
    <2>2. /\ valid' \in Seq(BOOLEAN) /\ Len(valid') = Len(valid) + 1
          /\ Cardinality(Invalid) \in Nat
          /\ Cardinality(Invalid') = Cardinality(Invalid) + 1
      BY <2>1, Verdict DEF Ctl, Typed
    <2>3. Len(valid) < NumTraces[allocator] /\ NumTraces[allocator] \in Nat
      BY <1>2, Constants DEF Ctl, Course, Typed
    <2>4. Typed'
      <3>1. Len(valid') <= NumTraces[allocator]
        BY <2>2, <2>3 DEF Ctl, Typed
      <3>2. Typed
        BY DEF Ctl
      <3> QED
        BY <2>1, <2>2, <3>1, <3>2 DEF Typed, TrackedNext, Tracked
    <2> QED
      BY <1>2, <2>1, <2>2, <2>4 DEF Ctl, Course, Counted, Evaluating
  <1> QED
    BY <1>1, <1>2

(* Taking a range out of the list leaves a list.                           *)
LEMMA RemovedType ==
  ASSUME NEW list \in Seq(Records), NEW lo
  PROVE  remove_range(list, lo) \in Seq(Records)
  <1> DEFINE at == {n \in 1 .. Len(list) : list[n].lo = lo}
  <1>1. CASE at = {}
    BY <1>1 DEF remove_range, RemoveFirstMatch
  <1>2. CASE at # {}
    <2>1. PICK k \in at : \A n \in at : k <= n
      <3>1. at \in SUBSET Nat
        OBVIOUS
      <3> QED
        BY <1>2, <3>1, Least
    <2>2. Min(at) \in at
      BY <2>1 DEF Min
    <2>3. remove_range(list, lo) = RemoveAt(list, Min(at))
      BY <1>2 DEF remove_range, RemoveFirstMatch, SelectInSeq
    <2> QED
      BY <2>2, <2>3, Without
  <1> QED
    BY <1>1, <1>2

(* What an answer and a call of mm_free make of the allocator's side.      *)
LEMMA AnswerType ==
  ASSUME RoomAbove, Typed, NEW p \in Pointers, NEW incr \in Increments,
         NEW size \in Nat, NEW old
  PROVE  /\ Answer(old, p, size, incr) => /\ mem_brk' \in mem_start_brk .. mem_max_addr
                                          /\ granted' \subseteq Records
         /\ NotAt(granted, old) \subseteq Records
  <1>1. Extent(p, size) \in Records
    BY Constants, ExtentType
  <1> QED
    BY <1>1, Grows DEF Typed, Answer, NotAt

-----------------------------------------------------------------------------
(* The operations of an evaluation.                                        *)

(* A new payload is rejected.                                              *)
LEMMA RejectKeeps ==
  ASSUME Ctl, pc = "ops", pass = "valid", UNCHANGED allocator,
         NEW list \in Seq(Records), NEW p, Reject(list, p),
         mem_brk' \in mem_start_brk .. mem_max_addr, granted' \subseteq Records
  PROVE  Ctl'
  <1>1. TrackedNext
    BY DEF Reject, TrackedNext, Tracked, Ctl, Typed
  <1>2. \/ pc' = "assert" /\ UNCHANGED results
        \/ \E what : Complain(what)
    BY DEF Reject
  <1> QED
    BY <1>1, <1>2, Leaves DEF Reject, Evaluating, LibcPasses

(* The driver remembers an answer.                                         *)
LEMMA Remembered ==
  ASSUME Ctl, pc = "ops", i <= trace.num_ops, NEW p \in Pointers
  PROVE  /\ Remember(p) => /\ blocks' \in [Ids -> Pointers \cup {NULL}]
                           /\ block_sizes' \in [Ids -> Nat]
         /\ [blocks EXCEPT ![Op.index] = p] \in [Ids -> Pointers \cup {NULL}]
  BY OpType DEF Ctl, Typed, Remember

(* A new range joins the list.                                             *)
LEMMA AddedType ==
  ASSUME NEW list \in Seq(Records), NEW p \in Pointers, NEW size \in Nat
  PROVE  add_range(list, p, size) \in Seq(Records)
  <1>1. Extent(p, size) \in Records
    BY Constants, ExtentType
  <1> QED
    BY <1>1 DEF add_range

(* eval_mm_valid.                                                          *)
LEMMA ValidKeeps ==
  ASSUME RoomAbove, Ctl, UNCHANGED allocator, NEW p \in Pointers,
         NEW incr \in Increments, NEW kept,
         valid_malloc(p, incr) \/ valid_realloc(p, incr, kept)
  PROVE  Ctl'
  <1>1. CASE valid_malloc(p, incr)
    <2>1. /\ pc = "ops" /\ i <= trace.num_ops /\ pass = "valid" /\ ranges \in Seq(Records)
          /\ Answer(NULL, p, Op.size, incr)
      BY <1>1 DEF valid_malloc, Operating, Ctl, Typed
    <2>2. Op.size \in Nat
      BY <2>1, OpType DEF Ctl
    <2>3. mem_brk' \in mem_start_brk .. mem_max_addr /\ granted' \subseteq Records
      BY <2>1, <2>2, AnswerType DEF Ctl
    <2>4. CASE Reject(ranges, p)
      BY <2>1, <2>3, <2>4, RejectKeeps
    <2>5. CASE Accept(ranges, p) /\ Remember(p) /\ Advance
      <3>1. ranges' \in Seq(Records)
        BY <2>1, <2>2, <2>5, AddedType DEF Accept
      <3> QED
        BY <2>1, <2>3, <2>5, <3>1, Remembered, GoesOn DEF TrackedNext, Tracked
    <2> QED
      BY <1>1, <2>4, <2>5 DEF valid_malloc
  <1>2. CASE valid_realloc(p, incr, kept)
    <2>1. /\ pc = "ops" /\ i <= trace.num_ops /\ pass = "valid" /\ ranges \in Seq(Records)
          /\ Answer(Old, p, Op.size, incr)
      BY <1>2 DEF valid_realloc, Operating, Ctl, Typed
    <2>2. Op.size \in Nat
      BY <2>1, OpType DEF Ctl
    <2>3. mem_brk' \in mem_start_brk .. mem_max_addr /\ granted' \subseteq Records
      BY <2>1, <2>2, AnswerType DEF Ctl
    <2>4. PICK list \in Seq(Records) : list = remove_range(ranges, Old)
      BY <2>1, RemovedType
    <2>5. CASE Reject(list, p)
      BY <2>1, <2>3, <2>5, RejectKeeps
    <2>6. CASE Accept(list, p) /\ Remember(p) /\ Advance
      <3>1. ranges' \in Seq(Records)
        BY <2>2, <2>6, AddedType DEF Accept
      <3> QED
        BY <2>1, <2>3, <2>6, <3>1, Remembered, GoesOn DEF TrackedNext, Tracked
    <2>7. CASE /\ Accept(list, p) /\ Complain("data not preserved")
               /\ UNCHANGED <<libc_left, pass, runs, trace, i, blocks, block_sizes>>
      <3>1. ranges' \in Seq(Records)
        BY <2>2, <2>7, AddedType DEF Accept
      <3>2. TrackedNext
        BY <2>3, <2>7, <3>1 DEF TrackedNext, Tracked, Ctl, Typed
      <3> QED
        BY <2>1, <2>7, <3>2, Leaves DEF Evaluating, LibcPasses
    <2> QED
      BY <1>2, <2>4, <2>5, <2>6, <2>7 DEF valid_realloc
  <1> QED
    BY <1>1, <1>2

(* eval_mm_util and eval_mm_speed.                                         *)
LEMMA FiguresKeep ==
  ASSUME RoomAbove, Ctl, UNCHANGED allocator, NEW p \in Pointers,
         NEW incr \in Increments,
         util_malloc(p, incr) \/ util_realloc(p, incr) \/ speed_request(p, incr)
  PROVE  Ctl'
  <1>1. pc = "ops" /\ i <= trace.num_ops /\ Op.size \in Nat
    BY OpType DEF util_malloc, util_realloc, speed_request, Operating, Ctl
  <1>2. Advance
    BY DEF util_malloc, util_realloc, speed_request
  <1>3. CASE util_malloc(p, incr) \/ util_realloc(p, incr)
    <2>1. PICK old : Answer(old, p, Op.size, incr)
      BY <1>3 DEF util_malloc, util_realloc
    <2>2. mem_brk' \in mem_start_brk .. mem_max_addr /\ granted' \subseteq Records
      BY <1>1, <2>1, AnswerType DEF Ctl
    <2>3. Remember(p) /\ UNCHANGED ranges
      BY <1>3 DEF util_malloc, util_realloc
    <2>4. TrackedNext
      BY <1>1, <2>2, <2>3, Remembered DEF TrackedNext, Tracked, Ctl, Typed
    <2> QED
      BY <1>1, <1>2, <2>4, GoesOn
  <1>4. CASE speed_request(p, incr)
    <2>1. PICK old : Answer(old, p, Op.size, incr)
      BY <1>4 DEF speed_request
    <2>2. mem_brk' \in mem_start_brk .. mem_max_addr /\ granted' \subseteq Records
      BY <1>1, <2>1, AnswerType DEF Ctl
    <2>3. TrackedNext
      BY <1>1, <1>4, <2>2, Remembered DEF speed_request, TrackedNext, Tracked, Ctl, Typed
    <2> QED
      BY <1>1, <1>2, <2>3, GoesOn
  <1> QED
    BY <1>3, <1>4

(* The replay on libc.                                                     *)
LEMMA LibcKeeps ==
  ASSUME Ctl, UNCHANGED allocator, NEW p \in Pointers, libc_request(p)
  PROVE  Ctl'
  <1>1. pc = "ops" /\ i <= trace.num_ops /\ Advance /\ UNCHANGED mem_brk
    BY DEF libc_request, Operating
  <1>2. PICK n \in Nat : n = IF Op.size = 0 THEN 1 ELSE Op.size
    BY <1>1, OpType DEF Ctl
  <1>3. Extent(p, n) \in Records
    BY Constants, ExtentType
  <1>4. granted' \subseteq Records
    BY <1>2, <1>3 DEF libc_request, NotAt, Ctl, Typed
  <1>5. TrackedNext
    BY <1>1, <1>4, Remembered DEF libc_request, TrackedNext, Tracked, Ctl, Typed
  <1> QED
    BY <1>1, <1>5, GoesOn

(* A block is freed.                                                       *)
LEMMA FreeKeeps ==
  ASSUME Ctl, UNCHANGED allocator, Free \/ libc_free
  PROVE  Ctl'
  <1>1. /\ pc = "ops" /\ i <= trace.num_ops /\ Advance /\ FreeCall(Old)
        /\ UNCHANGED <<blocks, block_sizes>>
        /\ ranges' = remove_range(ranges, Old) \/ UNCHANGED ranges
    BY DEF Free, valid_free, util_free, speed_free, libc_free, Operating, tracked
  <1>2. ranges' \in Seq(Records) /\ granted' \subseteq Records
    BY <1>1, RemovedType DEF FreeCall, NotAt, Ctl, Typed
  <1>3. TrackedNext
    BY <1>1, <1>2 DEF FreeCall, TrackedNext, Tracked, Ctl, Typed
  <1> QED
    BY <1>1, <1>3, GoesOn

(* A request is refused.                                                   *)
LEMMA RefusedKeeps ==
  ASSUME RoomAbove, Ctl, UNCHANGED allocator, NEW incr \in Increments,
         request_fails(incr) \/ allocator_exits(incr)
  PROVE  Ctl'
  <1>1. /\ pc = "ops" /\ pass \notin LibcPasses /\ mem_sbrk(incr) /\ UNCHANGED granted
        /\ UNCHANGED <<libc_left, pass, runs, trace, i, ranges, blocks, block_sizes>>
    BY DEF request_fails, allocator_exits, Operating, AnswerNull, tracked
  <1>2. TrackedNext
    BY <1>1, Grows DEF TrackedNext, Tracked, Ctl, Typed
  <1>3. \/ pc' \in {"exit", "assert"} /\ UNCHANGED results
        \/ pass = "valid" /\ \E what : Complain(what)
    BY DEF request_fails, allocator_exits
  <1> QED
    BY <1>1, <1>2, <1>3, Leaves DEF Evaluating

(* libc has no memory: the program ends.                                   *)
LEMMA LibcEnds ==
  ASSUME Ctl, UNCHANGED allocator, libc_request_fails
  PROVE  Ctl'
  BY DEF libc_request_fails, tracked, sizes, Ctl, Typed, Course, Counted, Evaluating,
         Invalid

-----------------------------------------------------------------------------
(* From one evaluation and one trace to the next.                          *)

(* mem_reset_brk and mm_init.                                              *)
LEMMA BeginType ==
  ASSUME RoomAbove, Ctl, UNCHANGED allocator, NEW incr \in Increments, Begin(incr)
  PROVE  TrackedNext
  <1>1. mem_start_brk + incr \in Nat /\ mem_start_brk + incr < WORD_MOD /\ incr \in Nat
    BY Constants DEF RoomAbove
  <1>2. MovedBrk(mem_start_brk, incr) = mem_start_brk + incr
    BY <1>1, NoWrap, Constants DEF MovedBrk
  <1>3. mem_brk' \in mem_start_brk .. mem_max_addr
    BY <1>1, <1>2, Constants DEF Begin, SbrkSucceeds
  <1>4. ranges' \in Seq(Records)
    BY DEF Begin, clear_ranges, Ctl, Typed
  <1> QED
    BY <1>3, <1>4 DEF Begin, TrackedNext, Tracked, Ctl, Typed

(* The counters of runs and traces are numbers within their limits.        *)
LEMMA CounterType ==
  ASSUME Typed
  PROVE  /\ runs \in Nat /\ SpeedRuns \in Nat /\ SpeedRuns > 0 /\ runs <= SpeedRuns
         /\ Course /\ pc = "begin" => runs < SpeedRuns
         /\ NumTraces[allocator] \in Nat
         /\ libc_left \in Nat /\ libc_left <= NumTraces[allocator]
  <1>1. SpeedRuns \in Nat /\ SpeedRuns > 0 /\ NumTraces[allocator] \in Nat
    BY Constants DEF Typed
  <1>2. runs \in 0 .. SpeedRuns /\ libc_left \in 0 .. NumTraces[allocator]
    BY DEF Typed
  <1>3. Course /\ pc = "begin" => runs < SpeedRuns
    BY DEF Course
  <1> QED
    BY <1>1, <1>2, <1>3

(* An evaluation begins, or mm_init fails.                                 *)
LEMMA BeginKeeps ==
  ASSUME RoomAbove, Ctl, UNCHANGED allocator, NEW incr \in Increments,
         begin_evaluation(incr) \/ init_fails(incr)
  PROVE  Ctl'
  <1>1. /\ Begin(incr) /\ pc = "begin" /\ pass \notin LibcPasses
        /\ UNCHANGED <<libc_left, pass, trace>>
    BY DEF begin_evaluation, init_fails, Begin
  <1>2. Tracked(mem_brk', ranges', blocks', block_sizes', granted')
    BY <1>1, BeginType DEF TrackedNext
  <1>3. CASE begin_evaluation(incr)
    <2>1. /\ pc' = "ops" /\ i' = 1 /\ UNCHANGED <<errors, msg, valid>>
          /\ runs' = IF pass = "speed" THEN runs + 1 ELSE runs
      BY <1>3 DEF begin_evaluation, results
    <2>2. runs < SpeedRuns /\ SpeedRuns \in Nat /\ runs \in Nat
      BY <1>1, CounterType DEF Ctl
    <2>3. trace.lines \in Lines
      BY TraceType DEF Ctl
    <2>4. Len(trace.lines) \in Nat
      BY <2>3 DEF Lines
    <2>5. Typed'
      BY <1>1, <1>2, <2>1, <2>2, <2>4 DEF Ctl, Typed, Tracked
    <2> QED
      BY <1>1, <2>1, <2>2, <2>5 DEF Ctl, Course, Counted, Evaluating, Invalid, HeaderFits
  <1>4. CASE init_fails(incr)
    <2>1. /\ UNCHANGED <<runs, i>>
          /\ \/ pc' \in {"exit", "assert"} /\ UNCHANGED results
             \/ pass = "valid" /\ \E what : Complain(what)
      BY <1>4 DEF init_fails
    <2> QED
      BY <1>1, <1>2, <2>1, Leaves DEF TrackedNext, Evaluating
  <1> QED
    BY <1>3, <1>4

(* libc needs no more than a trace.                                        *)
LEMMA LibcBegins ==
  ASSUME Ctl, UNCHANGED allocator, libc_begins
  PROVE  Ctl'
  <1>1. /\ pc = "begin" /\ pc' = "ops" /\ i' = 1 /\ pass \in LibcPasses /\ granted' = {}
        /\ runs' = IF pass = "libc speed" THEN runs + 1 ELSE runs
        /\ UNCHANGED <<mem_brk, libc_left, pass, trace, ranges, blocks, block_sizes,
                       errors, msg, valid>>
    BY DEF libc_begins, tracked, sizes, results
  <1>2. runs < SpeedRuns /\ SpeedRuns \in Nat /\ runs \in Nat
    BY <1>1, CounterType DEF Ctl
  <1>3. trace.lines \in Lines
    BY TraceType DEF Ctl
  <1>4. Len(trace.lines) \in Nat
    BY <1>3 DEF Lines
  <1>5. runs' \in 0 .. SpeedRuns /\ i' \in Nat \ {0} /\ i' <= Len(trace'.lines) + 1
    <2>1. runs' = runs + 1 \/ runs' = runs
      BY <1>1
    <2>2. i' = 1 /\ trace' = trace
      BY <1>1
    <2> QED
      BY <1>2, <1>4, <2>1, <2>2
  <1>6. Typed'
    BY <1>1, <1>5 DEF Ctl, Typed
  <1> QED
    BY <1>1, <1>6 DEF Ctl, Course, Counted, Evaluating, Invalid, HeaderFits, LibcPasses

(* A trace has been replayed to its end: a verdict, if it was the first    *)
(* time.                                                                   *)
LEMMA EndKeeps ==
  ASSUME Ctl, UNCHANGED allocator, evaluation_ends
  PROVE  Ctl'
  <1>1. /\ pc = "ops" /\ pass \notin LibcPasses /\ pass \in {"valid", "util", "speed"}
        /\ pass' = IF pass = "valid" THEN "util" ELSE "speed"
        /\ pc' = IF pass = "speed" /\ TimingEnds THEN "read" ELSE "begin"
        /\ UNCHANGED <<mem_brk, libc_left, runs, trace, i, ranges, blocks, block_sizes,
                       errors, msg, granted>>
    BY DEF evaluation_ends, AtEnd, tracked, sizes, Ctl, Typed, Passes, LibcPasses
  <1>2. runs \in 0 .. SpeedRuns /\ SpeedRuns \in Nat \ {0}
    BY Constants DEF Ctl, Typed
  <1>3. pass \in {"valid", "util"} => runs = 0
    BY <1>1 DEF Ctl, Course, Evaluating
  <1>4. pc' = "begin" => runs' < SpeedRuns
    BY <1>1, <1>2, <1>3 DEF TimingEnds
  <1>5. /\ valid' \in Seq(BOOLEAN) /\ Len(valid') <= NumTraces[allocator]
        /\ Cardinality(Invalid') = Cardinality(Invalid)
    <2>1. CASE pass = "valid"
      <3>1. valid' = Append(valid, TRUE) /\ Len(valid) < NumTraces[allocator]
        BY <1>1, <2>1 DEF evaluation_ends, Ctl, Course, Evaluating
      <3>2. /\ valid' \in Seq(BOOLEAN) /\ Len(valid') = Len(valid) + 1
            /\ Cardinality(Invalid) \in Nat
            /\ Cardinality(Invalid') = Cardinality(Invalid) + 0
        BY <3>1, Verdict DEF Ctl, Typed
      <3>3. NumTraces[allocator] \in Nat /\ Len(valid) \in Nat
        BY Constants DEF Ctl, Typed
      <3> QED
        BY <3>1, <3>2, <3>3
    <2>2. CASE pass # "valid"
      BY <2>2 DEF evaluation_ends, Ctl, Typed, Invalid
    <2> QED
      BY <2>1, <2>2
  <1>6. Typed'
    BY <1>1, <1>5 DEF Ctl, Typed, Passes
  <1>7. Course'
    BY <1>1, <1>3, <1>4 DEF Ctl, Course, Evaluating, HeaderFits, LibcPasses
  <1>8. Counted'
    BY <1>1, <1>5 DEF Ctl, Counted, LibcPasses
  <1> QED
    BY <1>6, <1>7, <1>8 DEF Ctl

(* ... on libc.                                                            *)
LEMMA LibcEndKeeps ==
  ASSUME Ctl, UNCHANGED allocator, libc_evaluation_ends
  PROVE  Ctl'
  <1>1. /\ pc = "ops" /\ pass \in LibcPasses /\ pass' = "libc speed"
        /\ \/ pc' = "read" /\ libc_left' = libc_left - 1
           \/ ~(pass = "libc speed" /\ TimingEnds) /\ pc' = "begin" /\ UNCHANGED libc_left
        /\ UNCHANGED <<mem_brk, runs, trace, i, ranges, blocks, block_sizes, errors, msg,
                       valid, granted>>
    BY DEF libc_evaluation_ends, AtEnd, tracked, sizes, results
  <1>2. /\ runs \in Nat /\ SpeedRuns \in Nat /\ SpeedRuns > 0 /\ runs <= SpeedRuns
        /\ libc_left > 0 /\ runs' = runs
    BY <1>1, CounterType DEF Ctl, Course, Evaluating
  <1>3. pass = "libc valid" => runs = 0
    BY <1>1 DEF Ctl, Course, Evaluating
  <1>4. pc' = "begin" => runs' < SpeedRuns
    <2>1. CASE pass = "libc valid"
      BY <1>2, <1>3, <2>1
    <2>2. CASE pass = "libc speed"
      <3>1. pc' = "begin" => runs # SpeedRuns
        BY <1>1, <2>2 DEF TimingEnds
      <3> QED
        BY <1>2, <3>1
    <2> QED
      BY <1>1, <2>1, <2>2 DEF LibcPasses
  <1>5. /\ libc_left' \in 0 .. NumTraces[allocator]
        /\ pc' = "begin" => libc_left' > 0
    <2>1. PICK N \in Nat : N = NumTraces[allocator] /\ libc_left \in Nat /\ libc_left <= N
      BY CounterType DEF Ctl
    <2>2. \/ libc_left' = libc_left
          \/ libc_left' = libc_left - 1 /\ pc' = "read"
      BY <1>1
    <2> QED
      BY <1>2, <2>1, <2>2
  <1>6. Typed'
    BY <1>1, <1>5 DEF Ctl, Typed, Passes, LibcPasses
  <1>7. Course'
    BY <1>1, <1>4, <1>5 DEF Ctl, Course, Evaluating, HeaderFits, LibcPasses
  <1>8. Counted'
    BY <1>1 DEF Ctl, Counted, LibcPasses, Invalid
  <1> QED
    BY <1>6, <1>7, <1>8 DEF Ctl

(* The next trace is read, or there is none left.                          *)
LEMMA ReadKeeps ==
  ASSUME Ctl, UNCHANGED allocator,
         \/ finish \/ read_trace_exits
         \/ \E f \in TraceFiles[allocator] : read_trace(f)
  PROVE  Ctl'
  <1>1. CASE finish \/ read_trace_exits
    BY <1>1 DEF finish, read_trace_exits, tracked, sizes, results, Ctl, Typed, Course, Counted, Evaluating,
                Invalid
  <1>2. ASSUME NEW f \in TraceFiles[allocator], read_trace(f) PROVE Ctl'
    <2>1. /\ pc = "read" /\ Len(valid) < NumTraces[allocator]
          /\ pc' \in {"begin", "assert", "crash"} /\ (pc' = "begin" => HeaderFits(f))
          /\ pass' = IF libc_left > 0 THEN "libc valid" ELSE "valid"
          /\ runs' = 0 /\ trace' = f
          /\ UNCHANGED <<mem_brk, libc_left, i, ranges, errors, msg, valid, granted>>
          /\ blocks' = [id \in Ids |-> NULL] /\ block_sizes' = [id \in Ids |-> 0]
      BY <1>2 DEF read_trace, sizes, results
    <2>2. SpeedRuns \in Nat /\ SpeedRuns > 0 /\ libc_left \in Nat
      BY CounterType DEF Ctl
    <2>3. runs' \in 0 .. SpeedRuns /\ runs' < SpeedRuns
      <3>1. runs' = 0
        BY <2>1
      <3> QED
        BY <2>2, <3>1
    <2>4. pc' \in {"begin", "assert", "crash"} /\ pass' \in Passes
      BY <2>1 DEF Passes, LibcPasses
    <2>5. Typed'
      BY <2>1, <2>3, <2>4 DEF Ctl, Typed
    <2>6. Course'
      <3>1. /\ trace' \in TraceFiles[allocator'] /\ allocator' = allocator
            /\ pc' = "begin" => HeaderFits(trace')
        BY <2>1
      <3>2. pass' \in LibcPasses => libc_left' > 0
        BY <2>1, <2>2 DEF LibcPasses
      <3> QED
        BY <2>1, <2>3, <2>4, <3>1, <3>2 DEF Course, Evaluating
    <2>7. Counted'
      BY <2>1 DEF Ctl, Counted, LibcPasses, Invalid
    <2> QED
      BY <2>5, <2>6, <2>7 DEF Ctl
  <1> QED
    BY <1>1, <1>2

(* The driver begins typed, with no errors counted.                        *)
LEMMA CtlInit == Init => Ctl
  <1> SUFFICES ASSUME Init PROVE Ctl
    OBVIOUS
  <1>1. NumTraces[allocator] \in Nat /\ SpeedRuns \in Nat \ {0}
    BY Constants DEF Init
  <1>2. Typed
    BY <1>1, Constants DEF Init, Typed, Passes, LibcPasses, NoTrace
  <1>3. Course
    BY DEF Init, Course, Evaluating
  <1>4. Invalid = {}
    BY DEF Init, Invalid
  <1> QED
    BY <1>2, <1>3, <1>4, FS_EmptySet DEF Init, Ctl, Counted

(* Every step keeps all that.                                              *)
LEMMA CtlStep == RoomAbove /\ Ctl /\ [Next]_vars => Ctl'
  <1> SUFFICES ASSUME RoomAbove, Ctl, [Next]_vars PROVE Ctl'
    OBVIOUS
  <1>1. CASE UNCHANGED vars
    BY <1>1 DEF vars, tracked, sizes, results, Ctl, Typed, Course, Counted, Evaluating,
                Invalid
  <1>2. CASE Allocator /\ UNCHANGED allocator
    <2>1. ASSUME NEW incr \in Increments,
                 \/ begin_evaluation(incr) \/ init_fails(incr)
                 \/ request_fails(incr) \/ allocator_exits(incr)
          PROVE  Ctl'
      BY <1>2, <2>1, BeginKeeps, RefusedKeeps
    <2>2. ASSUME NEW incr \in Increments, NEW p \in Pointers, NEW kept \in BOOLEAN,
                 Request(p, incr, kept)
          PROVE  Ctl'
      BY <1>2, <2>2, ValidKeeps, FiguresKeep DEF Request
    <2>3. CASE Free
      BY <1>2, <2>3, FreeKeeps
    <2> QED
      BY <1>2, <2>1, <2>2, <2>3 DEF Allocator
  <1>3. CASE Own /\ UNCHANGED allocator
    BY <1>3, ReadKeeps, EndKeeps, LibcKeeps, LibcBegins, LibcEnds, LibcEndKeeps, FreeKeeps
       DEF Own
  <1> QED
    BY <1>1, <1>2, <1>3 DEF Next, stopped

(* "valid: was the trace processed correctly by the allocator?": the       *)
(* number of errors is the number of traces judged invalid.                *)
THEOREM ErrorsCounted == ASSUME RoomAbove PROVE Spec => []ErrorsAreInvalidTraces
  <1>1. Ctl => ErrorsAreInvalidTraces
    BY DEF Ctl, Counted, Invalid, ErrorsAreInvalidTraces
  <1> QED
    BY <1>1, CtlInit, CtlStep, PTL DEF Spec

-----------------------------------------------------------------------------
(* The blocks in use.                                                      *)

(* What an operation makes of the blocks in use.                           *)
LEMMA InUseNext ==
  ASSUME NEW lines \in Lines, NEW n \in DOMAIN lines
  PROVE  /\ InUse(lines, 1) = {}
         /\ InUse(lines, n + 1) = IF lines[n].type = "f"
                                  THEN InUse(lines, n) \ {lines[n].index}
                                  ELSE InUse(lines, n) \cup {lines[n].index}
  <1> DEFINE Holds(id, last, k) ==
               /\ lines[k].index = id /\ lines[k].type # "f"
               /\ \A m \in k + 1 .. last - 1 : lines[m].index = id => lines[m].type # "f"
  <1>1. /\ n \in Nat /\ n > 0
        /\ lines[n].index \in Ids
    <2>1. n \in 1 .. Len(lines) /\ lines[n] \in Line
      BY DEF Lines
    <2> QED
      BY <2>1 DEF Line
  <1>2. \A id, last : id \in InUse(lines, last) <=>
                        id \in Ids /\ \E k \in 1 .. last - 1 : Holds(id, last, k)
    BY DEF InUse
  <1>3. \A id, k : Holds(id, n + 1, k) =>
           /\ lines[k].index = id /\ lines[k].type # "f"
           /\ \A m \in k + 1 .. n : lines[m].index = id => lines[m].type # "f"
    BY <1>1
  <1>4. ASSUME NEW id \in Ids, id # lines[n].index
        PROVE  id \in InUse(lines, n + 1) <=> id \in InUse(lines, n)
    <2>1. ASSUME NEW k \in 1 .. n, Holds(id, n + 1, k)
          PROVE  k \in 1 .. n - 1 /\ Holds(id, n, k)
      BY <1>1, <1>3, <1>4, <2>1
    <2>2. ASSUME NEW k \in 1 .. n - 1, Holds(id, n, k)
          PROVE  k \in 1 .. n /\ Holds(id, n + 1, k)
      <3>1. \A m \in k + 1 .. (n + 1) - 1 : m = n \/ m \in k + 1 .. n - 1
        BY <1>1
      <3> QED
        BY <1>1, <1>4, <2>2, <3>1
    <2>3. (n + 1) - 1 = n
      BY <1>1
    <2> HIDE DEF Holds
    <2> QED
      BY <1>2, <2>1, <2>2, <2>3
  <1>5. lines[n].index \in InUse(lines, n + 1) <=> lines[n].type # "f"
    <2>1. lines[n].type # "f" => Holds(lines[n].index, n + 1, n)
      BY <1>1
    <2>2. ASSUME lines[n].type = "f", NEW k \in 1 .. n
          PROVE  ~Holds(lines[n].index, n + 1, k)
      BY <1>1, <1>3, <2>2
    <2>3. (n + 1) - 1 = n /\ n \in 1 .. n
      BY <1>1
    <2> HIDE DEF Holds
    <2> QED
      BY <1>1, <1>2, <2>1, <2>2, <2>3
  <1>6. InUse(lines, 1) = {}
    BY DEF InUse
  <1>7. InUse(lines, n) \subseteq Ids /\ InUse(lines, n + 1) \subseteq Ids
    BY DEF InUse
  <1> HIDE DEF Holds
  <1> QED
    BY <1>1, <1>4, <1>5, <1>6, <1>7

(* The trace being in order, an operation allocates a block that is not in *)
(* use, or reallocates or frees one that is.                               *)
LEMMA LiveNext ==
  ASSUME Ctl, pc = "ops", i <= trace.num_ops
  PROVE  /\ Op.index \in Ids /\ Live \subseteq Ids
         /\ Op.type = "a" <=> Op.index \notin Live
         /\ i' = i + 1 /\ trace' = trace =>
              Live' = IF Op.type = "f" THEN Live \ {Op.index} ELSE Live \cup {Op.index}
  <1>1. /\ i \in DOMAIN trace.lines /\ trace.lines \in Lines
        /\ Op.index \in Ids
    BY OpType, TraceType DEF Ctl
  <1>2. Op.type = "a" <=> Op.index \notin Live
    BY <1>1, TraceType DEF Ctl, Evaluating, InOrder, Live, Op
  <1>3. InUse(trace.lines, i + 1) = IF Op.type = "f" THEN Live \ {Op.index}
                                                   ELSE Live \cup {Op.index}
    BY <1>1, InUseNext DEF Live, Op
  <1>4. Live \subseteq Ids
    BY DEF Live, InUse
  <1> QED
    BY <1>1, <1>2, <1>3, <1>4 DEF Live

(* At the beginning no block is.                                           *)
LEMMA LiveFirst == i' = 1 => Live' = {}
  BY DEF Live, InUse

-----------------------------------------------------------------------------
(* The range list follows the payloads.                                    *)

(* As RangesSound says of two ranges, and of each of them.                 *)
Nested(list) ==
  \A k, n \in DOMAIN list : k < n =>
    \/ Apart(list[k], list[n])
    \/ list[k].lo < list[n].lo /\ list[n].hi < list[k].hi

InHeap(r, brk) ==
  /\ r.lo % ALIGNMENT = 0
  /\ mem_heap_lo <= r.lo /\ r.lo <= r.hi /\ r.hi <= brk - 1

AllInHeap(list, brk) == \A k \in DOMAIN list : InHeap(list[k], brk)

(* The ends of a range are numbers.                                        *)
LEMMA EndsType ==
  ASSUME NEW list \in Seq(Records), NEW k \in DOMAIN list
  PROVE  list[k] \in Records /\ list[k].lo \in Nat /\ list[k].hi \in Nat
  <1>1. list[k] \in Records
    OBVIOUS
  <1> QED
    BY <1>1 DEF Records

(* Ranges that are nested and not empty begin at different places.         *)
LEMMA NestedDistinct ==
  ASSUME NEW list \in Seq(Records), NEW brk, Nested(list), AllInHeap(list, brk)
  PROVE  Distinct(list)
  <1> SUFFICES ASSUME NEW k \in DOMAIN list, NEW n \in DOMAIN list, k < n,
                      list[k].lo = list[n].lo
               PROVE  FALSE
    BY DEF Distinct
  <1>1. /\ list[k].lo \in Nat /\ list[k].hi \in Nat
        /\ list[n].lo \in Nat /\ list[n].hi \in Nat
    BY EndsType
  <1>2. list[k].lo <= list[k].hi /\ list[n].lo <= list[n].hi
    BY DEF AllInHeap, InHeap
  <1> QED
    BY <1>1, <1>2 DEF Nested, Apart

(* Taking out the range that begins at lo leaves the others as they are.   *)
LEMMA RemovedFrom ==
  ASSUME NEW list \in Seq(Records), Distinct(list), NEW k \in DOMAIN list,
         NEW lo, lo = list[k].lo, NEW new, new = remove_range(list, lo)
  PROVE  /\ new \in Seq(Records) /\ Len(new) = Len(list) - 1
         /\ ToSet(new) = {r \in ToSet(list) : r.lo # lo}
         /\ Nested(list) => Nested(new)
         /\ \A brk : AllInHeap(list, brk) => AllInHeap(new, brk)
  <1>1. new = RemoveAt(list, k)
    BY Removed
  <1>2. /\ new \in Seq(Records) /\ Len(new) = Len(list) - 1 /\ Len(list) \in Nat
        /\ k \in 1 .. Len(list)
        /\ \A n \in 1 .. Len(list) - 1 :
             new[n] = IF n < k THEN list[n] ELSE list[n + 1]
    BY <1>1, Without
  <1>3. DOMAIN list = 1 .. Len(list) /\ DOMAIN new = 1 .. Len(new)
    BY <1>2
  <1>4. PICK len \in Nat : /\ len = Len(list) /\ k \in 1 .. len
                           /\ DOMAIN list = 1 .. len /\ DOMAIN new = 1 .. len - 1
                           /\ \A n \in 1 .. len - 1 :
                                new[n] = IF n < k THEN list[n] ELSE list[n + 1]
    BY <1>2, <1>3
  <1> DEFINE was(n) == IF n < k THEN n ELSE n + 1
  <1>5. \A n \in 1 .. len - 1 : was(n) \in 1 .. len /\ was(n) # k /\ new[n] = list[was(n)]
    <2> TAKE n \in 1 .. len - 1
    <2>1. CASE n < k
      BY <1>4, <2>1
    <2>2. CASE ~(n < k)
      BY <1>4, <2>2
    <2> QED
      BY <2>1, <2>2
  <1>6. \A n, m \in 1 .. len - 1 : n < m => was(n) < was(m)
    BY <1>4
  <1>7. \A m \in 1 .. len : m # k => \E n \in 1 .. len - 1 : was(n) = m
    <2> TAKE m \in 1 .. len
    <2>1. CASE m < k
      BY <1>4, <2>1
    <2>2. CASE m > k
      <3>1. m - 1 \in 1 .. len - 1 /\ was(m - 1) = m
        BY <1>4, <2>2
      <3> QED
        BY <3>1
    <2> QED
      BY <1>4, <2>1, <2>2
  <1> HIDE DEF was
  <1>8. ToSet(new) = {r \in ToSet(list) : r.lo # lo}
    <2>1. ASSUME NEW n \in DOMAIN new PROVE new[n] \in {r \in ToSet(list) : r.lo # lo}
      BY <1>4, <1>5 DEF ToSet, Distinct
    <2>2. ASSUME NEW m \in DOMAIN list, list[m].lo # lo PROVE list[m] \in ToSet(new)
      <3>1. m # k
        BY <2>2
      <3>2. PICK n \in 1 .. len - 1 : was(n) = m
        BY <1>4, <1>7, <3>1
      <3> QED
        BY <1>4, <1>5, <3>2 DEF ToSet
    <2> QED
      BY <2>1, <2>2 DEF ToSet
  <1>9. ASSUME Nested(list) PROVE Nested(new)
    <2> SUFFICES ASSUME NEW n \in 1 .. len - 1, NEW m \in 1 .. len - 1, n < m
                 PROVE  \/ Apart(new[n], new[m])
                        \/ new[n].lo < new[m].lo /\ new[m].hi < new[n].hi
      BY <1>4 DEF Nested
    <2>1. was(n) < was(m) /\ was(n) \in DOMAIN list /\ was(m) \in DOMAIN list
      BY <1>4, <1>5, <1>6
    <2> QED
      BY <1>5, <1>9, <2>1 DEF Nested
  <1>10. \A brk : AllInHeap(list, brk) => AllInHeap(new, brk)
    BY <1>4, <1>5 DEF AllInHeap
  <1> QED
    BY <1>2, <1>8, <1>9, <1>10

(* What add_range has accepted.                                            *)
LEMMA Accepted ==
  ASSUME NEW list, NEW p, NEW size, NEW brk, RangeFault(list, p, size, brk) = "none"
  PROVE  /\ p % ALIGNMENT = 0
         /\ ~(p < mem_heap_lo) /\ ~(p > brk - 1)
         /\ ~(Extent(p, size).hi < mem_heap_lo) /\ ~(Extent(p, size).hi > brk - 1)
         /\ \A k \in DOMAIN list : ~Overlap(p, Extent(p, size).hi, list[k])
  BY DEF RangeFault

(* A range that is not outside the heap does not wrap round.               *)
LEMMA NewInHeap ==
  ASSUME RoomAbove, NEW p \in Pointers, NEW size \in Sizes,
         NEW brk \in mem_start_brk .. mem_max_addr,
         NEW list, RangeFault(list, p, size, brk) = "none"
  PROVE  /\ InHeap(Extent(p, size), brk) /\ Extent(p, size) \in Records
         /\ Extent(p, size).lo = p /\ p \in Nat
  <1> size \in Nat /\ size > 0 /\ size < WORD_MOD \div 2
    BY DEF Sizes
  <1>1. /\ Extent(p, size) \in Records /\ Extent(p, size).lo = p /\ p \in Nat
        /\ p < WORD_MOD
    BY Constants, ExtentType
  <1>2. PICK h \in Nat : h = Extent(p, size).hi /\ h = (p + size - 1) % WORD_MOD
    BY <1>1 DEF Extent, Records
  <1>3. /\ p % ALIGNMENT = 0 /\ mem_start_brk <= p /\ p <= brk - 1
        /\ mem_start_brk <= h /\ h <= brk - 1
    <2>1. /\ p % ALIGNMENT = 0 /\ ~(p < mem_start_brk) /\ ~(p > brk - 1)
          /\ ~(h < mem_start_brk) /\ ~(h > brk - 1)
      BY <1>2, Accepted DEF mem_heap_lo
    <2>2. mem_start_brk \in Int /\ brk \in Int
      BY Constants
    <2> QED
      BY <1>1, <2>1, <2>2
  <1>4. WORD_MOD \in Nat /\ 2 * (WORD_MOD \div 2) = WORD_MOD /\ WORD_MOD \div 2 \in Nat
    BY Constants
  <1>5. p <= h
    <2>1. CASE p + size - 1 < WORD_MOD
      <3>1. p + size - 1 \in Nat
        BY <1>1
      <3>2. h = p + size - 1
        BY <1>2, <1>4, <2>1, <3>1, NoWrap
      <3> QED
        BY <1>1, <3>2
    <2>2. CASE p + size - 1 >= WORD_MOD
      <3>1. PICK x \in Nat, z \in Nat : /\ x = p + size - 1 - WORD_MOD /\ x < WORD_MOD
                                        /\ z = p + size - 1 /\ z = x + WORD_MOD
        BY <1>1, <1>4, <2>2
      <3>2. h = x
        BY <1>2, <1>4, <3>1, Wraps
      <3> QED
        BY <1>1, <1>3, <1>4, <3>1, <3>2, Constants DEF RoomAbove
    <2> QED
      BY <1>1, <1>4, <2>1, <2>2
  <1> QED
    BY <1>1, <1>2, <1>3, <1>5 DEF InHeap, mem_heap_lo

(* A range that is accepted joins the list.                                *)
LEMMA AddedTo ==
  ASSUME RoomAbove, NEW list \in Seq(Records), NEW p \in Pointers, NEW size \in Sizes,
         NEW brk \in mem_start_brk .. mem_max_addr,
         RangeFault(list, p, size, brk) = "none",
         NEW new, new = add_range(list, p, size)
  PROVE  /\ new \in Seq(Records) /\ Len(new) = Len(list) + 1
         /\ ToSet(new) = {Extent(p, size)} \cup ToSet(list)
         /\ Nested(list) => Nested(new)
         /\ AllInHeap(list, brk) => AllInHeap(new, brk)
         /\ AllInHeap(list, brk) => \A r \in ToSet(list) : r.lo # p
  <1>1. PICK e \in Records : e = Extent(p, size) /\ e.lo = p /\ p \in Nat /\ e.hi \in Nat
                             /\ InHeap(e, brk)
    BY NewInHeap DEF Records
  <1>2. new = <<e>> \o list
    BY <1>1 DEF add_range
  <1>3. /\ new \in Seq(Records) /\ Len(new) = Len(list) + 1 /\ Len(list) \in Nat
        /\ DOMAIN list = 1 .. Len(list) /\ DOMAIN new = 1 .. Len(list) + 1
        /\ new[1] = e /\ \A n \in DOMAIN list : new[n + 1] = list[n]
    BY <1>2
  <1>4. \A m \in DOMAIN new : m = 1 \/ \E n \in DOMAIN list : m = n + 1
    <2> TAKE m \in DOMAIN new
    <2>1. m # 1 => m - 1 \in DOMAIN list /\ m = (m - 1) + 1
      BY <1>3
    <2> QED
      BY <2>1
  <1>5. \A n \in DOMAIN list : /\ n \in Nat /\ n + 1 \in DOMAIN new /\ n > 0
                               /\ list[n].lo \in Nat /\ list[n].hi \in Nat
    BY <1>3, EndsType
  <1>6. \A n \in DOMAIN list : ~Overlap(p, e.hi, list[n])
    BY <1>1, Accepted
  <1>7. ToSet(new) = {e} \cup ToSet(list)
    <2>1. \A m \in DOMAIN new : new[m] = e \/ \E n \in DOMAIN list : new[m] = list[n]
      BY <1>3, <1>4
    <2>2. 1 \in DOMAIN new
      BY <1>3
    <2>3. \A n \in DOMAIN list : \E m \in DOMAIN new : list[n] = new[m]
      BY <1>3, <1>5
    <2>4. e \in ToSet(new) /\ ToSet(new) \subseteq {e} \cup ToSet(list)
      BY <1>3, <2>1, <2>2 DEF ToSet
    <2>5. ToSet(list) \subseteq ToSet(new)
      BY <2>3 DEF ToSet
    <2> QED
      BY <2>4, <2>5
  <1>8. ASSUME Nested(list) PROVE Nested(new)
    <2> SUFFICES ASSUME NEW k \in DOMAIN new, NEW n \in DOMAIN new, k < n
                 PROVE  \/ Apart(new[k], new[n])
                        \/ new[k].lo < new[n].lo /\ new[n].hi < new[k].hi
      BY DEF Nested
    <2>1. PICK m \in DOMAIN list : n = m + 1
      BY <1>3, <1>4
    <2>2. CASE k = 1
      <3>1. new[k] = e /\ new[n] = list[m]
        BY <1>3, <2>1, <2>2
      <3>2. /\ e.lo = p /\ p \in Nat /\ e.hi \in Nat
            /\ list[m].lo \in Nat /\ list[m].hi \in Nat
        BY <1>1, <1>5
      <3>3. ~Overlap(p, e.hi, list[m])
        BY <1>6
      <3> QED
        BY <3>1, <3>2, <3>3 DEF Overlap, Apart
    <2>3. CASE k # 1
      <3>1. PICK l \in DOMAIN list : k = l + 1
        BY <1>4, <2>3
      <3>2. l < m
        BY <1>5, <2>1, <3>1
      <3> QED
        BY <1>3, <1>8, <2>1, <3>1, <3>2 DEF Nested
    <2> QED
      BY <2>2, <2>3
  <1>9. AllInHeap(list, brk) => AllInHeap(new, brk)
    BY <1>1, <1>3, <1>4 DEF AllInHeap
  <1>10. ASSUME AllInHeap(list, brk), NEW n \in DOMAIN list PROVE list[n].lo # p
    BY <1>1, <1>5, <1>6, <1>10 DEF AllInHeap, InHeap, Overlap
  <1> QED
    BY <1>1, <1>3, <1>7, <1>8, <1>9, <1>10 DEF ToSet

-----------------------------------------------------------------------------
(* The payloads of the trace, and those of the blocks but one.             *)
PayloadsOf(set) == {Extent(blocks[id], block_sizes[id]) : id \in set}

PointersDiffer == \A id, other \in Live : id # other => blocks[id] # blocks[other]

(* The range list is the list of the payloads in use.                      *)
RangesFollow ==
  /\ AllInHeap(ranges, mem_brk)
  /\ IsFiniteSet(Live) /\ Len(ranges) = Cardinality(Live)
  /\ ToSet(ranges) = PayloadsOf(Live)
  /\ PointersDiffer

RangesInv == Nested(ranges) /\ (Replaying("valid") => RangesFollow)

(* The payloads of the other blocks are those that begin elsewhere.        *)
LEMMA OtherPayloads ==
  ASSUME PointersDiffer, NEW x
  PROVE  /\ \A id : Extent(blocks[id], block_sizes[id]).lo = blocks[id]
         /\ x \in Live =>
              PayloadsOf(Live \ {x}) = {r \in PayloadsOf(Live) : r.lo # blocks[x]}
         /\ x \notin Live => PayloadsOf(Live \ {x}) = PayloadsOf(Live)
  <1>1. \A id : Extent(blocks[id], block_sizes[id]).lo = blocks[id]
    BY DEF Extent
  <1>2. x \in Live => PayloadsOf(Live \ {x}) = {r \in PayloadsOf(Live) : r.lo # blocks[x]}
    BY <1>1 DEF PayloadsOf, PointersDiffer
  <1>3. x \notin Live => Live \ {x} = Live
    OBVIOUS
  <1> QED
    BY <1>1, <1>2, <1>3

(* A block is given a new payload.                                         *)
LEMMA PayloadsGiven ==
  ASSUME Ctl, pc = "ops", i <= trace.num_ops, Op.type # "f", Advance,
         NEW p \in Pointers, Remember(p), PointersDiffer,
         \A r \in PayloadsOf(Live \ {Op.index}) : r.lo # p
  PROVE  /\ Live' = Live \cup {Op.index}
         /\ PayloadsOf(Live)' = {Extent(p, Op.size)} \cup PayloadsOf(Live \ {Op.index})
         /\ PointersDiffer'
  <1>1. /\ Live' = Live \cup {Op.index} /\ Op.index \in Ids /\ Live \subseteq Ids
    BY LiveNext DEF Advance
  <1>2. /\ blocks'[Op.index] = p /\ block_sizes'[Op.index] = Op.size
        /\ \A id \in Ids \ {Op.index} :
             blocks'[id] = blocks[id] /\ block_sizes'[id] = block_sizes[id]
    BY <1>1 DEF Remember, Ctl, Typed
  <1>3. PICK x \in Ids : x = Op.index
    BY <1>1
  <1>4. PayloadsOf(Live)' = {Extent(blocks'[id], block_sizes'[id]) : id \in Live'}
    BY DEF PayloadsOf
  <1>5. {Extent(blocks'[id], block_sizes'[id]) : id \in Live'}
          = {Extent(p, Op.size)} \cup PayloadsOf(Live \ {x})
    BY <1>1, <1>2, <1>3 DEF PayloadsOf
  <1>6. \A id \in Live \ {x} : blocks[id] # p
    <2>1. \A id \in Live \ {x} :
            Extent(blocks[id], block_sizes[id]) \in PayloadsOf(Live \ {x})
      BY DEF PayloadsOf
    <2> QED
      BY <1>3, <2>1, OtherPayloads
  <1>7. PointersDiffer'
    BY <1>1, <1>2, <1>3, <1>6 DEF PointersDiffer
  <1> QED
    BY <1>1, <1>3, <1>4, <1>5, <1>7

(* Before it is given one, its old range is taken out of the list.         *)
LEMMA RangesWithout ==
  ASSUME Ctl, Nested(ranges), RangesFollow, NEW x \in Live,
         NEW list, list = remove_range(ranges, blocks[x])
  PROVE  /\ list \in Seq(Records) /\ Len(list) = Cardinality(Live \ {x})
         /\ IsFiniteSet(Live \ {x})
         /\ ToSet(list) = PayloadsOf(Live \ {x})
         /\ Nested(list) /\ AllInHeap(list, mem_brk)
  <1>1. ranges \in Seq(Records) /\ Distinct(ranges)
    BY NestedDistinct DEF RangesFollow, Ctl, Typed
  <1>2. PICK k \in DOMAIN ranges : blocks[x] = ranges[k].lo
    <2>1. Extent(blocks[x], block_sizes[x]) \in ToSet(ranges)
      BY DEF RangesFollow, PayloadsOf
    <2> QED
      BY <2>1, OtherPayloads DEF ToSet, RangesFollow
  <1>3. /\ list \in Seq(Records) /\ Len(list) = Len(ranges) - 1
        /\ ToSet(list) = {r \in ToSet(ranges) : r.lo # blocks[x]}
        /\ Nested(list) /\ AllInHeap(list, mem_brk)
    BY <1>1, <1>2, RemovedFrom DEF RangesFollow
  <1>4. IsFiniteSet(Live \ {x}) /\ Cardinality(Live \ {x}) = Cardinality(Live) - 1
    BY FS_RemoveElement DEF RangesFollow
  <1> QED
    BY <1>3, <1>4, OtherPayloads DEF RangesFollow

(* A bigger heap still holds what was in it.                               *)
LEMMA HeapGrown ==
  ASSUME NEW list \in Seq(Records), NEW brk \in Nat, NEW bigger \in Nat, brk <= bigger,
         AllInHeap(list, brk)
  PROVE  AllInHeap(list, bigger)
  <1> SUFFICES ASSUME NEW k \in DOMAIN list PROVE InHeap(list[k], bigger)
    BY DEF AllInHeap
  <1>1. list[k].hi \in Nat
    BY EndsType
  <1> QED
    BY <1>1 DEF AllInHeap, InHeap

(* The answer to a request joins the ranges of the other blocks.           *)
LEMMA AcceptFollows ==
  ASSUME RoomAbove, Ctl, pc = "ops", i <= trace.num_ops, Op.type # "f",
         NEW p \in Pointers, NEW list \in Seq(Records), PointersDiffer,
         IsFiniteSet(Live \ {Op.index}), Len(list) = Cardinality(Live \ {Op.index}),
         ToSet(list) = PayloadsOf(Live \ {Op.index}),
         Nested(list), AllInHeap(list, mem_brk'),
         mem_brk' \in mem_start_brk .. mem_max_addr,
         Accept(list, p)
  PROVE  /\ Nested(ranges')
         /\ Remember(p) /\ Advance => RangesFollow'
  <1>1. PICK x \in Ids : x = Op.index
    BY OpType DEF Ctl
  <1>2. PICK size \in Sizes : size = Op.size
    BY OpType DEF Ctl, Accept, Sizes
  <1>3. PICK brk \in mem_start_brk .. mem_max_addr : brk = mem_brk'
    OBVIOUS
  <1>4. AllInHeap(list, brk)
    BY <1>3
  <1>5. RangeFault(list, p, size, brk) = "none" /\ ranges' = add_range(list, p, size)
    BY <1>2, <1>3 DEF Accept
  <1>6. /\ Len(ranges') = Len(list) + 1
        /\ ToSet(ranges') = {Extent(p, size)} \cup ToSet(list)
        /\ Nested(ranges') /\ AllInHeap(ranges', brk)
        /\ \A r \in ToSet(list) : r.lo # p
    <2>1. PICK new : new = add_range(list, p, size)
      OBVIOUS
    <2>2. /\ Len(new) = Len(list) + 1
          /\ ToSet(new) = {Extent(p, size)} \cup ToSet(list)
          /\ Nested(new) /\ AllInHeap(new, brk)
          /\ \A r \in ToSet(list) : r.lo # p
      <3>1. RangeFault(list, p, size, brk) = "none" /\ Nested(list)
        BY <1>5
      <3>2. Len(new) = Len(list) + 1
        BY <3>1, <2>1, AddedTo
      <3>3. ToSet(new) = {Extent(p, size)} \cup ToSet(list)
        BY <3>1, <2>1, AddedTo
      <3>4. Nested(new)
        BY <3>1, <2>1, AddedTo
      <3>5. AllInHeap(new, brk)
        BY <1>4, <3>1, <2>1, AddedTo
      <3>6. \A r \in ToSet(list) : r.lo # p
        BY <1>4, <3>1, <2>1, AddedTo
      <3> QED
        BY <3>2, <3>3, <3>4, <3>5, <3>6
    <2> QED
      BY <1>5, <2>1, <2>2
  <1>7. ASSUME Remember(p), Advance PROVE RangesFollow'
    <2>1. /\ Live' = Live \cup {x} /\ PointersDiffer'
          /\ PayloadsOf(Live)' = {Extent(p, size)} \cup PayloadsOf(Live \ {x})
      BY <1>1, <1>2, <1>6, <1>7, PayloadsGiven
    <2>2. Live' = (Live \ {x}) \cup {x}
      BY <2>1
    <2>3. IsFiniteSet(Live') /\ Cardinality(Live') = Cardinality(Live \ {x}) + 1
      BY <1>1, <2>2, FS_AddElement
    <2> QED
      BY <1>1, <1>3, <1>6, <2>1, <2>3 DEF RangesFollow
  <1> QED
    BY <1>6, <1>7

(* A list without ranges.                                                  *)
LEMMA NoRanges == \A brk : Nested(<<>>) /\ AllInHeap(<<>>, brk)
  BY DEF Nested, AllInHeap

(* Where eval_mm_valid is left, the ranges need only be nested.            *)
LEMMA LeftNested ==
  ASSUME Nested(ranges'), pc' # "ops" \/ pass' # "valid"
  PROVE  RangesInv'
  BY DEF RangesInv, Replaying

(* mm_malloc.                                                              *)
LEMMA MallocFollows ==
  ASSUME RoomAbove, Ctl, RangesInv, NEW p \in Pointers, NEW incr \in Increments,
         valid_malloc(p, incr)
  PROVE  RangesInv'
  <1>1. /\ pc = "ops" /\ i <= trace.num_ops /\ pass = "valid" /\ Op.type = "a"
        /\ mem_sbrk(incr) /\ ranges \in Seq(Records)
    BY DEF valid_malloc, Operating, Answer, Ctl, Typed
  <1>2. Nested(ranges) /\ RangesFollow
    BY <1>1 DEF RangesInv, Replaying
  <1>3. /\ mem_brk' \in mem_start_brk .. mem_max_addr
        /\ mem_brk \in Nat /\ mem_brk' \in Nat /\ mem_brk <= mem_brk'
    BY <1>1, Grows DEF Ctl, Typed
  <1>4. AllInHeap(ranges, mem_brk')
    BY <1>1, <1>2, <1>3, HeapGrown DEF RangesFollow
  <1>5. Live \ {Op.index} = Live
    BY <1>1, LiveNext
  <1>6. CASE Reject(ranges, p)
    <2>1. ranges' = ranges /\ pc' # "ops"
      BY <1>6 DEF Reject, Complain
    <2> QED
      BY <1>2, <2>1, LeftNested
  <1>7. CASE Accept(ranges, p) /\ Remember(p) /\ Advance
    <2>1. Nested(ranges') /\ RangesFollow'
      BY <1>1, <1>2, <1>3, <1>4, <1>5, <1>7, AcceptFollows DEF RangesFollow
    <2> QED
      BY <2>1 DEF RangesInv
  <1> QED
    BY <1>6, <1>7 DEF valid_malloc

(* mm_realloc: the old range is gone before the new one is judged.         *)
LEMMA ReallocFollows ==
  ASSUME RoomAbove, Ctl, RangesInv, NEW p \in Pointers, NEW incr \in Increments, NEW kept,
         valid_realloc(p, incr, kept)
  PROVE  RangesInv'
  <1>1. /\ pc = "ops" /\ i <= trace.num_ops /\ pass = "valid" /\ Op.type = "r"
        /\ mem_sbrk(incr)
    BY DEF valid_realloc, Operating, Answer
  <1>2. Nested(ranges) /\ RangesFollow
    BY <1>1 DEF RangesInv, Replaying
  <1>3. /\ mem_brk' \in mem_start_brk .. mem_max_addr
        /\ mem_brk \in Nat /\ mem_brk' \in Nat /\ mem_brk <= mem_brk'
    BY <1>1, Grows DEF Ctl, Typed
  <1>4. Op.index \in Live
    BY <1>1, LiveNext
  <1>5. PICK list : list = remove_range(ranges, Old)
    OBVIOUS
  <1>6. /\ list \in Seq(Records) /\ Len(list) = Cardinality(Live \ {Op.index})
        /\ IsFiniteSet(Live \ {Op.index})
        /\ ToSet(list) = PayloadsOf(Live \ {Op.index})
        /\ Nested(list) /\ AllInHeap(list, mem_brk)
    BY <1>2, <1>4, <1>5, RangesWithout DEF Old
  <1>7. AllInHeap(list, mem_brk')
    BY <1>3, <1>6, HeapGrown
  <1>8. CASE Reject(list, p)
    <2>1. ranges' = list /\ pc' # "ops"
      BY <1>8 DEF Reject, Complain
    <2> QED
      BY <1>6, <2>1, LeftNested
  <1>9. ASSUME Accept(list, p)
        PROVE  Nested(ranges') /\ (Remember(p) /\ Advance => RangesFollow')
    BY <1>1, <1>2, <1>3, <1>6, <1>7, <1>9, AcceptFollows DEF RangesFollow
  <1>10. CASE Accept(list, p) /\ Remember(p) /\ Advance
    BY <1>9, <1>10 DEF RangesInv
  <1>11. CASE Accept(list, p) /\ Complain("data not preserved")
    <2>1. pc' # "ops"
      BY <1>11 DEF Complain
    <2> QED
      BY <1>9, <1>11, <2>1, LeftNested
  <1> QED
    BY <1>5, <1>8, <1>10, <1>11 DEF valid_realloc

(* mm_free.                                                                *)
LEMMA FreeFollows ==
  ASSUME RoomAbove, Ctl, RangesInv, valid_free
  PROVE  RangesInv'
  <1>1. /\ pc = "ops" /\ i <= trace.num_ops /\ pass = "valid" /\ Op.type = "f"
        /\ i' = i + 1 /\ UNCHANGED <<mem_brk, trace, blocks, block_sizes>>
        /\ ranges' = remove_range(ranges, Old)
    BY DEF valid_free, Operating, Advance, FreeCall
  <1>2. Nested(ranges) /\ RangesFollow
    BY <1>1 DEF RangesInv, Replaying
  <1>3. Op.index \in Live /\ Live' = Live \ {Op.index}
    BY <1>1, LiveNext
  <1>4. PICK list : list = ranges'
    OBVIOUS
  <1>5. /\ Len(list) = Cardinality(Live \ {Op.index}) /\ IsFiniteSet(Live \ {Op.index})
        /\ ToSet(list) = PayloadsOf(Live \ {Op.index})
        /\ Nested(list) /\ AllInHeap(list, mem_brk)
    BY <1>1, <1>2, <1>3, <1>4, RangesWithout DEF Old
  <1>6. PayloadsOf(Live)' = PayloadsOf(Live \ {Op.index})
    BY <1>1, <1>3 DEF PayloadsOf
  <1>7. PointersDiffer'
    BY <1>1, <1>2, <1>3 DEF RangesFollow, PointersDiffer
  <1>8. RangesFollow'
    BY <1>1, <1>3, <1>4, <1>5, <1>6, <1>7 DEF RangesFollow
  <1> QED
    BY <1>4, <1>5, <1>8 DEF RangesInv

(* An evaluation begins, the first one with an empty list.                 *)
LEMMA BeginFollows ==
  ASSUME RangesInv, NEW incr, begin_evaluation(incr) \/ init_fails(incr)
  PROVE  RangesInv'
  <1>1. /\ pass' = pass
        /\ ranges' = IF pass = "valid" THEN <<>> ELSE ranges
    BY DEF begin_evaluation, init_fails, Begin, clear_ranges
  <1>2. Nested(ranges')
    BY <1>1, NoRanges DEF RangesInv
  <1>3. CASE begin_evaluation(incr) /\ pass = "valid"
    <2>1. ranges' = <<>> /\ Live' = {}
      BY <1>1, <1>3, LiveFirst DEF begin_evaluation
    <2>2. Len(ranges') = 0 /\ ToSet(ranges') = {} /\ AllInHeap(ranges', mem_brk')
      BY <2>1, NoRanges DEF ToSet
    <2>3. PayloadsOf(Live)' = {} /\ PointersDiffer'
      BY <2>1 DEF PayloadsOf, PointersDiffer
    <2>4. RangesFollow'
      BY <2>1, <2>2, <2>3, FS_EmptySet DEF RangesFollow
    <2> QED
      BY <1>2, <2>4 DEF RangesInv
  <1>4. CASE pass # "valid"
    BY <1>1, <1>2, <1>4, LeftNested
  <1>5. CASE init_fails(incr)
    <2>1. pc' # "ops"
      BY <1>5 DEF init_fails, Complain
    <2> QED
      BY <1>2, <2>1, LeftNested
  <1> QED
    BY <1>3, <1>4, <1>5

(* The other steps have nothing to do with the list.                       *)
LEMMA OthersFollow ==
  ASSUME RangesInv, UNCHANGED ranges, pc' # "ops" \/ pass' # "valid"
  PROVE  RangesInv'
  BY LeftNested DEF RangesInv

(* A run of the driver begins with no range.                               *)
LEMMA RangesInit == Init => RangesInv
  BY NoRanges DEF Init, RangesInv, Replaying

(* Every step keeps the ranges as the blocks are.                          *)
LEMMA RangesStep == RoomAbove /\ Ctl /\ RangesInv /\ [Next]_vars => RangesInv'
  <1> SUFFICES ASSUME RoomAbove, Ctl, RangesInv, [Next]_vars PROVE RangesInv'
    OBVIOUS
  <1>1. CASE UNCHANGED vars
    BY <1>1 DEF vars, tracked, RangesInv, Replaying, RangesFollow, PayloadsOf,
                PointersDiffer, Live
  <1>2. CASE Allocator
    <2>1. ASSUME NEW incr \in Increments, begin_evaluation(incr) \/ init_fails(incr)
          PROVE  RangesInv'
      BY <2>1, BeginFollows
    <2>2. ASSUME NEW incr \in Increments, request_fails(incr) \/ allocator_exits(incr)
          PROVE  RangesInv'
      <3>1. UNCHANGED ranges /\ pc' # "ops"
        BY <2>2 DEF request_fails, allocator_exits, tracked, Complain
      <3> QED
        BY <3>1, OthersFollow
    <2>3. ASSUME NEW incr \in Increments, NEW p \in Pointers, NEW kept \in BOOLEAN,
                 Request(p, incr, kept)
          PROVE  RangesInv'
      <3>1. CASE util_malloc(p, incr) \/ util_realloc(p, incr) \/ speed_request(p, incr)
        <4>1. UNCHANGED ranges /\ pass' = pass /\ pass # "valid"
          BY <3>1 DEF util_malloc, util_realloc, speed_request, Advance
        <4> QED
          BY <4>1, OthersFollow
      <3> QED
        BY <2>3, <3>1, MallocFollows, ReallocFollows DEF Request
    <2>4. CASE Free
      <3>1. CASE util_free \/ speed_free
        <4>1. UNCHANGED ranges /\ pass' = pass /\ pass # "valid"
          BY <3>1 DEF util_free, speed_free, tracked, Advance
        <4> QED
          BY <4>1, OthersFollow
      <3> QED
        BY <2>4, <3>1, FreeFollows DEF Free
    <2> QED
      BY <1>2, <2>1, <2>2, <2>3, <2>4 DEF Allocator
  <1>3. CASE Own
    <2>1. UNCHANGED ranges
      BY <1>3 DEF Own, read_trace, read_trace_exits, finish, evaluation_ends,
                  libc_request, libc_begins,
                  libc_request_fails, libc_free, libc_evaluation_ends, tracked
    <2>2. pc' # "ops" \/ pass' # "valid"
      BY <1>3 DEF Own, read_trace, read_trace_exits, finish, evaluation_ends,
                  libc_request, libc_begins,
                  libc_request_fails, libc_free, libc_evaluation_ends, Advance, LibcPasses
    <2> QED
      BY <2>1, <2>2, OthersFollow
  <1>4. CASE stopped
    BY <1>1, <1>4 DEF stopped
  <1> QED
    BY <1>1, <1>2, <1>3, <1>4 DEF Next

(* The range list is the list of the payloads in use, whatever pointers    *)
(* the allocator answers.                                                  *)
THEOREM RangesTracked == ASSUME RoomAbove PROVE Spec => []RangesTrackBlocks
  <1>1. RangesInv => RangesTrackBlocks
    BY DEF RangesInv, RangesFollow, PayloadsOf, RangesTrackBlocks, Replaying
  <1> QED
    BY <1>1, CtlInit, CtlStep, RangesInit, RangesStep, PTL DEF Spec

(* Its ranges are aligned and inside the heap; where two of them overlap,  *)
(* the later one holds the earlier one in its middle.                      *)
THEOREM RangesAreSound == ASSUME RoomAbove PROVE Spec => []RangesSound
  <1>1. Ctl /\ RangesInv => RangesSound
    <2> SUFFICES ASSUME Ctl, RangesInv PROVE RangesSound
      OBVIOUS
    <2>1. Replaying("valid") => \A k \in DOMAIN ranges : InHeap(ranges[k], mem_brk)
      BY DEF RangesInv, RangesFollow, AllInHeap
    <2> QED
      BY <2>1 DEF RangesInv, Nested, RangesSound, InHeap, Replaying, mem_heap_hi
  <1> QED
    BY <1>1, CtlInit, CtlStep, RangesInit, RangesStep, PTL DEF Spec

-----------------------------------------------------------------------------
(* The sums of eval_mm_util.                                               *)

BytesOf(set) == UNION {{id} \X (1 .. block_sizes[id]) : id \in set}

Figures ==
  /\ total_size \in Nat /\ max_total_size \in Nat /\ errors \in Nat
  /\ Replaying("util") => IsFiniteSet(BytesInUse) /\ total_size = Cardinality(BytesInUse)

(* The bytes of one block.                                                 *)
LEMMA BlockBytes ==
  ASSUME NEW x, NEW n \in Nat
  PROVE  IsFiniteSet({x} \X (1 .. n)) /\ Cardinality({x} \X (1 .. n)) = n
  <1>1. IsFiniteSet({x}) /\ Cardinality({x}) = 1
    BY FS_Singleton
  <1>2. IsFiniteSet(1 .. n) /\ Cardinality(1 .. n) = n
    BY FS_Interval
  <1>3. PICK one, all : one = {x} /\ all = 1 .. n
    OBVIOUS
  <1>4. /\ IsFiniteSet(one \X all)
        /\ Cardinality(one \X all) = Cardinality(one) * Cardinality(all)
    BY <1>1, <1>2, <1>3, FS_Product
  <1>5. Cardinality(one) * Cardinality(all) = n
    BY <1>1, <1>2, <1>3
  <1> QED
    BY <1>3, <1>4, <1>5

(* A set of bytes and those of a block that are not among them.            *)
LEMMA MoreBytes ==
  ASSUME NEW rest, IsFiniteSet(rest), NEW x, NEW n \in Nat,
         \A byte \in rest : byte[1] # x
  PROVE  /\ IsFiniteSet(rest \cup ({x} \X (1 .. n)))
         /\ Cardinality(rest \cup ({x} \X (1 .. n))) = Cardinality(rest) + n
         /\ Cardinality(rest) \in Nat
  <1>1. rest \cap ({x} \X (1 .. n)) = {}
    <2> SUFFICES ASSUME NEW byte \in rest, byte \in {x} \X (1 .. n) PROVE FALSE
      OBVIOUS
    <2>1. byte[1] = x
      OBVIOUS
    <2> QED
      BY <2>1
  <1>2. PICK more : more = {x} \X (1 .. n) /\ IsFiniteSet(more) /\ Cardinality(more) = n
    BY BlockBytes
  <1>3. /\ IsFiniteSet(rest \cup more)
        /\ Cardinality(rest \cup more)
             = Cardinality(rest) + Cardinality(more) - Cardinality(rest \cap more)
    BY <1>2, FS_Union
  <1>4. Cardinality(rest) \in Nat /\ Cardinality(rest \cap more) = 0
    BY <1>1, <1>2, FS_CardinalityType, FS_EmptySet
  <1>5. Cardinality(rest \cup more) = Cardinality(rest) + n
    BY <1>2, <1>3, <1>4
  <1> QED
    BY <1>2, <1>3, <1>4, <1>5

(* The bytes in use are those of the other blocks and its own.             *)
LEMMA BytesWithout ==
  ASSUME Ctl, IsFiniteSet(BytesInUse), NEW x \in Ids
  PROVE  /\ IsFiniteSet(BytesOf(Live \ {x})) /\ Cardinality(BytesOf(Live \ {x})) \in Nat
         /\ x \in Live =>
              Cardinality(BytesInUse) = Cardinality(BytesOf(Live \ {x})) + block_sizes[x]
         /\ x \notin Live => BytesOf(Live \ {x}) = BytesInUse
         /\ \A byte \in BytesOf(Live \ {x}) : byte[1] # x
  <1>1. BytesOf(Live \ {x}) \in SUBSET BytesInUse
    BY DEF BytesOf, BytesInUse
  <1>2. IsFiniteSet(BytesOf(Live \ {x})) /\ Cardinality(BytesOf(Live \ {x})) \in Nat
    BY <1>1, FS_Subset, FS_CardinalityType
  <1>3. \A byte \in BytesOf(Live \ {x}) : byte[1] # x
    BY DEF BytesOf
  <1>4. PICK n \in Nat : n = block_sizes[x]
    BY DEF Ctl, Typed
  <1>5. ASSUME x \in Live
        PROVE  Cardinality(BytesInUse) = Cardinality(BytesOf(Live \ {x})) + block_sizes[x]
    <2>1. BytesInUse = BytesOf(Live \ {x}) \cup ({x} \X (1 .. n))
      BY <1>4, <1>5 DEF BytesOf, BytesInUse
    <2>2. PICK rest : rest = BytesOf(Live \ {x})
      OBVIOUS
    <2>3. Cardinality(rest \cup ({x} \X (1 .. n))) = Cardinality(rest) + n
      BY <1>2, <1>3, <2>2, MoreBytes
    <2> QED
      BY <1>4, <2>1, <2>2, <2>3
  <1>6. x \notin Live => BytesOf(Live \ {x}) = BytesInUse
    BY DEF BytesOf, BytesInUse
  <1> QED
    BY <1>2, <1>3, <1>5, <1>6

(* A block is given a new payload.                                         *)
LEMMA BytesGiven ==
  ASSUME Ctl, pc = "ops", i <= trace.num_ops, Op.type # "f", Advance,
         NEW p \in Pointers, Remember(p), IsFiniteSet(BytesInUse)
  PROVE  /\ IsFiniteSet(BytesInUse') /\ Op.size \in Nat
         /\ Cardinality(BytesInUse')
              = Cardinality(BytesOf(Live \ {Op.index})) + Op.size
  <1>1. /\ Live' = Live \cup {Op.index} /\ Op.index \in Ids /\ Live \subseteq Ids
    BY LiveNext DEF Advance
  <1>2. /\ block_sizes'[Op.index] = Op.size
        /\ \A id \in Ids \ {Op.index} : block_sizes'[id] = block_sizes[id]
    BY <1>1 DEF Remember, Ctl, Typed
  <1>3. PICK x \in Ids, n \in Nat : x = Op.index /\ n = Op.size
    BY <1>1, OpType DEF Ctl
  <1> DEFINE new(id) == {id} \X (1 .. block_sizes'[id])
             old(id) == {id} \X (1 .. block_sizes[id])
  <1>4. new(x) = {x} \X (1 .. n) /\ \A id \in Live \ {x} : new(id) = old(id)
    BY <1>1, <1>2, <1>3
  <1>5. BytesInUse' = UNION {new(id) : id \in Live'}
    BY DEF BytesInUse
  <1>6. BytesOf(Live \ {x}) = UNION {old(id) : id \in Live \ {x}}
    BY DEF BytesOf
  <1> HIDE DEF new, old
  <1>7. UNION {new(id) : id \in Live'}
          = (UNION {old(id) : id \in Live \ {x}}) \cup new(x)
    <2>1. {new(id) : id \in Live'} = {old(id) : id \in Live \ {x}} \cup {new(x)}
      BY <1>1, <1>3, <1>4
    <2> QED
      BY <2>1
  <1>8. PICK rest : /\ rest = BytesOf(Live \ {x})
                    /\ BytesInUse' = rest \cup ({x} \X (1 .. n))
    <2>1. BytesInUse' = BytesOf(Live \ {x}) \cup new(x)
      BY <1>5, <1>6, <1>7
    <2> QED
      BY <1>4, <2>1
  <1>9. IsFiniteSet(rest) /\ \A byte \in rest : byte[1] # x
    BY <1>8, BytesWithout
  <1>10. /\ IsFiniteSet(rest \cup ({x} \X (1 .. n)))
         /\ Cardinality(rest \cup ({x} \X (1 .. n))) = Cardinality(rest) + n
    BY <1>9, MoreBytes
  <1> QED
    BY <1>3, <1>8, <1>10

(* The high water mark is one of its arguments.                            *)
LEMMA MarkType ==
  ASSUME NEW n \in Nat, Total(n), max_total_size \in Nat
  PROVE  total_size' = n /\ max_total_size' \in Nat
  BY DEF Total

(* mm_malloc and mm_realloc: what was there is taken off, and the new size *)
(* added.                                                                  *)
LEMMA UtilRequestSums ==
  ASSUME Ctl, Figures, NEW p \in Pointers, NEW incr \in Increments,
         util_malloc(p, incr) \/ util_realloc(p, incr)
  PROVE  Figures'
  <1>1. /\ pc = "ops" /\ i <= trace.num_ops /\ pass = "util" /\ Op.type # "f"
        /\ Remember(p) /\ Advance /\ errors' = errors
    BY DEF util_malloc, util_realloc, Operating, Advance, results
  <1>2. IsFiniteSet(BytesInUse) /\ total_size = Cardinality(BytesInUse)
    BY <1>1 DEF Figures, Replaying
  <1>3. PICK x \in Ids : x = Op.index
    BY <1>1, LiveNext
  <1>4. PICK rest \in Nat : /\ rest = Cardinality(BytesOf(Live \ {x}))
                            /\ x \in Live => total_size = rest + block_sizes[x]
                            /\ x \notin Live => total_size = rest
    BY <1>2, <1>3, BytesWithout
  <1>5. PICK n \in Nat : n = Op.size
    BY <1>1, OpType DEF Ctl
  <1>6. IsFiniteSet(BytesInUse') /\ Cardinality(BytesInUse') = rest + n
    BY <1>1, <1>2, <1>3, <1>4, <1>5, BytesGiven
  <1>7. Total(rest + n)
    <2>1. CASE util_malloc(p, incr)
      <3>1. x \notin Live /\ Total(total_size + n)
        BY <1>1, <1>3, <1>5, <2>1, LiveNext DEF util_malloc, Operating
      <3>2. total_size = rest
        BY <1>4, <3>1
      <3> QED
        BY <3>1, <3>2
    <2>2. CASE util_realloc(p, incr)
      <3>1. x \in Live /\ Total(total_size + (n - block_sizes[x]))
        BY <1>1, <1>3, <1>5, <2>2, LiveNext DEF util_realloc, Operating
      <3>2. PICK old \in Nat : old = block_sizes[x]
        BY <1>3 DEF Ctl, Typed
      <3>3. total_size + (n - old) = rest + n
        BY <1>4, <3>1, <3>2
      <3> QED
        BY <3>1, <3>2, <3>3
    <2> QED
      BY <2>1, <2>2
  <1>8. PICK sum \in Nat : sum = rest + n
    OBVIOUS
  <1>9. total_size' = sum /\ max_total_size' \in Nat
    BY <1>7, <1>8, MarkType DEF Figures
  <1>10. errors' \in Nat
    BY <1>1 DEF Figures
  <1> QED
    BY <1>6, <1>8, <1>9, <1>10 DEF Figures

(* mm_free.                                                                *)
LEMMA UtilFreeSums ==
  ASSUME Ctl, Figures, util_free
  PROVE  Figures'
  <1>1. /\ pc = "ops" /\ i <= trace.num_ops /\ pass = "util" /\ Op.type = "f"
        /\ i' = i + 1 /\ UNCHANGED <<trace, block_sizes, max_total_size, errors>>
        /\ total_size' = total_size - block_sizes[Op.index]
    BY DEF util_free, Operating, Advance, results, tracked
  <1>2. IsFiniteSet(BytesInUse) /\ total_size = Cardinality(BytesInUse)
    BY <1>1 DEF Figures, Replaying
  <1>3. PICK x \in Ids : x = Op.index /\ x \in Live /\ Live' = Live \ {x}
    BY <1>1, LiveNext
  <1>4. BytesInUse' = BytesOf(Live \ {x})
    BY <1>1, <1>3 DEF BytesInUse, BytesOf
  <1>5. PICK rest \in Nat : /\ rest = Cardinality(BytesOf(Live \ {x}))
                            /\ total_size = rest + block_sizes[x]
                            /\ IsFiniteSet(BytesOf(Live \ {x}))
    BY <1>2, <1>3, BytesWithout
  <1>6. PICK old \in Nat : old = block_sizes[x]
    BY <1>3 DEF Ctl, Typed
  <1>7. total_size' = rest
    <2>1. total_size' = (rest + old) - old
      BY <1>1, <1>3, <1>5, <1>6
    <2> QED
      BY <2>1
  <1> QED
    BY <1>1, <1>4, <1>5, <1>7 DEF Figures

(* The sums begin at zero.                                                 *)
LEMMA SumsBegin ==
  ASSUME Figures, NEW incr, begin_evaluation(incr)
  PROVE  Figures'
  <1>1. total_size' = 0 /\ max_total_size' = 0 /\ errors' = errors /\ Live' = {}
    BY LiveFirst DEF begin_evaluation, results
  <1>2. BytesInUse' = {}
    BY <1>1 DEF BytesInUse
  <1> QED
    BY <1>1, <1>2, FS_EmptySet DEF Figures

(* The other steps leave the sums alone; they may count an error.          *)
LEMMA SumsStay ==
  ASSUME Figures, UNCHANGED sizes, errors' = errors \/ errors' = errors + 1,
         pc' # "ops" \/ pass' # "util"
  PROVE  Figures'
  BY DEF Figures, sizes, Replaying

(* ... and with nothing in use.                                            *)
LEMMA FiguresInit == Init => Figures
  BY DEF Init, Figures, Replaying

(* Every step keeps the figures of eval_mm_util.                           *)
LEMMA FiguresStep == Ctl /\ Figures /\ [Next]_vars => Figures'
  <1> SUFFICES ASSUME Ctl, Figures, [Next]_vars PROVE Figures'
    OBVIOUS
  <1>1. CASE UNCHANGED vars
    BY <1>1 DEF vars, tracked, sizes, results, Figures, Replaying, BytesInUse, Live
  <1>2. CASE Allocator
    <2>1. ASSUME NEW incr \in Increments, begin_evaluation(incr) PROVE Figures'
      BY <2>1, SumsBegin
    <2>2. ASSUME NEW incr \in Increments,
                 init_fails(incr) \/ request_fails(incr) \/ allocator_exits(incr)
          PROVE  Figures'
      <3>1. /\ UNCHANGED sizes /\ pc' # "ops"
            /\ errors' = errors \/ errors' = errors + 1
        BY <2>2 DEF init_fails, request_fails, allocator_exits, Complain, results
      <3> QED
        BY <3>1, SumsStay
    <2>3. ASSUME NEW incr \in Increments, NEW p \in Pointers, NEW kept \in BOOLEAN,
                 valid_malloc(p, incr) \/ valid_realloc(p, incr, kept)
                   \/ speed_request(p, incr)
          PROVE  Figures'
      <3>1. UNCHANGED sizes /\ pass' = pass /\ pass # "util"
        BY <2>3 DEF valid_malloc, valid_realloc, speed_request, Reject, Advance
      <3>2. errors' = errors \/ errors' = errors + 1
        BY <2>3 DEF valid_malloc, valid_realloc, speed_request, Reject, Advance, Complain,
                    results
      <3> QED
        BY <3>1, <3>2, SumsStay
    <2>4. ASSUME valid_free \/ speed_free PROVE Figures'
      <3>1. UNCHANGED sizes /\ pass' = pass /\ pass # "util" /\ errors' = errors
        BY <2>4 DEF valid_free, speed_free, Advance, results
      <3> QED
        BY <3>1, SumsStay
    <2> QED
      BY <1>2, <2>1, <2>2, <2>3, <2>4, UtilRequestSums, UtilFreeSums
         DEF Allocator, Request, Free
  <1>3. CASE Own
    <2>1. UNCHANGED sizes
      BY <1>3 DEF Own, read_trace, read_trace_exits, finish, evaluation_ends,
                  libc_request, libc_begins,
                  libc_request_fails, libc_free, libc_evaluation_ends
    <2>2. errors' = errors \/ errors' = errors + 1
      BY <1>3 DEF Own, read_trace, read_trace_exits, finish, evaluation_ends,
                  libc_request, libc_begins,
                  libc_request_fails, libc_free, libc_evaluation_ends, Advance, results
    <2>3. pc' # "ops" \/ pass' # "util"
      BY <1>3 DEF Own, read_trace, read_trace_exits, finish, evaluation_ends,
                  libc_request, libc_begins,
                  libc_request_fails, libc_free, libc_evaluation_ends, Advance, LibcPasses
    <2> QED
      BY <2>1, <2>2, <2>3, SumsStay
  <1>4. CASE stopped
    BY <1>1, <1>4 DEF stopped
  <1> QED
    BY <1>1, <1>2, <1>3, <1>4 DEF Next

(* total_size is the number of payload bytes in use.                       *)
THEOREM TotalCounted == ASSUME RoomAbove PROVE Spec => []TotalIsInUse
  <1>1. Figures => TotalIsInUse
    BY DEF Figures, TotalIsInUse
  <1> QED
    BY <1>1, CtlInit, CtlStep, FiguresInit, FiguresStep, PTL DEF Spec

(* Of two numbers, one is as large as both.                                *)
LEMMA Larger == ASSUME NEW x \in Nat, NEW y \in Nat PROVE \E c \in Nat : x <= c /\ y <= c
  <1>1. x + y \in Nat /\ x <= x + y /\ y <= x + y
    OBVIOUS
  <1> QED
    BY <1>1

(* An index is a number.                                                   *)
LEMMA IndexType ==
  ASSUME NEW lines \in Lines, NEW k \in DOMAIN lines
  PROVE  lines[k].index \in Nat
  <1>1. PICK line \in Line : line = lines[k]
    BY DEF Lines
  <1>2. line.index \in Ids
    BY DEF Line
  <1> QED
    BY <1>1, <1>2, Constants

(* The indices on the lines of a trace are bounded ...                     *)
LEMMA Bounded ==
  ASSUME NEW lines \in Lines
  PROVE  \E b \in Nat : \A k \in DOMAIN lines : lines[k].index <= b
  <1> DEFINE Bound(n, b) == \A k \in 1 .. n : lines[k].index <= b
             T == {n \in 0 .. Len(lines) : \A b \in Nat : ~Bound(n, b)}
  <1>1. Len(lines) \in Nat /\ DOMAIN lines = 1 .. Len(lines)
    BY DEF Lines
  <1>2. \A k \in 1 .. Len(lines) : lines[k].index \in Nat
    BY <1>1, IndexType
  <1>3. T = {}
    <2> SUFFICES ASSUME T # {} PROVE FALSE
      OBVIOUS
    <2>1. PICK n \in T : \A m \in T : n <= m
      <3>1. T \in SUBSET Nat
        BY <1>1
      <3> QED
        BY <3>1, Least
    <2>2. n # 0
      <3>1. ~Bound(n, 0)
        BY <2>1
      <3> QED
        BY <3>1
    <2>3. n - 1 \in 0 .. Len(lines) /\ ~(n - 1 \in T) /\ n \in 1 .. Len(lines)
      <3>1. n \in 0 .. Len(lines) /\ \A m \in T : n <= m
        BY <2>1
      <3> HIDE DEF T
      <3> QED
        BY <1>1, <2>2, <3>1
    <2>4. PICK b \in Nat : Bound(n - 1, b)
      BY <2>3
    <2>5. \A k \in 1 .. n : k = n \/ k \in 1 .. n - 1
      BY <1>1, <2>3
    <2>6. PICK x \in Nat : x = lines[n].index
      BY <1>2, <2>3
    <2>7. PICK c \in Nat : b <= c /\ x <= c
      BY <2>4, <2>6, Larger
    <2>8. \A k \in 1 .. n : lines[k].index <= c
      <3> TAKE k \in 1 .. n
      <3>1. CASE k = n
        BY <2>6, <2>7, <3>1
      <3>2. CASE k \in 1 .. n - 1
        <4>1. k \in 1 .. Len(lines)
          BY <1>1, <2>3, <3>2
        <4>2. PICK y \in Nat : y = lines[k].index
          BY <1>2, <4>1
        <4>3. y <= b
          BY <2>4, <3>2, <4>2
        <4>4. b \in Nat /\ c \in Nat /\ b <= c
          BY <2>4, <2>7
        <4> HIDE DEF Bound, T
        <4> QED
          BY <4>2, <4>3, <4>4
      <3> QED
        BY <2>5, <3>1, <3>2
    <2> QED
      BY <2>1, <2>8
  <1>4. Len(lines) \in 0 .. Len(lines)
    BY <1>1
  <1>5. PICK b \in Nat : Bound(Len(lines), b)
    BY <1>3, <1>4
  <1> QED
    BY <1>1, <1>5

(* ... so that the largest of those that count is one ...                  *)
LEMMA MaxIndexIs ==
  ASSUME NEW lines \in Lines, NEW k \in DOMAIN lines, lines[k].type # "f"
  PROVE  lines[k].index <= MaxIndex(lines)
  <1> DEFINE S == {0} \cup {lines[n].index : n \in {m \in DOMAIN lines : lines[m].type # "f"}}
             U == {b \in Nat : \A x \in S : x <= b}
  <1>1. S \subseteq Nat
    BY IndexType
  <1>2. U # {}
    BY Bounded
  <1>3. PICK u \in U : \A b \in U : u <= b
    <2>1. U \in SUBSET Nat
      OBVIOUS
    <2> QED
      BY <1>2, <2>1, Least
  <1>4. 0 \in S /\ lines[k].index \in S
    OBVIOUS
  <1> HIDE DEF S
  <1>5. u \in S
    <2> SUFFICES ASSUME u \notin S PROVE FALSE
      OBVIOUS
    <2>1. u \in Nat /\ \A x \in S : x <= u /\ x \in Nat /\ x # u
      BY <1>1, <1>3
    <2>2. u # 0
      BY <1>4, <2>1
    <2>3. u - 1 \in U
      BY <2>1, <2>2
    <2> QED
      BY <1>3, <2>1, <2>3
  <1>6. \A x \in S : u >= x /\ x \in Nat
    BY <1>1, <1>3
  <1>7. \A x \in S : Max(S) >= x /\ x \in Nat
    BY <1>5, <1>6 DEF Max
  <1>8. Max(S) \in Nat
    BY <1>1, <1>5, <1>6 DEF Max
  <1>9. MaxIndex(lines) = Max(S)
    BY DEF MaxIndex, S
  <1> QED
    BY <1>4, <1>7, <1>8, <1>9

(* ... and where the trace is in order, it bounds those that free too.     *)
LEMMA IndexInside ==
  ASSUME NEW lines \in Lines, InOrder(lines), NEW k \in DOMAIN lines
  PROVE  lines[k].index <= MaxIndex(lines)
  <1>1. DOMAIN lines = 1 .. Len(lines) /\ Len(lines) \in Nat /\ k \in 1 .. Len(lines)
    BY DEF Lines
  <1>2. CASE lines[k].type = "f"
    <2>1. lines[k].index \in InUse(lines, k)
      BY <1>2 DEF InOrder
    <2>2. PICK j \in 1 .. k - 1 : lines[j].index = lines[k].index /\ lines[j].type # "f"
      BY <2>1 DEF InUse
    <2>3. j \in DOMAIN lines
      BY <1>1, <2>2
    <2> QED
      BY <2>2, <2>3, MaxIndexIs
  <1> QED
    BY <1>2, MaxIndexIs

(* Every variable has its type; what is replayed is an operation of the    *)
(* trace, and its index one of trace->blocks: the assertion about the      *)
(* largest index is enough although it does not look at the lines that     *)
(* free. It is not about read_trace itself, which writes behind trace->ops *)
(* before it finds out that the header announces too few lines.            *)
THEOREM TypeCorrect == ASSUME RoomAbove PROVE Spec => []TypeOK
  <1>1. Ctl /\ Figures => TypeOK
    <2> SUFFICES ASSUME Ctl, Figures PROVE TypeOK
      OBVIOUS
    <2>1. trace.lines \in Lines /\ Len(trace.lines) \in Nat
      BY TraceType DEF Ctl, Lines
    <2>2. pc = "ops" => i \in 1 .. Len(trace.lines) + 1
      BY <2>1 DEF Ctl, Typed
    <2>2a. ASSUME pc = "ops", NEW k \in DOMAIN trace.lines
           PROVE  trace.lines[k].index < trace.num_ids
      <3>1. Typed /\ Course /\ Evaluating
        BY <2>2a DEF Ctl, Evaluating
      <3>2. InOrder(trace.lines) /\ MaxIndex(trace.lines) = trace.num_ids - 1
        BY <3>1, TraceType DEF Course, HeaderFits
      <3>3. trace.num_ids \in Nat
        <4>1. trace \in UNION Range(TraceFiles)
          BY <3>1, Constants DEF Typed, Course
        <4> QED
          BY <4>1, DriverAssumption DEF DriverAssumption
      <3>4. PICK x \in Nat : x = trace.lines[k].index
        BY <2>1, <2>2a, IndexType
      <3>5. x <= trace.num_ids - 1
        BY <2>1, <3>2, <3>4, IndexInside
      <3> QED
        BY <3>3, <3>4, <3>5
    <2>3. \A k \in DOMAIN ranges : ranges[k] \in [lo : Nat, hi : Nat]
      BY EndsType DEF Ctl, Typed, Records
    <2>4. granted \subseteq [lo : Nat, hi : Int]
      BY DEF Ctl, Typed, Records
    <2> QED
      BY <2>2, <2>2a, <2>3, <2>4 DEF Ctl, Typed, Figures, TypeOK
  <1> QED
    BY <1>1, CtlInit, CtlStep, FiguresInit, FiguresStep, PTL DEF Spec

-----------------------------------------------------------------------------
(* An allocator that keeps to the interface, and libc.                     *)

Lawful == Honest \/ pass \in LibcPasses

(* The blocks of the trace are among the payloads handed out, which are    *)
(* apart from one another.                                                 *)
Held ==
  /\ \A r \in granted : r.lo # NULL /\ r.lo <= r.hi
  /\ \A r, s \in granted : r # s => Apart(r, s)
  /\ \A id \in Live : \E r \in granted : r.lo = blocks[id]
  /\ PointersDiffer

HeldInv == pc = "ops" /\ Lawful => Held

(* What an honest allocator answers.                                       *)
LEMMA HonestAnswer ==
  ASSUME RoomAbove, Ctl, Honest, NEW p \in Pointers, NEW incr \in Increments,
         NEW size \in Nat, NEW old, Answer(old, p, size, incr)
  PROVE  /\ mem_brk \in Nat /\ mem_brk' \in Nat /\ mem_brk <= mem_brk' /\ p \in Nat
         /\ size > 0 /\ p % ALIGNMENT = 0 /\ p # NULL
         /\ mem_heap_lo <= p /\ p + size <= mem_brk'
         /\ Extent(p, size) \in Records
         /\ Extent(p, size).lo = p /\ Extent(p, size).hi = p + size - 1
         /\ granted' = NotAt(granted, old) \cup {Extent(p, size)}
         /\ \A r \in NotAt(granted, old) : Apart(Extent(p, size), r)
  <1>1. /\ mem_sbrk(incr) /\ SbrkSucceeds(mem_brk, incr) /\ size > 0
        /\ granted' = NotAt(granted, old) \cup {Extent(p, size)}
        /\ Proper(p, size, MovedBrk(mem_brk, incr), NotAt(granted, old))
    BY DEF Answer
  <1>2. /\ mem_brk \in Nat /\ mem_brk' \in Nat /\ mem_brk <= mem_brk'
        /\ mem_brk' = MovedBrk(mem_brk, incr) /\ mem_brk' <= mem_max_addr
    BY <1>1, Grows, Constants DEF Ctl, Typed
  <1>3. /\ p % ALIGNMENT = 0 /\ mem_heap_lo <= p /\ p + size <= mem_brk'
        /\ \A r \in NotAt(granted, old) : Apart(Extent(p, size), r)
    BY <1>1, <1>2 DEF Proper
  <1>4. p \in Nat /\ p # NULL /\ p \in 0 .. WORD_MOD - 1 /\ p + size <= WORD_MOD
    BY <1>2, <1>3, Constants DEF mem_heap_lo, NULL
  <1> QED
    BY <1>1, <1>2, <1>3, <1>4, ExtentType

(* The pointers and payloads of the other blocks.                          *)
Others(old) == IF Op.type = "a" THEN granted ELSE NotAt(granted, old)

(* A new payload, apart from the others, is handed out.                    *)
LEMMA HandedOut ==
  ASSUME Ctl, pc = "ops", i <= trace.num_ops, Op.type # "f", Held,
         NEW p \in Pointers, NEW e \in Records, e.lo = p, e.lo <= e.hi, p # NULL,
         NEW others, others = Others(Old), \A r \in others : Apart(e, r),
         granted' = others \cup {e},
         blocks' = [blocks EXCEPT ![Op.index] = p],
         i' = i + 1, trace' = trace
  PROVE  Held'
  <1>1. PICK x \in Ids : /\ x = Op.index /\ Live \subseteq Ids /\ Live' = Live \cup {x}
                         /\ Op.type = "a" <=> x \notin Live
    BY LiveNext
  <1>2. blocks'[x] = p /\ \A id \in Ids \ {x} : blocks'[id] = blocks[id]
    BY <1>1 DEF Ctl, Typed
  <1>3. others \subseteq granted /\ granted \subseteq Records
    BY DEF Others, NotAt, Ctl, Typed
  <1>4. \A r \in others : /\ r.lo \in Nat /\ r.hi \in Nat /\ r.lo # p
                          /\ r.lo # NULL /\ r.lo <= r.hi
    <2> TAKE r \in others
    <2>1. /\ r.lo \in Nat /\ r.hi \in Nat /\ e.lo \in Nat /\ e.hi \in Nat
          /\ r.lo # NULL /\ r.lo <= r.hi /\ Apart(e, r)
      BY <1>3 DEF Records, Held
    <2> QED
      BY <2>1 DEF Apart
  <1>5. \A id \in Live \ {x} : \E r \in others : r.lo = blocks[id]
    <2> TAKE id \in Live \ {x}
    <2>1. PICK r \in granted : r.lo = blocks[id]
      BY DEF Held
    <2>2. x \in Live => r.lo # blocks[x]
      BY <2>1 DEF Held, PointersDiffer
    <2> QED
      BY <1>1, <2>1, <2>2 DEF Others, NotAt, Old
  <1>6. \A r \in granted' : r.lo # NULL /\ r.lo <= r.hi
    BY <1>4
  <1>7. \A r, s \in granted' : r # s => Apart(r, s)
    <2>1. \A r, s \in others : r # s => Apart(r, s)
      BY <1>3 DEF Held
    <2>2. \A r \in others : Apart(r, e)
      BY DEF Apart
    <2> QED
      BY <2>1, <2>2
  <1>8. \A id \in Live' : \E r \in granted' : r.lo = blocks'[id]
    BY <1>1, <1>2, <1>5
  <1>9. PointersDiffer'
    <2>1. \A id \in Live \ {x} : blocks[id] # p
      BY <1>4, <1>5
    <2> QED
      BY <1>1, <1>2, <2>1 DEF PointersDiffer, Held
  <1> QED
    BY <1>6, <1>7, <1>8, <1>9 DEF Held

(* A payload is taken back.                                                *)
LEMMA TakenBack ==
  ASSUME Ctl, pc = "ops", i <= trace.num_ops, Op.type = "f", Held, FreeCall(Old),
         UNCHANGED <<blocks, trace>>, i' = i + 1
  PROVE  Held'
  <1>1. /\ Op.index \in Live /\ Live' = Live \ {Op.index}
        /\ granted' = NotAt(granted, Old)
    BY LiveNext DEF FreeCall
  <1>2. granted' \subseteq granted
    BY <1>1 DEF NotAt
  <1>3. \A id \in Live' : \E r \in granted' : r.lo = blocks'[id]
    <2> TAKE id \in Live'
    <2>1. id \in Live /\ blocks[id] # Old
      BY <1>1 DEF Held, PointersDiffer, Old
    <2>2. PICK r \in granted : r.lo = blocks[id]
      BY <2>1 DEF Held
    <2> QED
      BY <1>1, <2>1, <2>2 DEF NotAt
  <1>4. PointersDiffer'
    BY <1>1 DEF Held, PointersDiffer
  <1> QED
    BY <1>2, <1>3, <1>4 DEF Held

(* A request of the driver to an honest allocator.                         *)
LEMMA HonestHeld ==
  ASSUME RoomAbove, Ctl, Honest, pc = "ops", i <= trace.num_ops, Op.type # "f", Held,
         NEW p \in Pointers, NEW incr \in Increments,
         Answer(IF Op.type = "a" THEN NULL ELSE Old, p, Op.size, incr),
         blocks' = [blocks EXCEPT ![Op.index] = p], i' = i + 1, trace' = trace
  PROVE  Held'
  <1>1. PICK size \in Nat : size = Op.size
    BY OpType DEF Ctl
  <1>2. PICK old : old = IF Op.type = "a" THEN NULL ELSE Old
    OBVIOUS
  <1>3. Answer(old, p, size, incr)
    BY <1>1, <1>2
  <1>4. PICK e \in Records :
          /\ e = Extent(p, size) /\ e.lo = p /\ e.hi = p + size - 1
          /\ p \in Nat /\ p # NULL /\ size > 0
          /\ granted' = NotAt(granted, old) \cup {e}
          /\ \A r \in NotAt(granted, old) : Apart(e, r)
    BY <1>3, HonestAnswer
  <1>5. NotAt(granted, old) = Others(Old)
    BY <1>2 DEF NotAt, Others, Held
  <1>6. e.lo <= e.hi
    BY <1>4
  <1> QED
    BY <1>4, <1>5, <1>6, HandedOut

(* A request to libc.                                                      *)
LEMMA LibcHeld ==
  ASSUME Ctl, Held, NEW p \in Pointers, p # NULL, libc_request(p)
  PROVE  Held'
  <1>1. /\ pc = "ops" /\ i <= trace.num_ops /\ Op.type # "f" /\ i' = i + 1
        /\ trace' = trace /\ blocks' = [blocks EXCEPT ![Op.index] = p]
    BY DEF libc_request, Operating, Advance
  <1>2. PICK size \in Nat : size = (IF Op.size = 0 THEN 1 ELSE Op.size) /\ size > 0
    BY <1>1, OpType DEF Ctl
  <1>3. /\ p + size <= WORD_MOD
        /\ \A r \in Others(Old) : Apart(Extent(p, size), r)
        /\ granted' = Others(Old) \cup {Extent(p, size)}
    BY <1>2 DEF libc_request, Others
  <1>4. PICK e \in Records : e = Extent(p, size) /\ e.lo = p /\ e.hi = p + size - 1
    <2>1. p \in 0 .. WORD_MOD - 1
      BY Constants
    <2> QED
      BY <1>2, <1>3, <2>1, ExtentType
  <1>5. e.lo <= e.hi
    <2>1. p \in Nat
      BY Constants, p \in 0 .. WORD_MOD - 1
    <2> QED
      BY <1>2, <1>4, <2>1
  <1> QED
    BY <1>1, <1>3, <1>4, <1>5, HandedOut

(* Nothing has been handed out when an evaluation begins.                  *)
LEMMA HeldFirst == granted' = {} /\ i' = 1 => Held'
  BY LiveFirst DEF Held, PointersDiffer

(* Every step keeps what is held, and calls the allocator lawfully.        *)
LEMMA HeldStep == RoomAbove /\ Ctl /\ HeldInv /\ [Next]_vars => HeldInv'
  <1> SUFFICES ASSUME RoomAbove, Ctl, HeldInv, [Next]_vars, pc' = "ops", Lawful'
               PROVE  Held'
    BY DEF HeldInv
  <1>1. CASE UNCHANGED vars
    BY <1>1 DEF vars, tracked, HeldInv, Held, PointersDiffer, Live, Lawful, Honest
  <1>2. CASE Allocator /\ UNCHANGED allocator
    <2>1. ASSUME NEW incr \in Increments, begin_evaluation(incr) PROVE Held'
      BY <2>1, HeldFirst DEF begin_evaluation, Begin
    <2>2. ASSUME NEW incr \in Increments,
                 init_fails(incr) \/ request_fails(incr) \/ allocator_exits(incr)
          PROVE  FALSE
      BY <2>2 DEF init_fails, request_fails, allocator_exits, Complain
    <2>3. ASSUME NEW incr \in Increments, NEW p \in Pointers, NEW kept \in BOOLEAN,
                 Request(p, incr, kept)
          PROVE  Held'
      <3>1. /\ pc = "ops" /\ i <= trace.num_ops /\ Op.type # "f" /\ pass' = pass
            /\ pass \notin LibcPasses
            /\ Answer(IF Op.type = "a" THEN NULL ELSE Old, p, Op.size, incr)
        BY <2>3 DEF Request, valid_malloc, valid_realloc, util_malloc, util_realloc,
                    speed_request, Operating, Advance, Reject, LibcPasses
      <3>2. /\ blocks' = [blocks EXCEPT ![Op.index] = p]
            /\ i' = i + 1 /\ trace' = trace
        BY <2>3 DEF Request, valid_malloc, valid_realloc, util_malloc, util_realloc,
                    speed_request, Remember, Advance, Reject, Complain
      <3>3. Honest /\ Held
        BY <1>2, <3>1 DEF HeldInv, Lawful, Honest
      <3> QED
        BY <3>1, <3>2, <3>3, HonestHeld
    <2>4. CASE Free
      <3>1. /\ pc = "ops" /\ i <= trace.num_ops /\ Op.type = "f" /\ pass' = pass
            /\ FreeCall(Old) /\ UNCHANGED <<blocks, trace>> /\ i' = i + 1
        BY <2>4 DEF Free, valid_free, util_free, speed_free, Operating, Advance, tracked
      <3>2. Held
        BY <1>2, <3>1 DEF HeldInv, Lawful, Honest
      <3> QED
        BY <3>1, <3>2, TakenBack
    <2> QED
      BY <1>2, <2>1, <2>2, <2>3, <2>4 DEF Allocator
  <1>3. CASE Own /\ UNCHANGED allocator
    <2>1. ASSUME NEW p \in Pointers, p # NULL, libc_request(p) PROVE Held'
      <3>1. pc = "ops" /\ Lawful
        BY <2>1 DEF libc_request, Operating, Lawful
      <3> QED
        BY <2>1, <3>1, LibcHeld DEF HeldInv
    <2>2. CASE libc_begins
      BY <2>2, HeldFirst DEF libc_begins
    <2>3. CASE libc_free
      <3>1. /\ pc = "ops" /\ i <= trace.num_ops /\ Op.type = "f" /\ Lawful
            /\ FreeCall(Old) /\ UNCHANGED <<blocks, trace>> /\ i' = i + 1
        BY <2>3 DEF libc_free, Operating, Advance, tracked, Lawful
      <3> QED
        BY <3>1, TakenBack DEF HeldInv
    <2>4. CASE \/ \E f \in TraceFiles[allocator] : read_trace(f)
               \/ read_trace_exits
               \/ finish \/ evaluation_ends \/ libc_request_fails \/ libc_evaluation_ends
      BY <2>4 DEF read_trace, read_trace_exits, finish, evaluation_ends, libc_request_fails,
                  libc_evaluation_ends
    <2> QED
      BY <1>3, <2>1, <2>2, <2>3, <2>4 DEF Own
  <1> QED
    BY <1>1, <1>2, <1>3 DEF Next, stopped

(* The driver keeps to the interface as well: it frees and reallocates     *)
(* only what the allocator, or libc, answered since the evaluation began,  *)
(* and nothing twice.                                                      *)
THEOREM LegalCalls ==
  ASSUME RoomAbove, Allocators \subseteq {"any", "honest"}
  PROVE  Spec => []CallsAreLegal
  <1>1. Init => HeldInv
    BY DEF Init, HeldInv
  <1>2. Ctl /\ HeldInv => CallsAreLegal
    <2> SUFFICES ASSUME Ctl, HeldInv, allocator # "any" \/ pass \in LibcPasses,
                        Operating("r") \/ Operating("f")
                 PROVE  \E r \in granted : r.lo = Old
      BY DEF CallsAreLegal
    <2>1. pc = "ops" /\ i <= trace.num_ops /\ Op.type # "a"
      BY DEF Operating
    <2>2. Lawful
      BY DEF Ctl, Typed, Lawful, Honest
    <2>3. Op.index \in Live
      BY <2>1, LiveNext
    <2> QED
      BY <2>1, <2>2, <2>3 DEF HeldInv, Held, Old
  <1> QED
    BY <1>1, <1>2, CtlInit, CtlStep, HeldStep, PTL DEF Spec

-----------------------------------------------------------------------------
(* The payloads of an honest allocator, as the driver has noted them.      *)

Fits(p, size, brk) == size > 0 /\ mem_heap_lo <= p /\ p + size <= brk

Fitting ==
  /\ granted = PayloadsOf(Live)
  /\ \A id \in Live : Fits(blocks[id], block_sizes[id], mem_brk)

FittingInv == Honest /\ pc = "ops" /\ pass \in {"valid", "util"} => Fitting

(* A new payload is noted.                                                 *)
LEMMA FittingGiven ==
  ASSUME RoomAbove, Ctl, Honest, pc = "ops", i <= trace.num_ops, Op.type # "f",
         Held, Fitting, NEW p \in Pointers, NEW incr \in Increments,
         Answer(IF Op.type = "a" THEN NULL ELSE Old, p, Op.size, incr),
         Remember(p), Advance
  PROVE  Fitting'
  <1>1. PICK x \in Ids : /\ x = Op.index /\ Live \subseteq Ids /\ Live' = Live \cup {x}
                         /\ Op.type = "a" <=> x \notin Live
    BY LiveNext DEF Advance
  <1>2. PICK size \in Nat : size = Op.size
    BY <1>1, OpType DEF Ctl
  <1>3. PICK old : old = IF Op.type = "a" THEN NULL ELSE Old
    OBVIOUS
  <1>4. PICK e \in Records :
          /\ e = Extent(p, size) /\ e.lo = p /\ e.hi = p + size - 1
          /\ p \in Nat /\ size > 0
          /\ granted' = NotAt(granted, old) \cup {e}
          /\ \A r \in NotAt(granted, old) : Apart(e, r)
          /\ mem_heap_lo <= p /\ p + size <= mem_brk'
          /\ mem_brk \in Nat /\ mem_brk' \in Nat /\ mem_brk <= mem_brk'
    BY <1>2, <1>3, HonestAnswer
  <1>5. NotAt(granted, old) = PayloadsOf(Live \ {x})
    <2>1. CASE Op.type = "a"
      <3>1. NotAt(granted, old) = granted
        BY <1>3, <2>1 DEF NotAt, Held
      <3> QED
        BY <1>1, <2>1, <3>1, OtherPayloads DEF Fitting, Held
    <2>2. CASE Op.type # "a"
      BY <1>1, <1>3, <2>2, OtherPayloads DEF Fitting, Held, NotAt, Old
    <2> QED
      BY <2>1, <2>2
  <1>6. \A r \in PayloadsOf(Live \ {x}) : r.lo # p
    <2> TAKE r \in PayloadsOf(Live \ {x})
    <2>1. r \in granted /\ Apart(e, r) /\ r.lo <= r.hi
      BY <1>4, <1>5 DEF Held, NotAt
    <2>2. r.lo \in Nat /\ r.hi \in Nat
      BY <2>1 DEF Ctl, Typed, Records
    <2> QED
      BY <1>4, <2>1, <2>2 DEF Apart
  <1>7. PayloadsOf(Live)' = {Extent(p, Op.size)} \cup PayloadsOf(Live \ {x})
    BY <1>1, <1>6, PayloadsGiven DEF Held
  <1>8. granted' = PayloadsOf(Live)'
    BY <1>2, <1>4, <1>5, <1>7
  <1>9. \A id \in Live' : Fits(blocks'[id], block_sizes'[id], mem_brk')
    <2>1. blocks'[x] = p /\ block_sizes'[x] = size
      BY <1>1, <1>2 DEF Remember, Ctl, Typed
    <2>2. ASSUME NEW id \in Live, id # x
          PROVE  Fits(blocks'[id], block_sizes'[id], mem_brk')
      <3>1. PICK q \in Nat, n \in Nat : q = blocks[id] /\ n = block_sizes[id]
        <4>1. blocks[id] \in Pointers \cup {NULL} /\ block_sizes[id] \in Nat
          BY <1>1 DEF Ctl, Typed
        <4>2. \A q \in Pointers \cup {NULL} : q \in Nat
          BY Constants DEF NULL
        <4> QED
          BY <4>1, <4>2
      <3>2. blocks'[id] = q /\ block_sizes'[id] = n
        BY <1>1, <2>2, <3>1 DEF Remember, Ctl, Typed
      <3>3. Fits(q, n, mem_brk)
        BY <3>1 DEF Fitting
      <3> QED
        BY <1>4, <3>1, <3>2, <3>3 DEF Fits
    <2>3. Fits(p, size, mem_brk')
      BY <1>4 DEF Fits
    <2> QED
      BY <1>1, <2>1, <2>2, <2>3
  <1> QED
    BY <1>8, <1>9 DEF Fitting

(* A payload is taken back.                                                *)
LEMMA FittingTaken ==
  ASSUME Ctl, pc = "ops", i <= trace.num_ops, Op.type = "f", Held, Fitting, FreeCall(Old),
         UNCHANGED <<blocks, block_sizes, trace>>, i' = i + 1
  PROVE  Fitting'
  <1>1. /\ Op.index \in Live /\ Live' = Live \ {Op.index}
        /\ granted' = NotAt(granted, Old) /\ mem_brk' = mem_brk
    BY LiveNext DEF FreeCall
  <1>2. NotAt(granted, Old) = PayloadsOf(Live \ {Op.index})
    BY <1>1, OtherPayloads DEF Fitting, Held, NotAt, Old
  <1>3. PayloadsOf(Live)' = PayloadsOf(Live \ {Op.index})
    BY <1>1 DEF PayloadsOf
  <1> QED
    BY <1>1, <1>2, <1>3 DEF Fitting

(* Every step keeps the allocator's answers fitting.                       *)
LEMMA FittingStep ==
  RoomAbove /\ Ctl /\ HeldInv /\ FittingInv /\ [Next]_vars => FittingInv'
  <1> SUFFICES ASSUME RoomAbove, Ctl, HeldInv, FittingInv, [Next]_vars,
                      Honest', pc' = "ops", pass' \in {"valid", "util"}
               PROVE  Fitting'
    BY DEF FittingInv
  <1>1. CASE UNCHANGED vars
    BY <1>1 DEF vars, tracked, FittingInv, Fitting, PayloadsOf, Live, Honest
  <1>2. CASE Allocator /\ UNCHANGED allocator
    <2>1. ASSUME NEW incr \in Increments, begin_evaluation(incr) PROVE Fitting'
      <3>1. granted' = {} /\ Live' = {}
        BY <2>1, LiveFirst DEF begin_evaluation, Begin
      <3> QED
        BY <3>1 DEF Fitting, PayloadsOf
    <2>2. ASSUME NEW incr \in Increments,
                 init_fails(incr) \/ request_fails(incr) \/ allocator_exits(incr)
          PROVE  FALSE
      BY <2>2 DEF init_fails, request_fails, allocator_exits, Complain
    <2>3. ASSUME NEW incr \in Increments, NEW p \in Pointers, NEW kept \in BOOLEAN,
                 Request(p, incr, kept)
          PROVE  Fitting'
      <3>1. /\ pc = "ops" /\ i <= trace.num_ops /\ Op.type # "f"
            /\ Answer(IF Op.type = "a" THEN NULL ELSE Old, p, Op.size, incr)
        BY <2>3 DEF Request, valid_malloc, valid_realloc, util_malloc, util_realloc,
                    speed_request, Operating
      <3>2. pass' = pass /\ Advance
        BY <2>3 DEF Request, valid_malloc, valid_realloc, util_malloc, util_realloc,
                    speed_request, Advance, Reject, Complain
      <3>3. Remember(p)
        BY <2>3, <3>2 DEF Request, valid_malloc, valid_realloc, util_malloc, util_realloc,
                    speed_request, Reject, Complain
      <3>4. Honest /\ Held /\ Fitting
        BY <1>2, <3>1, <3>2 DEF HeldInv, FittingInv, Lawful, Honest
      <3> QED
        BY <3>1, <3>2, <3>3, <3>4, FittingGiven
    <2>4. CASE Free
      <3>1. /\ pc = "ops" /\ i <= trace.num_ops /\ Op.type = "f" /\ pass' = pass
            /\ FreeCall(Old) /\ UNCHANGED <<blocks, block_sizes, trace>> /\ i' = i + 1
        BY <2>4 DEF Free, valid_free, util_free, speed_free, Operating, Advance, tracked
      <3>2. Held /\ Fitting
        BY <1>2, <3>1 DEF HeldInv, FittingInv, Lawful, Honest
      <3> QED
        BY <3>1, <3>2, FittingTaken
    <2> QED
      BY <1>2, <2>1, <2>2, <2>3, <2>4 DEF Allocator
  <1>3. CASE Own
    <2>1. pc' # "ops" \/ pass' \in LibcPasses
      BY <1>3 DEF Own, read_trace, read_trace_exits, finish, evaluation_ends,
                  libc_request, libc_begins,
                  libc_request_fails, libc_free, libc_evaluation_ends, Advance
    <2> QED
      BY <2>1 DEF LibcPasses
  <1> QED
    BY <1>1, <1>2, <1>3 DEF Next, stopped

-----------------------------------------------------------------------------
(* The utilization.                                                        *)

Bytes(ids, len) == UNION {{id} \X (1 .. len[id]) : id \in ids}

(* Blocks that do not overlap have no more bytes than the space they are   *)
(* in: no two of them have the same address.                               *)
LEMMA Packed ==
  ASSUME NEW ids, NEW ptr, NEW len, NEW lo \in Nat, NEW brk \in Nat, lo <= brk,
         \A id \in ids : /\ ptr[id] \in Nat /\ len[id] \in Nat /\ len[id] > 0
                         /\ lo <= ptr[id] /\ ptr[id] + len[id] <= brk,
         \A id, other \in ids : id # other =>
           ptr[id] + len[id] <= ptr[other] \/ ptr[other] + len[other] <= ptr[id]
  PROVE  Cardinality(Bytes(ids, len)) <= brk - lo
  <1> DEFINE bytes == Bytes(ids, len)
             space == lo .. brk - 1
             at == [byte \in bytes |-> ptr[byte[1]] + byte[2] - 1]
  <1>1. \A byte \in bytes : /\ byte = <<byte[1], byte[2]>>
                            /\ byte[1] \in ids /\ byte[2] \in 1 .. len[byte[1]]
    BY DEF Bytes
  <1>2. \A id \in ids, n \in Nat : n \in 1 .. len[id] =>
          /\ ptr[id] + n - 1 \in space
          /\ ptr[id] <= ptr[id] + n - 1 /\ ptr[id] + n - 1 < ptr[id] + len[id]
    OBVIOUS
  <1>3. \A id, other \in ids, n, m \in Nat :
          /\ n \in 1 .. len[id] /\ m \in 1 .. len[other]
          /\ ptr[id] + n - 1 = ptr[other] + m - 1
          => id = other /\ n = m
    <2> SUFFICES ASSUME NEW id \in ids, NEW other \in ids, NEW n \in Nat, NEW m \in Nat,
                        n \in 1 .. len[id], m \in 1 .. len[other],
                        ptr[id] + n - 1 = ptr[other] + m - 1
                 PROVE  id = other /\ n = m
      OBVIOUS
    <2>1. PICK p \in Nat, q \in Nat, k \in Nat, l \in Nat :
            p = ptr[id] /\ q = ptr[other] /\ k = len[id] /\ l = len[other]
      OBVIOUS
    <2>2. p + k <= q \/ q + l <= p \/ id = other
      BY <2>1
    <2>3. /\ n <= k /\ m <= l /\ 1 <= n /\ 1 <= m /\ p + n - 1 = q + m - 1
      BY <2>1
    <2>4. id = other
      BY <2>2, <2>3
    <2>5. p = q
      BY <2>1, <2>4
    <2> QED
      BY <2>3, <2>4, <2>5
  <1> HIDE DEF bytes, space
  <1>4. at \in [bytes -> space]
    BY <1>1, <1>2
  <1>5. \A a, b \in bytes : at[a] = at[b] => a = b
    BY <1>1, <1>3
  <1> HIDE DEF at
  <1>6. at \in Injection(bytes, space)
    BY <1>4, <1>5 DEF Injection, IsInjective
  <1>7. IsFiniteSet(space) /\ Cardinality(space) = brk - lo
    BY FS_Interval DEF space
  <1>8. Cardinality(bytes) <= Cardinality(space)
    BY <1>6, <1>7, FS_Injection
  <1> QED
    BY <1>7, <1>8 DEF bytes

(* The payloads in use have fewer bytes than the heap.                     *)
LEMMA FittingPacked ==
  ASSUME NEW live, NEW ptr, NEW len, NEW given, NEW brk \in Nat, mem_start_brk <= brk,
         given = {Extent(ptr[id], len[id]) : id \in live},
         \A id \in live : /\ ptr[id] \in 0 .. WORD_MOD - 1 /\ len[id] \in Nat
                          /\ Fits(ptr[id], len[id], brk),
         brk < WORD_MOD,
         \A id, other \in live : id # other => ptr[id] # ptr[other],
         \A r, s \in given : r # s => Apart(r, s)
  PROVE  Cardinality(Bytes(live, len)) <= brk - mem_start_brk
  <1>1. mem_start_brk \in Nat /\ WORD_MOD \in Nat
    BY Constants
  <1>2. \A id \in live : /\ ptr[id] \in Nat /\ len[id] \in Nat /\ len[id] > 0
                         /\ mem_start_brk <= ptr[id] /\ ptr[id] + len[id] <= brk
    BY <1>1 DEF Fits, mem_heap_lo
  <1>3. \A id \in live : /\ Extent(ptr[id], len[id]).lo = ptr[id]
                         /\ Extent(ptr[id], len[id]).hi = ptr[id] + len[id] - 1
                         /\ Extent(ptr[id], len[id]) \in given
    <2> TAKE id \in live
    <2>1. PICK p \in 0 .. WORD_MOD - 1, n \in Nat :
            p = ptr[id] /\ n = len[id] /\ n > 0 /\ p + n <= WORD_MOD
      BY <1>1, <1>2
    <2>2. Extent(p, n).lo = p /\ Extent(p, n).hi = p + n - 1
      BY <2>1, ExtentType
    <2> QED
      BY <2>1, <2>2
  <1>4. ASSUME NEW id \in live, NEW other \in live, id # other
        PROVE  ptr[id] + len[id] <= ptr[other] \/ ptr[other] + len[other] <= ptr[id]
    <2>1. PICK r \in given, s \in given :
            /\ r.lo = ptr[id] /\ r.hi = ptr[id] + len[id] - 1
            /\ s.lo = ptr[other] /\ s.hi = ptr[other] + len[other] - 1
      BY <1>3
    <2>2. Apart(r, s)
      BY <1>4, <2>1
    <2>3. PICK p \in Nat, q \in Nat, k \in Nat, l \in Nat :
            p = ptr[id] /\ q = ptr[other] /\ k = len[id] /\ l = len[other]
      BY <1>2
    <2>4. p + k - 1 < q \/ q + l - 1 < p
      BY <2>1, <2>2, <2>3 DEF Apart
    <2>5. p + k <= q \/ q + l <= p
      BY <2>4
    <2> QED
      BY <2>3, <2>5
  <1> QED
    <2>1. PICK lo \in Nat : lo = mem_start_brk
      BY <1>1
    <2>2. /\ lo <= brk
          /\ \A id \in live : /\ ptr[id] \in Nat /\ len[id] \in Nat /\ len[id] > 0
                             /\ lo <= ptr[id] /\ ptr[id] + len[id] <= brk
      BY <1>2, <2>1
    <2>3. Cardinality(Bytes(live, len)) <= brk - lo
      BY <1>4, <2>2, Packed
    <2> QED
      BY <2>1, <2>3

(* What the driver has noted of an honest allocator at any time fits.      *)
LEMMA SumsFit ==
  Ctl /\ Held /\ Fitting => Cardinality(BytesInUse) <= mem_heapsize
  <1> SUFFICES ASSUME Ctl, Held, Fitting PROVE Cardinality(BytesInUse) <= mem_heapsize
    OBVIOUS
  <1>1. mem_brk \in Nat /\ mem_start_brk <= mem_brk /\ mem_brk < WORD_MOD
    BY Constants DEF Ctl, Typed
  <1>2. Live \subseteq Ids
    BY DEF Live, InUse
  <1>3. ASSUME NEW id \in Live
        PROVE  /\ blocks[id] \in 0 .. WORD_MOD - 1 /\ block_sizes[id] \in Nat
               /\ Fits(blocks[id], block_sizes[id], mem_brk)
    <2>1. blocks[id] \in Pointers \cup {NULL} /\ block_sizes[id] \in Nat
      BY <1>2 DEF Ctl, Typed
    <2>2. \A q \in Pointers \cup {NULL} : q \in 0 .. WORD_MOD - 1
      BY <1>1, Constants DEF NULL
    <2> QED
      BY <2>1, <2>2 DEF Fitting
  <1>4. granted = {Extent(blocks[id], block_sizes[id]) : id \in Live}
    BY DEF Fitting, PayloadsOf
  <1>5. PICK live, ptr, len, given, brk :
          live = Live /\ ptr = blocks /\ len = block_sizes /\ given = granted /\ brk = mem_brk
    OBVIOUS
  <1>6. /\ given = {Extent(ptr[id], len[id]) : id \in live}
        /\ \A id \in live : /\ ptr[id] \in 0 .. WORD_MOD - 1 /\ len[id] \in Nat
                            /\ Fits(ptr[id], len[id], brk)
    BY <1>3, <1>4, <1>5
  <1>7. /\ \A id, other \in live : id # other => ptr[id] # ptr[other]
        /\ \A r, s \in given : r # s => Apart(r, s)
    BY <1>5 DEF Held, PointersDiffer
  <1>8. Cardinality(Bytes(live, len)) <= brk - mem_start_brk
    <2>1. brk \in Nat /\ mem_start_brk <= brk /\ brk < WORD_MOD
      BY <1>1, <1>5
    <2> QED
      BY <1>6, <1>7, <2>1, FittingPacked
  <1> QED
    BY <1>5, <1>8 DEF Bytes, BytesInUse, mem_heapsize

(* So does the largest sum there has been.                                 *)
MarkInv == Honest /\ Replaying("util") => max_total_size <= mem_heapsize

Fit == Honest /\ Replaying("util") => Cardinality(BytesInUse) <= mem_heapsize

(* What is held fits the heap in every state.                              *)
LEMMA FitAlways == Ctl /\ HeldInv /\ FittingInv => Fit
  BY SumsFit DEF HeldInv, FittingInv, Fit, Lawful, Replaying

(* Every step keeps the high-water mark within the heap.                   *)
LEMMA MarkStep ==
  RoomAbove /\ Ctl /\ Figures' /\ Fit' /\ MarkInv /\ Figures /\ [Next]_vars => MarkInv'
  <1> SUFFICES ASSUME RoomAbove, Ctl, Figures', Fit', MarkInv, Figures, [Next]_vars,
                      Honest', pc' = "ops", pass' = "util"
               PROVE  max_total_size' <= mem_heapsize'
    BY DEF MarkInv, Replaying
  <1>1. total_size' <= mem_heapsize' /\ max_total_size \in Nat /\ total_size' \in Nat
    BY DEF Figures, Fit, Replaying
  <1>2. mem_start_brk \in Nat
    BY Constants
  <1>3. CASE UNCHANGED vars
    BY <1>3 DEF vars, sizes, MarkInv, Replaying, Honest, mem_heapsize
  <1>4. CASE Allocator /\ UNCHANGED allocator
    <2>1. ASSUME NEW incr \in Increments, begin_evaluation(incr)
          PROVE  max_total_size' <= mem_heapsize'
      BY <1>1, <2>1 DEF begin_evaluation
    <2>2. ASSUME NEW incr \in Increments,
                 init_fails(incr) \/ request_fails(incr) \/ allocator_exits(incr)
          PROVE  FALSE
      BY <2>2 DEF init_fails, request_fails, allocator_exits, Complain
    <2>3. ASSUME NEW incr \in Increments, NEW p \in Pointers, NEW kept \in BOOLEAN,
                 Request(p, incr, kept)
          PROVE  max_total_size' <= mem_heapsize'
      <3>1. util_malloc(p, incr) \/ util_realloc(p, incr)
        BY <2>3 DEF Request, valid_malloc, valid_realloc, speed_request, Reject, Advance
      <3>2. /\ pc = "ops" /\ pass = "util" /\ mem_sbrk(incr)
            /\ \E n : Total(n)
        BY <3>1 DEF util_malloc, util_realloc, Operating, Answer
      <3>3. mem_brk \in Nat /\ mem_brk' \in Nat /\ mem_brk <= mem_brk'
        BY <3>2, Grows DEF Ctl, Typed
      <3>4. max_total_size <= mem_heapsize
        BY <1>4, <3>2 DEF MarkInv, Replaying, Honest
      <3>5. max_total_size' = total_size' \/ max_total_size' = max_total_size
        BY <3>2 DEF Total
      <3>6. PICK lo \in Nat, brk \in Nat, new \in Nat :
              lo = mem_start_brk /\ brk = mem_brk /\ new = mem_brk' /\ brk <= new
        BY <1>2, <3>3
      <3>7. max_total_size <= new - lo
        <4>1. max_total_size <= brk - lo
          BY <3>4, <3>6 DEF mem_heapsize
        <4>2. brk <= new /\ max_total_size \in Nat
          BY <1>1, <3>6
        <4> QED
          BY <4>1, <4>2
      <3>8. total_size' <= new - lo
        BY <1>1, <3>6 DEF mem_heapsize
      <3>9. max_total_size' <= new - lo
        BY <3>5, <3>7, <3>8
      <3> QED
        BY <3>6, <3>9 DEF mem_heapsize
    <2>4. CASE Free
      <3>1. util_free
        BY <2>4 DEF Free, valid_free, speed_free, Advance
      <3>2. /\ pc = "ops" /\ pass = "util" /\ mem_brk' = mem_brk
            /\ max_total_size' = max_total_size
        BY <3>1 DEF util_free, Operating, FreeCall
      <3> QED
        BY <1>4, <3>2 DEF MarkInv, Replaying, Honest, mem_heapsize
    <2> QED
      BY <1>4, <2>1, <2>2, <2>3, <2>4 DEF Allocator
  <1>5. CASE Own
    <2>1. pc' # "ops" \/ pass' \in LibcPasses
      BY <1>5 DEF Own, read_trace, read_trace_exits, finish, evaluation_ends,
                  libc_request, libc_begins,
                  libc_request_fails, libc_free, libc_evaluation_ends, Advance
    <2> QED
      BY <2>1 DEF LibcPasses
  <1> QED
    BY <1>3, <1>4, <1>5 DEF Next, stopped

(* The utilization of an honest allocator is at most 100%: the high water  *)
(* mark of the payloads has fitted its heap.                               *)
THEOREM UtilizationBounded ==
  ASSUME RoomAbove, Allocators \subseteq {"any", "honest"}
  PROVE  Spec => []UtilAtMostOne
  <1>1. Init => HeldInv /\ FittingInv /\ MarkInv
    BY DEF Init, HeldInv, FittingInv, MarkInv, Replaying
  <1>2. Ctl /\ MarkInv => UtilAtMostOne
    BY DEF Ctl, Typed, MarkInv, UtilAtMostOne, Honest
  <1> QED
    BY <1>1, <1>2, CtlInit, CtlStep, FiguresInit, FiguresStep, HeldStep, FittingStep,
       FitAlways, MarkStep, PTL DEF Spec

-----------------------------------------------------------------------------
(* The complaints.                                                         *)

Blameless == {"none", "no memory", "mm_init failed"}
AlarmInv == Honest => msg \in Blameless

(* A payload in the heap and apart from the others has no fault.           *)
LEMMA NoFault ==
  ASSUME NEW list \in Seq(Records), NEW p \in Nat, NEW size \in Nat, NEW brk \in Nat,
         size > 0, p % ALIGNMENT = 0, mem_heap_lo <= p, p + size <= brk,
         Extent(p, size).lo = p, Extent(p, size).hi = p + size - 1,
         \A r \in ToSet(list) : Apart(Extent(p, size), r)
  PROVE  RangeFault(list, p, size, brk) = "none"
  <1>1. PICK hi \in Nat : hi = Extent(p, size).hi /\ hi = p + size - 1
    OBVIOUS
  <1>2. mem_heap_lo \in Nat
    BY Constants DEF mem_heap_lo
  <1>3. /\ ~(p < mem_heap_lo) /\ ~(p > brk - 1) /\ ~(hi < mem_heap_lo) /\ ~(hi > brk - 1)
        /\ p <= hi
    BY <1>1, <1>2
  <1>4. ASSUME NEW k \in DOMAIN list PROVE ~Overlap(p, hi, list[k])
    <2>1. list[k].lo \in Nat /\ list[k].hi \in Nat
      BY EndsType
    <2>2. hi < list[k].lo \/ list[k].hi < p
      BY <1>1 DEF ToSet, Apart
    <2> QED
      BY <1>3, <2>1, <2>2 DEF Overlap
  <1> QED
    BY <1>1, <1>3, <1>4 DEF RangeFault

(* eval_mm_valid does not reject the answer of an honest allocator, the    *)
(* list having the ranges of the other blocks.                             *)
LEMMA NotRejected ==
  ASSUME RoomAbove, Ctl, Honest, pc = "ops", i <= trace.num_ops,
         NEW p \in Pointers, NEW incr \in Increments, NEW old,
         Answer(old, p, Op.size, incr),
         NEW list \in Seq(Records), ToSet(list) = NotAt(granted, old)
  PROVE  ~Reject(list, p)
  <1>1. PICK size \in Nat : size = Op.size
    BY OpType DEF Ctl
  <1>2. /\ mem_brk' \in Nat /\ p \in Nat /\ size > 0 /\ p % ALIGNMENT = 0
        /\ mem_heap_lo <= p /\ p + size <= mem_brk'
        /\ Extent(p, size).lo = p /\ Extent(p, size).hi = p + size - 1
        /\ \A r \in NotAt(granted, old) : Apart(Extent(p, size), r)
    BY <1>1, HonestAnswer
  <1>3. PICK brk \in Nat : brk = mem_brk' /\ p + size <= brk
    BY <1>2
  <1>4. RangeFault(list, p, size, brk) = "none"
    BY <1>2, <1>3, NoFault
  <1> QED
    BY <1>1, <1>2, <1>3, <1>4 DEF Reject

(* The list has the ranges of the other blocks when an answer is judged.   *)
LEMMA ListOfOthers ==
  ASSUME Ctl, Honest, pc = "ops", i <= trace.num_ops, pass = "valid", Op.type # "f",
         RangesInv, HeldInv, FittingInv
  PROVE  /\ ranges \in Seq(Records)
         /\ Op.type = "a" => ToSet(ranges) = NotAt(granted, NULL)
         /\ Op.type = "r" => /\ remove_range(ranges, Old) \in Seq(Records)
                             /\ ToSet(remove_range(ranges, Old)) = NotAt(granted, Old)
  <1>1. Held /\ Fitting /\ Nested(ranges) /\ RangesFollow
    BY DEF RangesInv, HeldInv, FittingInv, Lawful, Replaying
  <1>2. ranges \in Seq(Records)
    BY DEF Ctl, Typed
  <1>3. Op.type = "a" => ToSet(ranges) = NotAt(granted, NULL)
    BY <1>1 DEF Held, Fitting, RangesFollow, NotAt
  <1>4. ASSUME Op.type = "r"
        PROVE  /\ remove_range(ranges, Old) \in Seq(Records)
               /\ ToSet(remove_range(ranges, Old)) = NotAt(granted, Old)
    <2>1. PICK x \in Live : x = Op.index /\ Old = blocks[x]
      BY <1>4, LiveNext DEF Old
    <2>2. PICK list : list = remove_range(ranges, Old)
      OBVIOUS
    <2>3. list \in Seq(Records) /\ ToSet(list) = PayloadsOf(Live \ {x})
      BY <1>1, <2>1, <2>2, RangesWithout
    <2>4. PayloadsOf(Live \ {x}) = NotAt(granted, Old)
      BY <1>1, <2>1, OtherPayloads DEF Held, Fitting, NotAt
    <2> QED
      BY <2>2, <2>3, <2>4
  <1> QED
    BY <1>2, <1>3, <1>4

(* Bytes below 128 compare as they were written.                           *)
LEMMA SeemsKept ==
  ASSUME NEW index \in Nat, index % 256 < 128, NEW kept, kept, NEW n
  PROVE  DataSeemsKept(kept, n, index)
  <1>1. PICK byte \in Nat : byte = index % 256 /\ byte < 128
    OBVIOUS
  <1>2. AsChar(byte) = byte
    BY <1>1 DEF AsChar
  <1> QED
    BY <1>1, <1>2 DEF DataSeemsKept, LowByte

LowIndices == \A id \in Ids : id % 256 < 128

(* eval_mm_valid has no complaint about an answer.                         *)
LEMMA ValidAlarms ==
  ASSUME RoomAbove, LowIndices, Ctl, Honest, RangesInv, HeldInv, FittingInv,
         NEW p \in Pointers, NEW incr \in Increments, NEW kept,
         valid_malloc(p, incr) \/ valid_realloc(p, incr, kept)
  PROVE  msg' = msg
  <1>1. pc = "ops" /\ i <= trace.num_ops /\ pass = "valid" /\ Op.type \in {"a", "r"}
    BY DEF valid_malloc, valid_realloc, Operating
  <1>2. CASE valid_malloc(p, incr)
    <2>1. Op.type = "a" /\ Answer(NULL, p, Op.size, incr)
      BY <1>2 DEF valid_malloc, Operating
    <2>2. ranges \in Seq(Records) /\ ToSet(ranges) = NotAt(granted, NULL)
      BY <1>1, <2>1, ListOfOthers
    <2>3. ~Reject(ranges, p)
      BY <1>1, <2>1, <2>2, NotRejected
    <2>4. Advance
      BY <1>2, <2>3 DEF valid_malloc
    <2> QED
      BY <2>4 DEF Advance, results
  <1>3. CASE valid_realloc(p, incr, kept)
    <2>1. Op.type = "r" /\ Answer(Old, p, Op.size, incr) /\ kept
      BY <1>3 DEF valid_realloc, Operating
    <2>2. PICK list \in Seq(Records) : /\ list = remove_range(ranges, Old)
                                       /\ ToSet(list) = NotAt(granted, Old)
      BY <1>1, <2>1, ListOfOthers
    <2>3. ~Reject(list, p)
      BY <1>1, <2>1, <2>2, NotRejected
    <2>4. PICK x \in Nat : x = Op.index /\ x % 256 < 128
      <3>1. Op.index \in Ids
        BY <1>1, LiveNext
      <3>2. Op.index \in Nat
        BY <3>1, Constants
      <3> QED
        BY <3>1, <3>2 DEF LowIndices
    <2>5. \A n : DataSeemsKept(kept, n, Op.index)
      BY <2>1, <2>4, SeemsKept
    <2>6. Advance
      BY <1>3, <2>2, <2>3, <2>5 DEF valid_realloc
    <2> QED
      BY <2>6 DEF Advance, results
  <1> QED
    BY <1>2, <1>3

(* Every step keeps the complaints justified.                              *)
LEMMA AlarmStep ==
  /\ RoomAbove /\ LowIndices /\ Ctl /\ RangesInv /\ HeldInv /\ FittingInv
  /\ AlarmInv /\ [Next]_vars
  => AlarmInv'
  <1> SUFFICES ASSUME RoomAbove, LowIndices, Ctl, RangesInv, HeldInv, FittingInv, AlarmInv,
                      [Next]_vars, Honest'
               PROVE  msg' \in Blameless
    BY DEF AlarmInv
  <1>1. CASE UNCHANGED vars
    BY <1>1 DEF vars, results, AlarmInv, Honest
  <1>2. CASE (Allocator \/ Own) /\ UNCHANGED allocator
    <2>1. Honest /\ msg \in Blameless
      BY <1>2 DEF AlarmInv, Honest
    <2>2. CASE Allocator
      <3>1. ASSUME NEW incr \in Increments,
                   \/ begin_evaluation(incr) \/ init_fails(incr)
                   \/ request_fails(incr) \/ allocator_exits(incr)
            PROVE  msg' = msg \/ msg' \in {"mm_init failed", "no memory"}
        BY <3>1 DEF begin_evaluation, init_fails, request_fails, allocator_exits, Complain,
                    results
      <3>2. ASSUME NEW incr \in Increments, NEW p \in Pointers, NEW kept \in BOOLEAN,
                   util_malloc(p, incr) \/ util_realloc(p, incr) \/ speed_request(p, incr)
            PROVE  msg' = msg
        BY <3>2 DEF util_malloc, util_realloc, speed_request, Advance, results
      <3>3. ASSUME NEW incr \in Increments, NEW p \in Pointers, NEW kept \in BOOLEAN,
                   valid_malloc(p, incr) \/ valid_realloc(p, incr, kept)
            PROVE  msg' = msg
        BY <2>1, <3>3, ValidAlarms
      <3>4. Free => msg' = msg
        BY DEF Free, valid_free, util_free, speed_free, Advance, results
      <3> QED
        BY <2>1, <2>2, <3>1, <3>2, <3>3, <3>4 DEF Allocator, Request, Blameless
    <2>3. CASE Own
      <3>1. msg' = msg \/ msg' = "no memory"
        BY <2>3 DEF Own, read_trace, read_trace_exits, finish, evaluation_ends,
                  libc_request, libc_begins,
                    libc_request_fails, libc_free, libc_evaluation_ends, Advance, results
      <3> QED
        BY <2>1, <3>1 DEF Blameless
    <2> QED
      BY <1>2, <2>2, <2>3
  <1> QED
    BY <1>1, <1>2 DEF Next, stopped

(* The driver never blames an honest allocator for anything but running    *)
(* out of memory, if no index of a block has a low byte that is negative   *)
(* as a char.                                                              *)
THEOREM NoFalseAlarms ==
  ASSUME RoomAbove, LowIndices, Allocators \subseteq {"any", "honest"}
  PROVE  Spec => []NoFalseAlarm
  <1>1. Init => HeldInv /\ FittingInv /\ AlarmInv
    BY DEF Init, HeldInv, FittingInv, AlarmInv, Blameless
  <1>2. Ctl /\ AlarmInv => NoFalseAlarm
    BY DEF Ctl, Typed, AlarmInv, NoFalseAlarm, Honest, Blameless
  <1> QED
    BY <1>1, <1>2, CtlInit, CtlStep, RangesInit, RangesStep, HeldStep, FittingStep,
       AlarmStep, PTL DEF Spec
=============================================================================
