------------------------------- MODULE Driver -------------------------------
(***************************************************************************)
(* mdriver.c: the driver that judges an allocator.  It reads trace files   *)
(* one after the other and replays each of them up to three times: to find *)
(* out whether the allocator is correct (eval_mm_valid, with the list of   *)
(* payload ranges), how much space it uses (eval_mm_util) and how fast it  *)
(* is (eval_mm_speed, which fsecs calls SpeedRuns times).  With option -l  *)
(* it first replays all of them on the malloc of libc.                     *)
(*                                                                         *)
(* The allocator is whatever stands behind mm.h: "any" one may answer      *)
(* anything, an "honest" one keeps to the interface, so that the driver's  *)
(* complaints and figures can be compared with the truth.  The answers of  *)
(* "mm-firstfit" are computed in DriverOnFirstFit; here they are open.     *)
(*                                                                         *)
(* Payload data is abstract: what a call to mm_realloc did to the data the *)
(* driver had written is one bit.  Definitions named ..._slip are not the  *)
(* program: each is what a plausible slip would make of the one after it.  *)
(***************************************************************************)
EXTENDS Memlib, Sequences, SequencesExt

CONSTANTS
  TraceFiles,   \* the files: records of num_ids, num_ops and the lines
  NumTraces,    \* number of trace files named on the command line (both
                \* are functions of the allocator: bounds of an instance)
  Ids,          \* the block indices in them
  SpeedRuns,    \* number of times fsecs runs eval_mm_speed (10)
  Increments,   \* how far the allocator extends the heap in a call
  Pointers,     \* what it may answer
  Allocators    \* which ones are linked with the driver

ALIGNMENT == 8

ASSUME DriverAssumption ==
  /\ Allocators \subseteq DOMAIN TraceFiles \cap DOMAIN NumTraces
  /\ Range(NumTraces) \subseteq Nat /\ SpeedRuns \in Nat \ {0}
  /\ Ids \subseteq Nat
  /\ Increments \subseteq 0 .. MAX_HEAP
  /\ Pointers \subseteq 0 .. WORD_MOD - 1
  /\ Allocators \subseteq {"any", "honest", "mm-firstfit"}
  /\ UNION Range(TraceFiles) \subseteq
       [num_ids : Nat, num_ops : Nat,
        lines : Seq([type : {"a", "r", "f"}, index : Ids,
                     size : 0 .. WORD_MOD \div 2 - 1])]

(* The blocks the lines before the nth leave in use.                       *)
InUse(lines, n) ==
  {id \in Ids : \E k \in 1 .. n - 1 :
     /\ lines[k].index = id /\ lines[k].type # "f"
     /\ \A m \in k + 1 .. n - 1 : lines[m].index = id => lines[m].type # "f"}

(* Traces are in order: a block is allocated when it is not in use, and    *)
(* reallocated or freed when it is, as those of the repository are.        *)
InOrder(lines) ==
  \A n \in DOMAIN lines :
    lines[n].type = "a" <=> lines[n].index \notin InUse(lines, n)

ASSUME TracesInOrder == \A f \in UNION Range(TraceFiles) : InOrder(f.lines)

VARIABLES
  allocator,       \* the one the driver is linked with
  pc,              \* "read", "begin", "ops", "done", "exit", "assert" or
                   \* "crash"
  libc_left,       \* traces yet to be replayed on libc
  pass,            \* the evaluation under way: one of Passes
  runs,            \* runs of eval_mm_speed begun on this trace
  trace,           \* the trace file in memory
  i,               \* next operation of it
  ranges,          \* the list of payload extents, latest first
  blocks,          \* trace->blocks
  block_sizes,     \* trace->block_sizes
  total_size,      \* locals of eval_mm_util
  max_total_size,
  errors,          \* number of complaints (malloc_error)
  msg,             \* what the last one was about
  valid,           \* mm_stats[...].valid, for the traces evaluated so far
  granted          \* extents the allocator considers in use

results == <<errors, msg, valid>>
tracked == <<ranges, blocks, block_sizes>>
sizes == <<total_size, max_total_size>>
vars == <<mem_brk, allocator, pc, libc_left, pass, runs, trace, i, tracked, sizes, results,
          granted>>

Honest == allocator = "honest"

LibcPasses == {"libc valid", "libc speed"}
Passes == {"valid", "util", "speed"} \cup LibcPasses

Extent(p, size) == [lo |-> p, hi |-> (p + size - 1) % WORD_MOD]

-----------------------------------------------------------------------------
(* The allocator.                                                          *)

Apart(r, s) == r.hi < s.lo \/ s.hi < r.lo

(* What the interface allows as an answer, in use being the other blocks.  *)
Proper(p, size, brk, inUse) ==
  /\ p % ALIGNMENT = 0
  /\ mem_heap_lo <= p /\ p + size <= brk
  /\ \A r \in inUse : Apart(Extent(p, size), r)

NotAt(set, p) == {r \in set : r.lo # p}

(* mm_malloc or, with an old pointer, mm_realloc: answers p.               *)
Answer(old, p, size, incr) ==
  /\ mem_sbrk(incr)
  /\ Honest => SbrkSucceeds(mem_brk, incr) /\ size > 0
  /\ Honest => Proper(p, size, MovedBrk(mem_brk, incr), NotAt(granted, old))
  /\ granted' = NotAt(granted, old) \cup {Extent(p, size)}

(* ... or NULL; it may have extended the heap all the same.                *)
AnswerNull(incr) == mem_sbrk(incr) /\ UNCHANGED granted

FreeCall(p) == granted' = NotAt(granted, p) /\ UNCHANGED mem_brk

-----------------------------------------------------------------------------
(* The range list.                                                         *)

Overlap_slip(lo, hi, p) == lo >= p.lo /\ lo <= p.hi   \* one end only

Overlap(lo, hi, p) ==
  \/ lo >= p.lo /\ lo <= p.hi
  \/ hi >= p.lo /\ hi <= p.hi

(* The complaint add_range has about a payload, when the heap ends at brk. *)
RangeFault(list, lo, size, brk) ==
  LET hi == Extent(lo, size).hi
      outside(a) == a < mem_heap_lo \/ a > brk - 1
  IN CASE lo % ALIGNMENT # 0 -> "not aligned"
       [] lo % ALIGNMENT = 0 /\ (outside(lo) \/ outside(hi)) -> "outside heap"
       [] lo % ALIGNMENT = 0 /\ ~outside(lo) /\ ~outside(hi)
            /\ \E k \in DOMAIN list : Overlap(lo, hi, list[k]) -> "overlaps"
       [] OTHER -> "none"

add_range(list, lo, size) == <<Extent(lo, size)>> \o list

remove_range_slip(list, lo) ==   \* the head, whatever it is
  IF list = <<>> THEN list ELSE Tail(list)

remove_range(list, lo) == RemoveFirstMatch(list, LAMBDA r : r.lo = lo)

-----------------------------------------------------------------------------
(* Reading a trace.                                                        *)

NoTrace == [num_ids |-> 0, num_ops |-> 0, lines |-> <<>>]

(* The largest index on the lines; those that free do not count.           *)
MaxIndex(lines) ==
  Max({0} \cup {lines[k].index : k \in {n \in DOMAIN lines : lines[n].type # "f"}})

(* The two assertions at the end of read_trace.                            *)
HeaderFits_slip(f) ==   \* num_ids for the largest index
  MaxIndex(f.lines) <= f.num_ids /\ f.num_ops = Len(f.lines)

HeaderFits(f) ==
  MaxIndex(f.lines) = f.num_ids - 1 /\ f.num_ops = Len(f.lines)

Init ==
  /\ mem_brk = mem_start_brk
  /\ allocator \in Allocators
  /\ libc_left \in {0, NumTraces[allocator]}   \* -l: all of them
  /\ pc = "read" /\ pass = "valid" /\ runs = 0
  /\ trace = NoTrace /\ i = 1
  /\ ranges = <<>>
  /\ blocks = [id \in Ids |-> NULL] /\ block_sizes = [id \in Ids |-> 0]
  /\ total_size = 0 /\ max_total_size = 0
  /\ errors = 0 /\ msg = "none" /\ valid = <<>>
  /\ granted = {}

(* Lines the header does not announce are written behind trace->ops.       *)
Overruns(f) == Len(f.lines) > f.num_ops

(* What that destroys may be noticed before the assertion is reached.      *)
(* The arrays of the new trace are not initialised; NULL and 0 stand for   *)
(* contents that no operation of a trace in order looks at.                *)
read_trace(f) ==
  /\ pc = "read" /\ Len(valid) < NumTraces[allocator]
  /\ \/ pc' = IF HeaderFits(f) THEN "begin" ELSE "assert"
     \/ Overruns(f) /\ pc' = "crash"
  /\ pass' = (IF libc_left > 0 THEN "libc valid" ELSE "valid") /\ runs' = 0
  /\ trace' = f
  /\ blocks' = [id \in Ids |-> NULL] /\ block_sizes' = [id \in Ids |-> 0]
  /\ UNCHANGED <<mem_brk, libc_left, i, ranges, sizes, results, granted>>

(* A file that cannot be opened, or a line of none of the three types.     *)
read_trace_exits ==
  /\ pc = "read" /\ Len(valid) < NumTraces[allocator]
  /\ pc' = "exit"
  /\ UNCHANGED <<mem_brk, libc_left, pass, runs, trace, i, tracked, sizes, results, granted>>

(* All traces are done: main prints the performance index.                 *)
finish ==
  /\ pc = "read" /\ Len(valid) = NumTraces[allocator]
  /\ pc' = "done"
  /\ UNCHANGED <<mem_brk, libc_left, pass, runs, trace, i, tracked, sizes, results, granted>>

-----------------------------------------------------------------------------
(* fsecs has ftimer_gettod call its argument SpeedRuns times.              *)
TimingEnds == runs = SpeedRuns

(* The first evaluation begins by clearing the range list ...              *)
clear_ranges == ranges' = IF pass = "valid" THEN <<>> ELSE ranges

(* ... and all of them with mem_reset_brk and mm_init.                     *)
Begin(incr) ==
  /\ pc = "begin" /\ pass \notin LibcPasses
  /\ mem_brk' = IF SbrkSucceeds(mem_start_brk, incr)
                THEN MovedBrk(mem_start_brk, incr) ELSE mem_start_brk
  /\ granted' = {}
  /\ clear_ranges
  /\ UNCHANGED <<libc_left, pass, trace, blocks, block_sizes>>

begin_evaluation(incr) ==
  /\ Begin(incr)
  /\ pc' = "ops" /\ i' = 1
  /\ runs' = IF pass = "speed" THEN runs + 1 ELSE runs
  /\ total_size' = 0 /\ max_total_size' = 0
  /\ UNCHANGED results

(* malloc_error, after which eval_mm_valid returns 0 and main goes on to   *)
(* the next trace.                                                         *)
Complain_slip(what) ==   \* it returns 1
  /\ errors' = errors + 1 /\ msg' = what
  /\ valid' = Append(valid, TRUE)
  /\ pc' = "begin"

Complain(what) ==
  /\ errors' = errors + 1 /\ msg' = what
  /\ valid' = Append(valid, FALSE)
  /\ pc' = "read"

init_fails(incr) ==
  /\ Begin(incr)
  /\ IF pass = "valid" THEN Complain("mm_init failed")
                       ELSE pc' = "exit" /\ UNCHANGED results
  /\ UNCHANGED <<runs, i, sizes>>

-----------------------------------------------------------------------------
(* One operation of the trace.                                             *)

Op == trace.lines[i]
Operating(type) == pc = "ops" /\ i <= trace.num_ops /\ Op.type = type
Old == blocks[Op.index]

(* A request is answered NULL: a complaint, or app_error.                  *)
request_fails(incr) ==
  /\ pass \notin LibcPasses /\ (Operating("a") \/ Operating("r"))
  /\ AnswerNull(incr)
  /\ IF pass = "valid" THEN Complain("no memory")
                       ELSE pc' = "exit" /\ UNCHANGED results
  /\ UNCHANGED <<libc_left, pass, runs, trace, i, tracked, sizes>>

(* mm_realloc may also end the process, as that of mm-firstfit does where  *)
(* it has no memory.                                                       *)
allocator_exits(incr) ==
  /\ pass \notin LibcPasses /\ Operating("r")
  /\ AnswerNull(incr)
  /\ pc' = "exit"
  /\ UNCHANGED <<libc_left, pass, runs, trace, i, tracked, sizes, results>>

Remember(p) ==
  /\ blocks' = [blocks EXCEPT ![Op.index] = p]
  /\ block_sizes' = [block_sizes EXCEPT ![Op.index] = Op.size]

Advance == i' = i + 1 /\ UNCHANGED <<libc_left, pass, runs, trace, pc, results>>

(* eval_mm_valid: the new range is tested, or rejected with a complaint.   *)
(* add_range asserts that the size is positive.                            *)
Reject(list, p) ==
  /\ ranges' = list
  /\ IF Op.size = 0
     THEN pc' = "assert" /\ UNCHANGED results
     ELSE /\ RangeFault(list, p, Op.size, mem_brk') # "none"
          /\ Complain(RangeFault(list, p, Op.size, mem_brk'))
  /\ UNCHANGED <<libc_left, pass, runs, trace, i, blocks, block_sizes, sizes>>

Accept(list, p) ==
  /\ Op.size > 0
  /\ RangeFault(list, p, Op.size, mem_brk') = "none"
  /\ ranges' = add_range(list, p, Op.size)

valid_malloc(p, incr) ==
  /\ pass = "valid" /\ Operating("a")
  /\ Answer(NULL, p, Op.size, incr)
  /\ \/ Reject(ranges, p)
     \/ Accept(ranges, p) /\ Remember(p) /\ Advance /\ UNCHANGED sizes

(* The bytes the driver writes are those of index & 0xFF; when it compares *)
(* them, it reads them as chars, which are signed.                         *)
LowByte(index) == index % 256
AsChar(byte) == IF byte >= 128 THEN byte - 256 ELSE byte

DataSeemsKept(kept, n, index) ==
  n = 0 \/ (kept /\ AsChar(LowByte(index)) = LowByte(index))

(* The size of a request is less than oldsize, which then counts.          *)
Compared == IF Op.size < block_sizes[Op.index] THEN Op.size
                                               ELSE block_sizes[Op.index]

valid_realloc_slip(p, incr, kept) ==   \* the old range stays in the list
  /\ pass = "valid" /\ Operating("r")
  /\ Answer(Old, p, Op.size, incr)
  /\ Honest => kept
  /\ \/ Reject(ranges, p)
     \/ /\ Accept(ranges, p)
        /\ DataSeemsKept(kept, Compared, Op.index)
        /\ Remember(p) /\ Advance /\ UNCHANGED sizes

valid_realloc(p, incr, kept) ==
  /\ pass = "valid" /\ Operating("r")
  /\ Answer(Old, p, Op.size, incr)
  /\ Honest => kept
  /\ LET list == remove_range(ranges, Old) IN
     \/ Reject(list, p)
     \/ /\ Accept(list, p)
        /\ DataSeemsKept(kept, Compared, Op.index)
        /\ Remember(p) /\ Advance /\ UNCHANGED sizes
     \/ /\ Accept(list, p)
        /\ ~DataSeemsKept(kept, Compared, Op.index)
        /\ Complain("data not preserved")
        /\ UNCHANGED <<libc_left, pass, runs, trace, i, blocks, block_sizes, sizes>>

valid_free ==
  /\ pass = "valid" /\ Operating("f")
  /\ ranges' = remove_range(ranges, Old)
  /\ FreeCall(Old)
  /\ Advance /\ UNCHANGED <<blocks, block_sizes, sizes>>

-----------------------------------------------------------------------------
(* eval_mm_util keeps the sum of the payload sizes and its high water mark.*)
Total_slip(n) ==   \* the high water mark alone
  /\ max_total_size' = IF n > max_total_size THEN n ELSE max_total_size
  /\ UNCHANGED total_size

Total(n) ==
  /\ total_size' = n
  /\ max_total_size' = IF n > max_total_size THEN n ELSE max_total_size

util_malloc(p, incr) ==
  /\ pass = "util" /\ Operating("a")
  /\ Answer(NULL, p, Op.size, incr)
  /\ Remember(p) /\ Total(total_size + Op.size)
  /\ Advance /\ UNCHANGED ranges

util_realloc_slip(p, incr) ==   \* the old size is not taken off
  /\ pass = "util" /\ Operating("r")
  /\ Answer(Old, p, Op.size, incr)
  /\ Remember(p) /\ Total(total_size + Op.size)
  /\ Advance /\ UNCHANGED ranges

util_realloc(p, incr) ==
  /\ pass = "util" /\ Operating("r")
  /\ Answer(Old, p, Op.size, incr)
  /\ Remember(p) /\ Total(total_size + (Op.size - block_sizes[Op.index]))
  /\ Advance /\ UNCHANGED ranges

util_free ==
  /\ pass = "util" /\ Operating("f")
  /\ FreeCall(Old)
  /\ total_size' = total_size - block_sizes[Op.index]
  /\ Advance /\ UNCHANGED <<tracked, max_total_size>>

(* eval_mm_speed remembers the pointers and nothing else.                  *)
speed_request_slip(p, incr) ==   \* nor those
  /\ pass = "speed" /\ (Operating("a") \/ Operating("r"))
  /\ Answer(IF Op.type = "a" THEN NULL ELSE Old, p, Op.size, incr)
  /\ Advance /\ UNCHANGED <<tracked, sizes>>

speed_request(p, incr) ==
  /\ pass = "speed" /\ (Operating("a") \/ Operating("r"))
  /\ Answer(IF Op.type = "a" THEN NULL ELSE Old, p, Op.size, incr)
  /\ blocks' = [blocks EXCEPT ![Op.index] = p]
  /\ Advance /\ UNCHANGED <<ranges, block_sizes, sizes>>

speed_free ==
  /\ pass = "speed" /\ Operating("f")
  /\ FreeCall(Old)
  /\ Advance /\ UNCHANGED <<tracked, sizes>>

-----------------------------------------------------------------------------
(* The end of the trace: the next evaluation, or the next trace.           *)
AtEnd == pc = "ops" /\ i > trace.num_ops

evaluation_ends ==
  /\ AtEnd /\ pass \notin LibcPasses
  /\ pass' = IF pass = "valid" THEN "util" ELSE "speed"
  /\ valid' = IF pass = "valid" THEN Append(valid, TRUE) ELSE valid
  /\ pc' = IF pass = "speed" /\ TimingEnds THEN "read" ELSE "begin"
  /\ UNCHANGED <<mem_brk, libc_left, runs, trace, i, tracked, sizes, errors, msg,
                 granted>>

-----------------------------------------------------------------------------
(* The replay on libc, whose malloc is always honest.  What an evaluation  *)
(* does not free is forgotten at the beginning of the next one.            *)

libc_begins ==
  /\ pc = "begin" /\ pass \in LibcPasses
  /\ pc' = "ops" /\ i' = 1
  /\ runs' = IF pass = "libc speed" THEN runs + 1 ELSE runs
  /\ granted' = {}
  /\ UNCHANGED <<mem_brk, libc_left, pass, trace, tracked, sizes, results>>

(* malloc(0) has a pointer of its own, realloc(p, 0) answers NULL.         *)
libc_request(p) ==
  /\ pass \in LibcPasses
  /\ Operating("a") \/ (Operating("r") /\ Op.size > 0)
  /\ LET others == IF Op.type = "a" THEN granted ELSE NotAt(granted, Old)
         size == IF Op.size = 0 THEN 1 ELSE Op.size
         new == Extent(p, size)
     IN /\ p + size <= WORD_MOD /\ \A r \in others : Apart(new, r)
        /\ granted' = others \cup {new}
  /\ blocks' = [blocks EXCEPT ![Op.index] = p]
  /\ Advance /\ UNCHANGED <<mem_brk, ranges, block_sizes, sizes>>

(* NULL: malloc_error, in the first evaluation, and unix_error.            *)
libc_request_fails ==
  /\ pass \in LibcPasses /\ (Operating("a") \/ Operating("r"))
  /\ pc' = "exit"
  /\ IF pass = "libc valid" THEN errors' = errors + 1 /\ msg' = "no memory"
                            ELSE UNCHANGED <<errors, msg>>
  /\ UNCHANGED <<mem_brk, libc_left, pass, runs, trace, i, tracked, sizes, valid,
                 granted>>

libc_free ==
  /\ pass \in LibcPasses /\ Operating("f")
  /\ FreeCall(Old)
  /\ Advance /\ UNCHANGED <<tracked, sizes>>

libc_evaluation_ends ==
  /\ AtEnd /\ pass \in LibcPasses
  /\ pass' = "libc speed"
  /\ IF pass = "libc speed" /\ TimingEnds
     THEN pc' = "read" /\ libc_left' = libc_left - 1
     ELSE pc' = "begin" /\ UNCHANGED libc_left
  /\ UNCHANGED <<mem_brk, runs, trace, i, tracked, sizes, results, granted>>

stopped == pc \in {"done", "exit", "assert", "crash"} /\ UNCHANGED vars

Request(p, incr, kept) ==
  \/ valid_malloc(p, incr) \/ valid_realloc(p, incr, kept)
  \/ util_malloc(p, incr) \/ util_realloc(p, incr)
  \/ speed_request(p, incr)

Free == valid_free \/ util_free \/ speed_free

(* What concerns the allocator ...                                         *)
Allocator ==
  \/ \E incr \in Increments :
       \/ begin_evaluation(incr) \/ init_fails(incr)
       \/ request_fails(incr) \/ allocator_exits(incr)
       \/ \E p \in Pointers \ {NULL}, kept \in BOOLEAN : Request(p, incr, kept)
  \/ Free

(* ... and what does not.                                                  *)
Own ==
  \/ \E f \in TraceFiles[allocator] : read_trace(f)
  \/ read_trace_exits \/ finish
  \/ evaluation_ends
  \/ \E p \in Pointers \ {NULL} : libc_request(p)
  \/ libc_begins \/ libc_request_fails \/ libc_free \/ libc_evaluation_ends

Next == ((Allocator \/ Own) /\ UNCHANGED allocator) \/ stopped

Spec == Init /\ [][Next]_vars
=============================================================================
