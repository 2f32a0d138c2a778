---------------------------- MODULE DriverProps ----------------------------
(***************************************************************************)
(* What mdriver.c promises: its verdicts and its figures agree with what   *)
(* the allocator did.                                                      *)
(***************************************************************************)
EXTENDS Driver

(* The blocks the operations before i of the trace leave in use.           *)
Live == InUse(trace.lines, i)

(* The bytes of their payloads, numbered block by block.                   *)
BytesInUse == UNION {{id} \X (1 .. block_sizes[id]) : id \in Live}

Replaying(which) == pc = "ops" /\ pass = which

-----------------------------------------------------------------------------
(* Every variable has its type, and the operations that are replayed are   *)
(* those of the trace, on blocks trace->blocks has a place for.            *)
TypeOK ==
  /\ mem_brk \in mem_start_brk .. mem_max_addr
  /\ allocator \in Allocators
  /\ pc \in {"read", "begin", "ops", "done", "exit", "assert", "crash"}
  /\ libc_left \in 0 .. NumTraces[allocator] /\ pass \in Passes /\ runs \in 0 .. SpeedRuns
  /\ trace \in TraceFiles[allocator] \cup {NoTrace}
  /\ pc = "ops" => i \in 1 .. Len(trace.lines) + 1
  /\ pc = "ops" => \A k \in DOMAIN trace.lines : trace.lines[k].index < trace.num_ids
  /\ \A k \in DOMAIN ranges : ranges[k] \in [lo : Nat, hi : Nat]
  /\ blocks \in [Ids -> Pointers \cup {NULL}]
  /\ block_sizes \in [Ids -> Nat]
  /\ total_size \in Nat /\ max_total_size \in Nat
  /\ errors \in Nat /\ valid \in Seq(BOOLEAN) /\ Len(valid) <= NumTraces[allocator]
  /\ granted \subseteq [lo : Nat, hi : Int]

(* The range list is the list of the payloads in use: one range for each   *)
(* block the trace has allocated and not freed, whatever pointers the      *)
(* allocator has answered, and none for another.                           *)
RangesTrackBlocks ==
  Replaying("valid") =>
    /\ Len(ranges) = Cardinality(Live)
    /\ ToSet(ranges) = {Extent(blocks[id], block_sizes[id]) : id \in Live}

(* The payloads add_range has accepted are aligned and inside the heap;    *)
(* where two of them overlap, the later one holds the earlier one in its   *)
(* middle.                                                                 *)
RangesSound ==
  /\ \A k \in DOMAIN ranges :
       pc = "ops" /\ pass = "valid" =>
         /\ ranges[k].lo % ALIGNMENT = 0
         /\ mem_heap_lo <= ranges[k].lo /\ ranges[k].hi <= mem_heap_hi
  /\ \A k, n \in DOMAIN ranges : k < n =>
       \/ Apart(ranges[k], ranges[n])
       \/ /\ ranges[k].lo < ranges[n].lo
          /\ ranges[n].hi < ranges[k].hi

(* "The payload must not overlap any other payloads" (mdriver.c:415): the  *)
(* driver accepts no two payloads in use that share a byte.                *)
AcceptedApart ==
  \A k, n \in DOMAIN ranges : k # n => Apart(ranges[k], ranges[n])

(* The driver never blames an allocator that keeps to the interface, as an *)
(* honest one does and mm-firstfit, for anything but running out of memory.*)
NoFalseAlarm ==
  allocator # "any" => msg \in {"none", "no memory", "mm_init failed"}

(* "valid: was the trace processed correctly by the allocator?": the       *)
(* number of errors, which decides whether a performance index is printed, *)
(* is the number of traces that are not valid.                             *)
ErrorsAreInvalidTraces ==
  pass \notin LibcPasses => errors = Cardinality({k \in DOMAIN valid : ~valid[k]})

(* The driver keeps to the interface as well: in all evaluations it frees  *)
(* and reallocates only what the allocator answered since the evaluation   *)
(* began, and never the same block twice, although trace->blocks keeps the *)
(* pointers of freed blocks and of earlier evaluations.                    *)
CallsAreLegal ==
  (allocator # "any" \/ pass \in LibcPasses) /\ (Operating("r") \/ Operating("f")) =>
    \E r \in granted : r.lo = Old

(* total_size is the number of payload bytes in use ...                    *)
TotalIsInUse ==
  Replaying("util") =>
    total_size = Cardinality(BytesInUse)

(* ... so that the utilization of an honest allocator is at most 100%: the *)
(* high water mark of the payloads has fitted the heap, which cannot       *)
(* shrink.                                                                 *)
UtilAtMostOne ==
  allocator # "any" /\ Replaying("util") => max_total_size <= mem_heapsize
=============================================================================
