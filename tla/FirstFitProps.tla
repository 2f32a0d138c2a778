--------------------------- MODULE FirstFitProps ---------------------------
(***************************************************************************)
(* What mm-firstfit.c promises: the properties the runs check of FirstFit. *)
(* Those about blocks speak of the list of blocks as every routine of the  *)
(* code finds it, by walking from heap_listp; those about payloads speak   *)
(* only of what the client holds.                                          *)
(***************************************************************************)
EXTENDS FirstFit

-----------------------------------------------------------------------------
(* What the client holds.  From the moment a call has returned a pointer   *)
(* the client holds that block, and not the one mm_realloc has freed.      *)

HandedOver(i) == pc = "returned" /\ i = call.index
Pointer(i) == IF HandedOver(i) THEN bp ELSE blocks[i]
Bytes(i) == IF HandedOver(i) THEN call.size ELSE block_sizes[i]
Held == {i \in Ids : Pointer(i) # NULL}

(* The block an mm_realloc under way has placed and not yet returned.      *)
Pending == IF pc = "copy" THEN {bp} ELSE {}

-----------------------------------------------------------------------------
(* The list of blocks, from heap_listp to the epilogue.  A link that does  *)
(* not lead forward to a place below the break is not followed.            *)

BlockPtrs == {p \in heap_listp .. mem_max_addr : p % DSIZE = 0}

LinkedOn(p) == /\ GET_SIZE(mem, HDRP(p)) > 0
               /\ NEXT_BLKP(mem, p) \in BlockPtrs
               /\ NEXT_BLKP(mem, p) <= mem_brk

Walk ==
  LET from[p \in BlockPtrs] ==
        {p} \cup (IF p < mem_max_addr /\ LinkedOn(p)
                 THEN from[NEXT_BLKP(mem, p)] ELSE {})
  IN from[heap_listp]

Allocated(p) == GET_ALLOC(mem, HDRP(p)) = 1
FreeBlocks == {p \in Walk : ~Allocated(p)}

Initialised == pc # "start"

-----------------------------------------------------------------------------
(* The allocator as its client sees it: what the client holds, and the     *)
(* words that are in it.                                                   *)

Payload(i) ==
  IF Pointer(i) = NULL
  THEN [lo |-> 0, size |-> 0, data |-> <<>>]
  ELSE [lo |-> Pointer(i), size |-> Bytes(i),
        data |-> [o \in {a - Pointer(i) : a \in WordsOf(Pointer(i), Bytes(i))}
                    |-> mem[Pointer(i) + o]]]

Contract == INSTANCE AllocContract
  WITH Lo <- mem_heap_lo, Hi <- mem_max_addr, held <- [i \in Ids |-> Payload(i)]

-----------------------------------------------------------------------------
(* Every variable has its type; mem_brk never leaves the area, so mem_sbrk *)
(* keeps its limit.                                                        *)
TypeOK ==
  /\ mem_brk \in mem_start_brk .. mem_max_addr
  /\ mem \in [WordAddr -> Nat]
  /\ pc \in {"start", "idle", "find_fit", "place", "copy", "returned", "exit"}
  /\ call \in [op : {"none", "malloc", "realloc"}, index : Ids \cup {0},
               size : Sizes \cup {0}, asize : Nat]
  /\ bp \in {NULL} \cup BlockPtrs
  /\ pass \in 0 .. Passes
  /\ blocks \in [Ids -> {NULL} \cup BlockPtrs]
  /\ block_sizes \in [Ids -> Sizes \cup {0}]

(* The heap is consistent: mm_checkheap would print nothing, that is, the  *)
(* list leads from the prologue to the epilogue, which lies exactly at the *)
(* break, and the two tags of every block on it agree (checkblock); and    *)
(* mm_free and extend_heap leave no two neighbours free, whichever of the  *)
(* four cases of coalesce applies ("contiguous free blocks that somehow    *)
(* escaped coalescing", TODO.md:52).                                       *)
HeapConsistent ==
  Initialised =>
    /\ mem[HDRP(heap_listp)] = PACK(DSIZE, 1)
    /\ mem_brk \in Walk
    /\ mem[HDRP(mem_brk)] = PACK(0, 1)
    /\ \A p \in Walk \ {mem_brk} :
         /\ GET_SIZE(mem, HDRP(p)) > 0
         /\ mem[HDRP(p)] = mem[FTRP(mem, p)]
    /\ \A p \in FreeBlocks : Allocated(NEXT_BLKP(mem, p))

(* Nothing is lost and nothing is kept: the blocks marked allocated are    *)
(* the prologue, the epilogue and those the client holds or is about to be *)
(* handed, no more and no fewer.                                           *)
AllocatedIsHeld ==
  Initialised =>
    Walk \ FreeBlocks =
      {heap_listp, mem_brk} \cup {Pointer(i) : i \in Held} \cup Pending

(* No two payloads that are held overlap (what add_range tests).           *)
Apart(p, m, q, n) == p + m <= q \/ q + n <= p

PayloadsDisjoint ==
  \A i, j \in Held :
    i # j => Apart(Pointer(i), Bytes(i), Pointer(j), Bytes(j))

(* The same, and inside the heap, said of what the client holds alone:     *)
(* the contract of mm_malloc in TODO.md and the tests of add_range.        *)
PayloadsInHeap ==
  \A i \in Held : /\ mem_heap_lo <= Pointer(i)
                  /\ Pointer(i) + Bytes(i) - 1 <= mem_heap_hi

(* What the client wrote to a payload stays there until it frees it: no    *)
(* tag, no copy and no other payload is ever written over it.              *)
PayloadIntact ==
  \A i \in Held : ~HandedOver(i) =>
    \A a \in WordsOf(Pointer(i), Bytes(i)) : mem[a] = FillWord(i)

(* memcpy in mm_realloc never copies between overlapping areas, for which  *)
(* its behaviour is undefined: the new block was placed while the old one  *)
(* was still allocated.                                                    *)
CopyAreasApart ==
  pc = "copy" => Apart(bp, CopySize, blocks[call.index], CopySize)

(* First fit: the block about to be placed is the lowest one that is big   *)
(* enough, also when the heap was extended and the new area coalesced; and *)
(* mm_malloc answers NULL to a positive request only if there is none.     *)
Fitting == {p \in FreeBlocks : call.asize <= GET_SIZE(mem, HDRP(p))}

LowestFit ==
  /\ pc = "place" => bp \in Fitting /\ \A p \in Fitting : bp <= p
  /\ pc = "returned" /\ bp = NULL /\ call.size > 0 => Fitting = {}

(* mm-firstfit.c implements the interface: every step of it is, for the    *)
(* client, one of AllocContract's or none at all.                          *)
ImplementsContract == Contract!Spec

(* mm_realloc(ptr, 0) is equivalent to mm_free(ptr) (TODO.md:30), so it    *)
(* does not end the process.                                               *)
ReallocZeroFrees == pc = "exit" => call.size # 0

(* Every call comes to an end: find_fit, the only loop in one, finds a     *)
(* block or the epilogue, and never runs round in a heap with a block of   *)
(* size zero or a link back.                                               *)
CallsReturn == (pc = "find_fit") ~> (pc # "find_fit" \/ bp = mem_brk)
=============================================================================
