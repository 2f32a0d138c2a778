---------------------------- MODULE FirstFitInv ----------------------------
(***************************************************************************)
(* The inductive invariant of mm-firstfit.c: why no block is ever handed   *)
(* out twice.  Walking the list of blocks is a recursion over data; the    *)
(* invariant says instead that there is a set S of block pointers which    *)
(* tiles the heap from the prologue to the epilogue.                       *)
(***************************************************************************)
EXTENDS FirstFitProps

(***************************************************************************)
(* What is asked of the client: no request is so big that the size_t       *)
(* arithmetic of mm_malloc wraps round, or that the address mem_sbrk       *)
(* compares with its limit does.  With the 20 MB area of config.h and an   *)
(* address space of 2^32 bytes this is far above any size in the traces.   *)
(***************************************************************************)
ASSUME RequestAssumption ==
  \A n \in Sizes :
    /\ n + OVERHEAD + (DSIZE - 1) < WORD_MOD
    /\ AdjustedSize(n) < WORD_MOD \div 2
         => mem_max_addr + AdjustedSize(n) < WORD_MOD
-----------------------------------------------------------------------------
(* The header and the footer of block p agree, and p has room for both.    *)
WellTagged(m, p) ==
  /\ m[HDRP(p)] % DSIZE \in {0, 1}
  /\ GET_SIZE(m, HDRP(p)) >= DSIZE
  /\ p # heap_listp => GET_SIZE(m, HDRP(p)) >= DSIZE + OVERHEAD
  /\ NEXT_BLKP(m, p) <= mem_max_addr
  /\ m[FTRP(m, p)] = m[HDRP(p)]

(* S holds the blocks of the heap that ends at brk: each one ends where    *)
(* another begins, from the prologue to the epilogue.                      *)
Tiling(m, brk, S) ==
  /\ S \subseteq BlockPtrs
  /\ heap_listp \in S /\ brk \in S /\ heap_listp < brk
  /\ \A p \in S : p <= brk
  /\ m[HDRP(heap_listp)] = PACK(DSIZE, 1)
  /\ m[HDRP(brk)] = PACK(0, 1)
  /\ \A p \in S \ {brk} : WellTagged(m, p) /\ NEXT_BLKP(m, p) \in S
  /\ \A p \in S \ {brk}, q \in S : q <= p \/ NEXT_BLKP(m, p) <= q
  /\ \A q \in S \ {heap_listp} : \E p \in S \ {brk} : NEXT_BLKP(m, p) = q

IsFree(m, p) == GET_ALLOC(m, HDRP(p)) = 0

(* No two neighbours are free, but for the block b and those beside it.    *)
CoalescedBut(m, brk, S, b) ==
  \A p \in S \ {brk} :
    p # b /\ NEXT_BLKP(m, p) # b => ~IsFree(m, p) \/ ~IsFree(m, NEXT_BLKP(m, p))

Coalesced(m, brk, S) == CoalescedBut(m, brk, S, NULL)

(* p is an allocated block with room for n bytes before its footer.        *)
Owns(m, brk, S, p, n) ==
  /\ p \in S \ {heap_listp, brk}
  /\ ~IsFree(m, p)
  /\ n + OVERHEAD <= GET_SIZE(m, HDRP(p))

(* The client's pointers lead to blocks of its own, no two to the same.    *)
HeldOK(m, brk, S, ptr, bytes) ==
  /\ \A i \in Ids : ptr[i] # NULL => Owns(m, brk, S, ptr[i], bytes[i])
  /\ \A i, j \in Ids : i # j /\ ptr[i] # NULL => ptr[i] # ptr[j]

Pointers == [i \in Ids |-> Pointer(i)]
Asked == [i \in Ids |-> Bytes(i)]

(* The call under way, as far as it has got.                               *)
CallOK ==
  /\ pc \in {"find_fit", "place", "copy"} =>
       /\ call.index \in Ids /\ call.size \in Sizes /\ call.size > 0
       /\ call.asize = AdjustedSize(call.size)
       /\ call.op \in {"malloc", "realloc"}
       /\ (call.op = "malloc") <=> (blocks[call.index] = NULL)
  /\ pc = "copy" => call.op = "realloc"
  /\ pc = "returned" => /\ call.index \in Ids /\ call.size \in Sizes \cup {0}
                        /\ bp # NULL => call.size \in Sizes /\ call.size > 0
                        /\ bp = NULL => blocks[call.index] = NULL

HeapOK(S) ==
  /\ Tiling(mem, mem_brk, S)
  /\ Coalesced(mem, mem_brk, S)
  /\ HeldOK(mem, mem_brk, S, Pointers, Asked)
  /\ pc = "find_fit" => bp \in S
  /\ pc = "place" => /\ bp \in S \ {heap_listp, mem_brk}
                     /\ IsFree(mem, bp)
                     /\ call.asize <= GET_SIZE(mem, HDRP(bp))
  /\ pc = "copy" => /\ Owns(mem, mem_brk, S, bp, call.size)
                    /\ \A i \in Ids : blocks[i] # bp

IInv ==
  /\ TypeOK
  /\ CallOK
  /\ pc = "start" => \A i \in Ids : blocks[i] = NULL
  /\ pc # "start" => \E S \in SUBSET BlockPtrs : HeapOK(S)
=============================================================================
