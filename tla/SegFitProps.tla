----------------------------- MODULE SegFitProps -----------------------------
(***************************************************************************)
(* What mm.c promises: the properties the runs check of SegFit.  Most of   *)
(* them are about the heap as long as nothing has ruined it.               *)
(***************************************************************************)
EXTENDS SegFit, FiniteSets

Sound == pc # "start" /\ ruined = "nothing"

BlockPtrs == {p \in heap_listp .. mem_max_addr : p % DSIZE = 0}

(* The list of blocks, from the prologue to the epilogue.                  *)
LinkedOn(p) == /\ GET_SIZE(mem, HDRP(p)) > 0
               /\ NEXT_BLKP(mem, p) \in BlockPtrs
               /\ NEXT_BLKP(mem, p) <= mem_brk

Walk ==
  LET from[p \in BlockPtrs] ==
        {p} \cup (IF p < mem_max_addr /\ LinkedOn(p)
                 THEN from[NEXT_BLKP(mem, p)] ELSE {})
  IN from[heap_listp]

FreeBlocks == {p \in Walk : GET_ALLOC(mem, HDRP(p)) = 0}
Size(p) == GET_SIZE(mem, HDRP(p))
HasTag(p) == GET_TAG(mem, HDRP(p)) # 0

OnList(l) == LET nth == Nth(heap, l) IN {nth[n] : n \in DOMAIN nth} \ {NULL}

HandedOver(i) == pc = "returned" /\ i = call.index /\ bp # NULL
Pointer(i) == IF HandedOver(i) THEN bp ELSE blocks[i]
Bytes(i) == IF HandedOver(i) THEN call.size ELSE block_sizes[i]
Held == {i \in Ids : Pointer(i) # NULL}
Pending == IF pc = "move" THEN {bp} ELSE {}

-----------------------------------------------------------------------------
(* Every variable has its type; the lists lead to block pointers.          *)
TypeOK ==
  /\ mem_brk \in mem_start_brk .. mem_max_addr
  /\ mem \in [WordAddr -> Nat]
  /\ sgrlists \in [0 .. LISTS - 1 -> {NULL} \cup BlockPtrs]
  /\ ruined \in {"nothing", "tag", "words", "NULL"}
  /\ pc \in {"start", "idle", "search", "walk", "found", "move", "returned"}
  /\ call \in [op : {"none", "malloc", "realloc"}, index : Ids \cup {0},
               size : Sizes \cup {0}, asize : Nat]
  /\ list \in 0 .. LISTS /\ size \in Nat /\ bp \in {NULL} \cup BlockPtrs
  /\ blocks \in [Ids -> {NULL} \cup BlockPtrs]
  /\ block_sizes \in [Ids -> Sizes \cup {0}]

(* The blocks tile the heap from the prologue to the epilogue at the       *)
(* break, and header and footer of each agree but for the tag; the blocks  *)
(* marked allocated are those the client holds: "mm_free - Free a block".  *)
BlocksTileHeap ==
  Sound =>
    /\ mem_brk \in Walk /\ GET_SIZE(mem, HDRP(mem_brk)) = 0
    /\ \A p \in Walk \ {mem_brk} :
         /\ Size(p) > 0
         /\ GET_SIZE(mem, FTRP(mem, p)) = Size(p)
         /\ GET_ALLOC(mem, FTRP(mem, p)) = GET_ALLOC(mem, HDRP(p))
    /\ Walk \ FreeBlocks =
         {heap_listp, mem_brk} \cup {Pointer(i) : i \in Held} \cup Pending

(* The lists hold the free blocks, all of them and nothing else, each one  *)
(* once and on the list for its size, and they lead back the way they lead *)
(* forward, whatever the client wrote over the links in between.           *)
ListsHoldFreeBlocks ==
  Sound =>
    /\ \A l \in 0 .. LISTS - 1 : OnList(l) = {p \in FreeBlocks : ListOf(Size(p)) = l}
    /\ \A p \in FreeBlocks :
         LET next == NEXT_FREEP(mem, p)
             prev == PREV_FREEP(mem, p)
         IN /\ next # NULL => PREV_FREEP(mem, next) = p
            /\ IF prev = NULL THEN sgrlists[ListOf(Size(p))] = p
                              ELSE NEXT_FREEP(mem, prev) = p

(* A tag says that the block in front was reallocated and is still in use: *)
(* a free block keeps its tag no longer than that.                         *)
TagsHaveOwners ==
  Sound => \A p \in Walk \ {mem_brk} :
             HasTag(NEXT_BLKP(mem, p)) => p \notin FreeBlocks

(* No two payloads the client holds overlap, nor does one overlap a tag or *)
(* a link: what it wrote stays there.                                      *)
PayloadIntact ==
  Sound => \A i \in Held : ~HandedOver(i) =>
    \A a \in WordsOf(Pointer(i), Bytes(i)) : mem[a] = FillWord(i)

(* mm_realloc keeps the data, whether the block stays as it is, takes the  *)
(* next one, moves, or takes the next one with the heap extended, which    *)
(* ruins the list of blocks but not what is in this one.  It says nothing  *)
(* when a coalescing has merged a block it must not (ruined is "tag").     *)
Answered ==
  pc = "returned" /\ call.op = "realloc" /\ bp # NULL

ReallocKeepsData ==
  Answered /\ ruined \in {"nothing", "words"} =>
    LET oldsize == block_sizes[call.index]
        kept == IF call.size < oldsize THEN call.size ELSE oldsize
    IN \A a \in WordsOf(bp, kept) : mem[a] = FillWord(call.index)

(* The search goes through the lists in the order of their sizes: the      *)
(* block it finds is on the first list that has one that fits.  And it     *)
(* misses none: the heap is extended, or the request refused, only when no *)
(* free block fits that is not reserved by a tag.                          *)
Usable == {p \in FreeBlocks : call.asize <= Size(p) /\ ~HasTag(p)}

FoundOnFirstList ==
  /\ Sound /\ pc = "found" =>
       bp \in Usable /\ \A p \in Usable : ListOf(Size(bp)) <= ListOf(Size(p))
  /\ Sound /\ pc = "search" /\ list = LISTS => Usable = {}

(* "The mm malloc routine returns a pointer to an allocated block payload  *)
(* of at least size bytes" (TODO.md:11-12): the search comes to an end, at *)
(* a block or behind the last list, whatever the links of the lists are.   *)
SearchEnds == (pc = "search") ~> (pc = "found" \/ list = LISTS)
=============================================================================
