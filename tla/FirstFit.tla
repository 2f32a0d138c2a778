------------------------------ MODULE FirstFit ------------------------------
(***************************************************************************)
(* mm-firstfit.c: the allocator with an implicit free list, first-fit      *)
(* placement and boundary-tag coalescing, on top of Memlib, together with  *)
(* a client that keeps to the rules of the interface (it frees and         *)
(* reallocates only blocks it holds, and writes only their payload).       *)
(*                                                                         *)
(* The heap is modelled word by word, as the macros of the C code see it:  *)
(* mem[a] is the 32-bit word at address a, whether the allocator wrote it  *)
(* as a boundary tag or the client wrote it as data.  Nothing marks a word *)
(* as a tag; stale tags stay in memory until they are overwritten.         *)
(*                                                                         *)
(* Definitions named ..._slip are not the program: each is what a          *)
(* plausible slip would make of the definition after it, and one of the    *)
(* properties of FirstFitProps notices it.                                 *)
(***************************************************************************)
EXTENDS Memlib

CONSTANTS
  CHUNKSIZE,  \* least amount the heap is extended by (bytes)
  Ids,        \* block identifiers of the client (the index of a trace)
  Sizes,      \* payload sizes the client asks for (size_t values)
  RawMem,     \* possible contents of the area mem_init obtained
  Passes      \* bound: how often the driver begins a pass over a trace

WSIZE == 4
DSIZE == 8
OVERHEAD == 8

WordAddr == {a \in mem_start_brk .. mem_max_addr - 1 : a % WSIZE = 0}

ASSUME FirstFitAssumption ==
  /\ CHUNKSIZE \in Nat /\ CHUNKSIZE % DSIZE = 0 /\ CHUNKSIZE >= 2 * DSIZE
  /\ MAX_HEAP >= 4 * WSIZE + CHUNKSIZE
  /\ mem_max_addr + CHUNKSIZE < WORD_MOD
  /\ Ids \subseteq Nat
  /\ Sizes \subseteq 0 .. WORD_MOD - 1
  /\ RawMem \subseteq [WordAddr -> Nat]
  /\ Passes \in Nat

VARIABLES
  mem,          \* contents of the area, a function from WordAddr to words
  pc,           \* where the program is
  call,         \* the pending mm_malloc or mm_realloc: op, index, size, asize
  bp,           \* the local variable bp of the function under way
  pass,         \* number of passes begun
  blocks,       \* pointers the client holds (NULL: none), by identifier
  block_sizes   \* ... and the payload sizes it asked for

vars == <<mem_brk, mem, pc, call, bp, pass, blocks, block_sizes>>

-----------------------------------------------------------------------------
(* The macros.  A size has its three low bits clear, so that | is +.       *)

PACK(size, alloc) == size + alloc
PUT(m, p, val) == [m EXCEPT ![p] = val]
GET_SIZE(m, p) == m[p] - (m[p] % 8)
GET_ALLOC(m, p) == m[p] % 2

HDRP(b) == b - WSIZE
FTRP(m, b) == b + GET_SIZE(m, HDRP(b)) - DSIZE
NEXT_BLKP(m, b) == b + GET_SIZE(m, HDRP(b))
PREV_BLKP(m, b) == b - GET_SIZE(m, b - DSIZE)

(* The prologue's block pointer, once mm_init has moved it by DSIZE.       *)
heap_listp == mem_start_brk + DSIZE

(* Header and footer of block b rewritten, in that order.                  *)
PutTags(m, b, tag) ==
  LET withHeader == PUT(m, HDRP(b), tag) IN
  PUT(withHeader, FTRP(withHeader, b), tag)

-----------------------------------------------------------------------------
(* The internal routines, as functions of the memory they are called on.   *)

NextAlloc_slip(m, b) == 0   \* the next block's tag is not looked at

PrevAlloc(m, b) == GET_ALLOC(m, FTRP(m, PREV_BLKP(m, b)))
NextAlloc(m, b) == GET_ALLOC(m, HDRP(NEXT_BLKP(m, b)))

coalesce(m, b) ==
  LET prev == PREV_BLKP(m, b)
      next == NEXT_BLKP(m, b)
      prev_alloc == PrevAlloc(m, b)
      next_alloc == NextAlloc(m, b)
      size == GET_SIZE(m, HDRP(b))
      withNext == size + GET_SIZE(m, HDRP(next))
      withPrev == size + GET_SIZE(m, HDRP(prev))
      withBoth == withPrev + GET_SIZE(m, FTRP(m, next))
  IN CASE prev_alloc = 1 /\ next_alloc = 1 ->
            [mem |-> m, bp |-> b]
       [] prev_alloc = 1 /\ next_alloc = 0 ->
            [mem |-> PutTags(m, b, PACK(withNext, 0)), bp |-> b]
       [] prev_alloc = 0 /\ next_alloc = 1 ->
            [mem |-> PUT(PUT(m, FTRP(m, b), PACK(withPrev, 0)),
                         HDRP(prev), PACK(withPrev, 0)),
             bp |-> prev]
       [] OTHER ->
            [mem |-> PUT(PUT(m, HDRP(prev), PACK(withBoth, 0)),
                         FTRP(m, next), PACK(withBoth, 0)),
             bp |-> prev]

place(m, b, asize) ==
  LET csize == GET_SIZE(m, HDRP(b)) IN
  IF csize - asize >= DSIZE + OVERHEAD
  THEN LET front == PutTags(m, b, PACK(asize, 1)) IN
       PutTags(front, NEXT_BLKP(front, b), PACK(csize - asize, 0))
  ELSE PutTags(m, b, PACK(csize, 1))

(* extend_heap(words): the size it asks mem_sbrk for, and what it makes of *)
(* the area that begins at brk once mem_sbrk has granted it.               *)
ExtendSize(words) == (words + (words % 2)) * WSIZE

extend_heap(m, brk, words) ==
  LET size == ExtendSize(words)
      freed == PutTags(m, brk, PACK(size, 0)) IN
  coalesce(PUT(freed, HDRP(NEXT_BLKP(freed, brk)), PACK(0, 1)), brk)

mm_free_slip(m, b) ==   \* no coalescing
  PutTags(m, b, PACK(GET_SIZE(m, HDRP(b)), 0))

mm_free(m, b) ==
  coalesce(PutTags(m, b, PACK(GET_SIZE(m, HDRP(b)), 0)), b).mem

(* The block size for a request of size bytes, in size_t arithmetic.       *)

AdjustedSize(size) ==
  IF size <= DSIZE
  THEN DSIZE + OVERHEAD
  ELSE DSIZE * (((size + OVERHEAD + (DSIZE - 1)) % WORD_MOD) \div DSIZE)

WordsFor(asize) == (IF asize > CHUNKSIZE THEN asize ELSE CHUNKSIZE) \div WSIZE

(***************************************************************************)
(* memcpy and memset, by words.  A word that a range of bytes covers only  *)
(* in part is copied or set as a whole: payloads are multiples of DSIZE,   *)
(* so the bytes added are padding of the same payload.                     *)
(***************************************************************************)
WordsOf(p, n) == {a \in WordAddr : p <= a /\ a < p + n}

memcpy(m, to, from, n) ==
  [a \in WordAddr |-> IF a \in WordsOf(to, n) THEN m[a - to + from] ELSE m[a]]

memset(m, p, val, n) ==
  [a \in WordAddr |-> IF a \in WordsOf(p, n) THEN val ELSE m[a]]

(* Four bytes index & 0xFF.                                                *)
FillWord(index) == (index % 256) * 16843009

-----------------------------------------------------------------------------
NoCall == [op |-> "none", index |-> 0, size |-> 0, asize |-> 0]

(* mem_init has run; the heap is still empty and mm_init is yet to come.   *)
Init ==
  /\ mem_brk = mem_start_brk
  /\ mem \in RawMem
  /\ pc = "start"
  /\ call = NoCall
  /\ bp = NULL
  /\ pass = 0
  /\ blocks = [i \in Ids |-> NULL]
  /\ block_sizes = [i \in Ids |-> 0]

(***************************************************************************)
(* mem_reset_brk() and mm_init(), with which the driver begins every pass  *)
(* over a trace, the memory being as the previous pass left it.            *)
(***************************************************************************)
mm_init ==
  /\ pc \in {"start", "idle"}
  /\ pass < Passes /\ pass' = pass + 1
  /\ LET m1 == PUT(mem, mem_start_brk, 0)
         m2 == PUT(m1, mem_start_brk + WSIZE, PACK(OVERHEAD, 1))
         m3 == PUT(m2, mem_start_brk + DSIZE, PACK(OVERHEAD, 1))
         m4 == PUT(m3, mem_start_brk + WSIZE + DSIZE, PACK(0, 1))
         brk == MovedBrk(mem_start_brk, 4 * WSIZE)
         words == CHUNKSIZE \div WSIZE
     IN /\ mem' = extend_heap(m4, brk, words).mem
        /\ mem_brk' = MovedBrk(brk, ExtendSize(words))
  /\ pc' = "idle"
  /\ call' = NoCall
  /\ bp' = NULL
  /\ blocks' = [i \in Ids |-> NULL]
  /\ block_sizes' = [i \in Ids |-> 0]

(* Entry of mm_malloc(size), called by the client or by mm_realloc.        *)
EnterMalloc(op, index, size) ==
  /\ pc = "idle"
  /\ call' = [op |-> op, index |-> index, size |-> size,
              asize |-> AdjustedSize(size)]
  /\ UNCHANGED <<mem_brk, mem, pass, blocks, block_sizes>>

mm_malloc(index, size) ==
  /\ blocks[index] = NULL
  /\ size # 0
  /\ EnterMalloc("malloc", index, size)
  /\ pc' = "find_fit"
  /\ bp' = heap_listp

(* mm_malloc(0) returns NULL at once.                                      *)
mm_malloc_nothing(index) ==
  /\ blocks[index] = NULL
  /\ EnterMalloc("malloc", index, 0)
  /\ pc' = "returned"
  /\ bp' = NULL

mm_realloc_slip(index, size) ==   \* the old block is freed first
  /\ pc = "idle" /\ blocks[index] # NULL /\ size # 0
  /\ mem' = mm_free(mem, blocks[index])
  /\ call' = [op |-> "realloc", index |-> index, size |-> size,
              asize |-> AdjustedSize(size)]
  /\ pc' = "find_fit" /\ bp' = heap_listp
  /\ UNCHANGED <<mem_brk, pass, blocks, block_sizes>>

mm_realloc(index, size) ==
  /\ blocks[index] # NULL
  /\ size # 0
  /\ EnterMalloc("realloc", index, size)
  /\ pc' = "find_fit"
  /\ bp' = heap_listp

(* mm_realloc(p, 0): its mm_malloc(0) returns NULL, so it exits.           *)
mm_realloc_nothing(index) ==
  /\ blocks[index] # NULL
  /\ EnterMalloc("realloc", index, 0)
  /\ pc' = "exit"
  /\ bp' = NULL

-----------------------------------------------------------------------------
(* find_fit, one action per way through the body of its loop.              *)

AtEpilogue == GET_SIZE(mem, HDRP(bp)) = 0
Fits_slip == call.asize <= GET_SIZE(mem, HDRP(bp))   \* allocated or not
Fits_slip2 == /\ GET_ALLOC(mem, HDRP(bp)) = 0         \* never exactly
              /\ call.asize < GET_SIZE(mem, HDRP(bp))
Fits == /\ GET_ALLOC(mem, HDRP(bp)) = 0
        /\ call.asize <= GET_SIZE(mem, HDRP(bp))

find_fit_next_slip ==   \* the loop does not advance
  /\ pc = "find_fit" /\ ~AtEpilogue /\ ~Fits
  /\ UNCHANGED vars

find_fit_next ==
  /\ pc = "find_fit" /\ ~AtEpilogue /\ ~Fits
  /\ bp' = NEXT_BLKP(mem, bp)
  /\ UNCHANGED <<mem_brk, mem, pc, call, pass, blocks, block_sizes>>

find_fit_found ==
  /\ pc = "find_fit" /\ ~AtEpilogue /\ Fits
  /\ pc' = "place"
  /\ UNCHANGED <<mem_brk, mem, call, bp, pass, blocks, block_sizes>>

(* No fit: mm_malloc extends the heap ...                                  *)
Increment == ToInt(ExtendSize(WordsFor(call.asize)))

extend ==
  /\ pc = "find_fit" /\ AtEpilogue
  /\ SbrkSucceeds(mem_brk, Increment)
  /\ mem_sbrk(Increment)
  /\ LET grown == extend_heap(mem, mem_brk, WordsFor(call.asize)) IN
       mem' = grown.mem /\ bp' = grown.bp
  /\ pc' = "place"
  /\ UNCHANGED <<call, pass, blocks, block_sizes>>

(* ... or fails: mm_malloc returns NULL, and mm_realloc then exits.        *)
extend_fails ==
  /\ pc = "find_fit" /\ AtEpilogue
  /\ ~SbrkSucceeds(mem_brk, Increment)
  /\ mem_sbrk(Increment)
  /\ pc' = IF call.op = "malloc" THEN "returned" ELSE "exit"
  /\ bp' = NULL
  /\ UNCHANGED <<mem, call, pass, blocks, block_sizes>>

place_and_return_slip ==   \* the address of the block behind it is returned
  /\ pc = "place" /\ call.op = "malloc"
  /\ mem' = place(mem, bp, call.asize)
  /\ pc' = "returned" /\ bp' = NEXT_BLKP(mem', bp)
  /\ UNCHANGED <<mem_brk, call, pass, blocks, block_sizes>>

place_and_return ==
  /\ pc = "place" /\ call.op = "malloc"
  /\ mem' = place(mem, bp, call.asize)
  /\ pc' = "returned"
  /\ UNCHANGED <<mem_brk, call, bp, pass, blocks, block_sizes>>

place_for_realloc ==
  /\ pc = "place" /\ call.op = "realloc"
  /\ mem' = place(mem, bp, call.asize)
  /\ pc' = "copy"
  /\ UNCHANGED <<mem_brk, call, bp, pass, blocks, block_sizes>>

(* The tail of mm_realloc: copy the old block and free it.                 *)
CopySize_slip ==   \* the tags are subtracted twice
  LET old == GET_SIZE(mem, HDRP(blocks[call.index])) - 2 * OVERHEAD IN
  IF call.size < old THEN call.size ELSE old

CopySize ==
  LET old == GET_SIZE(mem, HDRP(blocks[call.index])) IN
  IF call.size < old THEN call.size ELSE old

copy_and_free_slip ==   \* the old block is not freed
  /\ pc = "copy"
  /\ mem' = memcpy(mem, bp, blocks[call.index], CopySize)
  /\ pc' = "returned"
  /\ UNCHANGED <<mem_brk, call, bp, pass, blocks, block_sizes>>

copy_and_free ==
  /\ pc = "copy"
  /\ LET ptr == blocks[call.index] IN
       mem' = mm_free(memcpy(mem, bp, ptr, CopySize), ptr)
  /\ pc' = "returned"
  /\ UNCHANGED <<mem_brk, call, bp, pass, blocks, block_sizes>>

-----------------------------------------------------------------------------
(* The client's part, as eval_mm_valid plays it.                           *)

(* It fills the payload it was handed with the low byte of its index and   *)
(* remembers the region ...                                                *)
fill ==
  /\ pc = "returned" /\ bp # NULL
  /\ mem' = memset(mem, bp, FillWord(call.index), call.size)
  /\ blocks' = [blocks EXCEPT ![call.index] = bp]
  /\ block_sizes' = [block_sizes EXCEPT ![call.index] = call.size]
  /\ pc' = "idle" /\ call' = NoCall /\ bp' = NULL
  /\ UNCHANGED <<mem_brk, pass>>

(* ... and holds nothing new when the answer is NULL.                      *)
give_up ==
  /\ pc = "returned" /\ bp = NULL
  /\ pc' = "idle" /\ call' = NoCall
  /\ UNCHANGED <<mem_brk, mem, bp, pass, blocks, block_sizes>>

client_free(index) ==
  /\ pc = "idle" /\ blocks[index] # NULL
  /\ mem' = mm_free(mem, blocks[index])
  /\ blocks' = [blocks EXCEPT ![index] = NULL]
  /\ block_sizes' = [block_sizes EXCEPT ![index] = 0]
  /\ UNCHANGED <<mem_brk, pc, call, bp, pass>>

(* exit(1) in mm_realloc: the process is gone.                             *)
exited == pc = "exit" /\ UNCHANGED vars

Request ==
  \E index \in Ids :
    \/ \E size \in Sizes : mm_malloc(index, size) \/ mm_realloc(index, size)
    \/ 0 \in Sizes /\ (mm_malloc_nothing(index) \/ mm_realloc_nothing(index))
    \/ client_free(index)

(* The steps of a call under way.                                          *)
Run ==
  \/ find_fit_next \/ find_fit_found \/ extend \/ extend_fails
  \/ place_and_return \/ place_for_realloc \/ copy_and_free
  \/ fill \/ give_up

Next == mm_init \/ Request \/ Run \/ exited

Spec == Init /\ [][Next]_vars

(* A search that can go on does.  The rest of a call has no loop.          *)
FairSpec == Spec /\ WF_vars(find_fit_next \/ find_fit_found)
=============================================================================
