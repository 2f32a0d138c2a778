------------------------------- MODULE SegFit -------------------------------
(***************************************************************************)
(* mm.c: the allocator with segregated free lists and reallocation tags,   *)
(* on top of Memlib, with a client that keeps to the rules of mm.h.        *)
(*                                                                         *)
(* The heap is modelled word by word: mem[a] is the word at address a.  A  *)
(* word holds a size, the allocation bit (1) and the reallocation tag (2), *)
(* or a pointer of a free list, or the client's data; nothing says which.  *)
(*                                                                         *)
(* The file does not compile as it is: line 224 names an undeclared ptr,   *)
(* which is read as bp here.  And the search of mm_malloc never increases  *)
(* its counter list.  ListStep is what a turn adds to it: 0 is the file as *)
(* it stands, with which no call of mm_malloc returns; with 1, as the      *)
(* comment "Search the sgrlists for a fit" has it, the routines behind the *)
(* search are reached.                                                     *)
(*                                                                         *)
(* Two things ruin the heap even then, and a third ends the process; the   *)
(* model names them (ruined) and goes no further behind them.              *)
(***************************************************************************)
EXTENDS Memlib

CONSTANTS
  CHUNKSIZE,  \* least amount mm_malloc extends the heap by (bytes)
  LISTS,      \* number of segregated lists
  BUFFER,     \* what mm_realloc adds to a block, for later requests
  ListStep,   \* what a turn of the search adds to list
  Ids,        \* block identifiers of the client
  Sizes,      \* payload sizes it asks for
  RawMem      \* possible contents of the area mem_init obtained

WSIZE == 4
DSIZE == 8
OVERHEAD == 8
MIN_BSIZE == 16

WordAddr == {a \in mem_start_brk .. mem_max_addr - 1 : a % WSIZE = 0}

ASSUME SegFitAssumption ==
  /\ CHUNKSIZE \in Nat /\ CHUNKSIZE % DSIZE = 0 /\ CHUNKSIZE >= MIN_BSIZE
  /\ MAX_HEAP >= 4 * WSIZE + CHUNKSIZE
  /\ LISTS \in Nat \ {0} /\ BUFFER \in Nat /\ BUFFER % DSIZE = 0
  /\ ListStep \in {0, 1}
  /\ Ids \subseteq Nat
  /\ Sizes \subseteq 0 .. WORD_MOD - 1
  /\ RawMem \subseteq [WordAddr -> Nat]

VARIABLES
  mem, sgrlists,            \* the area, and the head of each list
  ruined,                   \* what has gone wrong, or "nothing"
  pc, call,                 \* the call under way: op, index, size, asize
  list, size, bp,           \* ... and the locals of its search
  blocks, block_sizes       \* what the client holds

client == <<blocks, block_sizes>>
search == <<list, size>>
vars == <<mem_brk, mem, sgrlists, ruined, pc, call, search, bp, client>>

heap == [mem |-> mem, lists |-> sgrlists, ruined |-> ruined]

HeapBecomes(h) ==
  mem' = h.mem /\ sgrlists' = h.lists /\ ruined' = h.ruined

SameHeap == UNCHANGED <<mem, sgrlists, ruined>>

-----------------------------------------------------------------------------
(* The macros.                                                             *)

GET_SIZE(m, p) == m[p] - (m[p] % 8)
GET_ALLOC(m, p) == m[p] % 2
GET_TAG(m, p) == 2 * ((m[p] \div 2) % 2)

PACK(n, alloc) == n + alloc
PUT_NOTAG(m, p, val) == [m EXCEPT ![p] = val]
PUT(m, p, val) == [m EXCEPT ![p] = val + GET_TAG(m, p)]
SET_TAG(m, p) == [m EXCEPT ![p] = @ - GET_TAG(m, p) + 2]
UNSET_TAG_slip(m, p) == m   \* the tag stays
UNSET_TAG(m, p) == [m EXCEPT ![p] = @ - GET_TAG(m, p)]

HDRP(b) == b - WSIZE
FTRP(m, b) == b + GET_SIZE(m, HDRP(b)) - DSIZE
NEXT_BLKP(m, b) == b + GET_SIZE(m, HDRP(b))
PREV_BLKP(m, b) == b - GET_SIZE(m, b - DSIZE)

(* PREV_BP, the first word of a free block, leads to its successor on the  *)
(* list, and NEXT_BP, the second one, to its predecessor.                  *)
PREV_BP(b) == b
NEXT_BP(b) == b + WSIZE
NEXT_FREEP(m, b) == m[PREV_BP(b)]
PREV_FREEP(m, b) == m[NEXT_BP(b)]

heap_listp == mem_start_brk + DSIZE

(* Header and footer of block b, with their tags kept or without.          *)
PutBoth(m, b, val) == LET n == PUT(m, HDRP(b), val) IN PUT(n, FTRP(n, b), val)
PutBothNoTag(m, b, val) ==
  LET n == PUT_NOTAG(m, HDRP(b), val) IN PUT_NOTAG(n, FTRP(n, b), val)

-----------------------------------------------------------------------------
(* The free lists.                                                         *)

(* n halved l times.                                                       *)
Halved(n, l) ==
  LET halved[k \in 0 .. l] == IF k = 0 THEN n ELSE halved[k - 1] \div 2
  IN halved[l]

(* The list for blocks of n bytes: how often n is halved until it is 1, or *)
(* the last list.                                                          *)
ListOf(n) ==
  CHOOSE l \in 0 .. LISTS - 1 :
    /\ l = LISTS - 1 \/ Halved(n, l) <= 1
    /\ l > 0 => ~(Halved(n, l - 1) <= 1)

(* The nth block of list l, counted from 0, or NULL.                       *)
Nth(h, l) ==
  LET nth[n \in 0 .. MAX_HEAP \div MIN_BSIZE] ==
        IF n = 0 THEN h.lists[l]
        ELSE LET previous == nth[n - 1] IN
             IF previous = NULL THEN NULL ELSE NEXT_FREEP(h.mem, previous)
  IN nth

(* Where insert_block stops: at the first block that is not smaller than   *)
(* size, which has been halved to find the list, or at its end.            *)
StopsAt(h, l, n, k) ==
  Nth(h, l)[k] = NULL \/ Halved(n, l) <= GET_SIZE(h.mem, HDRP(Nth(h, l)[k]))

FirstStop(h, l, n) ==
  CHOOSE k \in DOMAIN Nth(h, l) :
    StopsAt(h, l, n, k) /\ \A j \in 0 .. k - 1 : ~StopsAt(h, l, n, j)

insert_block(h, b, n) ==
  LET l == ListOf(n)
      at == FirstStop(h, l, n)
      search_BP == Nth(h, l)[at]
      insert_BP == IF at = 0 THEN NULL ELSE Nth(h, l)[at - 1]
      own == [h.mem EXCEPT ![PREV_BP(b)] = search_BP, ![NEXT_BP(b)] = insert_BP]
      after == IF search_BP = NULL THEN own
               ELSE [own EXCEPT ![NEXT_BP(search_BP)] = b]
  IN IF insert_BP = NULL
     THEN [h EXCEPT !.mem = after, !.lists[l] = b]
     ELSE [h EXCEPT !.mem = [after EXCEPT ![PREV_BP(insert_BP)] = b]]

delete_block_slip(h, b) ==   \* the head becomes the address of a link
  LET prev == PREV_FREEP(h.mem, b)
  IN IF prev = NULL
     THEN [h EXCEPT !.lists[ListOf(GET_SIZE(h.mem, HDRP(b)))] = NEXT_BP(b)]
     ELSE [h EXCEPT !.mem[PREV_BP(prev)] = NEXT_FREEP(h.mem, b)]

delete_block(h, b) ==
  LET next == NEXT_FREEP(h.mem, b)
      prev == PREV_FREEP(h.mem, b)
      unlinked == IF next = NULL THEN h.mem
                  ELSE [h.mem EXCEPT ![NEXT_BP(next)] = prev]
  IN IF prev = NULL
     THEN [h EXCEPT !.mem = unlinked,
                    !.lists[ListOf(GET_SIZE(h.mem, HDRP(b)))] = next]
     ELSE [h EXCEPT !.mem = [unlinked EXCEPT ![PREV_BP(prev)] = next]]

-----------------------------------------------------------------------------
(* The blocks.                                                             *)

(* A tagged block is not merged with the one behind it, but the last case  *)
(* of coalesce is also that of a free, tagged block before and an          *)
(* allocated one behind: there the allocated block is taken off a list it  *)
(* is not on, by pointers that are the client's data.                      *)
MergesAllocated(m, b) ==
  /\ GET_ALLOC(m, HDRP(PREV_BLKP(m, b))) = 0
  /\ GET_TAG(m, HDRP(PREV_BLKP(m, b))) # 0
  /\ GET_ALLOC(m, HDRP(NEXT_BLKP(m, b))) = 1

coalesce(h, b) ==
  LET prev == PREV_BLKP(h.mem, b)
      next == NEXT_BLKP(h.mem, b)
      prev_alloc == GET_ALLOC(h.mem, HDRP(prev)) = 1
      next_alloc == GET_ALLOC(h.mem, HDRP(next)) = 1
      prev_stays == prev_alloc \/ GET_TAG(h.mem, HDRP(prev)) # 0
      n == GET_SIZE(h.mem, HDRP(b))
      withNext == n + GET_SIZE(h.mem, HDRP(next))
      withPrev == n + GET_SIZE(h.mem, HDRP(prev))
      withBoth == withPrev + GET_SIZE(h.mem, HDRP(next))
      alone == delete_block(h, b)
  IN CASE prev_alloc /\ next_alloc -> [heap |-> h, bp |-> b]
       [] MergesAllocated(h.mem, b) ->
            [heap |-> [h EXCEPT !.ruined = "tag"], bp |-> b]
       [] prev_stays /\ ~next_alloc ->
            LET two == delete_block(alone, next) IN
            [heap |-> insert_block(
               [two EXCEPT !.mem = PutBoth(@, b, PACK(withNext, 0))], b, withNext),
             bp |-> b]
       [] ~prev_stays /\ next_alloc ->
            LET two == delete_block(alone, prev)
                footer == PUT(two.mem, FTRP(two.mem, b), PACK(withPrev, 0))
            IN [heap |-> insert_block(
                  [two EXCEPT !.mem = PUT(footer, HDRP(prev), PACK(withPrev, 0))],
                  prev, withPrev),
                bp |-> prev]
       [] ~prev_stays /\ ~next_alloc ->
            LET three == delete_block(delete_block(alone, prev), next)
                header == PUT(three.mem, HDRP(prev), PACK(withBoth, 0))
            IN [heap |-> insert_block(
                  [three EXCEPT !.mem = PUT(header, FTRP(header, next), PACK(withBoth, 0))],
                  prev, withBoth),
                bp |-> prev]

ExtendSize(words) ==
  LET even == (words + (words % 2)) * WSIZE
  IN IF even < OVERHEAD THEN OVERHEAD ELSE even

extend_heap(h, brk, words) ==
  LET n == ExtendSize(words)
      freed == PutBothNoTag(h.mem, brk, PACK(n, 0))
      ended == PUT_NOTAG(freed, HDRP(NEXT_BLKP(freed, brk)), PACK(0, 1))
  IN coalesce(insert_block([h EXCEPT !.mem = ended], brk, n), brk)

place_slip(h, b, asize) ==   \* the block stays on its list
  LET bp_size == GET_SIZE(h.mem, HDRP(b))
      remainder == bp_size - asize
      front == PutBoth(h.mem, b, PACK(asize, 1))
      rest == NEXT_BLKP(front, b)
  IN IF remainder >= MIN_BSIZE
     THEN insert_block([h EXCEPT !.mem = PutBothNoTag(front, rest, PACK(remainder, 0))],
                       rest, remainder)
     ELSE [h EXCEPT !.mem = PutBoth(@, b, PACK(bp_size, 1))]

place(h, b, asize) ==
  LET bp_size == GET_SIZE(h.mem, HDRP(b))
      remainder == bp_size - asize
      taken == delete_block(h, b)
      front == PutBoth(taken.mem, b, PACK(asize, 1))
      rest == NEXT_BLKP(front, b)
  IN IF remainder >= MIN_BSIZE
     THEN insert_block(
            [taken EXCEPT !.mem = PutBothNoTag(front, rest, PACK(remainder, 0))],
            rest, remainder)
     ELSE [taken EXCEPT !.mem = PutBoth(@, b, PACK(bp_size, 1))]

mm_free(h, b) ==
  LET n == GET_SIZE(h.mem, HDRP(b))
      untagged == UNSET_TAG(h.mem, HDRP(NEXT_BLKP(h.mem, b)))
  IN coalesce(insert_block([h EXCEPT !.mem = PutBoth(untagged, b, PACK(n, 0))],
                           b, n), b).heap

AdjustedSize(n) ==
  IF n <= DSIZE THEN 2 * DSIZE
  ELSE DSIZE * (((n + DSIZE + (DSIZE - 1)) % WORD_MOD) \div DSIZE)

(* memset and memmove by words: payloads are multiples of words.  What     *)
(* memmove finds behind the area is taken as 0.                            *)
WordsOf(p, n) == {a \in WordAddr : p <= a /\ a < p + n}
memset(m, p, val, n) ==
  [a \in WordAddr |-> IF a \in WordsOf(p, n) THEN val ELSE m[a]]
memmove(m, to, from, n) ==
  [a \in WordAddr |->
     IF a \in WordsOf(to, n)
     THEN IF a - to + from \in WordAddr THEN m[a - to + from] ELSE 0
     ELSE m[a]]

FillWord(index) == (index % 256) * 16843009

-----------------------------------------------------------------------------
NoCall == [op |-> "none", index |-> 0, size |-> 0, asize |-> 0]

Init ==
  /\ mem_brk = mem_start_brk
  /\ mem \in RawMem
  /\ sgrlists = [l \in 0 .. LISTS - 1 |-> NULL]
  /\ ruined = "nothing"
  /\ pc = "start" /\ call = NoCall
  /\ list = 0 /\ size = 0 /\ bp = NULL
  /\ blocks = [i \in Ids |-> NULL]
  /\ block_sizes = [i \in Ids |-> 0]

(* Prologue and epilogue, and a block of CHUNKSIZE bytes.                  *)
mm_init ==
  /\ pc = "start"
  /\ LET m1 == PUT_NOTAG(mem, mem_start_brk, 0)
         m2 == PUT_NOTAG(m1, mem_start_brk + WSIZE, PACK(DSIZE, 1))
         m3 == PUT_NOTAG(m2, mem_start_brk + 2 * WSIZE, PACK(DSIZE, 1))
         m4 == PUT_NOTAG(m3, mem_start_brk + 3 * WSIZE, PACK(0, 1))
         brk == mem_start_brk + 4 * WSIZE
         h == [heap EXCEPT !.mem = m4,
                           !.lists = [l \in 0 .. LISTS - 1 |-> NULL]]
     IN /\ HeapBecomes(extend_heap(h, brk, CHUNKSIZE \div WSIZE).heap)
        /\ mem_brk' = brk + CHUNKSIZE
  /\ pc' = "idle"
  /\ UNCHANGED <<call, search, bp, client>>

(* A call is made, and what it starts with.                                *)
Calls(op, index, n) == pc = "idle" /\ call' = [op |-> op, index |-> index,
                                               size |-> n, asize |-> AdjustedSize(n)]

SearchBegins(asize) ==
  size' = asize /\ list' = 0 /\ bp' = NULL /\ pc' = "search"

Returns(p) == pc' = "returned" /\ bp' = p

mm_malloc(index, n) ==
  /\ blocks[index] = NULL /\ n # 0
  /\ Calls("malloc", index, n)
  /\ SearchBegins(AdjustedSize(n))
  /\ SameHeap /\ UNCHANGED <<mem_brk, client>>

(* mm_malloc(0) and mm_realloc(p, 0) return NULL at once.                  *)
nothing(index) ==
  /\ Calls(IF blocks[index] = NULL THEN "malloc" ELSE "realloc", index, 0)
  /\ Returns(NULL)
  /\ SameHeap /\ UNCHANGED <<mem_brk, search, client>>

-----------------------------------------------------------------------------
(* One turn of the search: a list is walked along when the size has been   *)
(* halved down to 1 and the list is not empty, or when it is the last one. *)
LookedAt == (size <= 1 /\ sgrlists[list] # NULL) \/ list = LISTS - 1

NextTurn_slip ==   \* the list counter is left behind
  pc' = "search" /\ size' = size \div 2 /\ list' = list

NextTurn == pc' = "search" /\ size' = size \div 2 /\ list' = list + ListStep

search_on ==
  /\ pc = "search" /\ list < LISTS /\ ~LookedAt
  /\ NextTurn
  /\ SameHeap /\ UNCHANGED <<mem_brk, call, bp, client>>

search_list ==
  /\ pc = "search" /\ list < LISTS /\ LookedAt
  /\ bp' = sgrlists[list] /\ pc' = "walk"
  /\ SameHeap /\ UNCHANGED <<mem_brk, call, search, client>>

Fits_slip == call.asize <= GET_SIZE(mem, HDRP(bp))   \* tagged or not
Fits == call.asize <= GET_SIZE(mem, HDRP(bp)) /\ GET_TAG(mem, HDRP(bp)) = 0

walk ==
  /\ pc = "walk" /\ bp # NULL /\ ~Fits
  /\ bp' = NEXT_FREEP(mem, bp)
  /\ SameHeap /\ UNCHANGED <<mem_brk, pc, call, search, client>>

walk_ends ==
  /\ pc = "walk" /\ bp = NULL
  /\ NextTurn
  /\ SameHeap /\ UNCHANGED <<mem_brk, call, bp, client>>

walk_finds ==
  /\ pc = "walk" /\ bp # NULL /\ Fits
  /\ pc' = "found"
  /\ SameHeap /\ UNCHANGED <<mem_brk, call, search, bp, client>>

(* All lists have been searched.  The heap is extended ...                 *)
ExtendWords(n) == (IF n > CHUNKSIZE THEN n ELSE CHUNKSIZE) \div WSIZE
Increment(words) == ToInt(ExtendSize(words))

extend ==
  /\ pc = "search" /\ list = LISTS
  /\ LET words == ExtendWords(call.asize)
         grown == extend_heap(heap, mem_brk, words)
     IN /\ SbrkSucceeds(mem_brk, Increment(words))
        /\ mem_sbrk(Increment(words))
        /\ HeapBecomes(grown.heap) /\ bp' = grown.bp
  /\ pc' = "found"
  /\ UNCHANGED <<call, search, client>>

(* ... or cannot be.  mm_realloc goes on to copy to NULL.                  *)
extend_fails ==
  /\ pc = "search" /\ list = LISTS
  /\ ~SbrkSucceeds(mem_brk, Increment(ExtendWords(call.asize)))
  /\ mem_sbrk(Increment(ExtendWords(call.asize)))
  /\ HeapBecomes(IF call.op = "malloc" THEN heap
                 ELSE [heap EXCEPT !.ruined = "NULL"])
  /\ Returns(NULL)
  /\ UNCHANGED <<call, search, client>>

place_found ==
  /\ pc = "found" /\ ruined = "nothing"
  /\ HeapBecomes(place(heap, bp, call.asize))
  /\ pc' = IF call.op = "malloc" THEN "returned" ELSE "move"
  /\ UNCHANGED <<mem_brk, call, search, bp, client>>

-----------------------------------------------------------------------------
(* mm_realloc(ptr, n), n # 0.  The size it wants has room to spare.        *)
Wanted(n) == AdjustedSize(n) + BUFFER

Buffer(h, b, n) == GET_SIZE(h.mem, HDRP(b)) - Wanted(n)

(* What it does last: the block behind is tagged if little room is left.   *)
Tagged(h, b, n) ==
  IF Buffer(h, b, n) < 2 * BUFFER
  THEN [h EXCEPT !.mem = SET_TAG(@, HDRP(NEXT_BLKP(@, b)))] ELSE h

Resizes(index, n) == n # 0 /\ blocks[index] # NULL /\ Calls("realloc", index, n)

mm_realloc_stays(index, n) ==
  /\ Resizes(index, n)
  /\ Buffer(heap, blocks[index], n) >= 0
  /\ HeapBecomes(Tagged(heap, blocks[index], n))
  /\ Returns(blocks[index])
  /\ UNCHANGED <<mem_brk, search, client>>

(* The next block is free or the epilogue: it is taken, and the heap is    *)
(* extended first when the two are still too small.                        *)
NextIsOpen(b) ==
  LET next == HDRP(NEXT_BLKP(mem, b)) IN
  GET_ALLOC(mem, next) = 0 \/ GET_SIZE(mem, next) = 0

Remainder(b, n) == Buffer(heap, b, n) + GET_SIZE(mem, HDRP(NEXT_BLKP(mem, b)))

(* The block takes the place of itself and the one behind, n bytes in all. *)
Absorbed(h, b, n) ==
  LET taken == delete_block(h, NEXT_BLKP(h.mem, b)) IN
  [taken EXCEPT !.mem = PutBothNoTag(@, b, PACK(n, 1))]

mm_realloc_absorbs_slip(index, n) ==   \* the next block stays on its list
  /\ Resizes(index, n)
  /\ LET ptr == blocks[index] IN
     /\ Buffer(heap, ptr, n) < 0 /\ NextIsOpen(ptr) /\ Remainder(ptr, n) >= 0
     /\ HeapBecomes(Tagged([heap EXCEPT !.mem =
          PutBothNoTag(@, ptr, PACK(Wanted(n) + Remainder(ptr, n), 1))], ptr, n))
     /\ Returns(ptr)
  /\ UNCHANGED <<mem_brk, search, client>>

mm_realloc_absorbs(index, n) ==
  /\ Resizes(index, n)
  /\ LET ptr == blocks[index] IN
     /\ Buffer(heap, ptr, n) < 0 /\ NextIsOpen(ptr) /\ Remainder(ptr, n) >= 0
     /\ HeapBecomes(Tagged(Absorbed(heap, ptr, Wanted(n) + Remainder(ptr, n)),
                           ptr, n))
     /\ Returns(ptr)
  /\ UNCHANGED <<mem_brk, search, client>>

(* extend_heap expects words and is given bytes, so that the heap grows by *)
(* four times as much as is added to the block; and the new area need not  *)
(* be behind the block at all.                                             *)
Missing(b, n) ==
  IF -Remainder(b, n) > CHUNKSIZE THEN -Remainder(b, n) ELSE CHUNKSIZE

NeedsMore(index, n) ==
  /\ Resizes(index, n)
  /\ Buffer(heap, blocks[index], n) < 0
  /\ NextIsOpen(blocks[index]) /\ Remainder(blocks[index], n) < 0

mm_realloc_extends(index, n) ==
  /\ NeedsMore(index, n)
  /\ LET ptr == blocks[index]
         words == Missing(ptr, n)
         grown == extend_heap(heap, mem_brk, words).heap
         total == Wanted(n) + Remainder(ptr, n) + words
     IN /\ SbrkSucceeds(mem_brk, Increment(words))
        /\ mem_sbrk(Increment(words))
        /\ HeapBecomes(
             IF grown.ruined # "nothing" THEN grown
             ELSE [Tagged(Absorbed(grown, ptr, total), ptr, n)
                     EXCEPT !.ruined = "words"])
        /\ Returns(ptr)
  /\ UNCHANGED <<search, client>>

mm_realloc_refused(index, n) ==
  /\ NeedsMore(index, n)
  /\ ~SbrkSucceeds(mem_brk, Increment(Missing(blocks[index], n)))
  /\ mem_sbrk(Increment(Missing(blocks[index], n)))
  /\ Returns(NULL)
  /\ SameHeap /\ UNCHANGED <<search, client>>

(* The next block is allocated: mm_malloc, memmove and mm_free.            *)
mm_realloc_moves(index, n) ==
  /\ n # 0 /\ blocks[index] # NULL /\ pc = "idle"
  /\ Buffer(heap, blocks[index], n) < 0 /\ ~NextIsOpen(blocks[index])
  /\ call' = [op |-> "realloc", index |-> index, size |-> n,
              asize |-> AdjustedSize(Wanted(n) - DSIZE)]
  /\ SearchBegins(AdjustedSize(Wanted(n) - DSIZE))
  /\ SameHeap /\ UNCHANGED <<mem_brk, client>>

MoveSize_slip == block_sizes[call.index] - WSIZE   \* a word too few

MoveSize == IF call.size < Wanted(call.size) THEN call.size ELSE Wanted(call.size)

move ==
  /\ pc = "move"
  /\ LET ptr == blocks[call.index]
         moved == [heap EXCEPT !.mem = memmove(@, bp, ptr, MoveSize)]
         freed == mm_free(moved, ptr)
     IN HeapBecomes(IF freed.ruined = "nothing" THEN Tagged(freed, bp, call.size)
                                                ELSE freed)
  /\ Returns(bp)
  /\ UNCHANGED <<mem_brk, call, search, client>>

-----------------------------------------------------------------------------
(* The client: it fills what it is handed, holds nothing new when that is  *)
(* NULL, and frees what it holds.                                          *)
fill ==
  /\ pc = "returned" /\ bp # NULL /\ ruined = "nothing"
  /\ mem' = memset(mem, bp, FillWord(call.index), call.size)
  /\ blocks' = [blocks EXCEPT ![call.index] = bp]
  /\ block_sizes' = [block_sizes EXCEPT ![call.index] = call.size]
  /\ pc' = "idle" /\ call' = NoCall /\ bp' = NULL /\ list' = 0 /\ size' = 0
  /\ UNCHANGED <<mem_brk, sgrlists, ruined>>

give_up ==
  /\ pc = "returned" /\ bp = NULL /\ ruined = "nothing"
  /\ pc' = "idle" /\ call' = NoCall /\ list' = 0 /\ size' = 0
  /\ SameHeap /\ UNCHANGED <<mem_brk, bp, client>>

client_free(index) ==
  /\ pc = "idle" /\ ruined = "nothing" /\ blocks[index] # NULL
  /\ HeapBecomes(mm_free(heap, blocks[index]))
  /\ blocks' = [blocks EXCEPT ![index] = NULL]
  /\ block_sizes' = [block_sizes EXCEPT ![index] = 0]
  /\ UNCHANGED <<mem_brk, pc, call, search, bp>>

(* Behind here the model does not follow the code.                         *)
lost == ruined # "nothing" /\ UNCHANGED vars

Request ==
  /\ ruined = "nothing"
  /\ \E index \in Ids :
       \/ \E n \in Sizes :
            \/ mm_malloc(index, n)
            \/ mm_realloc_stays(index, n) \/ mm_realloc_absorbs(index, n)
            \/ mm_realloc_extends(index, n) \/ mm_realloc_refused(index, n)
            \/ mm_realloc_moves(index, n)
       \/ 0 \in Sizes /\ nothing(index)
       \/ client_free(index)

Search == search_on \/ search_list \/ walk \/ walk_ends \/ walk_finds

Run == Search \/ extend \/ extend_fails \/ place_found \/ move \/ fill \/ give_up

Next == mm_init \/ Request \/ Run \/ lost

Spec == Init /\ [][Next]_vars

(* The search of a call goes on as long as it can.                         *)
FairSpec == Spec /\ WF_vars(Search)
=============================================================================
