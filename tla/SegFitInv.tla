----------------------------- MODULE SegFitInv -----------------------------
(***************************************************************************)
(* The inductive invariant behind the properties of mm.c: as long as       *)
(* nothing has ruined the heap, some set of blocks tiles it, the free ones *)
(* are on the lists and the others are the client's; and what the search   *)
(* has found so far.                                                       *)
(***************************************************************************)
EXTENDS SegFitProps

(***************************************************************************)
(* What is asked of the client: no request is so big that the size_t       *)
(* arithmetic wraps round, or the address mem_sbrk compares with its limit *)
(* does.  mm_realloc asks for four times what it is short of.  With 20 MB  *)
(* and an address space of 2^32 bytes, these are requests below 1 GB.      *)
(***************************************************************************)
ASSUME RequestAssumption ==
  /\ mem_max_addr + 4 * CHUNKSIZE < WORD_MOD
  /\ \A n \in Sizes : mem_max_addr + 4 * (n + BUFFER + 2 * DSIZE) < WORD_MOD

(* The boundary tags of mm.c are those of mm-firstfit.c, but for bit 1.    *)
Boundary == INSTANCE FirstFitInv WITH Passes <- 0, pass <- 0, Sizes <- {}

(* The words without their tags, and the tiling they make.                 *)
Untagged(m) == [a \in WordAddr |-> GET_SIZE(m, a) + GET_ALLOC(m, a)]

Tiles(m, brk, S) == Boundary!Tiling(Untagged(m), brk, S)

(* The blocks s[0] .. s[n - 1], and NULL behind them, are a list from head *)
(* on: each leads to its successor, and back to its predecessor.           *)
Chain(m, head, s, n) ==
  /\ head = s[0]
  /\ \A k \in Nat : s[k] = NULL <=> n <= k
  /\ \A k \in 0 .. n - 1 : NEXT_FREEP(m, s[k]) = s[k + 1]
  /\ \A k \in 0 .. n - 1 : PREV_FREEP(m, s[k]) = IF k = 0 THEN NULL ELSE s[k - 1]
  /\ \A j, k \in 0 .. n - 1 : s[j] = s[k] => j = k

(* The list that begins with head holds the blocks of P.                   *)
Holds(m, head, P) ==
  \E n \in Nat, s \in [Nat -> {NULL} \cup BlockPtrs] :
    Chain(m, head, s, n) /\ P = {s[k] : k \in 0 .. n - 1}

(* The blocks of F that belong on list l.                                  *)
Sorted(m, F, l) == {p \in F : ListOf(GET_SIZE(m, HDRP(p))) = l}

(* The free lists hold the blocks of F.                                    *)
ListsHold(m, lists, F) ==
  /\ lists \in [0 .. LISTS - 1 -> {NULL} \cup BlockPtrs]
  /\ \A l \in 0 .. LISTS - 1 : Holds(m, lists[l], Sorted(m, F, l))

(* The heap of a state of the model, whatever is in it.                    *)
Heaps == [mem : [WordAddr -> Nat],
          lists : [0 .. LISTS - 1 -> {NULL} \cup BlockPtrs],
          ruined : {"nothing", "tag", "words", "NULL"}]

-----------------------------------------------------------------------------
(* The header of block p, and where the block ends.                        *)
SizeOf(m, p) == GET_SIZE(m, p - 4)
AllocOf(m, p) == GET_ALLOC(m, p - 4)
TagOf(m, p) == GET_TAG(m, p - 4)
EndOf(m, p) == p + SizeOf(m, p)

(* The free blocks, and those in use.                                      *)
FreeOf(m, brk, S) == {p \in S \ {brk} : AllocOf(m, p) = 0}
Used(m, brk, S) == {p \in S \ {brk} : AllocOf(m, p) = 1}

(* No free block is in front of a tag.                                     *)
Owned(m, brk, S) == \A p \in FreeOf(m, brk, S) : TagOf(m, EndOf(m, p)) = 0

(* A heap between two steps of a routine: its lists hold the blocks of F,  *)
(* free ones, but not all of them.                                         *)
Loose(h, brk, S, F) ==
  /\ h \in Heaps
  /\ Tiles(h.mem, brk, S) /\ Owned(h.mem, brk, S)
  /\ F \subseteq FreeOf(h.mem, brk, S) /\ ListsHold(h.mem, h.lists, F)

(* A heap between two calls: its lists hold all the free blocks.           *)
Whole(h, brk, S) == Loose(h, brk, S, FreeOf(h.mem, brk, S))

(* The free blocks a request for n bytes may be given.                     *)
Fitting(m, brk, S, n) ==
  {p \in FreeOf(m, brk, S) : n <= SizeOf(m, p) /\ TagOf(m, p) = 0}

(* The walk along list l has come to block b, or its end, and has passed   *)
(* no block that fits.                                                     *)
WalkedTo(m, head, F, n, b) ==
  \E c \in Nat, s \in [Nat -> {NULL} \cup BlockPtrs] :
    /\ Chain(m, head, s, c) /\ {s[k] : k \in 0 .. c - 1} = F
    /\ \E k \in 0 .. c :
         /\ b = s[k]
         /\ \A p \in F : \A j \in 0 .. c - 1 :
              p = s[j] => k <= j \/ ~(n <= SizeOf(m, p) /\ TagOf(m, p) = 0)

(* What the client holds or is being handed, and how many bytes it asked   *)
(* for.                                                                    *)
Pointers == [i \in Ids |-> Pointer(i)]
Asked == [i \in Ids |-> Bytes(i)]

(* The blocks in use, but for the prologue, are those the client holds,    *)
(* each one once, and those of pend, and have room for what was asked.     *)
Owners(m, brk, S, ptr, asked, pend) ==
  /\ Used(m, brk, S) =
       {heap_listp} \cup {ptr[i] : i \in {j \in Ids : ptr[j] # NULL}} \cup pend
  /\ \A i \in Ids : ptr[i] # heap_listp /\ ptr[i] \notin pend
  /\ heap_listp \notin pend
  /\ \A i, j \in Ids : ptr[i] # NULL /\ ptr[i] = ptr[j] => i = j
  /\ \A i \in Ids : ptr[i] # NULL => asked[i] + 8 <= SizeOf(m, ptr[i])

(* What the client wrote into the blocks of I is there.                    *)
Filled(m, ptr, asked, I) ==
  \A i \in I : ptr[i] # NULL =>
    \A a \in WordsOf(ptr[i], asked[i]) : m[a] = FillWord(i)

(* A size mm_malloc looks for, for a request of n bytes.                   *)
GoodSize(asize, n) ==
  /\ asize \in Nat /\ asize % 8 = 0 /\ asize >= 16 /\ n + 8 <= asize
  /\ mem_max_addr + 4 * asize < WORD_MOD

(* The call under way is one the client may make.                          *)
CallOK ==
  /\ pc \in {"search", "walk", "found", "move"} =>
       /\ call.index \in Ids /\ call.size \in Sizes /\ call.size > 0
       /\ GoodSize(call.asize, call.size)
       /\ call.op \in {"malloc", "realloc"}
       /\ call.op = "malloc" <=> blocks[call.index] = NULL
  /\ pc = "move" => call.op = "realloc"
  /\ pc = "returned" => /\ call.index \in Ids
                        /\ bp # NULL => call.size \in Sizes /\ call.size > 0
  /\ pc = "start" => \A i \in Ids : blocks[i] = NULL
  /\ pc \in {"start", "search", "walk", "move"} => ruined = "nothing"

(* What the search has found out so far.                                   *)
SearchOK(S) ==
  LET fit == Fitting(mem, mem_brk, S, call.asize) IN
  /\ pc \in {"search", "walk"} =>
       /\ ListStep = 1 => size = Halved(call.asize, list)
       /\ ListStep = 0 => list = 0
       /\ \A p \in fit : list <= ListOf(SizeOf(mem, p))
  /\ pc = "walk" =>
       /\ list < LISTS
       /\ WalkedTo(mem, sgrlists[list],
                   Sorted(mem, FreeOf(mem, mem_brk, S), list), call.asize, bp)
  /\ pc = "found" =>
       /\ bp \in fit
       /\ \A p \in fit : ListOf(SizeOf(mem, bp)) <= ListOf(SizeOf(mem, p))

(* mm_realloc has brought the data along, up to the smaller size.          *)
Kept ==
  call.op = "realloc" /\ bp # NULL =>
    LET oldsize == block_sizes[call.index]
        kept == IF call.size < oldsize THEN call.size ELSE oldsize
    IN \A a \in WordsOf(bp, kept) : mem[a] = FillWord(call.index)

(* The blocks of S are those of the heap.                                  *)
HeapOK(S) ==
  /\ Whole(heap, mem_brk, S)
  /\ Owners(mem, mem_brk, S, Pointers, Asked, Pending)
  /\ Filled(mem, Pointers, Asked, {i \in Ids : ~HandedOver(i)})
  /\ pc = "returned" => Kept
  /\ pc = "move" => call.size + 8 <= SizeOf(mem, bp)
  /\ SearchOK(S)

(* The inductive invariant.  Once something has ruined the heap it says    *)
(* only what the variables may be, and that mm_realloc has kept the data   *)
(* when it was its extending of the heap that did.                         *)
IInv ==
  /\ TypeOK
  /\ CallOK
  /\ Sound => \E S \in SUBSET BlockPtrs : HeapOK(S)
  /\ ruined = "words" /\ pc = "returned" => Kept
=============================================================================
