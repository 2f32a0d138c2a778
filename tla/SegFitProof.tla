---------------------------- MODULE SegFitProof ----------------------------
(***************************************************************************)
(* The theorems about mm.c: IInv of SegFitInv is an inductive invariant,   *)
(* for every heap, every number of lists, every client and both forms of   *)
(* the search, and what it implies.  SegFitLemmas says what each routine   *)
(* does to a heap; here there is one lemma for each action.                *)
(***************************************************************************)
EXTENDS SegFitLemmas

-----------------------------------------------------------------------------
(* What the steps share.                                                   *)

(* A heap that becomes h.                                                  *)
LEMMA HeapIs ==
  ASSUME NEW h, h \in Heaps, mem' = h.mem, sgrlists' = h.lists, ruined' = h.ruined
  PROVE  heap' = h
  BY DEF heap, Heaps

(* The heap of a state.                                                    *)
LEMMA HeapNow == ASSUME TypeOK PROVE heap \in Heaps
  BY DEF TypeOK, heap, Heaps

(* A heap that stays.                                                      *)
LEMMA HeapThen ==
  ASSUME mem' = mem, sgrlists' = sgrlists, ruined' = ruined
  PROVE  heap' = heap
  BY DEF heap

(* Between two calls the client holds what blocks says.                    *)
LEMMA HeldNow ==
  ASSUME TypeOK, pc # "returned" \/ bp = NULL
  PROVE  /\ Pointers = blocks /\ Asked = block_sizes
         /\ \A i \in Ids : ~HandedOver(i)
  BY DEF TypeOK, Pointers, Asked, Pointer, Bytes, HandedOver

(* The same behind a step.                                                 *)
LEMMA HeldThen ==
  ASSUME blocks' \in [Ids -> {NULL} \cup BlockPtrs],
         block_sizes' \in [Ids -> Sizes \cup {0}], pc' # "returned" \/ bp' = NULL
  PROVE  /\ Pointers' = blocks' /\ Asked' = block_sizes'
         /\ \A i \in Ids : ~HandedOver(i)'
  BY DEF Pointers, Asked, Pointer, Bytes, HandedOver

(* When a call has returned, its block is the one it returned.             *)
LEMMA HeldReturned ==
  ASSUME blocks \in [Ids -> {NULL} \cup BlockPtrs],
         block_sizes \in [Ids -> Sizes \cup {0}], pc = "returned", bp # NULL,
         call.index \in Ids
  PROVE  /\ Pointers = [blocks EXCEPT ![call.index] = bp]
         /\ Asked = [block_sizes EXCEPT ![call.index] = call.size]
         /\ \A i \in Ids : HandedOver(i) <=> i = call.index
  BY DEF Pointers, Asked, Pointer, Bytes, HandedOver

(* The same behind a step.                                                 *)
LEMMA HeldReturns ==
  ASSUME blocks' \in [Ids -> {NULL} \cup BlockPtrs],
         block_sizes' \in [Ids -> Sizes \cup {0}], pc' = "returned", bp' # NULL,
         call'.index \in Ids
  PROVE  /\ Pointers' = [blocks' EXCEPT ![call'.index] = bp']
         /\ Asked' = [block_sizes' EXCEPT ![call'.index] = call'.size]
         /\ \A i \in Ids : HandedOver(i)' <=> i = call'.index
  BY DEF Pointers, Asked, Pointer, Bytes, HandedOver

(* A block in use keeps its size with its end.                             *)
LEMMA SizeKept ==
  ASSUME NEW m \in [WordAddr -> Nat], NEW n \in [WordAddr -> Nat], NEW brk, NEW S,
         NEW z, NEW T, Tiles(m, brk, S), Tiles(n, z, T),
         NEW P, Keeps(m, n, P), NEW p \in P, p \in S, p \in T
  PROVE  SizeOf(n, p) = SizeOf(m, p)
  <1>1. p \in Nat /\ p - 4 \in WordAddr
    BY TilesAddrs
  <1>2. SizeOf(m, p) \in Nat /\ SizeOf(n, p) \in Nat
    BY <1>1, TagsMacros
  <1>3. EndOf(n, p) = EndOf(m, p)
    BY DEF Keeps
  <1> QED
    BY <1>1, <1>2, <1>3 DEF EndOf

(* Who owns what, when all blocks in use are kept.                         *)
LEMMA OwnersKeep ==
  ASSUME NEW m \in [WordAddr -> Nat], NEW n \in [WordAddr -> Nat], NEW brk, NEW S,
         NEW z, NEW T, Tiles(m, brk, S), Tiles(n, z, T),
         NEW ptr, NEW asked, NEW pend, Owners(m, brk, S, ptr, asked, pend),
         Used(n, z, T) = Used(m, brk, S), Keeps(m, n, Used(m, brk, S))
  PROVE  Owners(n, z, T, ptr, asked, pend)
  <1>1. ASSUME NEW i \in Ids, ptr[i] # NULL
        PROVE  SizeOf(n, ptr[i]) = SizeOf(m, ptr[i])
    <2>1. ptr[i] \in Used(m, brk, S) /\ ptr[i] \in Used(n, z, T)
      BY <1>1 DEF Owners
    <2>2. ptr[i] \in S /\ ptr[i] \in T
      BY <2>1 DEF Used
    <2> QED
      BY <2>1, <2>2, SizeKept
  <1> QED
    BY <1>1 DEF Owners

(* A block the client holds.                                               *)
LEMMA OwnedBlock ==
  ASSUME NEW m \in [WordAddr -> Nat], NEW brk, NEW S, Tiles(m, brk, S),
         NEW ptr, NEW asked \in [Ids -> Nat], NEW pend, Owners(m, brk, S, ptr, asked, pend),
         NEW i \in Ids, ptr[i] # NULL
  PROVE  /\ ptr[i] \in Used(m, brk, S) \ {heap_listp} /\ ptr[i] \in S \ {heap_listp, brk}
         /\ ptr[i] \in Nat /\ ptr[i] - 4 \in WordAddr /\ SizeOf(m, ptr[i]) \in Nat
         /\ asked[i] + 8 <= SizeOf(m, ptr[i]) /\ ptr[i] \in BlockPtrs
         /\ WordsOf(ptr[i], asked[i]) \subseteq PayloadOf(m, ptr[i])
  <1>1. PICK p : p = ptr[i]
    OBVIOUS
  <1>2. p \in Used(m, brk, S) /\ p # heap_listp /\ asked[i] + 8 <= SizeOf(m, p)
    BY <1>1 DEF Owners
  <1>3. p \in S \ {heap_listp, brk}
    BY <1>2 DEF Used
  <1>4. p \in Nat /\ p - 4 \in WordAddr /\ p \in BlockPtrs
    BY <1>3, TilesAddrs
  <1>5. SizeOf(m, p) \in Nat
    BY <1>4, TagsMacros
  <1>6. WordsOf(p, asked[i]) \subseteq PayloadOf(m, p)
    BY <1>2, <1>4, <1>5, WordsInside
  <1> QED
    BY <1>1, <1>2, <1>3, <1>4, <1>5, <1>6

(* What the client wrote into blocks that are kept is still there.         *)
LEMMA FilledKeep ==
  ASSUME NEW m \in [WordAddr -> Nat], NEW n, NEW brk, NEW S, Tiles(m, brk, S),
         NEW ptr, NEW asked \in [Ids -> Nat], NEW pend, Owners(m, brk, S, ptr, asked, pend),
         NEW I, I \subseteq Ids, Filled(m, ptr, asked, I), NEW P, Keeps(m, n, P),
         \A i \in I : ptr[i] # NULL => ptr[i] \in P
  PROVE  Filled(n, ptr, asked, I)
  <1>1. ASSUME NEW i \in I, ptr[i] # NULL, NEW a \in WordsOf(ptr[i], asked[i])
        PROVE  n[a] = FillWord(i)
    <2>1. a \in PayloadOf(m, ptr[i])
      BY <1>1, OwnedBlock
    <2>2. n[a] = m[a]
      BY <1>1, <2>1 DEF Keeps
    <2> QED
      BY <1>1, <2>2 DEF Filled
  <1> QED
    BY <1>1 DEF Filled

-----------------------------------------------------------------------------
(* Sizes.                                                                  *)
LEMMA Adjusted ==
  ASSUME NEW n \in Nat, n + 16 < WORD_MOD
  PROVE  /\ AdjustedSize(n) \in Nat /\ AdjustedSize(n) % 8 = 0 /\ AdjustedSize(n) >= 16
         /\ n + 8 <= AdjustedSize(n) /\ AdjustedSize(n) <= n + 16
         /\ n % 8 = 0 /\ n >= 8 => AdjustedSize(n) = n + 8
  <1>1. CASE n <= 8
    BY <1>1 DEF AdjustedSize, DSIZE
  <1>2. CASE n > 8
    <2>1. n + DSIZE + (DSIZE - 1) = n + 15 /\ n + 15 \in Nat
      BY DEF DSIZE
    <2>2. (n + 15) % WORD_MOD = n + 15
      BY Numbers
    <2>3. AdjustedSize(n) = 8 * ((n + 15) \div 8)
      BY <1>2, <2>1, <2>2 DEF AdjustedSize, DSIZE
    <2> QED
      BY <1>2, <2>3
  <1> QED
    BY <1>1, <1>2

(* The sizes mm_malloc and mm_realloc look for.                            *)
LEMMA RequestSizes ==
  ASSUME NEW n \in Sizes, n > 0
  PROVE  /\ n \in Nat /\ GoodSize(AdjustedSize(n), n)
         /\ Wanted(n) \in Nat /\ Wanted(n) % 8 = 0 /\ n + 8 <= Wanted(n) /\ Wanted(n) >= 16
         /\ mem_max_addr + 4 * Wanted(n) < WORD_MOD
         /\ AdjustedSize(Wanted(n) - DSIZE) = Wanted(n)
         /\ GoodSize(Wanted(n), n)
  <1>1. n \in Nat /\ mem_max_addr + 4 * (n + BUFFER + 16) < WORD_MOD
    BY SegFitAssumption, RequestAssumption, Numbers DEF SegFitAssumption, RequestAssumption, DSIZE
  <1>2. BUFFER \in Nat /\ BUFFER % 8 = 0 /\ mem_max_addr \in Nat /\ WORD_MOD \in Nat
    BY Numbers
  <1>3. n + 16 < WORD_MOD
    BY <1>1, <1>2
  <1>4. PICK a : a = AdjustedSize(n)
    OBVIOUS
  <1>5. a \in Nat /\ a % 8 = 0 /\ a >= 16 /\ n + 8 <= a /\ a <= n + 16
    BY <1>1, <1>3, <1>4, Adjusted
  <1>6. GoodSize(a, n)
    BY <1>1, <1>2, <1>5 DEF GoodSize
  <1>7. PICK w : w = Wanted(n)
    OBVIOUS
  <1>8. w = a + BUFFER
    BY <1>4, <1>7 DEF Wanted
  <1>9. /\ w \in Nat /\ w % 8 = 0 /\ n + 8 <= w /\ w >= 16 /\ mem_max_addr + 4 * w < WORD_MOD
    BY <1>1, <1>2, <1>5, <1>8
  <1>10. AdjustedSize(w - DSIZE) = w
    <2>1. PICK x : x = w - 8
      OBVIOUS
    <2>2. x \in Nat /\ x % 8 = 0 /\ x >= 8 /\ x + 16 < WORD_MOD /\ x + 8 = w
      BY <1>2, <1>9, <2>1
    <2>3. AdjustedSize(x) = x + 8
      BY <2>2, Adjusted
    <2> QED
      BY <2>1, <2>2, <2>3 DEF DSIZE
  <1> QED
    BY <1>1, <1>4, <1>6, <1>7, <1>9, <1>10 DEF GoodSize

(* The heap grows by what it is asked to, or not at all.                   *)
LEMMA GrowsBy ==
  ASSUME NEW brk \in mem_start_brk .. mem_max_addr, NEW n \in Nat,
         mem_max_addr + n < WORD_MOD, SbrkSucceeds(brk, ToInt(n))
  PROVE  MovedBrk(brk, ToInt(n)) = brk + n /\ brk + n <= mem_max_addr
  <1>1. n < WORD_MOD \div 2
    BY Numbers DEF SbrkSucceeds, ToInt
  <1>2. ToInt(n) = n
    BY <1>1 DEF ToInt
  <1>3. brk + n \in Nat /\ brk + n < WORD_MOD
    BY Numbers
  <1>4. (brk + n) % WORD_MOD = brk + n
    BY <1>3, Numbers
  <1> QED
    BY <1>2, <1>4 DEF MovedBrk, SbrkSucceeds

(* A multiple of 8, given to extend_heap as words or as bytes.             *)
LEMMA EvenWords ==
  ASSUME NEW k \in Nat, k % 8 = 0, k >= 16
  PROVE  /\ k \div 4 \in Nat /\ ExtendSize(k \div 4) = k
         /\ ExtendSize(k) = 4 * k
  <1>1. (k \div 4) % 2 = 0 /\ 4 * (k \div 4) = k /\ k % 2 = 0 /\ k \div 4 \in Nat
    OBVIOUS
  <1>2. ~(k < OVERHEAD) /\ ~(4 * k < OVERHEAD)
    BY DEF OVERHEAD
  <1>3. ExtendSize(k \div 4) = k
    BY <1>1, <1>2 DEF ExtendSize, WSIZE
  <1>4. ExtendSize(k) = 4 * k
    BY <1>1, <1>2 DEF ExtendSize, WSIZE
  <1> QED
    BY <1>1, <1>3, <1>4

-----------------------------------------------------------------------------
(* The search.                                                             *)

(* Types, for steps that only look.                                        *)
LEMMA QuietType ==
  ASSUME TypeOK, SameHeap, UNCHANGED <<mem_brk, client>>,
         pc' \in {"search", "walk", "found"},
         call' \in [op : {"none", "malloc", "realloc"}, index : Ids \cup {0},
                    size : Sizes \cup {0}, asize : Nat],
         list' \in 0 .. LISTS, size' \in Nat, bp' \in {NULL} \cup BlockPtrs
  PROVE  TypeOK'
  BY DEF TypeOK, SameHeap, client

(* A step that only looks changes nothing but the search.                  *)
LEMMA QuietStep ==
  ASSUME IInv, ruined = "nothing", pc \in {"idle", "search", "walk"},
         pc' \in {"search", "walk", "found"}, SameHeap, UNCHANGED <<mem_brk, client>>,
         TypeOK', CallOK', \A S : HeapOK(S) => SearchOK(S)'
  PROVE  IInv'
  <1>1. PICK S \in SUBSET BlockPtrs : HeapOK(S)
    BY DEF IInv, Sound
  <1>2. heap' = heap /\ mem' = mem /\ mem_brk' = mem_brk
    BY HeapThen DEF SameHeap
  <1>3. blocks' = blocks /\ block_sizes' = block_sizes
    BY DEF client
  <1>4. TypeOK
    BY DEF IInv
  <1>5. Pointers = blocks /\ Asked = block_sizes /\ \A i \in Ids : ~HandedOver(i)
    BY <1>4, HeldNow
  <1>6. Pointers' = blocks /\ Asked' = block_sizes /\ \A i \in Ids : ~HandedOver(i)'
    BY <1>3, <1>4, HeldThen DEF TypeOK
  <1>7. Pending = {} /\ Pending' = {}
    BY DEF Pending
  <1>8. Whole(heap', mem_brk', S)
    BY <1>1, <1>2 DEF HeapOK
  <1>9. Owners(mem', mem_brk', S, Pointers', Asked', Pending')
    BY <1>1, <1>2, <1>5, <1>6, <1>7 DEF HeapOK
  <1>10. Filled(mem', Pointers', Asked', {i \in Ids : ~HandedOver(i)'})
    BY <1>1, <1>2, <1>5, <1>6 DEF HeapOK, Filled
  <1>11. SearchOK(S)'
    BY <1>1
  <1>12. HeapOK(S)'
    BY <1>8, <1>9, <1>10, <1>11 DEF HeapOK
  <1> QED
    BY <1>12 DEF IInv

(* A call that is made, and its fields.                                    *)
LEMMA CallTypes ==
  ASSUME NEW i \in Ids, NEW n \in Sizes, NEW a \in Nat, NEW op \in {"malloc", "realloc"},
         NEW c, c = [op |-> op, index |-> i, size |-> n, asize |-> a]
  PROVE  /\ c \in [op : {"none", "malloc", "realloc"}, index : Ids \cup {0},
                   size : Sizes \cup {0}, asize : Nat]
         /\ c.op = op /\ c.index = i /\ c.size = n /\ c.asize = a
  OBVIOUS

(* A search begins.                                                        *)
LEMMA SearchStart ==
  ASSUME IInv, ruined = "nothing", pc = "idle", NEW i \in Ids, NEW n \in Sizes, n # 0,
         NEW a, GoodSize(a, n), NEW op \in {"malloc", "realloc"},
         op = "malloc" <=> blocks[i] = NULL,
         call' = [op |-> op, index |-> i, size |-> n, asize |-> a],
         SearchBegins(a), SameHeap, UNCHANGED <<mem_brk, client>>
  PROVE  IInv'
  <1>1. /\ size' = a /\ list' = 0 /\ bp' = NULL /\ pc' = "search"
    BY DEF SearchBegins
  <1>2. a \in Nat /\ n \in Nat /\ n > 0
    BY SegFitAssumption, Numbers DEF GoodSize, SegFitAssumption
  <1>3. /\ call' \in [op : {"none", "malloc", "realloc"}, index : Ids \cup {0},
                      size : Sizes \cup {0}, asize : Nat]
        /\ call'.op = op /\ call'.index = i /\ call'.size = n /\ call'.asize = a
    BY <1>2, CallTypes
  <1>4. TypeOK'
    <2>1. 0 \in 0 .. LISTS
      BY Numbers
    <2> QED
      BY <1>1, <1>2, <1>3, <2>1, QuietType DEF IInv
  <1>5. CallOK'
    BY <1>1, <1>2, <1>3 DEF CallOK, client, SameHeap
  <1>6. ASSUME NEW S PROVE SearchOK(S)'
    <2>1. size' = Halved(call'.asize, list')
      BY <1>1, <1>3, HalvedStep
    <2>2. \A x : list' <= ListOf(x)
      BY <1>1, ListOfIs
    <2> QED
      BY <1>1, <2>1, <2>2 DEF SearchOK
  <1> QED
    BY <1>1, <1>4, <1>5, <1>6, QuietStep

(* mm_malloc begins a search,                                              *)
LEMMA MallocStep ==
  ASSUME IInv, ruined = "nothing", NEW i \in Ids, NEW n \in Sizes, mm_malloc(i, n)
  PROVE  IInv'
  <1>1. /\ blocks[i] = NULL /\ n # 0 /\ pc = "idle"
        /\ call' = [op |-> "malloc", index |-> i, size |-> n, asize |-> AdjustedSize(n)]
        /\ SearchBegins(AdjustedSize(n)) /\ SameHeap /\ UNCHANGED <<mem_brk, client>>
    BY DEF mm_malloc, Calls
  <1>2. n > 0
    BY <1>1, SegFitAssumption, Numbers DEF SegFitAssumption
  <1> QED
    BY <1>1, <1>2, RequestSizes, SearchStart

(* and so does mm_realloc when it has to move the block.                   *)
LEMMA MovesStep ==
  ASSUME IInv, ruined = "nothing", NEW i \in Ids, NEW n \in Sizes, mm_realloc_moves(i, n)
  PROVE  IInv'
  <1>1. PICK a : a = AdjustedSize(Wanted(n) - DSIZE)
    OBVIOUS
  <1>2. /\ blocks[i] # NULL /\ n # 0 /\ pc = "idle"
        /\ call' = [op |-> "realloc", index |-> i, size |-> n, asize |-> a]
        /\ SearchBegins(a) /\ SameHeap /\ UNCHANGED <<mem_brk, client>>
    BY <1>1 DEF mm_realloc_moves
  <1>3. n > 0
    BY <1>2, SegFitAssumption, Numbers DEF SegFitAssumption
  <1>4. GoodSize(a, n)
    BY <1>1, <1>3, RequestSizes
  <1> QED
    BY <1>2, <1>4, SearchStart

(* The free blocks of a list, and those a request may be given.            *)
LEMMA FitIn ==
  ASSUME NEW m, NEW brk, NEW S, NEW a, NEW p, p \in Fitting(m, brk, S, a), NEW l,
         ListOf(SizeOf(m, p)) = l
  PROVE  p \in Sorted(m, FreeOf(m, brk, S), l) /\ a <= SizeOf(m, p) /\ TagOf(m, p) = 0
  <1>1. HDRP(p) = p - 4
    BY DEF HDRP, WSIZE
  <1> QED
    BY <1>1 DEF Fitting, Sorted, SizeOf

(* A list that is empty, or for smaller blocks, has nothing to offer.      *)
LEMMA PassesOver ==
  ASSUME NEW h \in Heaps, NEW brk, NEW S, Whole(h, brk, S), NEW a \in Nat,
         NEW l \in 0 .. LISTS - 1, h.lists[l] = NULL \/ Halved(a, l) > 1,
         h.lists[l] = NULL \/ l # LISTS - 1,
         NEW p \in Fitting(h.mem, brk, S, a)
  PROVE  ListOf(SizeOf(h.mem, p)) # l
  <1>1. SUFFICES ASSUME ListOf(SizeOf(h.mem, p)) = l PROVE FALSE
    OBVIOUS
  <1>2. PICK m \in [WordAddr -> Nat] : m = h.mem /\ Tiles(m, brk, S)
    BY DEF Whole, Loose, Heaps
  <1>3. PICK F : F = FreeOf(m, brk, S)
    OBVIOUS
  <1>4. p \in Sorted(m, F, l) /\ a <= SizeOf(m, p)
    BY <1>1, <1>2, <1>3, FitIn
  <1>5. CASE h.lists[l] = NULL
    <2>1. Holds(m, NULL, Sorted(m, F, l))
      BY <1>2, <1>3, <1>5 DEF Whole, Loose, ListsHold
    <2>2. PICK c \in Nat, s \in [Nat -> {NULL} \cup BlockPtrs] :
            Chain(m, NULL, s, c) /\ Sorted(m, F, l) = {s[k] : k \in 0 .. c - 1}
      BY <2>1 DEF Holds
    <2>3. c = 0
      BY <2>2 DEF Chain
    <2> QED
      BY <1>4, <2>2, <2>3
  <1>6. CASE Halved(a, l) > 1 /\ l # LISTS - 1
    <2>1. SizeOf(m, p) \in Nat
      <3>1. p \in S \ {brk}
        BY <1>2 DEF Fitting, FreeOf
      <3> QED
        BY <1>2, <3>1, TilesBlock
    <2>2. l \in Nat
      OBVIOUS
    <2>3. Halved(a, l) \in Nat /\ Halved(SizeOf(m, p), l) \in Nat
          /\ Halved(a, l) <= Halved(SizeOf(m, p), l)
      BY <1>4, <2>1, <2>2, HalvedMonotone
    <2>4. Halved(SizeOf(m, p), l) <= 1
      BY <1>1, <1>2, <1>6, ListOfIs
    <2> QED
      BY <1>6, <2>3, <2>4
  <1> QED
    BY <1>5, <1>6

(* What IInv says while a call searches.                                   *)
LEMMA Searching ==
  ASSUME IInv, pc \in {"search", "walk"}
  PROVE  /\ ruined = "nothing" /\ TypeOK /\ heap \in Heaps
         /\ call.asize \in Nat /\ list \in Nat /\ list \in 0 .. LISTS /\ size \in Nat
         /\ ListStep \in {0, 1} /\ ListStep \in Nat
         /\ call \in [op : {"none", "malloc", "realloc"}, index : Ids \cup {0},
                      size : Sizes \cup {0}, asize : Nat]
         /\ bp \in {NULL} \cup BlockPtrs
         /\ sgrlists \in [0 .. LISTS - 1 -> {NULL} \cup BlockPtrs]
         /\ CallOK
  <1>1. TypeOK /\ CallOK
    BY DEF IInv
  <1>2. list \in 0 .. LISTS /\ ListStep \in {0, 1}
    BY <1>1, SegFitAssumption DEF TypeOK, SegFitAssumption
  <1> QED
    BY <1>1, <1>2, HeapNow DEF TypeOK, CallOK

(* The next turn, when the list has nothing to offer.                      *)
LEMMA TurnStep ==
  ASSUME IInv, pc \in {"search", "walk"}, list < LISTS, NextTurn, SameHeap,
         UNCHANGED <<mem_brk, call, bp, client>>,
         \A S : ListStep = 1 /\ HeapOK(S) =>
                 \A p \in Fitting(mem, mem_brk, S, call.asize) :
                   ListOf(SizeOf(mem, p)) # list
  PROVE  IInv'
  <1>1. /\ ruined = "nothing" /\ TypeOK
        /\ call.asize \in Nat /\ list \in Nat /\ size \in Nat
        /\ ListStep \in {0, 1} /\ LISTS \in Nat
    BY Searching, Numbers
  <1>2. pc' = "search" /\ size' = size \div 2 /\ list' = list + ListStep
    BY DEF NextTurn
  <1>3. list' \in 0 .. LISTS /\ size' \in Nat
    BY <1>1, <1>2
  <1>4. TypeOK'
    BY <1>1, <1>2, <1>3, Searching, QuietType
  <1>5. CallOK'
    BY <1>2, Searching DEF CallOK, client, SameHeap
  <1>6. ASSUME NEW S, HeapOK(S) PROVE SearchOK(S)'
    <2>1. PICK fit : fit = Fitting(mem, mem_brk, S, call.asize)
      OBVIOUS
    <2>2. /\ ListStep = 1 => size = Halved(call.asize, list)
          /\ ListStep = 0 => list = 0
          /\ \A p \in fit : list <= ListOf(SizeOf(mem, p))
      BY <1>6, <2>1 DEF HeapOK, SearchOK
    <2>3. ListStep = 1 => size' = Halved(call.asize, list')
      BY <1>1, <1>2, <2>2, HalvedStep
    <2>4. ListStep = 0 => list' = 0
      BY <1>1, <1>2, <2>2
    <2>5. ASSUME NEW p \in fit PROVE list' <= ListOf(SizeOf(mem, p))
      <3>1. ListStep = 1 => ListOf(SizeOf(mem, p)) # list
        BY <1>6, <2>1
      <3>2. ListOf(SizeOf(mem, p)) \in 0 .. LISTS - 1
        BY ListOfIs
      <3> QED
        BY <1>1, <1>2, <2>2, <3>1, <3>2
    <2>6. mem' = mem /\ mem_brk' = mem_brk /\ call' = call
      BY DEF SameHeap
    <2> QED
      BY <1>2, <2>1, <2>3, <2>4, <2>5, <2>6 DEF SearchOK
  <1> QED
    BY <1>1, <1>2, <1>4, <1>5, <1>6, QuietStep

(* A turn that passes over a list.                                         *)
LEMMA SearchOnStep == ASSUME IInv, search_on PROVE IInv'
  <1>1. /\ pc = "search" /\ list < LISTS /\ ~LookedAt /\ NextTurn /\ SameHeap
        /\ UNCHANGED <<mem_brk, call, bp, client>>
    BY DEF search_on
  <1>2. /\ heap \in Heaps /\ call.asize \in Nat /\ list \in Nat /\ size \in Nat
        /\ ListStep \in {0, 1} /\ LISTS \in Nat
    BY <1>1, Searching, Numbers
  <1>3. list \in 0 .. LISTS - 1 /\ list # LISTS - 1
        /\ (sgrlists[list] = NULL \/ size > 1)
    BY <1>1, <1>2 DEF LookedAt
  <1>4. ASSUME NEW S, ListStep = 1, HeapOK(S), NEW p \in Fitting(mem, mem_brk, S, call.asize)
        PROVE  ListOf(SizeOf(mem, p)) # list
    <2>1. size = Halved(call.asize, list)
      BY <1>1, <1>4 DEF HeapOK, SearchOK
    <2>2. Whole(heap, mem_brk, S)
      BY <1>4 DEF HeapOK
    <2>3. heap.mem = mem /\ heap.lists = sgrlists
      BY DEF heap
    <2> QED
      BY <1>2, <1>3, <1>4, <2>1, <2>2, <2>3, PassesOver
  <1> QED
    BY <1>1, <1>4, TurnStep

(* A list is looked at.                                                    *)
LEMMA SearchListStep == ASSUME IInv, search_list PROVE IInv'
  <1>1. /\ pc = "search" /\ list < LISTS /\ bp' = sgrlists[list] /\ pc' = "walk"
        /\ SameHeap /\ UNCHANGED <<mem_brk, call, search, client>>
    BY DEF search_list
  <1>2. /\ ruined = "nothing" /\ TypeOK /\ list \in Nat /\ LISTS \in Nat
        /\ sgrlists \in [0 .. LISTS - 1 -> {NULL} \cup BlockPtrs]
    BY <1>1, Searching, Numbers
  <1>3. list \in 0 .. LISTS - 1 /\ bp' \in {NULL} \cup BlockPtrs
    BY <1>1, <1>2
  <1>4. list' = list /\ size' = size /\ call' = call
    BY <1>1 DEF search
  <1>5. TypeOK'
    BY <1>1, <1>2, <1>3, <1>4, Searching, QuietType
  <1>6. CallOK'
    BY <1>1, Searching DEF CallOK, client, SameHeap
  <1>7. ASSUME NEW S, HeapOK(S) PROVE SearchOK(S)'
    <2>1. PICK F : F = Sorted(mem, FreeOf(mem, mem_brk, S), list)
      OBVIOUS
    <2>2. Holds(mem, sgrlists[list], F)
      BY <1>3, <1>7, <2>1 DEF HeapOK, Whole, Loose, ListsHold, heap
    <2>3. PICK c \in Nat, s \in [Nat -> {NULL} \cup BlockPtrs] :
            Chain(mem, sgrlists[list], s, c) /\ F = {s[k] : k \in 0 .. c - 1}
      BY <2>2 DEF Holds
    <2>4. 0 \in 0 .. c /\ bp' = s[0]
      BY <1>1, <2>3 DEF Chain
    <2>5. \A p \in F : \A j \in 0 .. c - 1 : 0 <= j
      OBVIOUS
    <2>6. WalkedTo(mem, sgrlists[list], F, call.asize, bp')
      BY <2>3, <2>4, <2>5 DEF WalkedTo
    <2>7. mem' = mem /\ mem_brk' = mem_brk /\ sgrlists' = sgrlists
      BY <1>1 DEF SameHeap
    <2> QED
      BY <1>1, <1>4, <1>7, <2>1, <2>6, <2>7 DEF SearchOK, HeapOK
  <1> QED
    BY <1>1, <1>2, <1>5, <1>6, <1>7, QuietStep

(* Where a walk along a list stands.                                       *)
Stands(m, head, F, n, b, c, s, k) ==
  /\ c \in Nat /\ s \in [Nat -> {NULL} \cup BlockPtrs]
  /\ Chain(m, head, s, c) /\ {s[j] : j \in 0 .. c - 1} = F
  /\ k \in 0 .. c /\ b = s[k]
  /\ \A p \in F : \A j \in 0 .. c - 1 :
       p = s[j] => k <= j \/ ~(n <= SizeOf(m, p) /\ TagOf(m, p) = 0)

(* Being somewhere on a list, with and without its names.                  *)
LEMMA WalkStands ==
  ASSUME NEW m, NEW head, NEW F, NEW n, NEW b
  PROVE  WalkedTo(m, head, F, n, b) <=> \E c, s, k : Stands(m, head, F, n, b, c, s, k)
  <1>1. ASSUME WalkedTo(m, head, F, n, b)
        PROVE  \E c, s, k : Stands(m, head, F, n, b, c, s, k)
    <2>1. PICK c \in Nat, s \in [Nat -> {NULL} \cup BlockPtrs] :
            /\ Chain(m, head, s, c) /\ {s[j] : j \in 0 .. c - 1} = F
            /\ \E k \in 0 .. c :
                 /\ b = s[k]
                 /\ \A p \in F : \A j \in 0 .. c - 1 :
                      p = s[j] => k <= j \/ ~(n <= SizeOf(m, p) /\ TagOf(m, p) = 0)
      BY <1>1 DEF WalkedTo
    <2>2. PICK k \in 0 .. c :
            /\ b = s[k]
            /\ \A p \in F : \A j \in 0 .. c - 1 :
                 p = s[j] => k <= j \/ ~(n <= SizeOf(m, p) /\ TagOf(m, p) = 0)
      BY <2>1
    <2>3. Stands(m, head, F, n, b, c, s, k)
      BY <2>1, <2>2 DEF Stands
    <2> QED
      BY <2>3
  <1>2. ASSUME NEW c, NEW s, NEW k, Stands(m, head, F, n, b, c, s, k)
        PROVE  WalkedTo(m, head, F, n, b)
    <2>1. /\ c \in Nat /\ s \in [Nat -> {NULL} \cup BlockPtrs]
          /\ Chain(m, head, s, c) /\ {s[j] : j \in 0 .. c - 1} = F
          /\ k \in 0 .. c /\ b = s[k]
          /\ \A p \in F : \A j \in 0 .. c - 1 :
               p = s[j] => k <= j \/ ~(n <= SizeOf(m, p) /\ TagOf(m, p) = 0)
      BY <1>2 DEF Stands
    <2> QED
      BY <2>1 DEF WalkedTo
  <1> QED
    BY <1>1, <1>2

(* The test of the search.                                                 *)
LEMMA FitsMeans ==
  Fits <=> call.asize <= SizeOf(mem, bp) /\ TagOf(mem, bp) = 0
  BY DEF Fits, SizeOf, TagOf, HDRP, WSIZE

(* From one block to the next.                                             *)
LEMMA WalkOn ==
  ASSUME NEW m, NEW head, NEW F, NEW n, NEW b, WalkedTo(m, head, F, n, b), b # NULL
  PROVE  /\ b \in F
         /\ NEXT_FREEP(m, b) \in {NULL} \cup BlockPtrs
         /\ ~(n <= SizeOf(m, b) /\ TagOf(m, b) = 0) =>
              WalkedTo(m, head, F, n, NEXT_FREEP(m, b))
  <1>1. PICK c, s, k : Stands(m, head, F, n, b, c, s, k)
    BY WalkStands
  <1>2. /\ c \in Nat /\ s \in [Nat -> {NULL} \cup BlockPtrs]
        /\ Chain(m, head, s, c) /\ {s[j] : j \in 0 .. c - 1} = F
        /\ k \in 0 .. c /\ b = s[k]
        /\ \A p \in F : \A j \in 0 .. c - 1 :
             p = s[j] => k <= j \/ ~(n <= SizeOf(m, p) /\ TagOf(m, p) = 0)
    BY <1>1 DEF Stands
  <1>3. k \in 0 .. c - 1
    <2>1. ~(c <= k)
      BY <1>2 DEF Chain
    <2> QED
      BY <1>2, <2>1
  <1>4. NEXT_FREEP(m, b) = s[k + 1] /\ k + 1 \in 0 .. c /\ k + 1 \in Nat
    BY <1>2, <1>3 DEF Chain
  <1>5. ASSUME ~(n <= SizeOf(m, b) /\ TagOf(m, b) = 0)
        PROVE  Stands(m, head, F, n, s[k + 1], c, s, k + 1)
    <2>1. ASSUME NEW p \in F, NEW j \in 0 .. c - 1, p = s[j], n <= SizeOf(m, p),
                 TagOf(m, p) = 0
          PROVE  k + 1 <= j
      <3>1. k <= j /\ j # k
        BY <1>2, <1>5, <2>1
      <3> QED
        BY <1>3, <3>1
    <2> QED
      BY <1>2, <1>4, <2>1 DEF Stands
  <1> QED
    BY <1>2, <1>3, <1>4, <1>5, WalkStands

(* At the end of a list none of its blocks fits.                           *)
LEMMA WalkedOut ==
  ASSUME NEW m, NEW head, NEW F, NEW n, WalkedTo(m, head, F, n, NULL), NEW p \in F
  PROVE  ~(n <= SizeOf(m, p) /\ TagOf(m, p) = 0)
  <1>1. PICK c, s, k : Stands(m, head, F, n, NULL, c, s, k)
    BY WalkStands
  <1>2. /\ c \in Nat /\ Chain(m, head, s, c) /\ {s[j] : j \in 0 .. c - 1} = F
        /\ k \in 0 .. c /\ s[k] = NULL
        /\ \A q \in F : \A j \in 0 .. c - 1 :
             q = s[j] => k <= j \/ ~(n <= SizeOf(m, q) /\ TagOf(m, q) = 0)
    BY <1>1 DEF Stands
  <1>3. c <= k
    BY <1>2 DEF Chain
  <1>4. PICK j \in 0 .. c - 1 : p = s[j]
    BY <1>2
  <1> QED
    BY <1>2, <1>3, <1>4

(* The walk goes on along the list,                                        *)
LEMMA WalkStep == ASSUME IInv, walk PROVE IInv'
  <1>1. /\ pc = "walk" /\ bp # NULL /\ ~Fits /\ bp' = NEXT_FREEP(mem, bp) /\ pc' = pc
        /\ SameHeap /\ UNCHANGED <<mem_brk, call, search, client>>
    BY DEF walk
  <1>2. /\ ruined = "nothing" /\ TypeOK
    BY <1>1, Searching
  <1>3. list' = list /\ size' = size /\ call' = call
    BY <1>1 DEF search
  <1>4. ASSUME NEW S, HeapOK(S)
        PROVE  bp' \in {NULL} \cup BlockPtrs /\ SearchOK(S)'
    <2>1. PICK F : F = Sorted(mem, FreeOf(mem, mem_brk, S), list)
      OBVIOUS
    <2>2. WalkedTo(mem, sgrlists[list], F, call.asize, bp)
      BY <1>1, <1>4, <2>1 DEF HeapOK, SearchOK
    <2>3. ~(call.asize <= SizeOf(mem, bp) /\ TagOf(mem, bp) = 0)
      BY <1>1, FitsMeans
    <2>4. /\ bp' \in {NULL} \cup BlockPtrs
          /\ WalkedTo(mem, sgrlists[list], F, call.asize, bp')
      BY <1>1, <2>2, <2>3, WalkOn
    <2>5. mem' = mem /\ mem_brk' = mem_brk /\ sgrlists' = sgrlists
      BY <1>1 DEF SameHeap
    <2> QED
      BY <1>1, <1>3, <1>4, <2>1, <2>4, <2>5 DEF SearchOK, HeapOK
  <1>5. bp' \in {NULL} \cup BlockPtrs
    <2>1. \E S : HeapOK(S)
      BY <1>1, <1>2 DEF IInv, Sound
    <2> QED
      BY <1>4, <2>1
  <1>6. TypeOK'
    BY <1>1, <1>2, <1>3, <1>5, Searching, QuietType
  <1>7. CallOK'
    BY <1>1, Searching DEF CallOK, client, SameHeap
  <1> QED
    BY <1>1, <1>2, <1>4, <1>6, <1>7, QuietStep

(* comes to its end,                                                       *)
LEMMA WalkEndsStep == ASSUME IInv, walk_ends PROVE IInv'
  <1>1. /\ pc = "walk" /\ bp = NULL /\ NextTurn /\ SameHeap
        /\ UNCHANGED <<mem_brk, call, bp, client>>
    BY DEF walk_ends
  <1>2. list < LISTS
    <2>1. ruined = "nothing"
      BY <1>1, Searching
    <2>2. \E S : HeapOK(S)
      BY <1>1, <2>1 DEF IInv, Sound
    <2> QED
      BY <1>1, <2>2 DEF HeapOK, SearchOK
  <1>3. ASSUME NEW S, HeapOK(S), NEW p \in Fitting(mem, mem_brk, S, call.asize)
        PROVE  ListOf(SizeOf(mem, p)) # list
    <2>1. PICK F : F = Sorted(mem, FreeOf(mem, mem_brk, S), list)
      OBVIOUS
    <2>2. WalkedTo(mem, sgrlists[list], F, call.asize, NULL)
      BY <1>1, <1>3, <2>1 DEF HeapOK, SearchOK
    <2>3. SUFFICES ASSUME ListOf(SizeOf(mem, p)) = list PROVE FALSE
      OBVIOUS
    <2>4. p \in F /\ call.asize <= SizeOf(mem, p) /\ TagOf(mem, p) = 0
      BY <1>3, <2>1, <2>3, FitIn
    <2> QED
      BY <2>2, <2>4, WalkedOut
  <1> QED
    BY <1>1, <1>2, <1>3, TurnStep

(* or to a block that fits.                                                *)
LEMMA WalkFindsStep == ASSUME IInv, walk_finds PROVE IInv'
  <1>1. /\ pc = "walk" /\ bp # NULL /\ Fits /\ pc' = "found"
        /\ SameHeap /\ UNCHANGED <<mem_brk, call, search, bp, client>>
    BY DEF walk_finds
  <1>2. /\ ruined = "nothing" /\ TypeOK
    BY <1>1, Searching
  <1>3. list' = list /\ size' = size /\ call' = call /\ bp' = bp
    BY <1>1 DEF search
  <1>4. TypeOK'
    BY <1>1, <1>2, <1>3, Searching, QuietType
  <1>5. CallOK'
    BY <1>1, Searching DEF CallOK, client, SameHeap
  <1>6. ASSUME NEW S, HeapOK(S) PROVE SearchOK(S)'
    <2>1. PICK F : F = Sorted(mem, FreeOf(mem, mem_brk, S), list)
      OBVIOUS
    <2>2. PICK fit : fit = Fitting(mem, mem_brk, S, call.asize)
      OBVIOUS
    <2>3. WalkedTo(mem, sgrlists[list], F, call.asize, bp)
          /\ \A p \in fit : list <= ListOf(SizeOf(mem, p))
      BY <1>1, <1>6, <2>1, <2>2 DEF HeapOK, SearchOK
    <2>4. bp \in F
      BY <1>1, <2>3, WalkOn
    <2>5. bp \in FreeOf(mem, mem_brk, S) /\ ListOf(SizeOf(mem, bp)) = list
      BY <2>1, <2>4 DEF Sorted, SizeOf, HDRP, WSIZE
    <2>6. bp \in fit
      BY <1>1, <2>2, <2>5, FitsMeans DEF Fitting
    <2>7. mem' = mem /\ mem_brk' = mem_brk
      BY <1>1 DEF SameHeap
    <2> QED
      BY <1>1, <1>3, <2>2, <2>3, <2>5, <2>6, <2>7 DEF SearchOK
  <1> QED
    BY <1>1, <1>2, <1>4, <1>5, <1>6, QuietStep

(* A heap that has been computed becomes that of the next state.           *)
LEMMA HeapTypes ==
  ASSUME NEW r, r \in Heaps, HeapBecomes(r)
  PROVE  /\ heap' = r /\ mem' = r.mem /\ sgrlists' = r.lists /\ ruined' = r.ruined
         /\ mem' \in [WordAddr -> Nat]
         /\ sgrlists' \in [0 .. LISTS - 1 -> {NULL} \cup BlockPtrs]
         /\ ruined' \in {"nothing", "tag", "words", "NULL"}
  BY HeapIs DEF HeapBecomes, Heaps

(* A ruined heap is asked nothing more.                                    *)
LEMMA RuinedStep ==
  ASSUME TypeOK', CallOK', ruined' # "nothing", ruined' # "words" \/ Kept'
  PROVE  IInv'
  BY DEF IInv, Sound

(* Where the heap is whole, it is so by some set of blocks.                *)
LEMMA WholeStep ==
  ASSUME TypeOK', CallOK', NEW T, HeapOK(T)'
  PROVE  IInv'
  <1>1. PICK m, brk : /\ m \in [WordAddr -> Nat] /\ m = mem' /\ brk = mem_brk'
                     /\ Tiles(m, brk, T)
    <2>1. heap'.mem = mem'
      BY DEF heap
    <2>2. Whole(heap', mem_brk', T)
      BY DEF HeapOK
    <2> QED
      BY <2>1, <2>2 DEF Whole, Loose, Heaps
  <1>2. T \subseteq BlockPtrs
    BY <1>1, TilesAddrs
  <1>3. pc' = "returned" => Kept'
    BY DEF HeapOK
  <1> QED
    BY <1>2, <1>3 DEF IInv

(* The heap between two calls, or in the middle of one.                    *)
LEMMA SoundNow ==
  ASSUME IInv, ruined = "nothing", pc # "start"
  PROVE  /\ TypeOK /\ CallOK /\ heap \in Heaps /\ heap.mem = mem /\ heap.lists = sgrlists
         /\ heap.ruined = "nothing" /\ mem \in [WordAddr -> Nat]
         /\ mem_brk \in mem_start_brk .. mem_max_addr /\ mem_brk \in Nat
         /\ block_sizes \in [Ids -> Nat] /\ blocks \in [Ids -> {NULL} \cup BlockPtrs]
         /\ block_sizes \in [Ids -> Sizes \cup {0}]
         /\ \E S \in SUBSET BlockPtrs : HeapOK(S)
  <1>1. TypeOK /\ CallOK /\ \E S \in SUBSET BlockPtrs : HeapOK(S)
    BY DEF IInv, Sound
  <1>2. heap \in Heaps /\ heap.mem = mem /\ heap.lists = sgrlists /\ heap.ruined = "nothing"
    BY <1>1, HeapNow DEF heap
  <1>3. \A n \in Sizes \cup {0} : n \in Nat
    BY SegFitAssumption, Numbers DEF SegFitAssumption
  <1>4. block_sizes \in [Ids -> Sizes \cup {0}]
    BY <1>1 DEF TypeOK
  <1>5. block_sizes \in [Ids -> Nat]
    BY <1>3, <1>4
  <1>6. mem \in [WordAddr -> Nat] /\ blocks \in [Ids -> {NULL} \cup BlockPtrs]
    BY <1>1 DEF TypeOK
  <1>7. mem_brk \in mem_start_brk .. mem_max_addr /\ mem_brk \in Nat
    BY <1>1, Numbers DEF TypeOK
  <1> QED
    BY <1>1, <1>2, <1>4, <1>5, <1>6, <1>7

(* How much the heap grows when no block has been found.                   *)
LEMMA ExtendAmount ==
  ASSUME NEW a, NEW n, GoodSize(a, n)
  PROVE  \E k \in Nat : /\ k % 8 = 0 /\ k >= 16 /\ a <= k /\ mem_max_addr + k < WORD_MOD
                        /\ ExtendSize(ExtendWords(a)) = k
                        /\ Increment(ExtendWords(a)) = ToInt(k)
  <1>1. PICK k : k = IF a > CHUNKSIZE THEN a ELSE CHUNKSIZE
    OBVIOUS
  <1>2. /\ a \in Nat /\ a % 8 = 0 /\ a >= 16 /\ mem_max_addr + 4 * a < WORD_MOD
    BY DEF GoodSize
  <1>3. mem_max_addr + 4 * CHUNKSIZE < WORD_MOD
    BY RequestAssumption DEF RequestAssumption
  <1>4. k \in Nat /\ k % 8 = 0 /\ k >= 16 /\ a <= k /\ mem_max_addr + k < WORD_MOD
    BY <1>1, <1>2, <1>3, Numbers
  <1>5. ExtendSize(ExtendWords(a)) = k
    <2>1. ExtendWords(a) = k \div 4
      BY <1>1 DEF ExtendWords, WSIZE
    <2> QED
      BY <1>4, <2>1, EvenWords
  <1> QED
    BY <1>4, <1>5 DEF Increment

(* Only the free blocks of before and the new one can be given.            *)
LEMMA FitsGrown ==
  ASSUME NEW h, NEW k, NEW brk, NEW S, NEW z, NEW T, NEW n, NEW p, NEW a,
         Extended(h, k, brk, S, z, T, n, p), n \in Nat, a \in Nat, a <= n, SizeOf(k.mem, p) \in Nat,
         Fitting(h.mem, brk, S, a) = {}
  PROVE  Fitting(k.mem, z, T, a) = {p}
  <1>1. p \in Fitting(k.mem, z, T, a)
    BY DEF Extended, Fitting
  <1>2. ASSUME NEW q \in Fitting(k.mem, z, T, a), q # p PROVE FALSE
    <2>1. q \in FreeOf(h.mem, brk, S) /\ k.mem[q - 4] = h.mem[q - 4]
      BY <1>2 DEF Extended, Fitting
    <2>2. SizeOf(k.mem, q) = SizeOf(h.mem, q) /\ TagOf(k.mem, q) = TagOf(h.mem, q)
      BY <2>1 DEF SizeOf, TagOf, GET_SIZE, GET_TAG
    <2>3. q \in Fitting(h.mem, brk, S, a)
      BY <1>2, <2>1, <2>2 DEF Fitting
    <2> QED
      BY <2>3
  <1> QED
    BY <1>1, <1>2

(* All lists have been searched: no free block fits.                       *)
LEMMA NoneLeft ==
  ASSUME NEW S, HeapOK(S), pc = "search", list = LISTS
  PROVE  Fitting(mem, mem_brk, S, call.asize) = {}
  <1>1. ASSUME NEW p \in Fitting(mem, mem_brk, S, call.asize) PROVE FALSE
    <2>1. LISTS <= ListOf(SizeOf(mem, p))
      BY <1>1 DEF HeapOK, SearchOK
    <2>2. ListOf(SizeOf(mem, p)) \in 0 .. LISTS - 1
      BY ListOfIs
    <2> QED
      BY <2>1, <2>2, Numbers
  <1> QED
    BY <1>1

(* The client's blocks, kept as they are while mm_malloc or mm_realloc     *)
(* works.                                                                  *)
LEMMA KeptStep ==
  ASSUME NEW S, HeapOK(S), NEW T, TypeOK, NEW n \in [WordAddr -> Nat], NEW z,
         Pointers = blocks, Asked = block_sizes, block_sizes \in [Ids -> Nat],
         \A i \in Ids : ~HandedOver(i), Pending = {},
         Tiles(mem, mem_brk, S), Tiles(n, z, T),
         Used(n, z, T) = Used(mem, mem_brk, S), Keeps(mem, n, Used(mem, mem_brk, S))
  PROVE  /\ Owners(n, z, T, blocks, block_sizes, {})
         /\ Filled(n, blocks, block_sizes, Ids)
  <1>1. mem \in [WordAddr -> Nat]
    BY DEF TypeOK
  <1>2. Owners(mem, mem_brk, S, blocks, block_sizes, {})
    BY DEF HeapOK
  <1>3. Filled(mem, blocks, block_sizes, Ids)
    BY DEF HeapOK, Filled
  <1>4. Owners(n, z, T, blocks, block_sizes, {})
    BY <1>1, <1>2, OwnersKeep
  <1>5. \A i \in Ids : blocks[i] # NULL => blocks[i] \in Used(mem, mem_brk, S)
    BY <1>1, <1>2, OwnedBlock
  <1>6. Ids \subseteq Ids
    OBVIOUS
  <1>7. Filled(n, blocks, block_sizes, Ids)
    BY <1>1, <1>2, <1>3, <1>5, <1>6, FilledKeep
  <1> QED
    BY <1>4, <1>7

-----------------------------------------------------------------------------
(* mm_malloc extends the heap.                                             *)

(* mm_malloc extends the heap.                                             *)
LEMMA ExtendStep == ASSUME IInv, extend PROVE IInv'
  <1>1. PICK words : words = ExtendWords(call.asize)
    OBVIOUS
  <1>2. PICK r : r = extend_heap(heap, mem_brk, words)
    OBVIOUS
  <1>3. /\ pc = "search" /\ list = LISTS /\ SbrkSucceeds(mem_brk, Increment(words))
        /\ mem_sbrk(Increment(words)) /\ HeapBecomes(r.heap) /\ bp' = r.bp /\ pc' = "found"
        /\ UNCHANGED <<call, search, client>>
    BY <1>1, <1>2 DEF extend
  <1>4. /\ TypeOK /\ CallOK /\ heap \in Heaps /\ heap.mem = mem /\ heap.ruined = "nothing"
        /\ mem \in [WordAddr -> Nat] /\ ruined = "nothing"
        /\ mem_brk \in mem_start_brk .. mem_max_addr /\ mem_brk \in Nat
        /\ block_sizes \in [Ids -> Nat] /\ blocks \in [Ids -> {NULL} \cup BlockPtrs]
        /\ block_sizes \in [Ids -> Sizes \cup {0}]
    BY <1>3, Searching, SoundNow
  <1>5. PICK S \in SUBSET BlockPtrs : HeapOK(S)
    BY <1>3, <1>4 DEF IInv, Sound
  <1>6. Whole(heap, mem_brk, S) /\ Tiles(mem, mem_brk, S)
    BY <1>4, <1>5 DEF HeapOK, Whole, Loose
  <1>7. call.asize \in Nat /\ GoodSize(call.asize, call.size)
    BY <1>3, <1>4 DEF CallOK, GoodSize
  <1>8. PICK k \in Nat : /\ k % 8 = 0 /\ k >= 16 /\ call.asize <= k
                         /\ mem_max_addr + k < WORD_MOD
                         /\ ExtendSize(words) = k /\ Increment(words) = ToInt(k)
    BY <1>1, <1>7, ExtendAmount
  <1>9. PICK z : z = mem_brk + k
    OBVIOUS
  <1>10. mem_brk' = z /\ z <= mem_max_addr /\ z \in mem_start_brk .. mem_max_addr
    <2>1. MovedBrk(mem_brk, ToInt(k)) = mem_brk + k /\ mem_brk + k <= mem_max_addr
      BY <1>3, <1>4, <1>8, GrowsBy
    <2> QED
      BY <1>3, <1>4, <1>8, <1>9, <2>1, Numbers DEF mem_sbrk
  <1>11. /\ r.heap \in Heaps /\ r.bp \in BlockPtrs
         /\ \/ r.heap.ruined = "tag"
            \/ /\ r.heap.ruined = heap.ruined
               /\ \E T : Extended(heap, r.heap, mem_brk, S, z, T, k, r.bp)
    BY <1>2, <1>6, <1>8, <1>9, <1>10, Extend
  <1>12. PICK n : n = r.heap.mem
    OBVIOUS
  <1>13. /\ heap' = r.heap /\ mem' = n /\ ruined' = r.heap.ruined
         /\ mem' \in [WordAddr -> Nat]
         /\ sgrlists' \in [0 .. LISTS - 1 -> {NULL} \cup BlockPtrs]
         /\ ruined' \in {"nothing", "tag", "words", "NULL"}
    BY <1>3, <1>11, <1>12, HeapTypes
  <1>14. call' = call /\ list' = list /\ size' = size /\ blocks' = blocks
         /\ block_sizes' = block_sizes
    BY <1>3 DEF search, client
  <1>15. TypeOK'
    BY <1>3, <1>4, <1>10, <1>11, <1>13, <1>14 DEF TypeOK
  <1>16. CallOK'
    BY <1>3, <1>4, <1>14 DEF CallOK
  <1>17. CASE r.heap.ruined = "tag"
    BY <1>13, <1>15, <1>16, <1>17, RuinedStep
  <1>18. CASE r.heap.ruined # "tag"
    <2>1. PICK T : Extended(heap, r.heap, mem_brk, S, z, T, k, r.bp)
      BY <1>11, <1>18
    <2>2. /\ Whole(r.heap, z, T) /\ Used(n, z, T) = Used(mem, mem_brk, S)
          /\ Keeps(mem, n, Used(mem, mem_brk, S)) /\ r.bp \in FreeOf(n, z, T)
      BY <1>4, <1>12, <2>1 DEF Extended
    <2>3. n \in [WordAddr -> Nat] /\ Tiles(n, z, T)
      BY <1>12, <1>13, <2>2 DEF Whole, Loose
    <2>4. /\ Pointers = blocks /\ Asked = block_sizes /\ \A i \in Ids : ~HandedOver(i)
          /\ Pending = {} /\ Pending' = {}
      BY <1>3, <1>4, HeldNow DEF Pending
    <2>5. Pointers' = blocks /\ Asked' = block_sizes /\ \A i \in Ids : ~HandedOver(i)'
      BY <1>3, <1>4, <1>14, HeldThen
    <2>6. Owners(n, z, T, blocks, block_sizes, {}) /\ Filled(n, blocks, block_sizes, Ids)
      BY <1>4, <1>5, <1>6, <2>2, <2>3, <2>4, KeptStep
    <2>7. Fitting(n, z, T, call.asize) = {r.bp}
      <3>1. Fitting(mem, mem_brk, S, call.asize) = {}
        BY <1>3, <1>5, NoneLeft
      <3>2. SizeOf(n, r.bp) \in Nat
        <4>1. r.bp \in T \ {z}
          BY <2>2 DEF FreeOf
        <4> QED
          BY <2>3, <4>1, TilesBlock
      <3>3. Fitting(heap.mem, mem_brk, S, call.asize) = {}
        BY <1>4, <3>1
      <3>4. SizeOf(r.heap.mem, r.bp) \in Nat
        BY <1>12, <3>2
      <3>5. PICK a, g, h, p, brk : a = call.asize /\ g = r.heap /\ h = heap /\ p = r.bp /\ brk = mem_brk
        OBVIOUS
      <3>6. Extended(h, g, brk, S, z, T, k, p)
        BY <2>1, <3>5
      <3>7. a \in Nat /\ a <= k
        BY <1>7, <1>8, <3>5
      <3>8. Fitting(h.mem, brk, S, a) = {}
        BY <3>3, <3>5
      <3>9. SizeOf(g.mem, p) \in Nat
        BY <3>4, <3>5
      <3>10. k \in Nat
        BY <1>8
      <3>11. Fitting(g.mem, z, T, a) = {p}
        BY <3>6, <3>7, <3>8, <3>9, <3>10, FitsGrown
      <3> QED
        BY <1>12, <3>5, <3>11
    <2>8. SearchOK(T)'
      <3>1. \A p \in {r.bp} : ListOf(SizeOf(n, r.bp)) <= ListOf(SizeOf(n, p))
        BY ListOfIs
      <3> QED
        BY <1>3, <1>10, <1>13, <1>14, <2>7, <3>1 DEF SearchOK
    <2>9. Filled(n, blocks, block_sizes, {i \in Ids : ~HandedOver(i)'})
      BY <2>6 DEF Filled
    <2>10. HeapOK(T)'
      BY <1>3, <1>10, <1>13, <2>2, <2>4, <2>5, <2>6, <2>8, <2>9 DEF HeapOK
    <2> QED
      BY <1>15, <1>16, <2>10, WholeStep
  <1> QED
    BY <1>17, <1>18

(* A call that answers NULL leaves all as it is.                           *)
LEMMA NullStep ==
  ASSUME IInv, ruined = "nothing", pc \in {"idle", "search"}, pc' = "returned", bp' = NULL,
         SameHeap, UNCHANGED <<mem_brk, search, client>>,
         call' \in [op : {"none", "malloc", "realloc"}, index : Ids \cup {0},
                    size : Sizes \cup {0}, asize : Nat], call'.index \in Ids
  PROVE  IInv'
  <1>1. /\ TypeOK /\ CallOK /\ blocks \in [Ids -> {NULL} \cup BlockPtrs]
        /\ block_sizes \in [Ids -> Sizes \cup {0}]
    BY SoundNow
  <1>2. PICK S \in SUBSET BlockPtrs : HeapOK(S)
    BY DEF IInv, Sound
  <1>3. /\ heap' = heap /\ mem' = mem /\ mem_brk' = mem_brk /\ ruined' = "nothing"
        /\ blocks' = blocks /\ block_sizes' = block_sizes
    BY HeapThen DEF SameHeap, client
  <1>4. TypeOK'
    BY <1>1, <1>3 DEF TypeOK, SameHeap, search
  <1>5. CallOK'
    BY <1>3 DEF CallOK
  <1>6. Pointers = blocks /\ Asked = block_sizes /\ \A i \in Ids : ~HandedOver(i)
    BY <1>1, HeldNow
  <1>7. Pointers' = blocks /\ Asked' = block_sizes /\ \A i \in Ids : ~HandedOver(i)'
    BY <1>1, <1>3, HeldThen
  <1>8. Pending = {} /\ Pending' = {}
    BY DEF Pending
  <1>9. Filled(mem, blocks, block_sizes, {i \in Ids : ~HandedOver(i)'})
    BY <1>2, <1>6 DEF HeapOK, Filled
  <1>10. Kept' /\ SearchOK(S)'
    BY DEF Kept, SearchOK
  <1>11. HeapOK(S)'
    BY <1>2, <1>3, <1>6, <1>7, <1>8, <1>9, <1>10 DEF HeapOK
  <1> QED
    BY <1>4, <1>5, <1>11, WholeStep

(* The heap cannot be extended.                                            *)
LEMMA ExtendFailsStep == ASSUME IInv, extend_fails PROVE IInv'
  <1>1. /\ pc = "search" /\ mem_brk' = mem_brk /\ pc' = "returned" /\ bp' = NULL
        /\ HeapBecomes(IF call.op = "malloc" THEN heap ELSE [heap EXCEPT !.ruined = "NULL"])
        /\ call' = call /\ UNCHANGED <<search, client>>
    BY DEF extend_fails, mem_sbrk, Returns
  <1>2. /\ TypeOK /\ CallOK /\ heap \in Heaps /\ ruined = "nothing"
        /\ call.index \in Ids
    BY <1>1, Searching DEF CallOK
  <1>3. call' \in [op : {"none", "malloc", "realloc"}, index : Ids \cup {0},
                    size : Sizes \cup {0}, asize : Nat]
    BY <1>1, <1>2 DEF TypeOK
  <1>4. CASE call.op = "malloc"
    <2>1. SameHeap
      BY <1>1, <1>4 DEF HeapBecomes, SameHeap, heap
    <2> QED
      BY <1>1, <1>2, <1>3, <2>1, NullStep
  <1>5. CASE call.op # "malloc"
    <2>1. mem' = mem /\ sgrlists' = sgrlists /\ ruined' = "NULL"
      BY <1>1, <1>5 DEF HeapBecomes, heap
    <2>2. TypeOK'
      BY <1>1, <1>2, <1>3, <2>1 DEF TypeOK, search, client
    <2>3. CallOK'
      BY <1>1, <1>2, <2>1 DEF CallOK
    <2> QED
      BY <2>1, <2>2, <2>3, RuinedStep
  <1> QED
    BY <1>4, <1>5

(* A request for nothing.                                                  *)
LEMMA NothingStep ==
  ASSUME IInv, ruined = "nothing", 0 \in Sizes, NEW i \in Ids, nothing(i)
  PROVE  IInv'
  <1>1. /\ pc = "idle" /\ pc' = "returned" /\ bp' = NULL /\ SameHeap
        /\ UNCHANGED <<mem_brk, search, client>>
        /\ call' = [op |-> IF blocks[i] = NULL THEN "malloc" ELSE "realloc",
                    index |-> i, size |-> 0, asize |-> AdjustedSize(0)]
    BY DEF nothing, Calls, Returns
  <1>2. AdjustedSize(0) = 16
    BY DEF AdjustedSize, DSIZE
  <1>3. PICK op \in {"malloc", "realloc"} :
          call' = [op |-> op, index |-> i, size |-> 0, asize |-> 16]
    BY <1>1, <1>2
  <1>4. call' \in [op : {"none", "malloc", "realloc"}, index : Ids \cup {0},
                   size : Sizes \cup {0}, asize : Nat] /\ call'.index \in Ids
    BY <1>3
  <1> QED
    BY <1>1, <1>4, NullStep

-----------------------------------------------------------------------------
(* What the client has.                                                    *)

(* Who owns what, when a block is handed out, freed or resized.            *)
LEMMA OwnersRoom ==
  ASSUME NEW m, NEW n, NEW brk, NEW S, NEW z, NEW T, NEW ptr, NEW asked, NEW pend,
         Owners(m, brk, S, ptr, asked, pend), Used(n, z, T) = Used(m, brk, S),
         \A i \in Ids : ptr[i] # NULL => asked[i] + 8 <= SizeOf(n, ptr[i])
  PROVE  Owners(n, z, T, ptr, asked, pend)
  BY DEF Owners

(* A block is placed, and nobody's yet.                                    *)
LEMMA OwnersPend ==
  ASSUME NEW m \in [WordAddr -> Nat], NEW n \in [WordAddr -> Nat], NEW brk, NEW S,
         NEW T, Tiles(m, brk, S), Tiles(n, brk, T),
         NEW ptr, NEW asked, Owners(m, brk, S, ptr, asked, {}),
         NEW b, b \in FreeOf(m, brk, S),
         Used(n, brk, T) = Used(m, brk, S) \cup {b}, Keeps(m, n, Used(m, brk, S))
  PROVE  Owners(n, brk, T, ptr, asked, {b})
  <1>1. b \notin Used(m, brk, S) /\ b # heap_listp
    BY TilesAddrs DEF FreeOf, Used
  <1>2. ASSUME NEW i \in Ids PROVE ptr[i] # b
    <2>1. CASE ptr[i] # NULL
      BY <1>1, <2>1 DEF Owners
    <2>2. CASE ptr[i] = NULL
      <3>1. b \in S
        BY DEF FreeOf
      <3>2. b \in BlockPtrs
        BY <3>1, TilesAddrs
      <3>3. b # NULL
        BY <3>2, Numbers DEF BlockPtrs, NULL
      <3> QED
        BY <2>2, <3>3
    <2> QED
      BY <2>1, <2>2
  <1>3. ASSUME NEW i \in Ids, ptr[i] # NULL
        PROVE  asked[i] + 8 <= SizeOf(n, ptr[i])
    <2>1. ptr[i] \in Used(m, brk, S) /\ ptr[i] \in Used(n, brk, T)
      BY <1>3 DEF Owners
    <2>2. ptr[i] \in S /\ ptr[i] \in T
      BY <2>1 DEF Used
    <2>3. SizeOf(n, ptr[i]) = SizeOf(m, ptr[i])
      BY <2>1, <2>2, SizeKept
    <2> QED
      BY <1>3, <2>3 DEF Owners
  <1>4. Used(n, brk, T)
          = {heap_listp} \cup {ptr[i] : i \in {j \in Ids : ptr[j] # NULL}} \cup {b}
    BY DEF Owners
  <1>5. \A i, j \in Ids : ptr[i] # NULL /\ ptr[i] = ptr[j] => i = j
    BY DEF Owners
  <1>6. \A i \in Ids : ptr[i] # heap_listp
    BY DEF Owners
  <1> QED
    BY <1>1, <1>2, <1>3, <1>4, <1>5, <1>6 DEF Owners

(* The client takes it.                                                    *)
LEMMA OwnersTake ==
  ASSUME NEW m, NEW brk, NEW S, NEW ptr, NEW asked, NEW b, DOMAIN ptr = Ids, DOMAIN asked = Ids,
         Owners(m, brk, S, ptr, asked, {b}), NEW i \in Ids, ptr[i] = NULL, b # NULL,
         NEW k, k + 8 <= SizeOf(m, b), NEW p, NEW a,
         p = [ptr EXCEPT ![i] = b], a = [asked EXCEPT ![i] = k]
  PROVE  Owners(m, brk, S, p, a, {})
  <1>1. /\ p[i] = b /\ a[i] = k
        /\ \A j \in Ids : j # i => p[j] = ptr[j] /\ a[j] = asked[j]
    OBVIOUS
  <1>2. {p[j] : j \in {l \in Ids : p[l] # NULL}}
          = {ptr[j] : j \in {l \in Ids : ptr[l] # NULL}} \cup {b}
    BY <1>1
  <1>3. Used(m, brk, S)
          = {heap_listp} \cup {p[j] : j \in {l \in Ids : p[l] # NULL}} \cup {}
    BY <1>2 DEF Owners
  <1>4. \A j \in Ids : p[j] # heap_listp
    BY <1>1 DEF Owners
  <1>5. \A j, l \in Ids : p[j] # NULL /\ p[j] = p[l] => j = l
    BY <1>1 DEF Owners
  <1>6. \A j \in Ids : p[j] # NULL => a[j] + 8 <= SizeOf(m, p[j])
    BY <1>1 DEF Owners
  <1> QED
    BY <1>3, <1>4, <1>5, <1>6 DEF Owners

(* The client gives a block back.                                          *)
LEMMA OwnersDrop ==
  ASSUME NEW m \in [WordAddr -> Nat], NEW n \in [WordAddr -> Nat], NEW brk, NEW S,
         NEW T, Tiles(m, brk, S), Tiles(n, brk, T),
         NEW ptr, NEW asked, NEW pend, DOMAIN ptr = Ids, DOMAIN asked = Ids,
         Owners(m, brk, S, ptr, asked, pend), NEW i \in Ids, ptr[i] # NULL, NEW b, b = ptr[i],
         NEW P, P = Used(m, brk, S) \ {b}, Used(n, brk, T) = P, Keeps(m, n, P),
         NEW p, NEW a, NEW k, p = [ptr EXCEPT ![i] = NULL], a = [asked EXCEPT ![i] = k]
  PROVE  Owners(n, brk, T, p, a, pend)
  <1>1. /\ p[i] = NULL /\ \A j \in Ids : j # i => p[j] = ptr[j] /\ a[j] = asked[j]
    OBVIOUS
  <1>2. /\ \A j \in Ids : ptr[j] # heap_listp /\ ptr[j] \notin pend
        /\ heap_listp \notin pend
        /\ \A j, l \in Ids : ptr[j] # NULL /\ ptr[j] = ptr[l] => j = l
    BY DEF Owners
  <1>3. Used(n, brk, T)
          = {heap_listp} \cup {p[j] : j \in {l \in Ids : p[l] # NULL}} \cup pend
    <2>1. {p[j] : j \in {l \in Ids : p[l] # NULL}}
            = {ptr[j] : j \in {l \in Ids : ptr[l] # NULL}} \ {b}
      BY <1>1, <1>2
    <2>2. b # heap_listp /\ b \notin pend
      BY <1>2
    <2> QED
      BY <2>1, <2>2 DEF Owners
  <1>4. \A j \in Ids : p[j] # heap_listp /\ p[j] \notin pend
    <2>1. NULL \notin pend /\ NULL # heap_listp
      <3>1. \A q \in pend : q \in Used(m, brk, S)
        BY DEF Owners
      <3>2. \A q \in pend : q \in BlockPtrs
        BY <3>1, TilesAddrs DEF Used
      <3> QED
        BY <3>2, Numbers DEF BlockPtrs, NULL
    <2> QED
      BY <1>1, <1>2, <2>1
  <1>5. \A j, l \in Ids : p[j] # NULL /\ p[j] = p[l] => j = l
    BY <1>1, <1>2
  <1>6. ASSUME NEW j \in Ids, p[j] # NULL
        PROVE  a[j] + 8 <= SizeOf(n, p[j])
    <2>1. j # i /\ p[j] = ptr[j] /\ a[j] = asked[j]
      BY <1>1, <1>6
    <2>2. ptr[j] \in Used(m, brk, S) /\ ptr[j] # b
      BY <1>2, <1>6, <2>1 DEF Owners
    <2>4. Keeps(m, n, P) /\ ptr[j] \in P /\ ptr[j] \in Used(n, brk, T)
      BY <2>2
    <2>5. ptr[j] \in S /\ ptr[j] \in T
      BY <2>2, <2>4 DEF Used
    <2>6. SizeOf(n, ptr[j]) = SizeOf(m, ptr[j])
      BY <2>4, <2>5, SizeKept
    <2> QED
      BY <1>6, <2>1, <2>6 DEF Owners
  <1> QED
    BY <1>2, <1>3, <1>4, <1>5, <1>6 DEF Owners

(* What is in the blocks of the others.                                    *)
LEMMA FilledElse ==
  ASSUME NEW m, NEW ptr, NEW asked, NEW I, Filled(m, ptr, asked, I), I \subseteq Ids,
         NEW i, i \notin I, NEW p, NEW a, DOMAIN ptr = Ids, DOMAIN asked = Ids,
         NEW b, NEW k, p = [ptr EXCEPT ![i] = b], a = [asked EXCEPT ![i] = k]
  PROVE  Filled(m, p, a, I)
  <1>1. \A j \in I : p[j] = ptr[j] /\ a[j] = asked[j]
    OBVIOUS
  <1> QED
    BY <1>1 DEF Filled

(* Fewer blocks.                                                           *)
LEMMA FilledLess ==
  ASSUME NEW m, NEW ptr, NEW asked, NEW I, Filled(m, ptr, asked, I), NEW J, J \subseteq I
  PROVE  Filled(m, ptr, asked, J)
  BY DEF Filled

-----------------------------------------------------------------------------
(* A block is placed.                                                      *)

(* A free block that is big enough is placed.                              *)
LEMMA PlaceFound ==
  ASSUME IInv, place_found
  PROVE  /\ TypeOK' /\ CallOK' /\ ruined = "nothing" /\ pc = "found"
         /\ call' = call /\ bp' = bp /\ blocks' = blocks /\ block_sizes' = block_sizes
         /\ mem_brk' = mem_brk /\ ruined' = "nothing"
         /\ pc' = IF call.op = "malloc" THEN "returned" ELSE "move"
         /\ bp # NULL /\ mem' \in [WordAddr -> Nat]
         /\ \E T : /\ Whole(heap', mem_brk, T) /\ Tiles(mem', mem_brk, T)
                   /\ Owners(mem', mem_brk, T, blocks, block_sizes, {bp})
                   /\ Filled(mem', blocks, block_sizes, Ids)
                   /\ call.size + 8 <= SizeOf(mem', bp)
  <1>1. PICK r : r = place(heap, bp, call.asize)
    OBVIOUS
  <1>2. /\ pc = "found" /\ ruined = "nothing" /\ HeapBecomes(r)
        /\ pc' = IF call.op = "malloc" THEN "returned" ELSE "move"
        /\ call' = call /\ bp' = bp /\ blocks' = blocks /\ block_sizes' = block_sizes
        /\ mem_brk' = mem_brk /\ list' = list /\ size' = size
    BY <1>1 DEF place_found, search, client
  <1>3. /\ TypeOK /\ CallOK /\ heap \in Heaps /\ heap.mem = mem /\ heap.ruined = "nothing"
        /\ mem \in [WordAddr -> Nat]
        /\ block_sizes \in [Ids -> Nat] /\ blocks \in [Ids -> {NULL} \cup BlockPtrs]
    BY <1>2, SoundNow
  <1>4. PICK S \in SUBSET BlockPtrs : HeapOK(S)
    BY <1>2 DEF IInv, Sound
  <1>5. Whole(heap, mem_brk, S) /\ Tiles(mem, mem_brk, S)
    BY <1>3, <1>4 DEF HeapOK, Whole, Loose
  <1>6. bp \in FreeOf(mem, mem_brk, S) /\ call.asize <= SizeOf(mem, bp)
    BY <1>2, <1>4 DEF HeapOK, SearchOK, Fitting
  <1>7. /\ call.asize \in Nat /\ call.asize >= 16 /\ call.asize % 8 = 0
        /\ call.size \in Nat /\ call.size + 8 <= call.asize
    <2>1. GoodSize(call.asize, call.size) /\ call.size \in Sizes
      BY <1>2, <1>3 DEF CallOK
    <2>2. \A n \in Sizes : n \in Nat
      BY SegFitAssumption, Numbers DEF SegFitAssumption
    <2>3. call.size \in Nat
      BY <2>1, <2>2
    <2> QED
      BY <2>1, <2>3 DEF GoodSize
  <1>8. r.ruined = "nothing" /\ \E T : Placed(heap, r, mem_brk, S, T, bp, call.asize)
    <2>1. PICK g, b, a, brk : g = heap /\ b = bp /\ a = call.asize /\ brk = mem_brk
      OBVIOUS
    <2>2. a \in Nat /\ a >= 16 /\ a % 8 = 0
      BY <1>7, <2>1
    <2>3. b \in FreeOf(g.mem, brk, S) /\ a <= SizeOf(g.mem, b)
      BY <1>3, <1>6, <2>1
    <2>4. Whole(g, brk, S)
      BY <1>5, <2>1
    <2>5. r = place(g, b, a)
      BY <1>1, <2>1
    <2>6. r.ruined = g.ruined /\ \E T : Placed(g, r, brk, S, T, b, a)
      BY <2>2, <2>3, <2>4, <2>5, Place
    <2> QED
      BY <1>3, <2>1, <2>6
  <1>9. PICK T : Placed(heap, r, mem_brk, S, T, bp, call.asize)
    BY <1>8
  <1>10. r \in Heaps
    BY <1>9 DEF Placed, Whole, Loose
  <1>11. PICK n : n = r.mem
    OBVIOUS
  <1>12. /\ heap' = r /\ mem' = n /\ ruined' = "nothing"
         /\ n \in [WordAddr -> Nat]
         /\ sgrlists' \in [0 .. LISTS - 1 -> {NULL} \cup BlockPtrs]
    BY <1>2, <1>8, <1>10, <1>11, HeapTypes
  <1>13. TypeOK'
    BY <1>2, <1>3, <1>12 DEF TypeOK
  <1>14. bp # NULL
    <2>1. bp \in S
      BY <1>6 DEF FreeOf
    <2>2. bp \in BlockPtrs
      BY <1>4, <2>1
    <2> QED
      BY <2>2, Numbers DEF BlockPtrs, NULL
  <1>15. CallOK'
    BY <1>2, <1>3, <1>12 DEF CallOK
  <1>16. /\ Whole(r, mem_brk, T) /\ Tiles(n, mem_brk, T)
         /\ Used(n, mem_brk, T) = Used(mem, mem_brk, S) \cup {bp}
         /\ Keeps(mem, n, Used(mem, mem_brk, S)) /\ SizeOf(n, bp) >= call.asize
    BY <1>3, <1>9, <1>11 DEF Placed, Whole, Loose
  <1>17. /\ Pointers = blocks /\ Asked = block_sizes /\ \A i \in Ids : ~HandedOver(i)
         /\ Pending = {}
    BY <1>2, <1>3, HeldNow DEF Pending
  <1>18. /\ Owners(mem, mem_brk, S, blocks, block_sizes, {})
         /\ Filled(mem, blocks, block_sizes, Ids)
    BY <1>4, <1>17 DEF HeapOK, Filled
  <1>19. Owners(n, mem_brk, T, blocks, block_sizes, {bp})
    BY <1>3, <1>5, <1>6, <1>12, <1>16, <1>18, OwnersPend
  <1>20. Filled(n, blocks, block_sizes, Ids)
    <2>1. \A i \in Ids : blocks[i] # NULL => blocks[i] \in Used(mem, mem_brk, S)
      BY <1>3, <1>5, <1>18, OwnedBlock
    <2>2. Ids \subseteq Ids
      OBVIOUS
    <2> QED
      BY <1>3, <1>5, <1>16, <1>18, <2>1, <2>2, FilledKeep
  <1>21. call.size + 8 <= SizeOf(n, bp)
    <2>1. SizeOf(n, bp) \in Nat
      <3>1. bp \in T \ {mem_brk}
        BY <1>16 DEF Used
      <3> QED
        BY <1>12, <1>16, <3>1, TilesBlock
    <2> QED
      BY <1>7, <1>16, <2>1
  <1> QED
    BY <1>2, <1>12, <1>13, <1>14, <1>15, <1>16, <1>19, <1>20, <1>21

(* The block is returned, or mm_realloc goes on with it.                   *)
LEMMA PlaceStep == ASSUME IInv, place_found PROVE IInv'
  <1>1. /\ TypeOK' /\ CallOK' /\ ruined = "nothing" /\ pc = "found"
        /\ call' = call /\ bp' = bp /\ blocks' = blocks /\ block_sizes' = block_sizes
        /\ mem_brk' = mem_brk /\ ruined' = "nothing"
        /\ pc' = IF call.op = "malloc" THEN "returned" ELSE "move"
        /\ bp # NULL /\ mem' \in [WordAddr -> Nat]
    BY PlaceFound
  <1>2. PICK T : /\ Whole(heap', mem_brk, T) /\ Tiles(mem', mem_brk, T)
                 /\ Owners(mem', mem_brk, T, blocks, block_sizes, {bp})
                 /\ Filled(mem', blocks, block_sizes, Ids)
                 /\ call.size + 8 <= SizeOf(mem', bp)
    BY PlaceFound
  <1>3. /\ CallOK /\ blocks \in [Ids -> {NULL} \cup BlockPtrs]
        /\ block_sizes \in [Ids -> Sizes \cup {0}]
    BY <1>1, SoundNow
  <1>4. PICK i \in Ids : i = call.index
    BY <1>1, <1>3 DEF CallOK
  <1>5. SearchOK(T)'
    BY <1>1 DEF SearchOK
  <1>6. CASE call.op = "malloc"
    <2>1. pc' = "returned" /\ blocks[i] = NULL
      BY <1>1, <1>3, <1>4, <1>6 DEF CallOK
    <2>2. PICK p, a : p = [blocks EXCEPT ![i] = bp] /\ a = [block_sizes EXCEPT ![i] = call.size]
      OBVIOUS
    <2>3. Pointers' = p /\ Asked' = a /\ \A j \in Ids : HandedOver(j)' <=> j = i
      BY <1>1, <1>3, <1>4, <2>1, <2>2, HeldReturns
    <2>4. DOMAIN blocks = Ids /\ DOMAIN block_sizes = Ids
      BY <1>3
    <2>5. Owners(mem', mem_brk, T, p, a, {})
      BY <1>1, <1>2, <2>1, <2>2, <2>4, OwnersTake
    <2>6. Filled(mem', p, a, {j \in Ids : ~HandedOver(j)'})
      <3>1. PICK I : I = {j \in Ids : ~HandedOver(j)'}
        OBVIOUS
      <3>2. I \subseteq Ids /\ i \notin I
        BY <2>3, <3>1
      <3>3. Filled(mem', blocks, block_sizes, I)
        BY <1>2, <3>2, FilledLess
      <3>4. Filled(mem', p, a, I)
        BY <2>2, <2>4, <3>2, <3>3, FilledElse
      <3> QED
        BY <3>1, <3>4
    <2>7. Pending' = {} /\ Kept'
      BY <1>1, <1>6, <2>1 DEF Pending, Kept
    <2>8. HeapOK(T)'
      BY <1>1, <1>2, <1>5, <2>1, <2>3, <2>5, <2>6, <2>7 DEF HeapOK
    <2> QED
      BY <1>1, <2>8, WholeStep
  <1>7. CASE call.op # "malloc"
    <2>1. pc' = "move"
      BY <1>1, <1>7
    <2>2. Pointers' = blocks /\ Asked' = block_sizes /\ \A j \in Ids : ~HandedOver(j)'
      BY <1>1, <1>3, <2>1, HeldThen
    <2>3. Pending' = {bp}
      BY <1>1, <2>1 DEF Pending
    <2>4. Filled(mem', blocks, block_sizes, {j \in Ids : ~HandedOver(j)'})
      BY <1>2 DEF Filled
    <2>5. HeapOK(T)'
      BY <1>1, <1>2, <1>5, <2>1, <2>2, <2>3, <2>4 DEF HeapOK
    <2> QED
      BY <1>1, <2>5, WholeStep
  <1> QED
    BY <1>6, <1>7

-----------------------------------------------------------------------------
(* mm_realloc, when the block stays where it is.                           *)

(* mm_realloc is called for block b, which the client holds as i.          *)
Resized(S, i, n, b) ==
  /\ HeapOK(S) /\ Whole(heap, mem_brk, S) /\ Tiles(mem, mem_brk, S)
  /\ b = blocks[i] /\ b # NULL /\ b \in BlockPtrs
  /\ b \in Used(mem, mem_brk, S) \ {heap_listp} /\ b \in S \ {heap_listp, mem_brk}
  /\ Owners(mem, mem_brk, S, blocks, block_sizes, {})
  /\ Filled(mem, blocks, block_sizes, Ids)
  /\ HDRP(b) = b - 4
  /\ n \in Nat /\ n > 0 /\ Wanted(n) \in Nat /\ Wanted(n) % 8 = 0 /\ n + 8 <= Wanted(n)
  /\ mem_max_addr + 4 * Wanted(n) < WORD_MOD

(* That is so whenever mm_realloc begins with its second case.             *)
LEMMA ResizeNow ==
  ASSUME IInv, ruined = "nothing", NEW i \in Ids, NEW n \in Sizes, Resizes(i, n)
  PROVE  /\ pc = "idle" /\ TypeOK /\ CallOK /\ heap \in Heaps /\ heap.mem = mem
         /\ heap.ruined = "nothing" /\ mem \in [WordAddr -> Nat]
         /\ blocks \in [Ids -> {NULL} \cup BlockPtrs]
         /\ block_sizes \in [Ids -> Sizes \cup {0}] /\ block_sizes \in [Ids -> Nat]
         /\ mem_brk \in mem_start_brk .. mem_max_addr /\ mem_brk \in Nat
         /\ call' \in [op : {"none", "malloc", "realloc"}, index : Ids \cup {0},
                       size : Sizes \cup {0}, asize : Nat]
         /\ call'.index = i /\ call'.size = n
         /\ \E S \in SUBSET BlockPtrs : Resized(S, i, n, blocks[i])
  <1>1. /\ pc = "idle" /\ n # 0 /\ blocks[i] # NULL
        /\ call' = [op |-> "realloc", index |-> i, size |-> n, asize |-> AdjustedSize(n)]
    BY DEF Resizes, Calls
  <1>2. /\ TypeOK /\ CallOK /\ heap \in Heaps /\ heap.mem = mem
        /\ heap.ruined = "nothing" /\ mem \in [WordAddr -> Nat]
        /\ blocks \in [Ids -> {NULL} \cup BlockPtrs]
        /\ block_sizes \in [Ids -> Sizes \cup {0}] /\ block_sizes \in [Ids -> Nat]
        /\ mem_brk \in mem_start_brk .. mem_max_addr /\ mem_brk \in Nat
    BY <1>1, SoundNow
  <1>3. PICK S \in SUBSET BlockPtrs : HeapOK(S)
    BY <1>1 DEF IInv, Sound
  <1>4. n > 0
    BY <1>1, SegFitAssumption, Numbers DEF SegFitAssumption
  <1>5. /\ n \in Nat /\ GoodSize(AdjustedSize(n), n)
        /\ Wanted(n) \in Nat /\ Wanted(n) % 8 = 0 /\ n + 8 <= Wanted(n)
        /\ mem_max_addr + 4 * Wanted(n) < WORD_MOD
    BY <1>4, RequestSizes
  <1>6. AdjustedSize(n) \in Nat
    BY <1>5 DEF GoodSize
  <1>7. /\ call' \in [op : {"none", "malloc", "realloc"}, index : Ids \cup {0},
                      size : Sizes \cup {0}, asize : Nat]
        /\ call'.index = i /\ call'.size = n
    BY <1>1, <1>6, CallTypes
  <1>8. Whole(heap, mem_brk, S) /\ Tiles(mem, mem_brk, S)
    BY <1>2, <1>3 DEF HeapOK, Whole, Loose
  <1>9. /\ Pointers = blocks /\ Asked = block_sizes /\ \A j \in Ids : ~HandedOver(j)
        /\ Pending = {}
    BY <1>1, <1>2, HeldNow DEF Pending
  <1>10. /\ Owners(mem, mem_brk, S, blocks, block_sizes, {})
         /\ Filled(mem, blocks, block_sizes, Ids)
    BY <1>3, <1>9 DEF HeapOK, Filled
  <1>11. PICK b : b = blocks[i]
    OBVIOUS
  <1>12. /\ b \in Used(mem, mem_brk, S) \ {heap_listp} /\ b \in S \ {heap_listp, mem_brk}
         /\ b \in BlockPtrs
    BY <1>1, <1>2, <1>8, <1>10, <1>11, OwnedBlock
  <1>13. HDRP(b) = b - 4
    BY DEF HDRP, WSIZE
  <1>14. Resized(S, i, n, b)
    BY <1>1, <1>3, <1>4, <1>5, <1>8, <1>10, <1>11, <1>12, <1>13 DEF Resized
  <1> QED
    BY <1>1, <1>2, <1>7, <1>11, <1>14

(* The data is kept when the payload of the block is left alone.           *)
LEMMA KeptThere ==
  ASSUME mem \in [WordAddr -> Nat], block_sizes \in [Ids -> Nat],
         NEW i \in Ids, NEW n \in Sizes, NEW S, NEW b, Resized(S, i, n, b),
         call'.index = i, call'.size = n, bp' = b, block_sizes' = block_sizes,
         NEW m, mem' = m, \A w \in PayloadOf(mem, b) : m[w] = mem[w]
  PROVE  Kept'
  <1>1. /\ b = blocks[i] /\ b # NULL /\ b \in BlockPtrs /\ Tiles(mem, mem_brk, S)
        /\ Owners(mem, mem_brk, S, blocks, block_sizes, {})
        /\ Filled(mem, blocks, block_sizes, Ids) /\ n \in Nat
    BY DEF Resized
  <1>2. PICK old \in Nat : old = block_sizes[i]
    OBVIOUS
  <1>3. WordsOf(b, old) \subseteq PayloadOf(mem, b)
    <2>1. WordsOf(blocks[i], block_sizes[i]) \subseteq PayloadOf(mem, blocks[i])
      BY <1>1, OwnedBlock
    <2> QED
      BY <1>1, <1>2, <2>1
  <1>4. \A w \in WordsOf(b, old) : m[w] = FillWord(i)
    BY <1>1, <1>2, <1>3 DEF Filled
  <1>5. WordsOf(b, IF n < old THEN n ELSE old) \subseteq WordsOf(b, old)
    <2>1. b \in Nat /\ \A w \in WordAddr : w \in Nat
      BY <1>1, Numbers DEF BlockPtrs, WordAddr
    <2> QED
      BY <1>1, <1>2, <2>1 DEF WordsOf
  <1> QED
    BY <1>2, <1>4, <1>5 DEF Kept

(* mm_realloc returns the block it was called for.                         *)
LEMMA InPlace ==
  ASSUME IInv, ruined = "nothing", NEW i \in Ids, NEW n \in Sizes, Resizes(i, n),
         NEW S, NEW b, Resized(S, i, n, b), NEW r, r.ruined = "nothing",
         HeapBecomes(r), Returns(b), UNCHANGED <<mem_brk, search, client>>,
         NEW T, Whole(r, mem_brk, T), Used(r.mem, mem_brk, T) = Used(mem, mem_brk, S),
         Keeps(mem, r.mem, Used(mem, mem_brk, S) \ {b}),
         \A w \in PayloadOf(mem, b) : r.mem[w] = mem[w],
         n + 8 <= SizeOf(r.mem, b), SizeOf(mem, b) <= SizeOf(r.mem, b)
  PROVE  IInv'
  <1>1. /\ pc = "idle" /\ TypeOK /\ CallOK /\ heap \in Heaps /\ heap.mem = mem
        /\ heap.ruined = "nothing" /\ mem \in [WordAddr -> Nat]
        /\ blocks \in [Ids -> {NULL} \cup BlockPtrs]
        /\ block_sizes \in [Ids -> Sizes \cup {0}] /\ block_sizes \in [Ids -> Nat]
        /\ call' \in [op : {"none", "malloc", "realloc"}, index : Ids \cup {0},
                       size : Sizes \cup {0}, asize : Nat]
        /\ call'.index = i /\ call'.size = n
    BY ResizeNow
  <1>2. r \in Heaps
    BY DEF Whole, Loose
  <1>3. PICK m : m = r.mem
    OBVIOUS
  <1>4. /\ heap' = r /\ mem' = m /\ ruined' = "nothing"
        /\ m \in [WordAddr -> Nat]
        /\ sgrlists' \in [0 .. LISTS - 1 -> {NULL} \cup BlockPtrs]
    BY <1>2, <1>3, HeapTypes
  <1>5. /\ pc' = "returned" /\ bp' = b /\ mem_brk' = mem_brk /\ blocks' = blocks
        /\ block_sizes' = block_sizes /\ list' = list /\ size' = size
    BY DEF Returns, search, client
  <1>6. /\ b = blocks[i] /\ b # NULL /\ b \in BlockPtrs /\ Tiles(mem, mem_brk, S)
        /\ Owners(mem, mem_brk, S, blocks, block_sizes, {})
        /\ Filled(mem, blocks, block_sizes, Ids) /\ n \in Nat /\ n > 0
    BY DEF Resized
  <1>7. TypeOK'
    BY <1>1, <1>4, <1>5, <1>6 DEF TypeOK
  <1>8. CallOK'
    BY <1>1, <1>5, <1>6 DEF CallOK
  <1>9. PICK a : a = [block_sizes EXCEPT ![i] = n]
    OBVIOUS
  <1>10. a[i] = n /\ \A j \in Ids : j # i => a[j] = block_sizes[j]
    BY <1>1, <1>9
  <1>11. Pointers' = blocks /\ Asked' = a /\ \A j \in Ids : HandedOver(j)' <=> j = i
    <2>1. /\ Pointers' = [blocks' EXCEPT ![i] = b] /\ Asked' = [block_sizes' EXCEPT ![i] = n]
          /\ \A j \in Ids : HandedOver(j)' <=> j = i
      BY <1>1, <1>5, <1>6, HeldReturns
    <2> QED
      BY <1>1, <1>5, <1>6, <1>9, <2>1
  <1>12. Tiles(m, mem_brk, T) /\ Used(m, mem_brk, T) = Used(mem, mem_brk, S)
    BY <1>3 DEF Whole, Loose
  <1>13. PICK P : P = Used(mem, mem_brk, S) \ {b}
    OBVIOUS
  <1>14. Keeps(mem, m, P)
    BY <1>3, <1>13
  <1>15. \A j \in Ids : blocks[j] # NULL /\ j # i => blocks[j] \in P
    BY <1>6, <1>13 DEF Owners
  <1>16. Owners(m, mem_brk, T, blocks, a, {})
    <2>1. ASSUME NEW j \in Ids, blocks[j] # NULL
          PROVE  a[j] + 8 <= SizeOf(m, blocks[j])
      <3>1. CASE j = i
        BY <1>3, <1>6, <1>10, <3>1
      <3>2. CASE j # i
        <4>1. PICK q : q = blocks[j]
          OBVIOUS
        <4>2. q \in P /\ q \in Used(mem, mem_brk, S) /\ q \in Used(m, mem_brk, T)
          BY <1>12, <1>13, <1>15, <2>1, <3>2, <4>1
        <4>3. q \in S /\ q \in T
          BY <4>2 DEF Used
        <4>4. SizeOf(m, q) = SizeOf(mem, q)
          <5>1. mem \in [WordAddr -> Nat] /\ m \in [WordAddr -> Nat]
            BY <1>1, <1>4
          <5>2. Tiles(mem, mem_brk, S) /\ Tiles(m, mem_brk, T)
            BY <1>6, <1>12
          <5>3. q \in P
            BY <4>2
          <5> QED
            BY <1>14, <4>3, <5>1, <5>2, <5>3, SizeKept
        <4>5. block_sizes[j] + 8 <= SizeOf(mem, q)
          BY <1>6, <2>1, <4>1 DEF Owners
        <4> QED
          BY <1>10, <3>2, <4>1, <4>4, <4>5
      <3> QED
        BY <3>1, <3>2
    <2> QED
      BY <1>6, <1>12, <2>1 DEF Owners
  <1>17. Filled(m, blocks, a, {j \in Ids : ~HandedOver(j)'})
    <2>1. PICK I : I = Ids \ {i}
      OBVIOUS
    <2>2. I \subseteq Ids /\ i \notin I /\ \A j \in I : blocks[j] # NULL => blocks[j] \in P
      BY <1>15, <2>1
    <2>3. Filled(mem, blocks, block_sizes, I)
      BY <1>6, <2>2, FilledLess
    <2>4. Filled(m, blocks, block_sizes, I)
      BY <1>1, <1>6, <1>14, <2>2, <2>3, FilledKeep
    <2>5. Filled(m, blocks, a, I)
      BY <1>10, <2>2, <2>4 DEF Filled
    <2>6. {j \in Ids : ~HandedOver(j)'} = I
      BY <1>11, <2>1
    <2> QED
      BY <2>5, <2>6
  <1>18. Kept'
    <2>1. \A w \in PayloadOf(mem, b) : m[w] = mem[w]
      BY <1>3
    <2>2. mem' = m /\ bp' = b /\ block_sizes' = block_sizes
      BY <1>4, <1>5
    <2>3. /\ mem \in [WordAddr -> Nat] /\ block_sizes \in [Ids -> Nat]
          /\ call'.index = i /\ call'.size = n
      BY <1>1
    <2> QED
      BY <2>1, <2>2, <2>3, KeptThere
  <1>19. Pending' = {} /\ SearchOK(T)'
    BY <1>5 DEF Pending, SearchOK
  <1>20. HeapOK(T)'
    BY <1>4, <1>5, <1>11, <1>16, <1>17, <1>18, <1>19 DEF HeapOK
  <1> QED
    BY <1>7, <1>8, <1>20, WholeStep

(* A block tagged or not.                                                  *)
LEMMA TagStep ==
  ASSUME IInv, ruined = "nothing", NEW i \in Ids, NEW n \in Sizes, Resizes(i, n),
         NEW S, NEW b, Resized(S, i, n, b), NEW g, g.ruined = "nothing",
         NEW r, r = Tagged(g, b, n),
         HeapBecomes(r), Returns(b), UNCHANGED <<mem_brk, search, client>>,
         NEW T, Whole(g, mem_brk, T), Used(g.mem, mem_brk, T) = Used(mem, mem_brk, S),
         Keeps(mem, g.mem, Used(mem, mem_brk, S) \ {b}),
         \A w \in PayloadOf(mem, b) : w \in PayloadOf(g.mem, b) /\ g.mem[w] = mem[w],
         n + 8 <= SizeOf(g.mem, b), SizeOf(mem, b) <= SizeOf(g.mem, b)
  PROVE  IInv'
  <1>1. PICK m, P, brk : m = g.mem /\ P = Used(mem, mem_brk, S) /\ brk = mem_brk
    OBVIOUS
  <1>2. b \in P \ {heap_listp}
    BY <1>1 DEF Resized
  <1>3. b \in Used(g.mem, brk, T) \ {heap_listp}
    BY <1>1, <1>2
  <1>4. Whole(g, brk, T)
    BY <1>1
  <1>5. Reserved(g, r, brk, T)
    BY <1>3, <1>4, Reserve
  <1>6. PICK k : k = r.mem
    OBVIOUS
  <1>7. /\ Whole(r, brk, T) /\ r.ruined = "nothing" /\ Used(k, brk, T) = P
        /\ Keeps(m, k, P) /\ Used(m, brk, T) = P
    BY <1>1, <1>5, <1>6 DEF Reserved
  <1>8. Keeps(mem, k, P \ {b})
    <2>1. PICK Q : Q = P \ {b}
      OBVIOUS
    <2>2. Keeps(m, k, Q) /\ Keeps(mem, m, Q)
      BY <1>1, <1>7, <2>1 DEF Keeps
    <2> QED
      BY <2>1, <2>2, KeepsTwice
  <1>9. \A w \in PayloadOf(mem, b) : k[w] = mem[w]
    <2>1. \A w \in PayloadOf(m, b) : k[w] = m[w]
      BY <1>2, <1>7 DEF Keeps
    <2> QED
      BY <1>1, <2>1
  <1>10. SizeOf(k, b) = SizeOf(m, b)
    <2>1. m \in [WordAddr -> Nat] /\ k \in [WordAddr -> Nat] /\ Tiles(m, brk, T) /\ Tiles(k, brk, T)
      BY <1>1, <1>4, <1>6, <1>7 DEF Whole, Loose, Heaps
    <2>2. b \in P /\ b \in T
      BY <1>2, <1>7 DEF Used
    <2> QED
      BY <1>7, <2>1, <2>2, SizeKept
  <1>11. /\ Whole(r, mem_brk, T) /\ Used(r.mem, mem_brk, T) = Used(mem, mem_brk, S)
         /\ Keeps(mem, r.mem, Used(mem, mem_brk, S) \ {b})
    BY <1>1, <1>6, <1>7, <1>8
  <1>12. /\ \A w \in PayloadOf(mem, b) : r.mem[w] = mem[w]
         /\ n + 8 <= SizeOf(r.mem, b) /\ SizeOf(mem, b) <= SizeOf(r.mem, b)
    BY <1>1, <1>6, <1>9, <1>10
  <1> QED
    BY <1>7, <1>11, <1>12, InPlace

(* The block is large enough as it is.                                     *)
LEMMA StaysStep ==
  ASSUME IInv, ruined = "nothing", NEW i \in Ids, NEW n \in Sizes, mm_realloc_stays(i, n)
  PROVE  IInv'
  <1>1. PICK b : b = blocks[i]
    OBVIOUS
  <1>2. PICK g, r : g = heap /\ r = Tagged(g, b, n)
    OBVIOUS
  <1>3. /\ Resizes(i, n) /\ Buffer(heap, b, n) >= 0 /\ HeapBecomes(r) /\ Returns(b)
        /\ UNCHANGED <<mem_brk, search, client>>
    BY <1>1, <1>2 DEF mm_realloc_stays
  <1>4. heap.mem = mem /\ heap.ruined = "nothing" /\ mem \in [WordAddr -> Nat]
    BY <1>3, ResizeNow
  <1>5. PICK S : Resized(S, i, n, b)
    BY <1>1, <1>3, ResizeNow
  <1>6. /\ Whole(g, mem_brk, S) /\ Tiles(mem, mem_brk, S) /\ b \in S \ {heap_listp, mem_brk}
        /\ HDRP(b) = b - 4 /\ n \in Nat /\ Wanted(n) \in Nat /\ n + 8 <= Wanted(n)
    BY <1>2, <1>5 DEF Resized
  <1>7. SizeOf(mem, b) \in Nat
    BY <1>4, <1>6, TilesBlock
  <1>8. Buffer(heap, b, n) = SizeOf(mem, b) - Wanted(n)
    BY <1>4, <1>6 DEF Buffer, SizeOf
  <1>9. n + 8 <= SizeOf(mem, b)
    BY <1>3, <1>6, <1>7, <1>8
  <1>10. /\ g.ruined = "nothing" /\ g.mem = mem
    BY <1>2, <1>4
  <1>11. /\ Used(g.mem, mem_brk, S) = Used(mem, mem_brk, S)
         /\ Keeps(mem, g.mem, Used(mem, mem_brk, S) \ {b})
         /\ \A w \in PayloadOf(mem, b) : w \in PayloadOf(g.mem, b) /\ g.mem[w] = mem[w]
         /\ n + 8 <= SizeOf(g.mem, b) /\ SizeOf(mem, b) <= SizeOf(g.mem, b)
    BY <1>7, <1>9, <1>10 DEF Keeps
  <1> QED
    BY <1>2, <1>3, <1>5, <1>6, <1>10, <1>11, TagStep

(* The heap cannot be extended for mm_realloc.                             *)
LEMMA RefusedStep ==
  ASSUME IInv, ruined = "nothing", NEW i \in Ids, NEW n \in Sizes, mm_realloc_refused(i, n)
  PROVE  IInv'
  <1>1. /\ Resizes(i, n) /\ mem_brk' = mem_brk /\ pc' = "returned" /\ bp' = NULL /\ SameHeap
        /\ UNCHANGED <<search, client>>
    BY DEF mm_realloc_refused, NeedsMore, mem_sbrk, Returns
  <1>2. /\ pc = "idle"
        /\ call' \in [op : {"none", "malloc", "realloc"}, index : Ids \cup {0},
                      size : Sizes \cup {0}, asize : Nat]
        /\ call'.index = i
    BY <1>1, ResizeNow
  <1> QED
    BY <1>1, <1>2, NullStep

(* The block behind the one that is resized.                               *)
LEMMA BlockBehind ==
  ASSUME NEW S, NEW i \in Ids, NEW n \in Sizes, NEW b, Resized(S, i, n, b),
         mem \in [WordAddr -> Nat], heap.mem = mem, NEW e, e = NEXT_BLKP(mem, b)
  PROVE  /\ e \in S /\ e = EndOf(mem, b) /\ e <= mem_brk /\ e \in Nat
         /\ SizeOf(mem, b) \in Nat /\ SizeOf(mem, e) \in Nat
         /\ SizeOf(mem, b) % 8 = 0 /\ SizeOf(mem, e) % 8 = 0
         /\ GET_ALLOC(mem, HDRP(e)) = AllocOf(mem, e) /\ GET_SIZE(mem, HDRP(e)) = SizeOf(mem, e)
         /\ Remainder(b, n) = SizeOf(mem, b) + SizeOf(mem, e) - Wanted(n)
         /\ Buffer(heap, b, n) = SizeOf(mem, b) - Wanted(n)
         /\ Joint(mem, b, e) = SizeOf(mem, b) + SizeOf(mem, e)
         /\ AllocOf(mem, e) \in {0, 1}
  <1>1. /\ Tiles(mem, mem_brk, S) /\ b \in S \ {heap_listp, mem_brk} /\ HDRP(b) = b - 4
        /\ Wanted(n) \in Nat
    BY DEF Resized
  <1>2. /\ EndOf(mem, b) \in S /\ EndOf(mem, b) <= mem_brk /\ EndOf(mem, b) \in Nat
        /\ SizeOf(mem, b) \in Nat /\ SizeOf(mem, b) % 8 = 0
    BY <1>1, TilesBlock
  <1>3. e = EndOf(mem, b)
    BY <1>1 DEF NEXT_BLKP, EndOf, SizeOf
  <1>4. e \in Nat /\ e - 4 \in WordAddr
    BY <1>1, <1>2, <1>3, TilesAddrs
  <1>5. SizeOf(mem, e) \in Nat /\ SizeOf(mem, e) % 8 = 0 /\ AllocOf(mem, e) \in {0, 1}
    BY <1>4, TagsMacros
  <1>6. HDRP(e) = e - 4
    BY DEF HDRP, WSIZE
  <1>7. /\ GET_ALLOC(mem, HDRP(e)) = AllocOf(mem, e) /\ GET_SIZE(mem, HDRP(e)) = SizeOf(mem, e)
        /\ GET_SIZE(mem, HDRP(b)) = SizeOf(mem, b)
    BY <1>1, <1>6 DEF AllocOf, SizeOf
  <1>8. Buffer(heap, b, n) = SizeOf(mem, b) - Wanted(n)
    BY <1>7 DEF Buffer
  <1>9. Remainder(b, n) = SizeOf(mem, b) + SizeOf(mem, e) - Wanted(n)
    BY <1>1, <1>2, <1>5, <1>7, <1>8 DEF Remainder
  <1>10. Joint(mem, b, e) = SizeOf(mem, b) + SizeOf(mem, e)
    BY <1>7 DEF Joint
  <1> QED
    BY <1>2, <1>3, <1>4, <1>5, <1>7, <1>8, <1>9, <1>10

(* mm_realloc takes the block behind.                                      *)
LEMMA AbsorbsStep ==
  ASSUME IInv, ruined = "nothing", NEW i \in Ids, NEW n \in Sizes, mm_realloc_absorbs(i, n)
  PROVE  IInv'
  <1>1. PICK b : b = blocks[i]
    OBVIOUS
  <1>2. PICK z : z = Wanted(n) + Remainder(b, n)
    OBVIOUS
  <1>3. PICK g, r : g = Absorbed(heap, b, z) /\ r = Tagged(g, b, n)
    OBVIOUS
  <1>4. /\ Resizes(i, n) /\ Buffer(heap, b, n) < 0 /\ NextIsOpen(b) /\ Remainder(b, n) >= 0
        /\ HeapBecomes(r) /\ Returns(b) /\ UNCHANGED <<mem_brk, search, client>>
    BY <1>1, <1>2, <1>3 DEF mm_realloc_absorbs
  <1>5. heap.mem = mem /\ heap.ruined = "nothing" /\ mem \in [WordAddr -> Nat]
    BY <1>4, ResizeNow
  <1>6. PICK S : Resized(S, i, n, b)
    BY <1>1, <1>4, ResizeNow
  <1>7. /\ Whole(heap, mem_brk, S) /\ b \in Used(mem, mem_brk, S) \ {heap_listp}
        /\ n \in Nat /\ Wanted(n) \in Nat /\ n + 8 <= Wanted(n)
    BY <1>6 DEF Resized
  <1>8. PICK e : e = NEXT_BLKP(mem, b)
    OBVIOUS
  <1>9. /\ SizeOf(mem, b) \in Nat /\ SizeOf(mem, e) \in Nat
        /\ GET_ALLOC(mem, HDRP(e)) = AllocOf(mem, e) /\ GET_SIZE(mem, HDRP(e)) = SizeOf(mem, e)
        /\ Remainder(b, n) = SizeOf(mem, b) + SizeOf(mem, e) - Wanted(n)
        /\ Buffer(heap, b, n) = SizeOf(mem, b) - Wanted(n)
        /\ Joint(mem, b, e) = SizeOf(mem, b) + SizeOf(mem, e)
    BY <1>5, <1>6, <1>8, BlockBehind
  <1>10. GET_ALLOC(mem, HDRP(e)) = 0
    <2>1. GET_SIZE(mem, HDRP(e)) # 0
      BY <1>4, <1>7, <1>9
    <2> QED
      BY <1>4, <1>8, <2>1 DEF NextIsOpen
  <1>11. z = Joint(mem, b, e) /\ z >= Wanted(n) /\ z >= SizeOf(mem, b) /\ z \in Nat
    BY <1>2, <1>4, <1>7, <1>9
  <1>12. /\ g.ruined = heap.ruined /\ SizeOf(g.mem, b) = z
         /\ \E T : Absorbs(heap, g, mem_brk, S, T, b)
    <2>1. PICK h, brk : h = heap /\ brk = mem_brk
      OBVIOUS
    <2>2. Whole(h, brk, S) /\ b \in Used(h.mem, brk, S) \ {heap_listp}
      BY <1>5, <1>7, <2>1
    <2>3. e = NEXT_BLKP(h.mem, b) /\ GET_ALLOC(h.mem, HDRP(e)) = 0
      BY <1>5, <1>8, <1>10, <2>1
    <2>4. z = Joint(h.mem, b, e) /\ g = Absorbed(h, b, z)
      BY <1>3, <1>5, <1>11, <2>1
    <2>5. /\ g.ruined = h.ruined /\ SizeOf(g.mem, b) = z
          /\ \E T : Absorbs(h, g, brk, S, T, b)
      BY <2>2, <2>3, <2>4, Absorb
    <2> QED
      BY <2>1, <2>5
  <1>13. PICK T : Absorbs(heap, g, mem_brk, S, T, b)
    BY <1>12
  <1>14. /\ Whole(g, mem_brk, T) /\ Used(g.mem, mem_brk, T) = Used(mem, mem_brk, S)
         /\ Keeps(mem, g.mem, Used(mem, mem_brk, S) \ {b})
         /\ \A w \in PayloadOf(mem, b) : w \in PayloadOf(g.mem, b) /\ g.mem[w] = mem[w]
    BY <1>5, <1>13 DEF Absorbs
  <1>15. n + 8 <= SizeOf(g.mem, b) /\ SizeOf(mem, b) <= SizeOf(g.mem, b)
    BY <1>7, <1>9, <1>11, <1>12
  <1>16. g.ruined = "nothing"
    BY <1>5, <1>12
  <1> QED
    BY <1>3, <1>4, <1>6, <1>14, <1>15, <1>16, TagStep

(* Whatever is written, words are written.                                 *)
LEMMA AnyPut ==
  ASSUME NEW m \in [WordAddr -> Nat], NEW b, NEW v \in Nat
  PROVE  PutBothNoTag(m, b, v) \in [WordAddr -> Nat]
  <1>1. ASSUME NEW k \in [WordAddr -> Nat], NEW a
        PROVE  PUT_NOTAG(k, a, v) \in [WordAddr -> Nat]
    BY DEF PUT_NOTAG
  <1> QED
    BY <1>1 DEF PutBothNoTag

(* Tagging keeps a heap a heap.                                            *)
LEMMA AnyTag ==
  ASSUME NEW g \in Heaps, NEW b, NEW n
  PROVE  Tagged(g, b, n) \in Heaps /\ Tagged(g, b, n).ruined = g.ruined
  <1>1. PICK m \in [WordAddr -> Nat] : m = g.mem
    BY DEF Heaps
  <1>2. ASSUME NEW a PROVE SET_TAG(m, a) \in [WordAddr -> Nat]
    <2>1. CASE a \in WordAddr
      <3>1. m[a] \in Nat /\ GET_TAG(m, a) = 2 * ((m[a] \div 2) % 2)
        BY <2>1 DEF GET_TAG
      <3>2. m[a] - GET_TAG(m, a) + 2 \in Nat
        BY <3>1
      <3> QED
        BY <3>2 DEF SET_TAG
    <2>2. CASE a \notin WordAddr
      BY <2>2 DEF SET_TAG
    <2> QED
      BY <2>1, <2>2
  <1>3. [g EXCEPT !.mem = SET_TAG(m, HDRP(NEXT_BLKP(m, b)))] \in Heaps
    BY <1>2 DEF Heaps
  <1> QED
    BY <1>1, <1>3 DEF Tagged, Heaps

(* What is behind a block in use, and not in use, is free when the heap    *)
(* has grown.                                                              *)
LEMMA OpenBehind ==
  ASSUME NEW m \in [WordAddr -> Nat], NEW k \in [WordAddr -> Nat], NEW brk, NEW S, NEW z,
         NEW T, Tiles(m, brk, S), Tiles(k, z, T), brk < z,
         NEW b, b \in Used(m, brk, S), Used(k, z, T) = Used(m, brk, S),
         Keeps(m, k, Used(m, brk, S)), NEW e, e = EndOf(m, b), e \notin Used(m, brk, S)
  PROVE  NEXT_BLKP(k, b) = e /\ e \in FreeOf(k, z, T)
  <1>1. EndOf(k, b) = e
    BY DEF Keeps
  <1>2. b \in T \ {z} /\ b \in S \ {brk}
    BY DEF Used
  <1>3. e \in T
    BY <1>1, <1>2, TilesBlock
  <1>4. e \in Nat /\ e - 4 \in WordAddr
    BY <1>3, TilesAddrs
  <1>5. e <= brk
    BY <1>2, TilesBlock
  <1>6. e # z
    <2>1. brk \in Nat /\ z \in Nat
      BY TilesAddrs
    <2> QED
      BY <1>4, <1>5, <2>1
  <1>7. AllocOf(k, e) \in {0, 1} /\ AllocOf(k, e) # 1
    <2>1. AllocOf(k, e) \in {0, 1}
      BY <1>4, TagsMacros
    <2>2. e \notin Used(k, z, T)
      OBVIOUS
    <2> QED
      BY <1>3, <1>6, <2>1, <2>2 DEF Used
  <1>8. NEXT_BLKP(k, b) = EndOf(k, b)
    <2>1. HDRP(b) = b - 4
      BY DEF HDRP, WSIZE
    <2> QED
      BY <2>1 DEF NEXT_BLKP, EndOf, SizeOf
  <1> QED
    BY <1>1, <1>3, <1>6, <1>7, <1>8 DEF FreeOf

(* Taking the block behind keeps a heap a heap, whatever size is written.  *)
LEMMA AnyAbsorb ==
  ASSUME NEW g, NEW z, NEW T, Whole(g, z, T), NEW b, NEW e, e = NEXT_BLKP(g.mem, b),
         e \in FreeOf(g.mem, z, T), NEW k, k + 1 \in Nat, NEW r, r = Absorbed(g, b, k)
  PROVE  r \in Heaps
  <1>1. PICK F : F = FreeOf(g.mem, z, T)
    OBVIOUS
  <1>2. g \in Heaps /\ ListsHold(g.mem, g.lists, F) /\ e \in F
    BY <1>1 DEF Whole, Loose
  <1>3. Spaced(F)
    BY <1>1, FreeSpaced DEF Whole, Loose, Heaps
  <1>4. PICK d : d = delete_block(g, e)
    OBVIOUS
  <1>5. d \in Heaps
    BY <1>2, <1>3, <1>4, Delete
  <1>6. d.mem \in [WordAddr -> Nat] /\ PACK(k, 1) \in Nat
    BY <1>5 DEF Heaps, PACK
  <1>7. PutBothNoTag(d.mem, b, PACK(k, 1)) \in [WordAddr -> Nat]
    BY <1>6, AnyPut
  <1>8. r = [d EXCEPT !.mem = PutBothNoTag(d.mem, b, PACK(k, 1))]
    BY <1>4 DEF Absorbed
  <1> QED
    BY <1>5, <1>7, <1>8 DEF Heaps

(* Header, footer and tag of a block that ends no sooner than e leave what *)
(* is in front of its old footer alone.                                    *)
LEMMA GrownWrites ==
  ASSUME NEW d \in Heaps, NEW b \in Nat, b - 4 \in WordAddr,
         NEW t \in Nat, t % 8 = 0, NEW e \in Nat, e <= b + t, NEW m, m = d.mem,
         NEW r, r = [d EXCEPT !.mem = PutBothNoTag(m, b, PACK(t, 1))], NEW n,
         NEW w \in WordAddr, b <= w, w < e - 8
  PROVE  Tagged(r, b, n).mem[w] = m[w]
  <1>1. m \in [WordAddr -> Nat] /\ w \in Nat
    <2>1. m \in [WordAddr -> Nat]
      BY DEF Heaps
    <2>2. \A x \in WordAddr : x \in Nat
      BY Numbers DEF WordAddr
    <2> QED
      BY <2>1, <2>2
  <1>2. PICK v : v = PACK(t, 1)
    OBVIOUS
  <1>3. v \in Nat /\ v - (v % 8) = t
    <2>1. PackedWord(PACK(t, 1) + 0, t, 1, 0)
      BY PackArith
    <2>2. PACK(t, 1) + 0 = v
      BY <1>2 DEF PACK
    <2> QED
      BY <2>1, <2>2 DEF PackedWord
  <1>4. PICK k : k = [m EXCEPT ![b - 4] = v]
    OBVIOUS
  <1>5. k \in [WordAddr -> Nat] /\ k[b - 4] = v /\ (w # b - 4 => k[w] = m[w])
    BY <1>1, <1>3, <1>4
  <1>6. HDRP(b) = b - 4 /\ PUT_NOTAG(m, HDRP(b), v) = k
    BY <1>4 DEF HDRP, WSIZE, PUT_NOTAG
  <1>7. FTRP(k, b) = b + t - 8
    BY <1>3, <1>5, <1>6 DEF FTRP, GET_SIZE, DSIZE
  <1>8. PICK u : u = [k EXCEPT ![b + t - 8] = v]
    OBVIOUS
  <1>9. PutBothNoTag(m, b, v) = u
    BY <1>6, <1>7, <1>8 DEF PutBothNoTag, PUT_NOTAG
  <1>10. b - 4 # b + t - 8 /\ w # b - 4 /\ w # b + t - 8 /\ w # b + t - 4
    <2>1. t # 4
      OBVIOUS
    <2> QED
      BY <1>1, <2>1
  <1>11. u[b - 4] = v /\ u[w] = m[w]
    BY <1>5, <1>8, <1>10
  <1>12. HDRP(NEXT_BLKP(u, b)) = b + t - 4
    <2>1. NEXT_BLKP(u, b) = b + t
      BY <1>3, <1>6, <1>11 DEF NEXT_BLKP, GET_SIZE
    <2> QED
      BY <2>1 DEF HDRP, WSIZE
  <1>13. SET_TAG(u, b + t - 4)[w] = u[w]
    <2>1. u \in [WordAddr -> Nat]
      BY <1>3, <1>5, <1>8
    <2> QED
      BY <1>10, <2>1 DEF SET_TAG
  <1>14. r.mem = u
    BY <1>2, <1>9 DEF Heaps
  <1>15. Tagged(r, b, n).mem \in {u, SET_TAG(u, b + t - 4)}
    <2>1. r \in [mem : {u}, lists : {d.lists}, ruined : {d.ruined}]
      BY <1>2, <1>9 DEF Heaps
    <2> QED
      BY <1>12, <1>14, <2>1 DEF Tagged
  <1> QED
    BY <1>11, <1>13, <1>15

(* How much mm_realloc extends the heap by.                                *)
LEMMA MissingAmount ==
  ASSUME NEW S, NEW i \in Ids, NEW n \in Sizes, NEW b, Resized(S, i, n, b),
         mem \in [WordAddr -> Nat], heap.mem = mem, Remainder(b, n) < 0
  PROVE  /\ Missing(b, n) \in Nat /\ Missing(b, n) % 8 = 0 /\ Missing(b, n) >= 16
         /\ mem_max_addr + 4 * Missing(b, n) < WORD_MOD
         /\ ExtendSize(Missing(b, n)) = 4 * Missing(b, n)
         /\ Wanted(n) + Remainder(b, n) \in Nat
  <1>1. PICK e : e = NEXT_BLKP(mem, b)
    OBVIOUS
  <1>2. PICK x, y, w, q : x = SizeOf(mem, b) /\ y = SizeOf(mem, e) /\ w = Wanted(n)
                          /\ q = Remainder(b, n)
    OBVIOUS
  <1>3. x \in Nat /\ y \in Nat /\ x % 8 = 0 /\ y % 8 = 0 /\ q = x + y - w
    BY <1>1, <1>2, BlockBehind
  <1>4. w \in Nat /\ w % 8 = 0 /\ mem_max_addr + 4 * w < WORD_MOD
    BY <1>2 DEF Resized
  <1>5. mem_max_addr + 4 * CHUNKSIZE < WORD_MOD
    BY RequestAssumption DEF RequestAssumption
  <1>6. PICK k : k = Missing(b, n)
    OBVIOUS
  <1>7. k = IF -q > CHUNKSIZE THEN -q ELSE CHUNKSIZE
    BY <1>2, <1>6 DEF Missing
  <1>8. -q \in Nat /\ (-q) % 8 = 0 /\ -q <= w
    BY <1>2, <1>3, <1>4
  <1>9. k \in Nat /\ k % 8 = 0 /\ k >= 16 /\ mem_max_addr + 4 * k < WORD_MOD
    <2>1. CASE -q > CHUNKSIZE
      BY <1>4, <1>7, <1>8, <2>1, Numbers
    <2>2. CASE ~(-q > CHUNKSIZE)
      BY <1>5, <1>7, <2>2, Numbers
    <2> QED
      BY <2>1, <2>2
  <1>10. ExtendSize(k) = 4 * k
    BY <1>9, EvenWords
  <1>11. w + q \in Nat
    BY <1>3, <1>4
  <1> QED
    BY <1>2, <1>6, <1>9, <1>10, <1>11

(* mm_realloc extends the heap, by four times what it needs, and ruins it. *)
LEMMA ExtendsStep ==
  ASSUME IInv, ruined = "nothing", NEW i \in Ids, NEW n \in Sizes, mm_realloc_extends(i, n)
  PROVE  IInv'
  <1>1. PICK b : b = blocks[i]
    OBVIOUS
  <1>2. PICK k : k = Missing(b, n)
    OBVIOUS
  <1>3. PICK x : x = extend_heap(heap, mem_brk, k)
    OBVIOUS
  <1>4. PICK g, total : g = x.heap /\ total = Wanted(n) + Remainder(b, n) + k
    OBVIOUS
  <1>5. PICK r : r = IF g.ruined # "nothing" THEN g
                     ELSE [Tagged(Absorbed(g, b, total), b, n) EXCEPT !.ruined = "words"]
    OBVIOUS
  <1>6. /\ Resizes(i, n) /\ NextIsOpen(b) /\ Remainder(b, n) < 0
        /\ SbrkSucceeds(mem_brk, Increment(k)) /\ mem_sbrk(Increment(k))
        /\ HeapBecomes(r) /\ Returns(b) /\ UNCHANGED <<search, client>>
    BY <1>1, <1>2, <1>3, <1>4, <1>5 DEF mm_realloc_extends, NeedsMore
  <1>7. /\ TypeOK /\ CallOK /\ heap \in Heaps /\ heap.mem = mem
        /\ heap.ruined = "nothing" /\ mem \in [WordAddr -> Nat]
        /\ mem_brk \in mem_start_brk .. mem_max_addr /\ mem_brk \in Nat
        /\ call' \in [op : {"none", "malloc", "realloc"}, index : Ids \cup {0},
                       size : Sizes \cup {0}, asize : Nat]
        /\ call'.index = i /\ call'.size = n
    BY <1>6, ResizeNow
  <1>8. PICK S : Resized(S, i, n, b)
    BY <1>1, <1>6, ResizeNow
  <1>9. /\ Whole(heap, mem_brk, S) /\ b \in Used(mem, mem_brk, S) /\ Tiles(mem, mem_brk, S)
        /\ b # NULL /\ b \in BlockPtrs /\ n > 0
    BY <1>8 DEF Resized
  <1>10. /\ k \in Nat /\ k % 8 = 0 /\ k >= 16 /\ mem_max_addr + 4 * k < WORD_MOD
         /\ ExtendSize(k) = 4 * k /\ Wanted(n) + Remainder(b, n) \in Nat
    BY <1>2, <1>6, <1>7, <1>8, MissingAmount
  <1>11. PICK y, z : y = 4 * k /\ z = mem_brk + y
    OBVIOUS
  <1>12. y \in Nat /\ y % 8 = 0 /\ y >= 16 /\ mem_max_addr + y < WORD_MOD /\ y = ExtendSize(k)
         /\ Increment(k) = ToInt(y)
    BY <1>10, <1>11 DEF Increment
  <1>13. /\ mem_brk' = z /\ z <= mem_max_addr /\ z \in mem_start_brk .. mem_max_addr
         /\ mem_brk < z
    <2>1. MovedBrk(mem_brk, ToInt(y)) = mem_brk + y /\ mem_brk + y <= mem_max_addr
      BY <1>6, <1>7, <1>12, GrowsBy
    <2> QED
      BY <1>6, <1>7, <1>11, <1>12, <2>1, Numbers DEF mem_sbrk
  <1>14. /\ x.heap \in Heaps
         /\ \/ x.heap.ruined = "tag"
            \/ /\ x.heap.ruined = heap.ruined
               /\ \E T : Extended(heap, x.heap, mem_brk, S, z, T, y, x.bp)
    BY <1>3, <1>9, <1>11, <1>12, <1>13, Extend
  <1>15. /\ r \in Heaps /\ r.ruined # "nothing"
         /\ r.ruined # "words" \/ \A w \in PayloadOf(mem, b) : r.mem[w] = mem[w]
    <2>1. CASE g.ruined # "nothing"
      BY <1>4, <1>5, <1>7, <1>14, <2>1
    <2>2. CASE g.ruined = "nothing"
      <3>1. PICK T : Extended(heap, g, mem_brk, S, z, T, y, x.bp)
        BY <1>4, <1>14, <2>2
      <3>2. PICK m \in [WordAddr -> Nat] : m = g.mem
        BY <1>4, <1>14 DEF Heaps
      <3>3. /\ Whole(g, z, T) /\ Used(m, z, T) = Used(mem, mem_brk, S)
            /\ Keeps(mem, m, Used(mem, mem_brk, S))
        BY <1>7, <3>1, <3>2 DEF Extended
      <3>4. Tiles(m, z, T)
        BY <3>2, <3>3 DEF Whole, Loose
      <3>5. PICK e : e = EndOf(mem, b)
        OBVIOUS
      <3>6. e \notin Used(mem, mem_brk, S)
        <4>1. PICK f : f = NEXT_BLKP(mem, b)
          OBVIOUS
        <4>2. /\ f = e /\ GET_ALLOC(mem, HDRP(f)) = AllocOf(mem, e)
              /\ GET_SIZE(mem, HDRP(f)) = SizeOf(mem, e) /\ e \in S
              /\ e \in Nat /\ SizeOf(mem, e) \in Nat
          BY <1>7, <1>8, <3>5, <4>1, BlockBehind
        <4>3. AllocOf(mem, e) = 0 \/ SizeOf(mem, e) = 0
          BY <1>6, <4>1, <4>2 DEF NextIsOpen
        <4>4. SizeOf(mem, e) # 0 \/ e \notin S \ {mem_brk}
          <5>1. SUFFICES ASSUME e \in S \ {mem_brk}, SizeOf(mem, e) = 0 PROVE FALSE
            OBVIOUS
          <5>2. EndOf(mem, e) = e + SizeOf(mem, e) /\ EndOf(mem, e) >= e + 8
            BY <1>7, <1>9, <5>1, TilesBlock
          <5> QED
            BY <4>2, <5>1, <5>2
        <4> QED
          BY <4>3, <4>4 DEF Used
      <3>7. NEXT_BLKP(m, b) = e /\ e \in FreeOf(m, z, T)
        BY <1>7, <1>9, <1>13, <3>3, <3>4, <3>5, <3>6, OpenBehind
      <3>8. PICK a : a = Absorbed(g, b, total)
        OBVIOUS
      <3>9. a \in Heaps
        <4>1. total + 1 \in Nat
          BY <1>4, <1>10
        <4>2. e = NEXT_BLKP(g.mem, b) /\ e \in FreeOf(g.mem, z, T)
          BY <3>2, <3>7
        <4> QED
          BY <3>3, <3>8, <4>1, <4>2, AnyAbsorb
      <3>10. Tagged(a, b, n) \in Heaps
        BY <3>9, AnyTag
      <3>11. r = [Tagged(a, b, n) EXCEPT !.ruined = "words"]
        BY <1>5, <2>2, <3>8
      <3>12. r \in Heaps /\ r.ruined = "words" /\ r.mem = Tagged(a, b, n).mem
        BY <3>10, <3>11 DEF Heaps
      <3>13. PICK d : d = delete_block(g, e)
        OBVIOUS
      <3>14. d \in Heaps /\ Keeps(m, d.mem, Used(m, z, T))
        <4>1. PICK F, G : F = FreeOf(g.mem, z, T) /\ G = F \ {e}
          OBVIOUS
        <4>2. Loose(g, z, T, F) /\ e \in F
          BY <3>2, <3>3, <3>7, <4>1 DEF Whole
        <4>3. Loose(d, z, T, G) /\ Unmoved(g.mem, d.mem, z, T)
          BY <3>13, <4>1, <4>2, Unlink
        <4> QED
          BY <3>2, <4>3 DEF Loose, Unmoved
      <3>15. \A w \in PayloadOf(mem, b) : d.mem[w] = mem[w]
        <4>1. PICK P : P = Used(mem, mem_brk, S)
          OBVIOUS
        <4>2. Keeps(mem, m, P) /\ Keeps(m, d.mem, P)
          BY <3>3, <3>14, <4>1
        <4>3. Keeps(mem, d.mem, P)
          BY <4>2, KeepsTwice
        <4> QED
          BY <1>9, <4>1, <4>3 DEF Keeps
      <3>16. a = [d EXCEPT !.mem = PutBothNoTag(d.mem, b, PACK(total, 1))]
        BY <3>2, <3>7, <3>8, <3>13 DEF Absorbed
      <3>17. /\ b \in Nat /\ b - 4 \in WordAddr /\ e \in Nat
             /\ total \in Nat /\ total % 8 = 0 /\ e <= b + total
        <4>1. PICK f, p, q : f = NEXT_BLKP(mem, b) /\ p = SizeOf(mem, b) /\ q = SizeOf(mem, f)
          OBVIOUS
        <4>2. /\ e \in Nat /\ p \in Nat /\ q \in Nat /\ p % 8 = 0 /\ q % 8 = 0
              /\ Remainder(b, n) = p + q - Wanted(n)
          BY <1>7, <1>8, <3>5, <4>1, BlockBehind
        <4>3. b \in Nat /\ b - 4 \in WordAddr
          <5>1. b \in S
            BY <1>9 DEF Used
          <5> QED
            BY <1>7, <1>9, <5>1, TilesAddrs
        <4>4. Wanted(n) \in Nat
          BY <1>8 DEF Resized
        <4>5. total = p + q + k
          BY <1>4, <1>10, <4>2, <4>4
        <4>6. e = b + p
          BY <3>5, <4>1 DEF EndOf
        <4> QED
          BY <1>10, <4>2, <4>3, <4>5, <4>6
      <3>18. ASSUME NEW w \in PayloadOf(mem, b) PROVE r.mem[w] = mem[w]
        <4>1. w \in WordAddr /\ b <= w /\ w < e - 8
          BY <3>5 DEF PayloadOf
        <4>2. Tagged(a, b, n).mem[w] = d.mem[w]
          BY <3>14, <3>16, <3>17, <4>1, GrownWrites
        <4> QED
          BY <3>12, <3>15, <4>2
      <3> QED
        BY <3>12, <3>18
    <2> QED
      BY <2>1, <2>2
  <1>16. /\ ruined' # "nothing" /\ mem' \in [WordAddr -> Nat]
         /\ sgrlists' \in [0 .. LISTS - 1 -> {NULL} \cup BlockPtrs]
         /\ ruined' \in {"nothing", "tag", "words", "NULL"}
    <2>1. ruined' = r.ruined /\ mem' \in [WordAddr -> Nat]
          /\ sgrlists' \in [0 .. LISTS - 1 -> {NULL} \cup BlockPtrs]
          /\ ruined' \in {"nothing", "tag", "words", "NULL"}
      BY <1>6, <1>15, HeapTypes
    <2> QED
      BY <1>15, <2>1
  <1>17. /\ pc' = "returned" /\ bp' = b /\ blocks' = blocks
         /\ block_sizes' = block_sizes /\ list' = list /\ size' = size
    BY <1>6 DEF Returns, search, client
  <1>18. TypeOK'
    BY <1>7, <1>9, <1>13, <1>16, <1>17 DEF TypeOK
  <1>19. CallOK'
    BY <1>7, <1>9, <1>17 DEF CallOK
  <1>20. ruined' # "words" \/ Kept'
    <2>1. SUFFICES ASSUME ruined' = "words" PROVE Kept'
      OBVIOUS
    <2>2. ruined' = r.ruined /\ mem' = r.mem
      BY <1>6, <1>15, HeapTypes
    <2>3. \A w \in PayloadOf(mem, b) : r.mem[w] = mem[w]
      BY <1>15, <2>1, <2>2
    <2>4. block_sizes \in [Ids -> Nat]
      BY <1>6, ResizeNow
    <2> QED
      BY <1>7, <1>8, <1>17, <2>2, <2>3, <2>4, KeptThere
  <1> QED
    BY <1>16, <1>18, <1>19, <1>20, RuinedStep

-----------------------------------------------------------------------------
(* The client.                                                             *)

(* The client, or memmove, writes into a payload.                          *)
LEMMA WriteWhole ==
  ASSUME NEW h, NEW brk, NEW S, Whole(h, brk, S),
         NEW m, m = h.mem, NEW n, n \in [WordAddr -> Nat],
         NEW p, p \in Used(m, brk, S), OnlyAt(m, n, PayloadOf(m, p)),
         NEW g, g = WithMem(h, n)
  PROVE  /\ Whole(g, brk, S) /\ g.mem = n /\ g.ruined = h.ruined /\ g.lists = h.lists
         /\ Wrote(m, n, brk, S, p)
  <1>1. PICK F : F = FreeOf(m, brk, S)
    OBVIOUS
  <1>2. Loose(h, brk, S, F)
    BY <1>1 DEF Whole
  <1>3. Loose(g, brk, S, F) /\ g.mem = n /\ g.ruined = h.ruined /\ Wrote(m, n, brk, S, p)
    BY <1>2, Write
  <1>4. g.lists = h.lists
    BY <1>2 DEF WithMem, Loose, Heaps
  <1>5. FreeOf(g.mem, brk, S) = F
    BY <1>1, <1>3 DEF Wrote
  <1> QED
    BY <1>3, <1>4, <1>5 DEF Whole

(* A free takes a block from the client.                                   *)
LEMMA FreeStep ==
  ASSUME IInv, NEW i \in Ids, client_free(i)
  PROVE  IInv'
  <1>1. PICK b : b = blocks[i]
    OBVIOUS
  <1>2. PICK r : r = mm_free(heap, b)
    OBVIOUS
  <1>3. /\ pc = "idle" /\ ruined = "nothing" /\ b # NULL /\ HeapBecomes(r)
        /\ blocks' = [blocks EXCEPT ![i] = NULL]
        /\ block_sizes' = [block_sizes EXCEPT ![i] = 0]
        /\ mem_brk' = mem_brk /\ pc' = pc /\ call' = call /\ list' = list /\ size' = size
        /\ bp' = bp
    BY <1>1, <1>2 DEF client_free, search
  <1>4. /\ TypeOK /\ CallOK /\ heap \in Heaps /\ heap.mem = mem
        /\ heap.ruined = "nothing" /\ mem \in [WordAddr -> Nat]
        /\ blocks \in [Ids -> {NULL} \cup BlockPtrs]
        /\ block_sizes \in [Ids -> Sizes \cup {0}] /\ block_sizes \in [Ids -> Nat]
    BY <1>3, SoundNow
  <1>5. PICK S \in SUBSET BlockPtrs : HeapOK(S)
    BY <1>3 DEF IInv, Sound
  <1>6. Whole(heap, mem_brk, S) /\ Tiles(mem, mem_brk, S)
    BY <1>4, <1>5 DEF HeapOK, Whole, Loose
  <1>7. /\ Pointers = blocks /\ Asked = block_sizes /\ \A j \in Ids : ~HandedOver(j)
        /\ Pending = {} /\ Pending' = {}
    BY <1>3, <1>4, HeldNow DEF Pending
  <1>8. /\ Owners(mem, mem_brk, S, blocks, block_sizes, {})
        /\ Filled(mem, blocks, block_sizes, Ids)
    BY <1>5, <1>7 DEF HeapOK, Filled
  <1>9. b \in Used(mem, mem_brk, S) \ {heap_listp}
    BY <1>1, <1>3, <1>4, <1>6, <1>8, OwnedBlock
  <1>10. /\ r \in Heaps
         /\ \/ r.ruined = "tag"
            \/ r.ruined = "nothing" /\ \E T : Freed(heap, r, mem_brk, S, T, b)
    <2>1. PICK h, brk : h = heap /\ brk = mem_brk
      OBVIOUS
    <2>2. Whole(h, brk, S) /\ b \in Used(h.mem, brk, S) \ {heap_listp} /\ r = mm_free(h, b)
      BY <1>2, <1>4, <1>6, <1>9, <2>1
    <2>3. /\ r \in Heaps
          /\ r.ruined = "tag" \/ (r.ruined = h.ruined /\ \E T : Freed(h, r, brk, S, T, b))
      BY <2>2, Free
    <2> QED
      BY <1>4, <2>1, <2>3
  <1>11. PICK n : n = r.mem
    OBVIOUS
  <1>12. /\ heap' = r /\ mem' = n /\ ruined' = r.ruined
         /\ n \in [WordAddr -> Nat]
         /\ sgrlists' \in [0 .. LISTS - 1 -> {NULL} \cup BlockPtrs]
         /\ ruined' \in {"nothing", "tag", "words", "NULL"}
    BY <1>3, <1>10, <1>11, HeapTypes
  <1>13. /\ blocks' \in [Ids -> {NULL} \cup BlockPtrs]
         /\ block_sizes' \in [Ids -> Sizes \cup {0}]
    BY <1>3, <1>4
  <1>14. TypeOK'
    BY <1>3, <1>4, <1>12, <1>13 DEF TypeOK
  <1>15. CallOK'
    BY <1>3, <1>4 DEF CallOK
  <1>16. CASE r.ruined = "tag"
    BY <1>12, <1>14, <1>15, <1>16, RuinedStep
  <1>17. CASE r.ruined # "tag"
    <2>1. PICK T : Freed(heap, r, mem_brk, S, T, b)
      BY <1>10, <1>17
    <2>2. /\ Whole(r, mem_brk, T) /\ Tiles(n, mem_brk, T)
          /\ Used(n, mem_brk, T) = Used(mem, mem_brk, S) \ {b}
          /\ Keeps(mem, n, Used(mem, mem_brk, S) \ {b})
      BY <1>4, <1>11, <2>1 DEF Freed, Whole, Loose
    <2>3. DOMAIN blocks = Ids /\ DOMAIN block_sizes = Ids
      BY <1>4
    <2>4. Owners(n, mem_brk, T, blocks', block_sizes', {})
      <3>1. PICK P : P = Used(mem, mem_brk, S) \ {b}
        OBVIOUS
      <3>2. Used(n, mem_brk, T) = P /\ Keeps(mem, n, P)
        BY <2>2, <3>1
      <3> QED
        BY <1>1, <1>3, <1>4, <1>6, <1>8, <1>12, <2>2, <2>3, <3>1, <3>2, OwnersDrop
    <2>5. Filled(n, blocks', block_sizes', Ids)
      <3>1. PICK I, P : I = Ids \ {i} /\ P = Used(mem, mem_brk, S) \ {b}
        OBVIOUS
      <3>2. I \subseteq Ids /\ i \notin I /\ Keeps(mem, n, P)
        BY <2>2, <3>1
      <3>3. \A j \in I : blocks[j] # NULL => blocks[j] \in P
        BY <1>1, <1>8, <3>1 DEF Owners
      <3>4. Filled(mem, blocks, block_sizes, I)
        BY <1>8, <3>2, FilledLess
      <3>5. Filled(n, blocks, block_sizes, I)
        BY <1>4, <1>6, <1>8, <3>2, <3>3, <3>4, FilledKeep
      <3>6. Filled(n, blocks', block_sizes', I)
        BY <1>3, <2>3, <3>2, <3>5, FilledElse
      <3>7. blocks'[i] = NULL
        BY <1>3, <1>4
      <3> QED
        BY <3>1, <3>6, <3>7 DEF Filled
    <2>6. Pointers' = blocks' /\ Asked' = block_sizes' /\ \A j \in Ids : ~HandedOver(j)'
      BY <1>3, <1>13, HeldThen
    <2>7. Filled(n, blocks', block_sizes', {j \in Ids : ~HandedOver(j)'})
      BY <2>5 DEF Filled
    <2>8. SearchOK(T)'
      BY <1>3 DEF SearchOK
    <2>9. HeapOK(T)'
      BY <1>3, <1>7, <1>12, <2>2, <2>4, <2>6, <2>7, <2>8 DEF HeapOK
    <2> QED
      BY <1>14, <1>15, <2>9, WholeStep
  <1> QED
    BY <1>16, <1>17

(* The client fills what it is handed.                                     *)
LEMMA FillStep == ASSUME IInv, fill PROVE IInv'
  <1>1. PICK i, k, v : i = call.index /\ k = call.size /\ v = FillWord(i)
    OBVIOUS
  <1>2. PICK n : n = memset(mem, bp, v, k)
    OBVIOUS
  <1>3. /\ pc = "returned" /\ bp # NULL /\ ruined = "nothing" /\ mem' = n
        /\ blocks' = [blocks EXCEPT ![i] = bp]
        /\ block_sizes' = [block_sizes EXCEPT ![i] = k]
        /\ pc' = "idle" /\ call' = NoCall /\ bp' = NULL /\ list' = 0 /\ size' = 0
        /\ mem_brk' = mem_brk /\ sgrlists' = sgrlists /\ ruined' = ruined
    BY <1>1, <1>2 DEF fill
  <1>4. /\ TypeOK /\ CallOK /\ heap \in Heaps /\ heap.mem = mem /\ heap.lists = sgrlists
        /\ heap.ruined = "nothing" /\ mem \in [WordAddr -> Nat]
        /\ blocks \in [Ids -> {NULL} \cup BlockPtrs]
        /\ block_sizes \in [Ids -> Sizes \cup {0}] /\ block_sizes \in [Ids -> Nat]
    BY <1>3, SoundNow
  <1>5. PICK S \in SUBSET BlockPtrs : HeapOK(S)
    BY <1>3 DEF IInv, Sound
  <1>6. Whole(heap, mem_brk, S) /\ Tiles(mem, mem_brk, S)
    BY <1>4, <1>5 DEF HeapOK, Whole, Loose
  <1>7. i \in Ids /\ k \in Sizes /\ bp \in BlockPtrs
    BY <1>1, <1>3, <1>4 DEF CallOK, TypeOK
  <1>8. k \in Nat /\ v \in Nat
    <2>1. i \in Nat
      BY <1>7, SegFitAssumption DEF SegFitAssumption
    <2>2. \A x \in Nat : (x % 256) * 16843009 \in Nat
      OBVIOUS
    <2>3. FillWord(i) \in Nat
      BY <2>1, <2>2 DEF FillWord
    <2>4. \A x \in Sizes : x \in Nat
      BY SegFitAssumption, Numbers DEF SegFitAssumption
    <2>5. k \in Nat
      BY <1>7, <2>4
    <2>6. v \in Nat
      BY <1>1, <2>3
    <2> QED
      BY <2>5, <2>6
  <1>9. /\ blocks' \in [Ids -> {NULL} \cup BlockPtrs]
        /\ block_sizes' \in [Ids -> Sizes \cup {0}] /\ block_sizes' \in [Ids -> Nat]
        /\ blocks'[i] = bp /\ block_sizes'[i] = k
    BY <1>3, <1>4, <1>7, <1>8
  <1>10. n \in [WordAddr -> Nat] /\ \A w \in WordAddr : n[w] = IF w \in WordsOf(bp, k) THEN v ELSE mem[w]
    <2>1. PICK m, p : m = mem /\ p = bp
      OBVIOUS
    <2>2. m \in [WordAddr -> Nat] /\ v \in Nat
      BY <1>4, <1>8, <2>1
    <2>3. n = memset(m, p, v, k)
      BY <1>2, <2>1
    <2>4. n \in [WordAddr -> Nat]
          /\ \A w \in WordAddr : n[w] = IF w \in WordsOf(p, k) THEN v ELSE m[w]
      BY <2>2, <2>3, FillWrites
    <2> QED
      BY <2>1, <2>4
  <1>11. /\ Pointers = blocks' /\ Asked = block_sizes' /\ \A j \in Ids : HandedOver(j) <=> j = i
    BY <1>1, <1>3, <1>4, <1>7, HeldReturned
  <1>12. Pointers' = blocks' /\ Asked' = block_sizes' /\ \A j \in Ids : ~HandedOver(j)'
    BY <1>3, <1>9, HeldThen
  <1>13. Pending = {} /\ Pending' = {}
    BY <1>3 DEF Pending
  <1>14. PICK I : I = Ids \ {i}
    OBVIOUS
  <1>15. Owners(mem, mem_brk, S, blocks', block_sizes', {}) /\ Filled(mem, blocks', block_sizes', I)
    <2>1. {j \in Ids : ~HandedOver(j)} = I
      BY <1>11, <1>14
    <2> QED
      BY <1>5, <1>11, <1>13, <2>1 DEF HeapOK
  <1>16. /\ bp \in Used(mem, mem_brk, S) \ {heap_listp}
         /\ WordsOf(bp, k) \subseteq PayloadOf(mem, bp)
    <2>1. /\ blocks'[i] \in Used(mem, mem_brk, S) \ {heap_listp}
          /\ WordsOf(blocks'[i], block_sizes'[i]) \subseteq PayloadOf(mem, blocks'[i])
      <3>1. blocks'[i] # NULL
        BY <1>3, <1>9
      <3> QED
        BY <1>4, <1>6, <1>7, <1>9, <1>15, <3>1, OwnedBlock
    <2> QED
      BY <1>9, <2>1
  <1>17. OnlyAt(mem, n, PayloadOf(mem, bp))
    BY <1>10, <1>16 DEF OnlyAt
  <1>18. PICK g : g = WithMem(heap, n)
    OBVIOUS
  <1>19. /\ Whole(g, mem_brk, S) /\ g.mem = n /\ g.ruined = heap.ruined
         /\ g.lists = heap.lists /\ Wrote(mem, n, mem_brk, S, bp)
    <2>1. PICK h, m, brk : h = heap /\ m = mem /\ brk = mem_brk
      OBVIOUS
    <2>2. Whole(h, brk, S) /\ m = h.mem /\ bp \in Used(m, brk, S) /\ OnlyAt(m, n, PayloadOf(m, bp))
          /\ g = WithMem(h, n) /\ n \in [WordAddr -> Nat]
      BY <1>4, <1>6, <1>10, <1>16, <1>17, <1>18, <2>1
    <2>3. /\ Whole(g, brk, S) /\ g.mem = n /\ g.ruined = h.ruined /\ g.lists = h.lists
          /\ Wrote(m, n, brk, S, bp)
      BY <2>2, WriteWhole
    <2> QED
      BY <2>1, <2>3
  <1>20. heap' = g
    <2>1. g \in Heaps
      BY <1>19 DEF Whole, Loose
    <2> QED
      BY <1>3, <1>4, <1>19, <2>1, HeapIs
  <1>21. TypeOK'
    <2>1. call' \in [op : {"none", "malloc", "realloc"}, index : Ids \cup {0},
                     size : Sizes \cup {0}, asize : Nat]
      BY <1>3 DEF NoCall
    <2>2. 0 \in 0 .. LISTS /\ 0 \in Nat
      BY Numbers
    <2> QED
      BY <1>3, <1>4, <1>9, <1>10, <2>1, <2>2 DEF TypeOK
  <1>22. CallOK'
    BY <1>3 DEF CallOK
  <1>23. Owners(n, mem_brk, S, blocks', block_sizes', {})
    <2>1. Used(n, mem_brk, S) = Used(mem, mem_brk, S)
      BY <1>19 DEF Wrote
    <2>2. ASSUME NEW j \in Ids, blocks'[j] # NULL
          PROVE  block_sizes'[j] + 8 <= SizeOf(n, blocks'[j])
      <3>1. PICK q : q = blocks'[j]
        OBVIOUS
      <3>2. q \in S \ {mem_brk} /\ block_sizes'[j] + 8 <= SizeOf(mem, q)
        BY <1>15, <2>2, <3>1 DEF Owners, Used
      <3>3. SizeOf(n, q) = SizeOf(mem, q)
        BY <1>19, <3>2 DEF Wrote
      <3> QED
        BY <3>1, <3>2, <3>3
    <2> QED
      BY <1>15, <2>1, <2>2, OwnersRoom
  <1>24. Filled(n, blocks', block_sizes', Ids)
    <2>1. PICK P : P = Used(mem, mem_brk, S) \ {bp}
      OBVIOUS
    <2>2. Keeps(mem, n, P)
      BY <1>19, <2>1 DEF Wrote
    <2>3. \A j \in I : blocks'[j] # NULL => blocks'[j] \in P
      BY <1>3, <1>7, <1>9, <1>14, <1>15, <2>1 DEF Owners
    <2>4. I \subseteq Ids
      BY <1>14
    <2>5. Filled(n, blocks', block_sizes', I)
      BY <1>4, <1>6, <1>9, <1>15, <2>2, <2>3, <2>4, FilledKeep
    <2>6. \A w \in WordsOf(bp, k) : n[w] = FillWord(i)
      BY <1>1, <1>10 DEF WordsOf
    <2> QED
      BY <1>9, <1>14, <2>5, <2>6 DEF Filled
  <1>25. Filled(n, blocks', block_sizes', {j \in Ids : ~HandedOver(j)'}) /\ SearchOK(S)'
    BY <1>3, <1>24 DEF Filled, SearchOK
  <1>26. HeapOK(S)'
    BY <1>3, <1>12, <1>13, <1>19, <1>20, <1>23, <1>25 DEF HeapOK
  <1> QED
    BY <1>21, <1>22, <1>26, WholeStep

-----------------------------------------------------------------------------
(* mm_realloc, when the block is moved.                                    *)

(* mm_realloc moves the data of block i, of old bytes, to the block b.     *)
Moved(m, n, i, p, old, b, k) ==
  /\ \A w \in WordAddr : w \notin WordsOf(b, k) => n[w] = m[w]
  /\ \A w \in WordsOf(b, IF k < old THEN k ELSE old) : n[w] = FillWord(i)

(* memmove brings the data along, up to the smaller size, wherever both    *)
(* blocks are.                                                             *)
LEMMA MoveData ==
  ASSUME NEW m \in [WordAddr -> Nat], NEW i \in Ids, NEW p \in Nat, NEW old \in Nat,
         p % 8 = 0, NEW b \in Nat, b % 8 = 0, NEW k \in Nat, WordsOf(p, old) \subseteq WordAddr,
         NEW e \in WordAddr, p + old <= e,
         \A w \in WordsOf(p, old) : m[w] = FillWord(i), mem_start_brk <= p,
         NEW n, n = memmove(m, b, p, k)
  PROVE  n \in [WordAddr -> Nat] /\ Moved(m, n, i, p, old, b, k)
  <1>1. /\ n \in [WordAddr -> Nat]
        /\ \A w \in WordAddr : w \notin WordsOf(b, k) => n[w] = m[w]
        /\ \A w \in WordsOf(b, k) : w - b + p \in WordAddr => n[w] = m[w - b + p]
    BY MoveWrites
  <1>2. PICK c : c = IF k < old THEN k ELSE old
    OBVIOUS
  <1>3. c \in Nat /\ c <= k /\ c <= old
    BY <1>2
  <1>4. ASSUME NEW w \in WordsOf(b, c) PROVE n[w] = FillWord(i)
    <2>1. w \in WordAddr /\ b <= w /\ w < b + c /\ w \in Nat /\ w % 4 = 0
      BY Numbers DEF WordsOf, WordAddr, WSIZE
    <2>2. PICK x : x = w - b + p
      OBVIOUS
    <2>3. x \in Nat /\ p <= x /\ x < p + old /\ x % 4 = 0
      BY <1>3, <2>1, <2>2
    <2>4. x \in WordAddr
      <3>1. e \in Nat /\ e < mem_max_addr
        BY Numbers DEF WordAddr
      <3> QED
        BY <2>3, <3>1, Numbers DEF WordAddr, WSIZE
    <2>5. x \in WordsOf(p, old) /\ w \in WordsOf(b, k)
      BY <1>3, <2>1, <2>3, <2>4 DEF WordsOf
    <2> QED
      BY <1>1, <2>2, <2>4, <2>5
  <1> QED
    BY <1>1, <1>2, <1>4 DEF Moved

(* What the client has, and has written, while mm_realloc moves.           *)
Moves(m, brk, S, i, p, old, b, k) ==
  /\ m \in [WordAddr -> Nat] /\ Tiles(m, brk, S)
  /\ Owners(m, brk, S, blocks, block_sizes, {b}) /\ Filled(m, blocks, block_sizes, Ids)
  /\ i \in Ids /\ p = blocks[i] /\ old = block_sizes[i] /\ p # NULL
  /\ p # b /\ p \in Used(m, brk, S) \ {heap_listp} /\ b \in Used(m, brk, S) \ {heap_listp}
  /\ b # NULL /\ b \in Nat /\ b % 8 = 0 /\ k \in Nat /\ k + 8 <= SizeOf(m, b)
  /\ old \in Nat

(* The block that is filled is the new one.                                *)
LEMMA MoveKeeps ==
  ASSUME NEW m, NEW brk, NEW S, NEW i, NEW p, NEW old, NEW b, NEW k,
         Moves(m, brk, S, i, p, old, b, k), block_sizes \in [Ids -> Nat],
         NEW n, n = memmove(m, b, p, k)
  PROVE  /\ n \in [WordAddr -> Nat] /\ OnlyAt(m, n, PayloadOf(m, b))
         /\ \A w \in WordsOf(b, IF k < old THEN k ELSE old) : n[w] = FillWord(i)
  <1>1. /\ m \in [WordAddr -> Nat] /\ Tiles(m, brk, S) /\ i \in Ids /\ p = blocks[i]
        /\ Owners(m, brk, S, blocks, block_sizes, {b}) /\ Filled(m, blocks, block_sizes, Ids)
        /\ old = block_sizes[i] /\ p # NULL /\ old \in Nat /\ k \in Nat
        /\ b \in Nat /\ b % 8 = 0 /\ k + 8 <= SizeOf(m, b) /\ b \in Used(m, brk, S)
    BY DEF Moves
  <1>2. /\ p \in S \ {brk} /\ old + 8 <= SizeOf(m, p) /\ SizeOf(m, p) \in Nat
    <2>1. /\ blocks[i] \in S \ {heap_listp, brk} /\ SizeOf(m, blocks[i]) \in Nat
          /\ block_sizes[i] + 8 <= SizeOf(m, blocks[i])
      BY <1>1, OwnedBlock
    <2> QED
      BY <1>1, <2>1
  <1>3. p \in Nat /\ p % 8 = 0 /\ mem_start_brk <= p
    BY <1>1, <1>2, TilesAddrs, Numbers
  <1>4. PICK e : e = EndOf(m, p) - 8
    OBVIOUS
  <1>5. e \in WordAddr /\ p + old <= e
    <2>1. EndOf(m, p) \in S /\ EndOf(m, p) = p + SizeOf(m, p) /\ EndOf(m, p) \in Nat
      BY <1>1, <1>2, TilesBlock
    <2>2. EndOf(m, p) - 8 \in WordAddr
      BY <1>1, <2>1, TilesAddrs
    <2> QED
      <3>1. PICK x, y : x = EndOf(m, p) /\ y = SizeOf(m, p)
        OBVIOUS
      <3>2. x = p + y /\ e = x - 8 /\ old + 8 <= y /\ y \in Nat /\ old \in Nat
        BY <1>1, <1>2, <1>4, <2>1, <3>1
      <3> QED
        BY <1>3, <1>4, <2>2, <3>2
  <1>6. \A w \in WordsOf(p, old) : m[w] = FillWord(i)
    BY <1>1 DEF Filled
  <1>7. WordsOf(p, old) \subseteq WordAddr
    BY DEF WordsOf
  <1>8. n \in [WordAddr -> Nat] /\ Moved(m, n, i, p, old, b, k)
    BY <1>1, <1>3, <1>5, <1>6, <1>7, MoveData
  <1>9. WordsOf(b, k) \subseteq PayloadOf(m, b)
    <2>1. b \in S \ {brk}
      BY <1>1 DEF Used
    <2>2. SizeOf(m, b) \in Nat
      BY <1>1, <2>1, TilesBlock
    <2> QED
      BY <1>1, <2>2, WordsInside
  <1> QED
    BY <1>8, <1>9 DEF Moved, OnlyAt

(* The client still has what it had.                                       *)
LEMMA MoveWritten ==
  ASSUME NEW m, NEW brk, NEW S, NEW i, NEW p, NEW old, NEW b, NEW k,
         Moves(m, brk, S, i, p, old, b, k), block_sizes \in [Ids -> Nat],
         NEW n \in [WordAddr -> Nat], Wrote(m, n, brk, S, b), Tiles(n, brk, S)
  PROVE  Moves(n, brk, S, i, p, old, b, k)
  <1>1. /\ m \in [WordAddr -> Nat] /\ Tiles(m, brk, S)
        /\ Owners(m, brk, S, blocks, block_sizes, {b}) /\ Filled(m, blocks, block_sizes, Ids)
        /\ b \in Used(m, brk, S) /\ k + 8 <= SizeOf(m, b)
    BY DEF Moves
  <1>2. Used(n, brk, S) = Used(m, brk, S)
    BY DEF Wrote
  <1>3. \A q \in Used(m, brk, S) : SizeOf(n, q) = SizeOf(m, q)
    BY DEF Wrote, Used
  <1>4. Owners(n, brk, S, blocks, block_sizes, {b})
    <2>1. ASSUME NEW j \in Ids, blocks[j] # NULL
          PROVE  block_sizes[j] + 8 <= SizeOf(n, blocks[j])
      <3>1. /\ blocks[j] \in Used(m, brk, S)
            /\ block_sizes[j] + 8 <= SizeOf(m, blocks[j])
        BY <1>1, <2>1 DEF Owners
      <3> QED
        BY <1>3, <3>1
    <2> QED
      BY <1>1, <1>2, <2>1, OwnersRoom
  <1>5. Filled(n, blocks, block_sizes, Ids)
    <2>1. PICK P : P = Used(m, brk, S) \ {b}
      OBVIOUS
    <2>2. Keeps(m, n, P)
      BY <2>1 DEF Wrote
    <2>3. \A j \in Ids : blocks[j] # NULL => blocks[j] \in P
      BY <1>1, <2>1 DEF Owners
    <2>4. Ids \subseteq Ids
      OBVIOUS
    <2> QED
      BY <1>1, <2>2, <2>3, <2>4, FilledKeep
  <1> QED
    BY <1>1, <1>2, <1>3, <1>4, <1>5 DEF Moves

(* The client has block b instead of its old one, with what was moved      *)
(* there.                                                                  *)
HandsOver(n, m, brk, T, ptr, asked, i, b, k) ==
  /\ Owners(n, brk, T, ptr, asked, {}) /\ Filled(n, ptr, asked, Ids \ {i})
  /\ \A w \in WordsOf(b, k) : n[w] = m[w]
  /\ b \in Used(n, brk, T) \ {heap_listp}

(* The old block has been freed, and the new one is the client's.          *)
LEMMA MoveFreed ==
  ASSUME NEW m, NEW brk, NEW S, NEW i, NEW p, NEW old, NEW b, NEW k,
         Moves(m, brk, S, i, p, old, b, k), block_sizes \in [Ids -> Nat],
         DOMAIN blocks = Ids, DOMAIN block_sizes = Ids,
         NEW n \in [WordAddr -> Nat], NEW T, Tiles(n, brk, T),
         NEW P, P = Used(m, brk, S) \ {p}, Used(n, brk, T) = P, Keeps(m, n, P),
         NEW ptr, NEW asked, ptr = [blocks EXCEPT ![i] = b],
         asked = [block_sizes EXCEPT ![i] = k]
  PROVE  HandsOver(n, m, brk, T, ptr, asked, i, b, k)
  <1>1. /\ m \in [WordAddr -> Nat] /\ Tiles(m, brk, S) /\ i \in Ids /\ p = blocks[i]
        /\ Owners(m, brk, S, blocks, block_sizes, {b}) /\ Filled(m, blocks, block_sizes, Ids)
        /\ p # NULL /\ p # b /\ b # NULL /\ k \in Nat
        /\ b \in Nat /\ k + 8 <= SizeOf(m, b) /\ b \in Used(m, brk, S) \ {heap_listp}
    BY DEF Moves
  <1>2. P = Used(m, brk, S) \ {p}
    OBVIOUS
  <1>3. Keeps(m, n, P) /\ Used(n, brk, T) = P /\ b \in P /\ b \in S \ {brk} /\ b \in T
    BY <1>1, <1>2 DEF Used
  <1>4. SizeOf(n, b) = SizeOf(m, b) /\ SizeOf(m, b) \in Nat
    BY <1>1, <1>3, SizeKept, TilesBlock
  <1>5. PICK q, a : q = [blocks EXCEPT ![i] = NULL] /\ a = [block_sizes EXCEPT ![i] = 0]
    OBVIOUS
  <1>6. Owners(n, brk, T, q, a, {b})
    <2>1. blocks[i] # NULL
      BY <1>1
    <2> QED
      BY <1>1, <1>2, <1>3, <1>5, <2>1, OwnersDrop
  <1>7. /\ DOMAIN q = Ids /\ DOMAIN a = Ids /\ q[i] = NULL
        /\ ptr = [q EXCEPT ![i] = b] /\ asked = [a EXCEPT ![i] = k]
    BY <1>1, <1>5
  <1>8. Owners(n, brk, T, ptr, asked, {})
    <2>1. k + 8 <= SizeOf(n, b) /\ b # NULL /\ i \in Ids
      BY <1>1, <1>4
    <2>2. DOMAIN q = Ids
      BY <1>7
    <2>3. DOMAIN a = Ids
      BY <1>7
    <2>4. q[i] = NULL
      BY <1>7
    <2>5. PICK v, y : v = [q EXCEPT ![i] = b] /\ y = [a EXCEPT ![i] = k]
      OBVIOUS
    <2>6. Owners(n, brk, T, v, y, {})
      BY <1>6, <2>1, <2>2, <2>3, <2>4, <2>5, OwnersTake
    <2> QED
      BY <1>7, <2>5, <2>6
  <1>9. Filled(n, ptr, asked, Ids \ {i})
    <2>1. PICK I : I = Ids \ {i}
      OBVIOUS
    <2>2. I \subseteq Ids /\ i \notin I
      BY <2>1
    <2>3. \A j \in I : blocks[j] # NULL => blocks[j] \in P
      BY <1>1, <1>2, <2>1 DEF Owners
    <2>4. Filled(m, blocks, block_sizes, I)
      BY <1>1, <2>2, FilledLess
    <2>5. Filled(n, blocks, block_sizes, I)
      BY <1>1, <1>3, <2>2, <2>3, <2>4, FilledKeep
    <2>6. Filled(n, ptr, asked, I)
      BY <2>2, <2>5, FilledElse
    <2> QED
      BY <2>1, <2>6
  <1>10. \A w \in WordsOf(b, k) : n[w] = m[w]
    <2>1. WordsOf(b, k) \subseteq PayloadOf(m, b)
      BY <1>1, <1>4, WordsInside
    <2> QED
      BY <1>3, <2>1 DEF Keeps
  <1> QED
    BY <1>1, <1>3, <1>8, <1>9, <1>10 DEF HandsOver

(* What the client has in the heap r, it had in the memory m.              *)
StillHas(m, r, brk, S, ptr, asked, I) ==
  /\ Whole(r, brk, S)
  /\ Owners(r.mem, brk, S, ptr, asked, {}) /\ Filled(r.mem, ptr, asked, I)
  /\ \A i \in Ids : ptr[i] # NULL =>
       \A w \in WordsOf(ptr[i], asked[i]) : r.mem[w] = m[w]

(* The client's blocks when one may have been tagged behind.               *)
LEMMA ReservedKeeps ==
  ASSUME NEW h, NEW brk, NEW S, NEW b, NEW n, NEW r, Whole(h, brk, S),
         r = Tagged(h, b, n), b \in Used(h.mem, brk, S) \ {heap_listp},
         NEW ptr, NEW asked, asked \in [Ids -> Nat], Owners(h.mem, brk, S, ptr, asked, {}),
         NEW I, I \subseteq Ids, Filled(h.mem, ptr, asked, I)
  PROVE  StillHas(h.mem, r, brk, S, ptr, asked, I)
  <1>1. PICK m \in [WordAddr -> Nat] : m = h.mem /\ Tiles(m, brk, S)
    BY DEF Whole, Loose, Heaps
  <1>2. Reserved(h, r, brk, S)
    BY Reserve
  <1>3. PICK P, k : P = Used(m, brk, S) /\ k = r.mem
    OBVIOUS
  <1>4. /\ Whole(r, brk, S) /\ r.ruined = h.ruined /\ Used(k, brk, S) = P /\ Keeps(m, k, P)
    BY <1>1, <1>2, <1>3 DEF Reserved
  <1>5. k \in [WordAddr -> Nat] /\ Tiles(k, brk, S)
    BY <1>3, <1>4 DEF Whole, Loose, Heaps
  <1>6. Owners(m, brk, S, ptr, asked, {}) /\ Filled(m, ptr, asked, I)
    BY <1>1
  <1>7. Owners(k, brk, S, ptr, asked, {})
    <2>1. Used(k, brk, S) = Used(m, brk, S) /\ Keeps(m, k, Used(m, brk, S))
      BY <1>3, <1>4
    <2> QED
      BY <1>1, <1>5, <1>6, <2>1, OwnersKeep
  <1>8. ASSUME NEW i \in Ids, ptr[i] # NULL
        PROVE  /\ ptr[i] \in P /\ \A w \in WordsOf(ptr[i], asked[i]) : k[w] = m[w]
    <2>1. /\ ptr[i] \in P /\ WordsOf(ptr[i], asked[i]) \subseteq PayloadOf(m, ptr[i])
      BY <1>1, <1>3, <1>6, <1>8, OwnedBlock
    <2> QED
      BY <1>4, <2>1 DEF Keeps
  <1>9. Filled(k, ptr, asked, I)
    BY <1>6, <1>8 DEF Filled
  <1> QED
    BY <1>1, <1>3, <1>4, <1>7, <1>8, <1>9 DEF StillHas

(* mm_realloc moves the data, frees the old block and returns the new one. *)
LEMMA MoveStep == ASSUME IInv, move PROVE IInv'
  <1>1. PICK i, p, b, k : i = call.index /\ p = blocks[i] /\ b = bp /\ k = call.size
    OBVIOUS
  <1>2. PICK old, n : old = block_sizes[i] /\ n = memmove(mem, b, p, MoveSize)
    OBVIOUS
  <1>3. PICK g : g = WithMem(heap, n)
    OBVIOUS
  <1>4. PICK f : f = mm_free(g, p)
    OBVIOUS
  <1>5. PICK r : r = IF f.ruined = "nothing" THEN Tagged(f, b, k) ELSE f
    OBVIOUS
  <1>6. /\ pc = "move" /\ HeapBecomes(r) /\ pc' = "returned" /\ bp' = b /\ mem_brk' = mem_brk
        /\ call' = call /\ list' = list /\ size' = size /\ blocks' = blocks
        /\ block_sizes' = block_sizes
    <2>1. g = [heap EXCEPT !.mem = memmove(heap.mem, bp, blocks[call.index], MoveSize)]
      BY <1>1, <1>2, <1>3 DEF WithMem, heap
    <2> QED
      BY <1>1, <1>4, <1>5, <2>1 DEF move, Returns, search, client
  <1>7. ruined = "nothing" /\ call.op = "realloc"
    BY <1>6 DEF IInv, CallOK
  <1>8. /\ TypeOK /\ CallOK /\ heap \in Heaps /\ heap.mem = mem
        /\ heap.ruined = "nothing" /\ mem \in [WordAddr -> Nat]
        /\ blocks \in [Ids -> {NULL} \cup BlockPtrs]
        /\ block_sizes \in [Ids -> Sizes \cup {0}] /\ block_sizes \in [Ids -> Nat]
        /\ DOMAIN blocks = Ids /\ DOMAIN block_sizes = Ids
    BY <1>6, <1>7, SoundNow
  <1>9. PICK S \in SUBSET BlockPtrs : HeapOK(S)
    BY <1>6, <1>7 DEF IInv, Sound
  <1>10. Whole(heap, mem_brk, S) /\ Tiles(mem, mem_brk, S)
    BY <1>8, <1>9 DEF HeapOK, Whole, Loose
  <1>11. /\ i \in Ids /\ k \in Sizes /\ k > 0 /\ p # NULL
    BY <1>1, <1>6, <1>7, <1>8 DEF CallOK
  <1>12. k \in Nat /\ MoveSize = k
    BY <1>1, <1>11, RequestSizes DEF MoveSize
  <1>13. /\ Pointers = blocks /\ Asked = block_sizes /\ \A j \in Ids : ~HandedOver(j)
         /\ Pending = {b}
    BY <1>1, <1>6, <1>8, HeldNow DEF Pending
  <1>14. /\ Owners(mem, mem_brk, S, blocks, block_sizes, {b})
         /\ Filled(mem, blocks, block_sizes, Ids) /\ k + 8 <= SizeOf(mem, b)
    BY <1>1, <1>6, <1>9, <1>13 DEF HeapOK, Filled
  <1>15. Moves(mem, mem_brk, S, i, p, old, b, k)
    <2>1. b \in Used(mem, mem_brk, S) \ {heap_listp} /\ p # b
      BY <1>1, <1>11, <1>14 DEF Owners
    <2>2. b \in Nat /\ b % 8 = 0 /\ b # NULL
      <3>1. b \in S
        BY <2>1 DEF Used
      <3>2. b \in BlockPtrs
        BY <1>9, <3>1
      <3> QED
        BY <3>2, Numbers DEF BlockPtrs, NULL, DSIZE
    <2>3. p \in Used(mem, mem_brk, S) \ {heap_listp}
      BY <1>1, <1>8, <1>10, <1>11, <1>14, OwnedBlock
    <2>4. old \in Nat
      BY <1>2, <1>8, <1>11
    <2> QED
      BY <1>1, <1>2, <1>8, <1>10, <1>11, <1>12, <1>14, <2>1, <2>2, <2>3, <2>4 DEF Moves
  <1>16. /\ n \in [WordAddr -> Nat] /\ OnlyAt(mem, n, PayloadOf(mem, b))
         /\ \A w \in WordsOf(b, IF k < old THEN k ELSE old) : n[w] = FillWord(i)
    <2>1. PICK m, brk : m = mem /\ brk = mem_brk
      OBVIOUS
    <2>2. Moves(m, brk, S, i, p, old, b, k) /\ n = memmove(m, b, p, k)
      BY <1>2, <1>12, <1>15, <2>1
    <2>3. /\ n \in [WordAddr -> Nat] /\ OnlyAt(m, n, PayloadOf(m, b))
          /\ \A w \in WordsOf(b, IF k < old THEN k ELSE old) : n[w] = FillWord(i)
      BY <1>8, <2>2, MoveKeeps
    <2> QED
      BY <2>1, <2>3
  <1>17. b \in Used(mem, mem_brk, S)
    BY <1>15 DEF Moves
  <1>18. /\ Whole(g, mem_brk, S) /\ g.mem = n /\ g.ruined = "nothing"
         /\ Wrote(mem, n, mem_brk, S, b)
    <2>1. PICK h, m, brk : h = heap /\ m = mem /\ brk = mem_brk
      OBVIOUS
    <2>2. /\ Whole(h, brk, S) /\ m = h.mem /\ b \in Used(m, brk, S)
          /\ OnlyAt(m, n, PayloadOf(m, b)) /\ g = WithMem(h, n) /\ n \in [WordAddr -> Nat]
      BY <1>3, <1>8, <1>10, <1>16, <1>17, <2>1
    <2>3. Whole(g, brk, S) /\ g.mem = n /\ g.ruined = h.ruined /\ Wrote(m, n, brk, S, b)
      BY <2>2, WriteWhole
    <2> QED
      BY <1>8, <2>1, <2>3
  <1>19. Tiles(n, mem_brk, S)
    BY <1>18 DEF Whole, Loose
  <1>20. Moves(n, mem_brk, S, i, p, old, b, k)
    BY <1>8, <1>15, <1>16, <1>18, <1>19, MoveWritten
  <1>21. p \in Used(g.mem, mem_brk, S) \ {heap_listp}
    BY <1>18, <1>20 DEF Moves
  <1>22. /\ f \in Heaps
         /\ \/ f.ruined = "tag"
            \/ f.ruined = "nothing" /\ \E T : Freed(g, f, mem_brk, S, T, p)
    <2>1. PICK brk : brk = mem_brk
      OBVIOUS
    <2>2. Whole(g, brk, S) /\ p \in Used(g.mem, brk, S) \ {heap_listp}
      BY <1>18, <1>21, <2>1
    <2>3. /\ f \in Heaps
          /\ f.ruined = "tag" \/ (f.ruined = g.ruined /\ \E T : Freed(g, f, brk, S, T, p))
      BY <1>4, <2>2, Free
    <2> QED
      BY <1>18, <2>1, <2>3
  <1>23. r \in Heaps /\ r.ruined = f.ruined
    BY <1>5, <1>22, AnyTag
  <1>24. /\ heap' = r /\ mem' = r.mem /\ ruined' = f.ruined
         /\ mem' \in [WordAddr -> Nat]
         /\ sgrlists' \in [0 .. LISTS - 1 -> {NULL} \cup BlockPtrs]
         /\ ruined' \in {"nothing", "tag", "words", "NULL"}
    BY <1>6, <1>23, HeapTypes
  <1>25. TypeOK'
    BY <1>1, <1>6, <1>8, <1>24 DEF TypeOK
  <1>26. CallOK'
    BY <1>1, <1>6, <1>8, <1>11 DEF CallOK
  <1>27. CASE f.ruined = "tag"
    BY <1>24, <1>25, <1>26, <1>27, RuinedStep
  <1>28. CASE f.ruined # "tag"
    <2>1. PICK T : Freed(g, f, mem_brk, S, T, p)
      BY <1>22, <1>28
    <2>2. PICK m : m = f.mem
      OBVIOUS
    <2>3. /\ Whole(f, mem_brk, T) /\ Used(m, mem_brk, T) = Used(n, mem_brk, S) \ {p}
          /\ Keeps(n, m, Used(n, mem_brk, S) \ {p})
      BY <1>18, <2>1, <2>2 DEF Freed
    <2>4. m \in [WordAddr -> Nat] /\ Tiles(m, mem_brk, T)
      BY <2>2, <2>3 DEF Whole, Loose, Heaps
    <2>5. PICK ptr, a, I : /\ ptr = [blocks EXCEPT ![i] = b] /\ a = [block_sizes EXCEPT ![i] = k]
                           /\ I = Ids \ {i}
      OBVIOUS
    <2>6. /\ Owners(m, mem_brk, T, ptr, a, {}) /\ Filled(m, ptr, a, I)
          /\ \A w \in WordsOf(b, k) : m[w] = n[w]
          /\ b \in Used(m, mem_brk, T) \ {heap_listp}
      <3>1. PICK brk, P : brk = mem_brk /\ P = Used(n, mem_brk, S) \ {p}
        OBVIOUS
      <3>2. Moves(n, brk, S, i, p, old, b, k)
        BY <1>20, <3>1
      <3>3. block_sizes \in [Ids -> Nat] /\ DOMAIN blocks = Ids /\ DOMAIN block_sizes = Ids
        BY <1>8
      <3>4. m \in [WordAddr -> Nat] /\ Tiles(m, brk, T)
        BY <2>4, <3>1
      <3>5. P = Used(n, brk, S) \ {p} /\ Used(m, brk, T) = P
        BY <2>3, <3>1
      <3>6. Keeps(n, m, P)
        BY <2>3, <3>1
      <3>9. Used(m, brk, T) = P
        BY <3>5
      <3>10. m \in [WordAddr -> Nat]
        BY <3>4
      <3>11. Tiles(m, brk, T)
        BY <3>4
      <3>7. ptr = [blocks EXCEPT ![i] = b] /\ a = [block_sizes EXCEPT ![i] = k]
        BY <2>5
      <3>8. HandsOver(m, n, brk, T, ptr, a, i, b, k)
        BY <3>2, <3>3, <3>5, <3>6, <3>7, <3>9, <3>10, <3>11, MoveFreed
      <3> QED
        BY <2>5, <3>1, <3>8 DEF HandsOver
    <2>7. a \in [Ids -> Nat] /\ I \subseteq Ids /\ ptr[i] = b /\ a[i] = k /\ b # NULL
      BY <1>8, <1>11, <1>12, <1>15, <2>5 DEF Moves
    <2>8. r = Tagged(f, b, k)
      BY <1>5, <1>22, <1>28
    <2>9. /\ Whole(r, mem_brk, T)
          /\ Owners(r.mem, mem_brk, T, ptr, a, {}) /\ Filled(r.mem, ptr, a, I)
          /\ \A j \in Ids : ptr[j] # NULL =>
               \A w \in WordsOf(ptr[j], a[j]) : r.mem[w] = m[w]
      <3>1. PICK brk : brk = mem_brk
        OBVIOUS
      <3>2. b \in Used(f.mem, brk, T) \ {heap_listp} /\ Whole(f, brk, T)
        BY <2>2, <2>3, <2>6, <3>1
      <3>3. Owners(f.mem, brk, T, ptr, a, {}) /\ Filled(f.mem, ptr, a, I)
        BY <2>2, <2>6, <3>1
      <3>4. StillHas(f.mem, r, brk, T, ptr, a, I)
        <4>1. a \in [Ids -> Nat]
          BY <2>7
        <4>2. I \subseteq Ids
          BY <2>7
        <4>3. Whole(f, brk, T)
          BY <3>2
        <4>4. b \in Used(f.mem, brk, T) \ {heap_listp}
          BY <3>2
        <4>5. Owners(f.mem, brk, T, ptr, a, {})
          BY <3>3
        <4>6. Filled(f.mem, ptr, a, I)
          BY <3>3
        <4> QED
          BY <2>8, <4>1, <4>2, <4>3, <4>4, <4>5, <4>6, ReservedKeeps
      <3> QED
        BY <2>2, <3>1, <3>4 DEF StillHas
    <2>10. Pointers' = ptr /\ Asked' = a /\ \A j \in Ids : HandedOver(j)' <=> j = i
      BY <1>1, <1>6, <1>8, <1>11, <2>5, <2>7, HeldReturns
    <2>11. {j \in Ids : ~HandedOver(j)'} = I
      BY <2>5, <2>10
    <2>12. Kept'
      <3>1. PICK c : c = IF k < old THEN k ELSE old
        OBVIOUS
      <3>2. old \in Nat
        BY <1>15 DEF Moves
      <3>3. WordsOf(b, c) \subseteq WordsOf(b, k)
        <4>1. b \in Nat /\ \A w \in WordAddr : w \in Nat
          BY <1>15, Numbers DEF Moves, WordAddr
        <4> QED
          BY <1>12, <3>1, <3>2, <4>1 DEF WordsOf
      <3>4. \A w \in WordsOf(b, c) : r.mem[w] = FillWord(i)
        <4>1. \A w \in WordsOf(b, k) : r.mem[w] = m[w]
          BY <1>11, <2>7, <2>9
        <4>2. \A w \in WordsOf(b, k) : m[w] = n[w]
          BY <2>6
        <4>3. \A w \in WordsOf(b, c) : n[w] = FillWord(i)
          BY <1>16, <3>1
        <4> QED
          BY <3>3, <4>1, <4>2, <4>3
      <3> QED
        BY <1>1, <1>2, <1>6, <1>24, <3>1, <3>4 DEF Kept
    <2>13. Pending' = {} /\ SearchOK(T)'
      BY <1>6 DEF Pending, SearchOK
    <2>14. HeapOK(T)'
      BY <1>6, <1>24, <2>9, <2>10, <2>11, <2>12, <2>13 DEF HeapOK
    <2> QED
      BY <1>25, <1>26, <2>14, WholeStep
  <1> QED
    BY <1>27, <1>28

(* The client is handed NULL.                                              *)
LEMMA GiveUpStep == ASSUME IInv, give_up PROVE IInv'
  <1>1. /\ pc = "returned" /\ bp = NULL /\ ruined = "nothing" /\ pc' = "idle" /\ call' = NoCall
        /\ list' = 0 /\ size' = 0 /\ SameHeap /\ mem_brk' = mem_brk /\ bp' = bp
        /\ blocks' = blocks /\ block_sizes' = block_sizes
    BY DEF give_up, client
  <1>2. /\ TypeOK /\ CallOK /\ blocks \in [Ids -> {NULL} \cup BlockPtrs]
        /\ block_sizes \in [Ids -> Sizes \cup {0}]
    BY <1>1, SoundNow
  <1>3. PICK S \in SUBSET BlockPtrs : HeapOK(S)
    BY <1>1 DEF IInv, Sound
  <1>4. heap' = heap /\ mem' = mem
    BY <1>1, HeapThen DEF SameHeap
  <1>5. TypeOK'
    <2>1. call' \in [op : {"none", "malloc", "realloc"}, index : Ids \cup {0},
                     size : Sizes \cup {0}, asize : Nat]
      BY <1>1 DEF NoCall
    <2>2. 0 \in 0 .. LISTS /\ 0 \in Nat
      BY Numbers
    <2> QED
      BY <1>1, <1>2, <2>1, <2>2 DEF TypeOK, SameHeap
  <1>6. CallOK'
    BY <1>1 DEF CallOK
  <1>7. Pointers = blocks /\ Asked = block_sizes /\ \A j \in Ids : ~HandedOver(j)
    BY <1>1, <1>2, HeldNow
  <1>8. Pointers' = blocks /\ Asked' = block_sizes /\ \A j \in Ids : ~HandedOver(j)'
    BY <1>1, <1>2, HeldThen
  <1>9. Pending = {} /\ Pending' = {} /\ SearchOK(S)'
    BY <1>1 DEF Pending, SearchOK
  <1>10. Filled(mem, blocks, block_sizes, {j \in Ids : ~HandedOver(j)'})
    BY <1>3, <1>7 DEF HeapOK, Filled
  <1>11. HeapOK(S)'
    BY <1>1, <1>3, <1>4, <1>7, <1>8, <1>9, <1>10 DEF HeapOK
  <1> QED
    BY <1>5, <1>6, <1>11, WholeStep

-----------------------------------------------------------------------------
(* The invariant.                                                          *)

(* Before mm_init there is no heap to speak of.                            *)
LEMMA InitHolds == ASSUME Init PROVE IInv
  <1>1. /\ mem_brk = mem_start_brk /\ mem \in RawMem
        /\ sgrlists = [l \in 0 .. LISTS - 1 |-> NULL]
        /\ ruined = "nothing" /\ pc = "start" /\ call = NoCall
        /\ list = 0 /\ size = 0 /\ bp = NULL
        /\ blocks = [i \in Ids |-> NULL] /\ block_sizes = [i \in Ids |-> 0]
    BY DEF Init
  <1>2. mem_start_brk \in mem_start_brk .. mem_max_addr /\ 0 \in 0 .. LISTS
    BY Numbers
  <1>3. mem \in [WordAddr -> Nat]
    BY <1>1, SegFitAssumption DEF SegFitAssumption
  <1>4. call \in [op : {"none", "malloc", "realloc"}, index : Ids \cup {0},
                  size : Sizes \cup {0}, asize : Nat]
    BY <1>1 DEF NoCall
  <1>5. TypeOK
    BY <1>1, <1>2, <1>3, <1>4 DEF TypeOK
  <1>6. CallOK
    BY <1>1 DEF CallOK
  <1> QED
    BY <1>1, <1>5, <1>6 DEF IInv, Sound

(* Nothing happens.                                                        *)
LEMMA SameStep == ASSUME IInv, UNCHANGED vars PROVE IInv'
  <1>1. /\ mem_brk' = mem_brk /\ mem' = mem /\ sgrlists' = sgrlists /\ ruined' = ruined
        /\ pc' = pc /\ call' = call /\ list' = list /\ size' = size /\ bp' = bp
        /\ blocks' = blocks /\ block_sizes' = block_sizes
    BY DEF vars, search, client
  <1>2. TypeOK' /\ CallOK'
    BY <1>1 DEF IInv, TypeOK, CallOK
  <1>3. heap' = heap
    BY <1>1, HeapThen
  <1>4. \A i : HandedOver(i)' <=> HandedOver(i)
    BY <1>1 DEF HandedOver
  <1>5. Pointers' = Pointers /\ Asked' = Asked
    BY <1>1, <1>4 DEF Pointers, Asked, Pointer, Bytes
  <1>6. Pending' = Pending /\ (Kept' <=> Kept)
    BY <1>1 DEF Pending, Kept
  <1>7. ASSUME NEW S, HeapOK(S) PROVE HeapOK(S)'
    <2>1. SearchOK(S)'
      BY <1>1, <1>7 DEF HeapOK, SearchOK
    <2>2. Filled(mem', Pointers', Asked', {i \in Ids : ~HandedOver(i)'})
      <3>1. {i \in Ids : ~HandedOver(i)'} = {i \in Ids : ~HandedOver(i)}
        BY <1>4
      <3> QED
        BY <1>1, <1>5, <1>7, <3>1 DEF HeapOK
    <2> QED
      BY <1>1, <1>3, <1>5, <1>6, <1>7, <2>1, <2>2 DEF HeapOK
  <1>8. Sound' <=> Sound
    BY <1>1 DEF Sound
  <1>9. ruined' = "words" /\ pc' = "returned" => Kept'
    BY <1>1, <1>6 DEF IInv
  <1> QED
    BY <1>2, <1>7, <1>8, <1>9 DEF IInv

(* The words mm_init writes are those of an empty heap.                    *)
LEMMA StartWrites ==
  ASSUME NEW m, NEW a, a \in Nat
  PROVE  PUT_NOTAG(PUT_NOTAG(PUT_NOTAG(PUT_NOTAG(m, a, 0), a + WSIZE, PACK(DSIZE, 1)),
           a + 2 * WSIZE, PACK(DSIZE, 1)), a + 3 * WSIZE, PACK(0, 1)) = StartWords(m, a)
  <1>1. /\ a + WSIZE = a + 4 /\ a + 2 * WSIZE = a + 8 /\ a + 3 * WSIZE = a + 12
        /\ PACK(DSIZE, 1) = 9 /\ PACK(0, 1) = 1
    BY DEF WSIZE, PACK, DSIZE
  <1> QED
    BY <1>1 DEF PUT_NOTAG, StartWords

(* mm_init makes a heap with one free block, whatever was in the area.     *)
LEMMA StartStep == ASSUME IInv, mm_init PROVE IInv'
  <1>1. PICK a, brk, z : a = mem_start_brk /\ brk = a + 16 /\ z = brk + CHUNKSIZE
    OBVIOUS
  <1>2. PICK h : h = [[heap EXCEPT !.mem = StartWords(mem, a)]
                        EXCEPT !.lists = [l \in 0 .. LISTS - 1 |-> NULL]]
    OBVIOUS
  <1>3. PICK words, r : words = CHUNKSIZE \div WSIZE /\ r = extend_heap(h, brk, words)
    OBVIOUS
  <1>4. a \in Nat /\ brk \in Nat /\ z \in Nat /\ z \in mem_start_brk .. mem_max_addr /\ z <= mem_max_addr
    BY <1>1, Numbers
  <1>5. /\ pc = "start" /\ HeapBecomes(r.heap) /\ mem_brk' = z /\ pc' = "idle"
        /\ call' = call /\ list' = list /\ size' = size /\ bp' = bp
        /\ blocks' = blocks /\ block_sizes' = block_sizes
    <2>1. a + 4 * WSIZE = brk
      BY <1>1 DEF WSIZE
    <2>2. PUT_NOTAG(PUT_NOTAG(PUT_NOTAG(PUT_NOTAG(mem, a, 0), a + WSIZE, PACK(DSIZE, 1)),
            a + 2 * WSIZE, PACK(DSIZE, 1)), a + 3 * WSIZE, PACK(0, 1)) = StartWords(mem, a)
      BY <1>4, StartWrites
    <2> QED
      BY <1>1, <1>2, <1>3, <2>1, <2>2 DEF mm_init, search, client
  <1>6. /\ TypeOK /\ CallOK /\ ruined = "nothing" /\ \A i \in Ids : blocks[i] = NULL
    BY <1>5 DEF IInv, CallOK
  <1>7. /\ heap \in Heaps /\ heap.ruined = "nothing" /\ mem \in [WordAddr -> Nat]
        /\ blocks \in [Ids -> {NULL} \cup BlockPtrs]
        /\ block_sizes \in [Ids -> Sizes \cup {0}]
    BY <1>6, HeapNow DEF TypeOK, heap
  <1>8. /\ h \in Heaps /\ h.mem = StartWords(mem, a) /\ h.ruined = "nothing"
        /\ h.lists = [l \in 0 .. LISTS - 1 |-> NULL]
    <2>1. StartWords(mem, a) \in [WordAddr -> Nat]
      BY <1>1, <1>7, StartTiles
    <2>2. [l \in 0 .. LISTS - 1 |-> NULL] \in [0 .. LISTS - 1 -> {NULL} \cup BlockPtrs]
      OBVIOUS
    <2> QED
      BY <1>2, <1>7, <2>1, <2>2 DEF Heaps
  <1>9. PICK S : S = {a + 8, a + 16}
    OBVIOUS
  <1>10. Whole(h, brk, S) /\ Used(h.mem, brk, S) = {heap_listp}
    <2>1. PICK m : m = mem /\ m \in [WordAddr -> Nat]
      BY <1>7
    <2>2. h \in Heaps
      BY <1>8
    <2>3. h.mem = StartWords(m, a)
      BY <1>8, <2>1
    <2>4. h.lists = [l \in 0 .. LISTS - 1 |-> NULL]
      BY <1>8
    <2>5. h.mem = StartWords(m, mem_start_brk)
      BY <1>1, <2>3
    <2>6. brk = mem_start_brk + 16 /\ S = {mem_start_brk + 8, brk}
      BY <1>1, <1>9
    <2> QED
      BY <2>1, <2>2, <2>4, <2>5, <2>6, StartWhole
  <1>11. PICK n : n = ExtendSize(words)
    OBVIOUS
  <1>12. n \in Nat /\ n >= 16 /\ n % 8 = 0 /\ z = brk + n
    <2>1. ExtendSize(words) = CHUNKSIZE
      BY <1>3, Numbers, EvenWords DEF WSIZE
    <2> QED
      BY <1>1, <1>11, <2>1, Numbers
  <1>13. /\ r.heap \in Heaps
         /\ \/ r.heap.ruined = "tag"
            \/ /\ r.heap.ruined = "nothing"
               /\ \E T : Extended(h, r.heap, brk, S, z, T, n, r.bp)
    <2>1. z <= mem_max_addr
      BY <1>4
    <2>2. /\ r.heap \in Heaps
          /\ \/ r.heap.ruined = "tag"
             \/ /\ r.heap.ruined = h.ruined
                /\ \E T : Extended(h, r.heap, brk, S, z, T, n, r.bp)
      BY <1>3, <1>10, <1>11, <1>12, <2>1, Extend
    <2> QED
      BY <1>8, <2>2
  <1>14. /\ heap' = r.heap /\ mem' = r.heap.mem /\ ruined' = r.heap.ruined
         /\ mem' \in [WordAddr -> Nat]
         /\ sgrlists' \in [0 .. LISTS - 1 -> {NULL} \cup BlockPtrs]
         /\ ruined' \in {"nothing", "tag", "words", "NULL"}
    BY <1>5, <1>13, HeapTypes
  <1>15. TypeOK'
    BY <1>4, <1>5, <1>6, <1>14 DEF TypeOK
  <1>16. CallOK'
    BY <1>5 DEF CallOK
  <1>17. CASE r.heap.ruined = "tag"
    BY <1>14, <1>15, <1>16, <1>17, RuinedStep
  <1>18. CASE r.heap.ruined # "tag"
    <2>1. PICK T : Extended(h, r.heap, brk, S, z, T, n, r.bp)
      BY <1>13, <1>18
    <2>2. Whole(r.heap, z, T) /\ Used(mem', z, T) = {heap_listp}
      BY <1>10, <1>14, <2>1 DEF Extended
    <2>3. Pointers' = blocks /\ Asked' = block_sizes /\ \A i \in Ids : ~HandedOver(i)'
      BY <1>5, <1>7, HeldThen
    <2>4. Pending' = {} /\ SearchOK(T)'
      BY <1>5 DEF Pending, SearchOK
    <2>5. Owners(mem', z, T, blocks, block_sizes, {})
      <3>1. heap_listp # NULL
        BY Numbers DEF NULL
      <3> QED
        BY <1>6, <2>2, <3>1 DEF Owners
    <2>6. Filled(mem', blocks, block_sizes, {i \in Ids : ~HandedOver(i)'})
      BY <1>6 DEF Filled
    <2>7. HeapOK(T)'
      BY <1>5, <1>14, <2>2, <2>3, <2>4, <2>5, <2>6 DEF HeapOK
    <2> QED
      BY <1>15, <1>16, <2>7, WholeStep
  <1> QED
    BY <1>13, <1>17, <1>18

(* Every step keeps the invariant.                                         *)
LEMMA NextKeeps == ASSUME IInv, [Next]_vars PROVE IInv'
  <1>1. CASE UNCHANGED vars
    BY <1>1, SameStep
  <1>2. CASE mm_init
    BY <1>2, StartStep
  <1>3. CASE Request
    <2>1. ruined = "nothing"
      BY <1>3 DEF Request
    <2>2. PICK i \in Ids :
            \/ \E n \in Sizes :
                 \/ mm_malloc(i, n)
                 \/ mm_realloc_stays(i, n) \/ mm_realloc_absorbs(i, n)
                 \/ mm_realloc_extends(i, n) \/ mm_realloc_refused(i, n)
                 \/ mm_realloc_moves(i, n)
            \/ 0 \in Sizes /\ nothing(i)
            \/ client_free(i)
      BY <1>3 DEF Request
    <2>3. ASSUME NEW n \in Sizes,
                 \/ mm_malloc(i, n)
                 \/ mm_realloc_stays(i, n) \/ mm_realloc_absorbs(i, n)
                 \/ mm_realloc_extends(i, n) \/ mm_realloc_refused(i, n)
                 \/ mm_realloc_moves(i, n)
          PROVE  IInv'
      <3>1. CASE mm_malloc(i, n)
        BY <2>1, <3>1, MallocStep
      <3>2. CASE mm_realloc_stays(i, n)
        BY <2>1, <3>2, StaysStep
      <3>3. CASE mm_realloc_absorbs(i, n)
        BY <2>1, <3>3, AbsorbsStep
      <3>4. CASE mm_realloc_extends(i, n)
        BY <2>1, <3>4, ExtendsStep
      <3>5. CASE mm_realloc_refused(i, n)
        BY <2>1, <3>5, RefusedStep
      <3>6. CASE mm_realloc_moves(i, n)
        BY <2>1, <3>6, MovesStep
      <3> QED
        BY <2>3, <3>1, <3>2, <3>3, <3>4, <3>5, <3>6
    <2>4. CASE 0 \in Sizes /\ nothing(i)
      BY <2>1, <2>4, NothingStep
    <2>5. CASE client_free(i)
      BY <2>5, FreeStep
    <2> QED
      BY <2>2, <2>3, <2>4, <2>5
  <1>4. CASE Run
    <2>1. CASE search_on
      BY <2>1, SearchOnStep
    <2>2. CASE search_list
      BY <2>2, SearchListStep
    <2>3. CASE walk
      BY <2>3, WalkStep
    <2>4. CASE walk_ends
      BY <2>4, WalkEndsStep
    <2>5. CASE walk_finds
      BY <2>5, WalkFindsStep
    <2>6. CASE extend
      BY <2>6, ExtendStep
    <2>7. CASE extend_fails
      BY <2>7, ExtendFailsStep
    <2>8. CASE place_found
      BY <2>8, PlaceStep
    <2>9. CASE move
      BY <2>9, MoveStep
    <2>10. CASE fill
      BY <2>10, FillStep
    <2>11. CASE give_up
      BY <2>11, GiveUpStep
    <2> QED
      BY <1>4, <2>1, <2>2, <2>3, <2>4, <2>5, <2>6, <2>7, <2>8, <2>9, <2>10, <2>11
         DEF Run, Search
  <1>5. CASE lost
    <2>1. UNCHANGED vars
      BY <1>5 DEF lost
    <2> QED
      BY <2>1, SameStep
  <1> QED
    BY <1>1, <1>2, <1>3, <1>4, <1>5 DEF Next

(* As long as none of three events has ruined the heap, there is a set of  *)
(* blocks that tiles it, of which the lists hold the free ones and the     *)
(* client holds the others, filled as it filled them.  The events are the  *)
(* tagged case of coalesce (mm.c:455), an extension counted in words       *)
(* (mm.c:286) and a NULL that is not looked at (mm.c:297).  Behind them    *)
(* the types are claimed, and behind the second one the data.              *)
THEOREM Invariant == Spec => []IInv
  <1>1. Init => IInv
    BY InitHolds
  <1>2. IInv /\ [Next]_vars => IInv'
    BY NextKeeps
  <1> QED
    BY <1>1, <1>2, PTL DEF Spec

-----------------------------------------------------------------------------
(* The properties.                                                         *)

(* What the properties speak of, in a state whose heap S tiles.            *)
LEMMA SoundHeap ==
  ASSUME IInv, Sound
  PROVE  \E S \in SUBSET BlockPtrs :
           /\ HeapOK(S) /\ Tiles(mem, mem_brk, S) /\ Owned(mem, mem_brk, S)
           /\ ListsHold(mem, sgrlists, FreeOf(mem, mem_brk, S))
           /\ Walk = S /\ FreeBlocks = FreeOf(mem, mem_brk, S)
           /\ \A p \in S : Size(p) = SizeOf(mem, p) /\ (HasTag(p) <=> TagOf(mem, p) # 0)
  <1>1. /\ mem \in [WordAddr -> Nat] /\ heap.mem = mem /\ heap.lists = sgrlists
        /\ \E S \in SUBSET BlockPtrs : HeapOK(S)
    BY SoundNow DEF Sound
  <1>2. PICK S \in SUBSET BlockPtrs : HeapOK(S)
    BY <1>1
  <1>3. /\ Tiles(mem, mem_brk, S) /\ Owned(mem, mem_brk, S)
        /\ ListsHold(mem, sgrlists, FreeOf(mem, mem_brk, S))
    BY <1>1, <1>2 DEF HeapOK, Whole, Loose
  <1>4. Walk = S
    BY <1>1, <1>3, WalkNow, WalkTiles
  <1>5. \A p \in S : Size(p) = SizeOf(mem, p) /\ (HasTag(p) <=> TagOf(mem, p) # 0)
    BY DEF Size, HasTag, SizeOf, TagOf, HDRP, WSIZE
  <1>6. AllocOf(mem, mem_brk) = 1
    BY <1>1, <1>3, TilesAddrs
  <1>7. FreeBlocks = FreeOf(mem, mem_brk, S)
    <2>1. \A p : GET_ALLOC(mem, HDRP(p)) = AllocOf(mem, p)
      BY DEF AllocOf, HDRP, WSIZE
    <2> QED
      BY <1>4, <1>6, <2>1 DEF FreeBlocks, FreeOf
  <1> QED
    BY <1>2, <1>3, <1>4, <1>5, <1>7

(* "mm_free - Free a block" and what it stands for: header and footer of   *)
(* every block agree, and those marked allocated are the client's.         *)
LEMMA BlocksTile == IInv => BlocksTileHeap
  <1>1. SUFFICES ASSUME IInv, Sound PROVE BlocksTileHeap
    BY DEF BlocksTileHeap
  <1>2. PICK S \in SUBSET BlockPtrs :
          /\ HeapOK(S) /\ Tiles(mem, mem_brk, S) /\ Walk = S
          /\ FreeBlocks = FreeOf(mem, mem_brk, S)
    BY <1>1, SoundHeap
  <1>3. mem \in [WordAddr -> Nat]
    BY <1>1, SoundNow DEF Sound
  <1>4. \A p : /\ GET_SIZE(mem, HDRP(p)) = SizeOf(mem, p)
               /\ GET_ALLOC(mem, HDRP(p)) = AllocOf(mem, p) /\ Size(p) = SizeOf(mem, p)
    BY DEF SizeOf, AllocOf, Size, HDRP, WSIZE
  <1>5. mem_brk \in Walk /\ heap_listp \in S /\ GET_SIZE(mem, HDRP(mem_brk)) = 0
    BY <1>2, <1>3, <1>4, TilesAddrs
  <1>6. ASSUME NEW p \in Walk \ {mem_brk}
        PROVE  /\ Size(p) > 0 /\ GET_SIZE(mem, FTRP(mem, p)) = Size(p)
               /\ GET_ALLOC(mem, FTRP(mem, p)) = GET_ALLOC(mem, HDRP(p))
    <2>1. p \in S \ {mem_brk} /\ p \in Nat
      BY <1>2, <1>3, <1>6, TilesAddrs
    <2>2. /\ EndOf(mem, p) = p + SizeOf(mem, p) /\ EndOf(mem, p) >= p + 8
          /\ SizeOf(mem, p) \in Nat
          /\ GET_SIZE(mem, EndOf(mem, p) - 8) = SizeOf(mem, p)
          /\ GET_ALLOC(mem, EndOf(mem, p) - 8) = AllocOf(mem, p)
      BY <1>2, <1>3, <2>1, TilesBlock
    <2>3. SizeOf(mem, p) > 0
      BY <2>1, <2>2
    <2>4. FTRP(mem, p) = EndOf(mem, p) - 8
      <3>1. PICK z \in Nat : z = SizeOf(mem, p)
        BY <2>2
      <3>2. FTRP(mem, p) = p + (z - 8)
        BY <1>4, <3>1 DEF FTRP, DSIZE
      <3> QED
        BY <2>1, <2>2, <3>1, <3>2
    <2> QED
      BY <1>4, <2>2, <2>3, <2>4
  <1>7. Walk \ FreeBlocks =
          {heap_listp, mem_brk} \cup {Pointer(i) : i \in Held} \cup Pending
    <2>1. /\ Used(mem, mem_brk, S) =
               {heap_listp} \cup {Pointers[i] : i \in {j \in Ids : Pointers[j] # NULL}}
                 \cup Pending
      BY <1>2 DEF HeapOK, Owners
    <2>2. {Pointers[i] : i \in {j \in Ids : Pointers[j] # NULL}} = {Pointer(i) : i \in Held}
      BY DEF Pointers, Held
    <2>3. ASSUME NEW p \in S \ {mem_brk} PROVE AllocOf(mem, p) \in {0, 1}
      BY <1>2, <1>3, <2>3, TilesBlock
    <2>4. S \ FreeOf(mem, mem_brk, S) = Used(mem, mem_brk, S) \cup {mem_brk}
      BY <1>2, <1>5, <2>3 DEF FreeOf, Used
    <2> QED
      BY <1>2, <2>1, <2>2, <2>4
  <1> QED
    BY <1>5, <1>6, <1>7 DEF BlocksTileHeap

(* The block in front of a tag is in use.                                  *)
LEMMA TagsOwned == IInv => TagsHaveOwners
  <1>1. SUFFICES ASSUME IInv, Sound, NEW p \in Walk \ {mem_brk},
                        HasTag(NEXT_BLKP(mem, p)), p \in FreeBlocks
                 PROVE  FALSE
    BY DEF TagsHaveOwners
  <1>2. PICK S \in SUBSET BlockPtrs :
          /\ Owned(mem, mem_brk, S) /\ FreeBlocks = FreeOf(mem, mem_brk, S)
    BY <1>1, SoundHeap
  <1>3. TagOf(mem, EndOf(mem, p)) = 0
    BY <1>1, <1>2 DEF Owned
  <1> QED
    BY <1>1, <1>3 DEF HasTag, TagOf, EndOf, SizeOf, NEXT_BLKP, HDRP, WSIZE

(* What the client wrote is there.                                         *)
LEMMA PayloadStays == IInv => PayloadIntact
  <1>1. SUFFICES ASSUME IInv, Sound, NEW i \in Held, ~HandedOver(i),
                        NEW a \in WordsOf(Pointer(i), Bytes(i))
                 PROVE  mem[a] = FillWord(i)
    BY DEF PayloadIntact
  <1>2. PICK S : HeapOK(S)
    BY <1>1, SoundHeap
  <1>3. i \in Ids /\ Pointer(i) # NULL /\ Pointers[i] = Pointer(i) /\ Asked[i] = Bytes(i)
    BY <1>1 DEF Held, Pointers, Asked
  <1>4. i \in {j \in Ids : ~HandedOver(j)}
    BY <1>1, <1>3
  <1> QED
    BY <1>1, <1>2, <1>3, <1>4 DEF HeapOK, Filled

(* And so is what mm_realloc brought along, the heap extended or not.      *)
LEMMA DataKept == IInv => ReallocKeepsData
  <1>1. SUFFICES ASSUME IInv, Answered, ruined \in {"nothing", "words"}
                 PROVE  ReallocKeepsData
    BY DEF ReallocKeepsData
  <1>2. pc = "returned" /\ call.op = "realloc" /\ bp # NULL
    BY <1>1 DEF Answered
  <1>3. CASE ruined = "nothing"
    <2>1. Sound
      BY <1>2, <1>3 DEF Sound
    <2>2. PICK S : HeapOK(S)
      BY <1>1, <2>1, SoundHeap
    <2>3. Kept
      BY <1>2, <2>2 DEF HeapOK
    <2> QED
      BY <1>2, <2>3 DEF Kept, ReallocKeepsData
  <1>4. CASE ruined = "words"
    <2>1. Kept
      BY <1>1, <1>2, <1>4 DEF IInv
    <2> QED
      BY <1>2, <2>1 DEF Kept, ReallocKeepsData
  <1> QED
    BY <1>1, <1>3, <1>4

(* What has been found is on the first list that has a block that fits.    *)
LEMMA FoundFirst == IInv => FoundOnFirstList
  <1>1. SUFFICES ASSUME IInv, Sound PROVE FoundOnFirstList
    BY DEF FoundOnFirstList
  <1>2. PICK S \in SUBSET BlockPtrs :
          /\ HeapOK(S) /\ Tiles(mem, mem_brk, S)
          /\ FreeBlocks = FreeOf(mem, mem_brk, S)
          /\ \A p \in S : Size(p) = SizeOf(mem, p) /\ (HasTag(p) <=> TagOf(mem, p) # 0)
    BY <1>1, SoundHeap
  <1>3. Usable = Fitting(mem, mem_brk, S, call.asize)
    <2>1. FreeBlocks \subseteq S
      BY <1>2 DEF FreeOf
    <2> QED
      BY <1>2, <2>1 DEF Usable, Fitting
  <1>4. ASSUME pc = "found"
        PROVE  bp \in Usable /\ \A p \in Usable : ListOf(Size(bp)) <= ListOf(Size(p))
    <2>1. /\ bp \in Fitting(mem, mem_brk, S, call.asize)
          /\ \A p \in Fitting(mem, mem_brk, S, call.asize) :
               ListOf(SizeOf(mem, bp)) <= ListOf(SizeOf(mem, p))
      BY <1>2, <1>4 DEF HeapOK, SearchOK
    <2>2. \A p \in Usable : Size(p) = SizeOf(mem, p)
      BY <1>2 DEF Usable, FreeOf
    <2> QED
      BY <1>3, <2>1, <2>2
  <1>5. ASSUME pc = "search", list = LISTS PROVE Usable = {}
    BY <1>2, <1>3, <1>5, NoneLeft
  <1> QED
    BY <1>4, <1>5 DEF FoundOnFirstList

(* The blocks of a chain are what Nth finds, and what OnList collects.     *)
LEMMA OnListIs ==
  ASSUME NEW h \in Heaps, NEW l \in 0 .. LISTS - 1, NEW F, Spaced(F), NEW P, P \subseteq F,
         Holds(h.mem, h.lists[l], P)
  PROVE  {Nth(h, l)[n] : n \in DOMAIN Nth(h, l)} \ {NULL} = P
  <1>1. PICK c \in Nat, s \in [Nat -> {NULL} \cup BlockPtrs] :
          Chain(h.mem, h.lists[l], s, c) /\ P = {s[k] : k \in 0 .. c - 1}
    BY DEF Holds
  <1>2. PICK m, head : m = h.mem /\ head = h.lists[l]
    OBVIOUS
  <1>3. \A k \in 0 .. c - 1 : s[k] \in F
    BY <1>1
  <1>4. c <= MAX_HEAP \div MIN_BSIZE
    BY <1>1, <1>2, <1>3, ChainBound
  <1>5. PICK max : max = MAX_HEAP \div MIN_BSIZE
    OBVIOUS
  <1>6. max \in Nat
    BY <1>5, Numbers DEF MIN_BSIZE
  <1>7. /\ DOMAIN Nth(h, l) = 0 .. max
        /\ \A k \in 0 .. max : Nth(h, l)[k] = s[k]
    BY <1>1, <1>5, NthIs
  <1>8. \A k \in Nat : s[k] = NULL <=> c <= k
    BY <1>1 DEF Chain
  <1>9. \A k \in 0 .. c - 1 : k \in 0 .. max /\ k \in Nat /\ ~(c <= k)
    BY <1>4, <1>5, <1>6
  <1>10. \A k \in 0 .. max : ~(c <= k) => k \in 0 .. c - 1
    OBVIOUS
  <1> QED
    BY <1>1, <1>7, <1>8, <1>9, <1>10

(* One link and back.                                                      *)
LEMMA LinkedBack ==
  ASSUME NEW m, NEW head, NEW P, Holds(m, head, P), NEW p \in P
  PROVE  /\ NEXT_FREEP(m, p) # NULL => PREV_FREEP(m, NEXT_FREEP(m, p)) = p
         /\ PREV_FREEP(m, p) = NULL => head = p
         /\ PREV_FREEP(m, p) # NULL => NEXT_FREEP(m, PREV_FREEP(m, p)) = p
  <1>1. PICK c \in Nat, s \in [Nat -> {NULL} \cup BlockPtrs] :
          Chain(m, head, s, c) /\ P = {s[k] : k \in 0 .. c - 1}
    BY DEF Holds
  <1>2. PICK k \in 0 .. c - 1 : p = s[k]
    BY <1>1
  <1>3. k \in Nat /\ k + 1 \in Nat /\ (k # 0 => k - 1 \in 0 .. c - 1)
        /\ (~(c <= k + 1) => k + 1 \in 0 .. c - 1) /\ k + 1 # 0 /\ (k + 1) - 1 = k
        /\ (k - 1) + 1 = k
    OBVIOUS
  <1>4. /\ head = s[0] /\ (s[k + 1] = NULL <=> c <= k + 1)
        /\ NEXT_FREEP(m, s[k]) = s[k + 1]
        /\ PREV_FREEP(m, s[k]) = IF k = 0 THEN NULL ELSE s[k - 1]
    BY <1>1, <1>2, <1>3 DEF Chain
  <1>5. ASSUME NEXT_FREEP(m, p) # NULL PROVE PREV_FREEP(m, NEXT_FREEP(m, p)) = p
    <2>1. k + 1 \in 0 .. c - 1
      BY <1>2, <1>3, <1>4, <1>5
    <2>2. PREV_FREEP(m, s[k + 1]) = s[k]
      BY <1>1, <1>3, <2>1 DEF Chain
    <2> QED
      BY <1>2, <1>4, <2>2
  <1>6. ASSUME k # 0
        PROVE  PREV_FREEP(m, p) # NULL /\ NEXT_FREEP(m, PREV_FREEP(m, p)) = p
    <2>1. k - 1 \in 0 .. c - 1 /\ k - 1 \in Nat /\ ~(c <= k - 1)
      BY <1>3, <1>6
    <2>2. s[k - 1] # NULL /\ NEXT_FREEP(m, s[k - 1]) = s[k]
      BY <1>1, <1>3, <2>1 DEF Chain
    <2> QED
      BY <1>2, <1>4, <1>6, <2>2
  <1>7. ASSUME k = 0 PROVE PREV_FREEP(m, p) = NULL /\ head = p
    BY <1>2, <1>4, <1>7
  <1> QED
    BY <1>5, <1>6, <1>7

(* The lists hold the free blocks, and their links lead back.              *)
LEMMA ListsFree == IInv => ListsHoldFreeBlocks
  <1>1. SUFFICES ASSUME IInv, Sound PROVE ListsHoldFreeBlocks
    BY DEF ListsHoldFreeBlocks
  <1>2. PICK S \in SUBSET BlockPtrs :
          /\ Tiles(mem, mem_brk, S)
          /\ ListsHold(mem, sgrlists, FreeOf(mem, mem_brk, S))
          /\ FreeBlocks = FreeOf(mem, mem_brk, S)
    BY <1>1, SoundHeap
  <1>3. PICK F : F = FreeBlocks
    OBVIOUS
  <1>4. heap \in Heaps /\ heap.mem = mem /\ heap.lists = sgrlists /\ mem \in [WordAddr -> Nat]
    BY <1>1, SoundNow DEF Sound
  <1>5. Spaced(F)
    BY <1>2, <1>3, <1>4, FreeSpaced
  <1>6. \A l \in 0 .. LISTS - 1 : Holds(mem, sgrlists[l], Sorted(mem, F, l))
    BY <1>2, <1>3 DEF ListsHold
  <1>7. \A l : Sorted(mem, F, l) = {p \in FreeBlocks : ListOf(Size(p)) = l}
    BY <1>3 DEF Sorted, Size
  <1>8. ASSUME NEW l \in 0 .. LISTS - 1
        PROVE  OnList(l) = {p \in FreeBlocks : ListOf(Size(p)) = l}
    <2>1. PICK P, h : P = Sorted(mem, F, l) /\ h = heap
      OBVIOUS
    <2>2. P \subseteq F /\ Holds(h.mem, h.lists[l], P) /\ h \in Heaps
      BY <1>4, <1>6, <2>1 DEF Sorted
    <2>3. {Nth(h, l)[n] : n \in DOMAIN Nth(h, l)} \ {NULL} = P
      BY <1>5, <1>8, <2>2, OnListIs
    <2> QED
      BY <1>7, <2>1, <2>3 DEF OnList
  <1>9. ASSUME NEW p \in FreeBlocks
        PROVE  /\ NEXT_FREEP(mem, p) # NULL => PREV_FREEP(mem, NEXT_FREEP(mem, p)) = p
               /\ PREV_FREEP(mem, p) = NULL => sgrlists[ListOf(Size(p))] = p
               /\ PREV_FREEP(mem, p) # NULL => NEXT_FREEP(mem, PREV_FREEP(mem, p)) = p
    <2>1. PICK l, P, head, m : l = ListOf(Size(p)) /\ P = Sorted(mem, F, l)
                               /\ head = sgrlists[l] /\ m = mem
      OBVIOUS
    <2>2. l \in 0 .. LISTS - 1
      BY <2>1, ListOfIs
    <2>3. Holds(m, head, P)
      BY <1>6, <2>1, <2>2
    <2>4. p \in P
      BY <1>7, <1>9, <2>1
    <2>5. /\ NEXT_FREEP(m, p) # NULL => PREV_FREEP(m, NEXT_FREEP(m, p)) = p
          /\ PREV_FREEP(m, p) = NULL => head = p
          /\ PREV_FREEP(m, p) # NULL => NEXT_FREEP(m, PREV_FREEP(m, p)) = p
      BY <2>3, <2>4, LinkedBack
    <2> QED
      BY <2>1, <2>5
  <1> QED
    BY <1>8, <1>9 DEF ListsHoldFreeBlocks

(* Every variable has its type; the lists lead to block pointers only,     *)
(* even when the heap is ruined.                                           *)
THEOREM Typed == Spec => []TypeOK
  <1>1. IInv => TypeOK
    BY DEF IInv
  <1> QED
    BY <1>1, Invariant, PTL

(* As long as none of the three events has ruined the heap, the blocks     *)
(* tile it from the prologue to the epilogue at the break, header and      *)
(* footer agree, and those marked allocated are the prologue, the epilogue *)
(* and the client's: until then mm_malloc, mm_realloc and mm_free neither  *)
(* lose a block nor hand one out twice.  Behind the events this may fail.  *)
THEOREM HeapTiled == Spec => []BlocksTileHeap
  BY Invariant, BlocksTile, PTL

(* Until one of the three events, the segregated lists hold all free       *)
(* blocks and nothing else, each on the list of its size and once, and     *)
(* their links lead back, although they lie where the client writes:       *)
(* insert_block, delete_block and the search agree on the list of every    *)
(* size.                                                                   *)
THEOREM ListsExact == Spec => []ListsHoldFreeBlocks
  BY Invariant, ListsFree, PTL

(* Until one of the three events, a tag SET_TAG leaves is never behind a   *)
(* free block: mm_free takes it away in time, and no PUT carries it        *)
(* elsewhere.                                                              *)
THEOREM TagsAnswered == Spec => []TagsHaveOwners
  BY Invariant, TagsOwned, PTL

(* Until one of the three events, payloads do not overlap, nor does a tag  *)
(* or a link lie in one: what the client filled stays filled, until it is  *)
(* freed or reallocated.  The tagged case of coalesce does write a link    *)
(* into a block in use; what is said of the data ends there.               *)
THEOREM NothingOverwritten == Spec => []PayloadIntact
  BY Invariant, PayloadStays, PTL

(* mm_realloc returns a block with the data of the old one, up to the      *)
(* smaller of the two sizes, be it the same block, one that has taken the  *)
(* next one, another one, or one for which the heap was extended, although *)
(* that ruins the list of blocks (mm.c:286): header and footer, whatever   *)
(* their size, are not written where the data is.  It is not about a call  *)
(* that meets the tagged case of coalesce, or copies to NULL.              *)
THEOREM DataMoves == Spec => []ReallocKeepsData
  BY Invariant, DataKept, PTL

(* Until one of the three events, the search of mm_malloc misses no block: *)
(* what it finds is on the first list that has one that fits and is not    *)
(* reserved, and when it ends without one there is none.                   *)
THEOREM FirstListFirst == Spec => []FoundOnFirstList
  BY Invariant, FoundFirst, PTL
=============================================================================
