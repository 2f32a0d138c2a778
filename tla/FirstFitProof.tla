---------------------------- MODULE FirstFitProof ----------------------------
(***************************************************************************)
(* The theorems about mm-firstfit.c: IInv of FirstFitInv is an inductive   *)
(* invariant, for every heap, every chunk size and every client, and what  *)
(* it implies.  FirstFitLemmas says what each routine does to a heap; here *)
(* there is one lemma for each action.                                     *)
(*                                                                         *)
(* From IInv, and from what each routine leaves as it was (Keeps), follows *)
(* that mm-firstfit.c implements the interface the allocators of the       *)
(* repository promise (AllocContract), and that nobody writes to what the  *)
(* client holds.  Last comes what a walk along the headers meets, the one  *)
(* mm_checkheap makes: a consistent heap, no lost block, first fit; IInv   *)
(* says some set of blocks tiles the heap, and the bridge to the walk, a   *)
(* recursive function, is WalkTiles.                                       *)
(***************************************************************************)
EXTENDS FirstFitLemmas

-----------------------------------------------------------------------------
(* What the lemmas of the actions share.                                   *)

(* A size that was asked for, or none, is a number.                        *)
LEMMA SizesNat == \A k \in Sizes \cup {0} : k \in Nat
  BY Area

(* A block that a step leaves alone stays its owner's.                     *)
LEMMA OwnsKept ==
  ASSUME NEW m \in [WordAddr -> Nat], NEW brk, NEW S, Tiling(m, brk, S),
         NEW n \in [WordAddr -> Nat], NEW z, NEW T,
         NEW p, NEW k, Owns(m, brk, S, p, k),
         p \in T, p # z, n[p - 4] = m[p - 4]
  PROVE  Owns(n, z, T, p, k)
  BY DEF Owns, IsFree, GET_ALLOC, GET_SIZE, HDRP, WSIZE

(* The numbers about a block that is owned.                                *)
LEMMA OwnsAddrs ==
  ASSUME NEW m \in [WordAddr -> Nat], NEW brk, NEW S, Tiling(m, brk, S),
         NEW p, NEW k \in Nat, Owns(m, brk, S, p, k)
  PROVE  /\ p \in S /\ p \in Nat /\ p % 8 = 0 /\ p # heap_listp /\ p # brk
         /\ brk \in Nat /\ brk <= mem_max_addr
         /\ heap_listp < p /\ p > NULL
         /\ NEXT_BLKP(m, p) \in S /\ NEXT_BLKP(m, p) \in Nat
         /\ NEXT_BLKP(m, p) = p + GET_SIZE(m, HDRP(p))
         /\ p + k <= NEXT_BLKP(m, p) - 8
         /\ NEXT_BLKP(m, p) <= brk
         /\ \A q \in S : q <= p \/ NEXT_BLKP(m, p) <= q
  <1>1. p \in S /\ p # heap_listp /\ p # brk /\ k + 8 <= GET_SIZE(m, HDRP(p))
    BY DEF Owns, OVERHEAD
  <1>2. /\ NEXT_BLKP(m, p) \in S /\ NEXT_BLKP(m, p) \in Nat
        /\ NEXT_BLKP(m, p) = p + GET_SIZE(m, HDRP(p))
        /\ GET_SIZE(m, HDRP(p)) \in Nat
    BY <1>1, TilingBlock
  <1>3. /\ p \in Nat /\ p % 8 = 0 /\ heap_listp <= p /\ NEXT_BLKP(m, p) <= brk
        /\ brk \in Nat /\ brk <= mem_max_addr /\ heap_listp \in Nat
        /\ \A q \in S : q <= p \/ NEXT_BLKP(m, p) <= q
    BY <1>1, <1>2, TilingAddrs
  <1>4. p > NULL
    BY <1>1, TilingAddrs, BlockPtrAddrs
  <1> QED
    BY <1>1, <1>2, <1>3, <1>4

(* Two owned blocks: the bytes of one lie before those of the other.       *)
LEMMA OwnersApart ==
  ASSUME NEW m \in [WordAddr -> Nat], NEW brk, NEW S, Tiling(m, brk, S),
         NEW p, NEW k \in Nat, Owns(m, brk, S, p, k),
         NEW q, NEW l \in Nat, Owns(m, brk, S, q, l), p # q
  PROVE  \/ p + k <= q /\ NEXT_BLKP(m, p) <= q
         \/ q + l <= p /\ NEXT_BLKP(m, q) <= p
  <1>1. /\ p \in S /\ p \in Nat /\ NEXT_BLKP(m, p) \in Nat
        /\ p + k <= NEXT_BLKP(m, p) - 8
        /\ \A r \in S : r <= p \/ NEXT_BLKP(m, p) <= r
    BY OwnsAddrs
  <1>2. /\ q \in S /\ q \in Nat /\ NEXT_BLKP(m, q) \in Nat
        /\ q + l <= NEXT_BLKP(m, q) - 8
        /\ \A r \in S : r <= q \/ NEXT_BLKP(m, q) <= r
    BY OwnsAddrs
  <1>3. (q <= p \/ NEXT_BLKP(m, p) <= q) /\ (p <= q \/ NEXT_BLKP(m, q) <= p)
    BY <1>1, <1>2
  <1> QED
    BY <1>1, <1>2, <1>3

(* Writing to the payload of an owned block changes no tag.                *)
LEMMA PayloadWrite ==
  ASSUME NEW m \in [WordAddr -> Nat], NEW brk, NEW S, Tiling(m, brk, S),
         Coalesced(m, brk, S),
         NEW n \in [WordAddr -> Nat],
         NEW p, NEW k \in Nat, Owns(m, brk, S, p, k),
         \A w \in WordAddr : w < p \/ p + k <= w => n[w] = m[w]
  PROVE  /\ Tiling(n, brk, S) /\ Coalesced(n, brk, S)
         /\ \A q \in S : n[q - 4] = m[q - 4]
  <1>1. /\ p \in S /\ p \in Nat /\ NEXT_BLKP(m, p) \in Nat
        /\ p + k <= NEXT_BLKP(m, p) - 8
        /\ \A q \in S : q <= p \/ NEXT_BLKP(m, p) <= q
    BY OwnsAddrs
  <1>2. \A q \in S : n[q - 4] = m[q - 4] /\ n[q - 8] = m[q - 8]
    <2> SUFFICES ASSUME NEW q \in S
                 PROVE  n[q - 4] = m[q - 4] /\ n[q - 8] = m[q - 8]
      OBVIOUS
    <2>1. /\ q \in Nat /\ q - 4 \in WordAddr /\ q - 8 \in WordAddr
          /\ q <= p \/ NEXT_BLKP(m, p) <= q
      BY <1>1, TilingAddrs
    <2>2. /\ q - 4 < p \/ p + k <= q - 4
          /\ q - 8 < p \/ p + k <= q - 8
      BY <1>1, <2>1
    <2> QED
      BY <2>1, <2>2
  <1>3. \A q \in S \ {brk} : n[NEXT_BLKP(m, q) - 8] = m[NEXT_BLKP(m, q) - 8]
    BY <1>2, TilingBlock
  <1>4. /\ Tiling(n, brk, S)
        /\ \A q \in S \ {brk} : NEXT_BLKP(n, q) = NEXT_BLKP(m, q)
        /\ \A q \in S : GET_ALLOC(n, HDRP(q)) = GET_ALLOC(m, HDRP(q))
    BY <1>2, <1>3, Frame
  <1>5. Coalesced(n, brk, S)
    <2>1. \A q \in S \ {brk} : NEXT_BLKP(m, q) \in S
      BY TilingBlock
    <2> QED
      BY <1>4, <2>1 DEF Coalesced, CoalescedBut, IsFree
  <1> QED
    BY <1>2, <1>4, <1>5

(* n is m but for words in the k bytes from p on.                          *)
WritesOnly(m, n, p, k) ==
  /\ n \in [WordAddr -> Nat]
  /\ \A w \in WordAddr : w < p \/ p + k <= w => n[w] = m[w]

(* memset fills bytes of the payload only.                                 *)
LEMMA Memset ==
  ASSUME NEW m \in [WordAddr -> Nat], NEW p \in Nat, NEW k \in Nat, NEW v \in Nat,
         NEW n, n = memset(m, p, v, k)
  PROVE  WritesOnly(m, n, p, k)
  <1>1. \A w \in WordAddr : w \in Int
    BY Area DEF WordAddr
  <1>2. n = [a \in WordAddr |-> IF a \in WordsOf(p, k) THEN v ELSE m[a]]
    BY DEF memset
  <1>3. \A w \in WordAddr : w < p \/ p + k <= w => w \notin WordsOf(p, k)
    BY <1>1 DEF WordsOf
  <1> QED
    BY <1>2, <1>3 DEF WritesOnly

(* memcpy copies from below the break, and changes bytes of the new        *)
(* payload only.                                                           *)
LEMMA Memcpy ==
  ASSUME NEW m \in [WordAddr -> Nat], NEW to \in Nat, NEW from \in Nat,
         NEW k \in Nat, to % 8 = 0, from % 8 = 0,
         mem_start_brk <= from, from + k <= mem_max_addr,
         NEW n, n = memcpy(m, to, from, k)
  PROVE  WritesOnly(m, n, to, k)
  <1>1. \A w \in WordAddr : w \in Int /\ w % 4 = 0
    BY Area DEF WordAddr, WSIZE
  <1>2. n = [a \in WordAddr |-> IF a \in WordsOf(to, k) THEN m[a - to + from] ELSE m[a]]
    BY DEF memcpy
  <1>3. \A w \in WordAddr : w < to \/ to + k <= w => w \notin WordsOf(to, k)
    BY <1>1 DEF WordsOf
  <1>4. \A w \in WordsOf(to, k) : w - to + from \in WordAddr
    <2> SUFFICES ASSUME NEW w \in WordsOf(to, k) PROVE w - to + from \in WordAddr
      OBVIOUS
    <2>1. w \in WordAddr /\ to <= w /\ w < to + k
      BY DEF WordsOf
    <2>2. w \in Int /\ w % 4 = 0
      BY <1>1, <2>1
    <2>3. (w - to + from) % 4 = 0
      BY <2>2
    <2>4. w - to + from \in Int /\ from <= w - to + from /\ w - to + from < from + k
      BY <2>1, <2>2
    <2>5. w - to + from \in mem_start_brk .. mem_max_addr - 1
      BY <2>4, Area
    <2> QED
      BY <2>3, <2>5 DEF WordAddr, WSIZE
  <1> QED
    BY <1>2, <1>3, <1>4 DEF WritesOnly

(* The block size for a request: room for the tags, and aligned.           *)
LEMMA Adjusted ==
  ASSUME NEW n \in Sizes, n > 0
  PROVE  /\ AdjustedSize(n) \in Nat /\ AdjustedSize(n) % 8 = 0
         /\ AdjustedSize(n) >= 16 /\ n + 8 <= AdjustedSize(n)
         /\ AdjustedSize(n) < WORD_MOD
         /\ AdjustedSize(n) < WORD_MOD \div 2
              => mem_max_addr + AdjustedSize(n) < WORD_MOD
  <1>1. n \in Nat /\ n + 15 < WORD_MOD
    BY RequestAssumption, Area DEF RequestAssumption, OVERHEAD, DSIZE
  <1>2. AdjustedSize(n) < WORD_MOD \div 2 => mem_max_addr + AdjustedSize(n) < WORD_MOD
    BY RequestAssumption DEF RequestAssumption
  <1>3. CASE n <= 8
    <2>1. AdjustedSize(n) = 16
      BY <1>1, <1>3 DEF AdjustedSize, OVERHEAD, DSIZE
    <2>2. 16 < WORD_MOD
      BY Area
    <2> QED
      BY <1>1, <1>2, <1>3, <2>1, <2>2
  <1>4. CASE ~(n <= 8)
    <2>1. PICK x \in Nat : x = n + 15
      BY <1>1
    <2>2. n + OVERHEAD + (DSIZE - 1) = x
      BY <1>1, <2>1 DEF OVERHEAD, DSIZE
    <2>3. x % WORD_MOD = x
      BY <1>1, <2>1, Area, NoWrap
    <2>4. AdjustedSize(n) = 8 * (x \div 8)
      BY <1>4, <2>2, <2>3 DEF AdjustedSize, DSIZE
    <2>5. PICK y \in Nat : y = x \div 8
      BY <2>1
    <2>6. 8 * y <= x /\ x < 8 * y + 8
      BY <2>1, <2>5
    <2>7. 8 * y \in Nat /\ (8 * y) % 8 = 0
      BY <2>5
    <2>8. AdjustedSize(n) = 8 * y
      BY <2>4, <2>5
    <2> QED
      BY <1>1, <1>2, <1>4, <2>1, <2>6, <2>7, <2>8, Area
  <1> QED
    BY <1>3, <1>4

(* What mm_malloc asks mem_sbrk for is granted only if it fits: neither    *)
(* the size nor the address mem_sbrk tests wraps round.                    *)
LEMMA Grown ==
  ASSUME NEW n \in Sizes, n > 0, NEW asize, asize = AdjustedSize(n),
         NEW brk \in Nat, brk <= mem_max_addr,
         SbrkSucceeds(brk, ToInt(ExtendSize(WordsFor(asize))))
  PROVE  \E size \in Nat :
           /\ size % 8 = 0 /\ size >= 16 /\ asize <= size
           /\ WordsFor(asize) = size \div WSIZE
           /\ ToInt(ExtendSize(WordsFor(asize))) = size
           /\ MovedBrk(brk, size) = brk + size
           /\ brk + size <= mem_max_addr
  <1>1. /\ asize \in Nat /\ asize % 8 = 0 /\ asize >= 16 /\ asize < WORD_MOD
        /\ asize < WORD_MOD \div 2 => mem_max_addr + asize < WORD_MOD
    BY Adjusted
  <1>2. PICK size \in Nat : size = IF asize > CHUNKSIZE THEN asize ELSE CHUNKSIZE
    BY <1>1, Area
  <1>3. /\ size % 8 = 0 /\ size >= 16 /\ asize <= size
        /\ WordsFor(asize) = size \div WSIZE
        /\ size < WORD_MOD
        /\ size < WORD_MOD \div 2 => mem_max_addr + size < WORD_MOD
    BY <1>1, <1>2, Area DEF WordsFor
  <1>4. ExtendSize(WordsFor(asize)) = size
    BY <1>3, EvenWords
  <1>5. ToInt(size) >= 0 /\ MovedBrk(brk, ToInt(size)) <= mem_max_addr
    BY <1>4 DEF SbrkSucceeds
  <1>6. size < WORD_MOD \div 2
    <2>1. CASE ~(size < WORD_MOD \div 2)
      <3>1. ToInt(size) = size - WORD_MOD
        BY <2>1 DEF ToInt
      <3> QED
        BY <1>3, <1>5, <3>1, Area
    <2> QED
      BY <2>1
  <1>7. ToInt(size) = size
    BY <1>6 DEF ToInt
  <1>8. brk + size \in Nat /\ brk + size < WORD_MOD
    BY <1>3, <1>6, Area
  <1>9. MovedBrk(brk, size) = brk + size
    BY <1>8, Area, NoWrap DEF MovedBrk
  <1> QED
    BY <1>3, <1>4, <1>5, <1>7, <1>9

-----------------------------------------------------------------------------
(* One lemma for each action.                                              *)

(* Between two calls the client holds what blocks says.                    *)
LEMMA HeldNow ==
  ASSUME TypeOK, pc # "returned"
  PROVE  /\ Pointers = blocks /\ Asked = block_sizes
         /\ \A i \in Ids : Pointer(i) = blocks[i] /\ Bytes(i) = block_sizes[i]
  BY DEF TypeOK, Pointers, Asked, Pointer, Bytes, HandedOver

(* ... and so it does after a step that does not return.                   *)
LEMMA HeldThen ==
  ASSUME blocks' \in [Ids -> {NULL} \cup BlockPtrs],
         block_sizes' \in [Ids -> Sizes \cup {0}], pc' # "returned"
  PROVE  Pointers' = blocks' /\ Asked' = block_sizes'
  BY DEF Pointers, Asked, Pointer, Bytes, HandedOver

(* When a call has returned, its block is the one it returned.             *)
LEMMA HeldReturned ==
  ASSUME pc' = "returned"
  PROVE  /\ \A i \in Ids : /\ Pointers'[i] = IF i = call.index' THEN bp' ELSE blocks'[i]
                           /\ Asked'[i] = IF i = call.index' THEN call.size' ELSE block_sizes'[i]
  BY DEF Pointers, Asked, Pointer, Bytes, HandedOver

(* mm_init makes a heap of one free block ...                              *)
LEMMA StartHeap ==
  ASSUME IInv, mm_init
  PROVE  /\ mem' \in [WordAddr -> Nat] /\ mem_brk' \in mem_start_brk .. mem_max_addr
         /\ \E T \in SUBSET BlockPtrs :
              /\ Tiling(mem', mem_brk', T) /\ Coalesced(mem', mem_brk', T)
              /\ \A q \in T : ~IsFree(mem', q) => q \in {heap_listp, mem_brk'}
  <1>1. TypeOK
    BY DEF IInv
  <1>2. PICK a \in Nat : a = mem_start_brk
    BY Area
  <1> DEFINE m4 == FirstWords(mem)
  <1>3. mem \in [WordAddr -> Nat]
    BY <1>1 DEF TypeOK
  <1>4. /\ m4 \in [WordAddr -> Nat]
        /\ Tiling(m4, a + 16, {a + 8, a + 16})
        /\ Coalesced(m4, a + 16, {a + 8, a + 16})
    BY <1>2, <1>3, EmptyHeap
  <1>5. MovedBrk(mem_start_brk, 4 * WSIZE) = a + 16
    <2>1. a + 16 \in Nat /\ a + 16 < WORD_MOD /\ WORD_MOD \in Nat
      BY <1>2, Area
    <2>2. mem_start_brk + 4 * WSIZE = a + 16
      BY <1>2 DEF WSIZE
    <2> QED
      BY <2>1, <2>2, NoWrap DEF MovedBrk
  <1> DEFINE z == (a + 16) + CHUNKSIZE
  <1>6. MovedBrk(a + 16, ExtendSize(CHUNKSIZE \div WSIZE)) = z
    <2>1. ExtendSize(CHUNKSIZE \div WSIZE) = CHUNKSIZE
      BY Area, EvenWords
    <2>2. z \in Nat /\ z < WORD_MOD /\ WORD_MOD \in Nat
      BY <1>2, Area
    <2> QED
      BY <2>1, <2>2, NoWrap DEF MovedBrk
  <1>7. /\ mem' = extend_heap(m4, a + 16, CHUNKSIZE \div WSIZE).mem
        /\ mem_brk' = z
    BY <1>5, <1>6 DEF mm_init, FirstWords
  <1> HIDE DEF m4
  <1>8. PICK brk \in Nat : brk = a + 16
    BY <1>2
  <1>9. PICK m \in [WordAddr -> Nat] : m = m4
    BY <1>4
  <1>10. PICK S : S = {a + 8, a + 16}
    OBVIOUS
  <1>11. PICK size \in Nat : size = CHUNKSIZE /\ size % 8 = 0 /\ size >= 16
    BY Area
  <1>12. /\ Tiling(m, brk, S) /\ Coalesced(m, brk, S)
         /\ brk + size <= mem_max_addr
         /\ mem' = extend_heap(m, brk, size \div WSIZE).mem
    BY <1>2, <1>4, <1>7, <1>8, <1>9, <1>10, <1>11, Area
  <1>13. mem_brk' = brk + size
    BY <1>7, <1>8, <1>11
  <1>14. mem_brk' \in mem_start_brk .. mem_max_addr
    BY <1>2, <1>8, <1>11, <1>12, <1>13, Area
  <1>15. PICK n : n = mem'
    OBVIOUS
  <1>16. PICK p : p = extend_heap(m, brk, size \div WSIZE).bp
    OBVIOUS
  <1>17. Extended(m, brk, S, size, n, p)
    BY <1>11, <1>12, <1>15, <1>16, Extend
  <1>18. n \in [WordAddr -> Nat]
    BY <1>17 DEF Extended
  <1>19. PICK T \in SUBSET BlockPtrs :
           /\ Tiling(n, brk + size, T) /\ Coalesced(n, brk + size, T)
           /\ IsFree(n, p)
           /\ \A q \in T \ {brk + size, p} : q \in S \ {brk}
    BY <1>17 DEF Extended
  <1>20. S \ {brk} = {heap_listp}
    <2>1. a + 8 = heap_listp
      BY <1>2 DEF heap_listp, DSIZE
    <2> QED
      BY <1>2, <1>8, <1>10, <2>1
  <1>21. \A q \in T : ~IsFree(n, q) => q \in {heap_listp, brk + size}
    BY <1>19, <1>20
  <1> QED
    BY <1>13, <1>14, <1>15, <1>18, <1>19, <1>21

(* ... and forgets what was held.                                          *)
LEMMA StartStep == ASSUME IInv, mm_init PROVE IInv'
  <1>1. TypeOK
    BY DEF IInv
  <1>2. /\ pc' = "idle" /\ call' = NoCall /\ bp' = NULL
        /\ blocks' = [i \in Ids |-> NULL] /\ block_sizes' = [i \in Ids |-> 0]
        /\ pass < Passes /\ pass' = pass + 1
    BY DEF mm_init
  <1>3. /\ mem' \in [WordAddr -> Nat] /\ mem_brk' \in mem_start_brk .. mem_max_addr
    BY StartHeap
  <1>4. PICK T \in SUBSET BlockPtrs :
           Tiling(mem', mem_brk', T) /\ Coalesced(mem', mem_brk', T)
    BY StartHeap
  <1>5. TypeOK'
    <2>1. pass' \in 0 .. Passes
      BY <1>1, <1>2, FirstFitAssumption DEF TypeOK, FirstFitAssumption
    <2> QED
      BY <1>2, <1>3, <2>1 DEF TypeOK, NoCall
  <1>6. CallOK'
    BY <1>2 DEF CallOK
  <1>7. HeapOK(T)'
    <2>1. Pointers' = blocks' /\ Asked' = block_sizes'
      BY <1>2, <1>5, HeldThen DEF TypeOK
    <2>2. HeldOK(mem', mem_brk', T, Pointers', Asked')
      BY <1>2, <2>1 DEF HeldOK
    <2> QED
      BY <1>2, <1>4, <2>2 DEF HeapOK
  <1> QED
    BY <1>2, <1>5, <1>6, <1>7 DEF IInv

(* A call of mm_malloc or mm_realloc begins the search at the prologue.    *)
LEMMA EnterStep ==
  ASSUME IInv, NEW index \in Ids, NEW size \in Sizes,
         mm_malloc(index, size) \/ mm_realloc(index, size)
  PROVE  IInv'
  <1>1. TypeOK /\ pc = "idle" /\ size > 0
    BY Area DEF IInv, mm_malloc, mm_realloc, EnterMalloc
  <1>2. /\ pc' = "find_fit" /\ bp' = heap_listp
        /\ call' \in [op : {"malloc", "realloc"}, index : {index}, size : {size},
                      asize : {AdjustedSize(size)}]
        /\ (call'.op = "malloc") <=> (blocks[index] = NULL)
        /\ UNCHANGED <<mem_brk, mem, pass, blocks, block_sizes>>
    BY DEF mm_malloc, mm_realloc, EnterMalloc
  <1>3. PICK S \in SUBSET BlockPtrs : HeapOK(S)
    BY <1>1 DEF IInv
  <1>4. AdjustedSize(size) \in Nat
    BY <1>1, Adjusted
  <1>5. heap_listp \in S
    BY <1>3 DEF HeapOK, Tiling
  <1>6. TypeOK'
    BY <1>1, <1>2, <1>4, <1>5 DEF TypeOK
  <1>7. CallOK'
    BY <1>1, <1>2 DEF CallOK
  <1>8. HeapOK(S)'
    <2>1. Pointers' = Pointers /\ Asked' = Asked
      BY <1>1, <1>2, <1>6, HeldNow, HeldThen DEF TypeOK
    <2> QED
      BY <1>2, <1>3, <1>5, <2>1 DEF HeapOK
  <1> QED
    BY <1>2, <1>6, <1>7, <1>8 DEF IInv

(* A request of size zero leaves the heap alone.                           *)
LEMMA NothingStep ==
  ASSUME IInv, NEW index \in Ids, 0 \in Sizes,
         mm_malloc_nothing(index) \/ mm_realloc_nothing(index)
  PROVE  IInv'
  <1>1. TypeOK /\ pc = "idle"
    BY DEF IInv, mm_malloc_nothing, mm_realloc_nothing, EnterMalloc
  <1>2. /\ pc' \in {"returned", "exit"} /\ bp' = NULL
        /\ pc' = "returned" => blocks[index] = NULL
        /\ call' \in [op : {"malloc", "realloc"}, index : {index}, size : {0},
                      asize : {AdjustedSize(0)}]
        /\ UNCHANGED <<mem_brk, mem, pass, blocks, block_sizes>>
    BY DEF mm_malloc_nothing, mm_realloc_nothing, EnterMalloc
  <1>3. PICK S \in SUBSET BlockPtrs : HeapOK(S)
    BY <1>1 DEF IInv
  <1>4. AdjustedSize(0) \in Nat
    BY DEF AdjustedSize, DSIZE, OVERHEAD
  <1>6. TypeOK'
    BY <1>1, <1>2, <1>4 DEF TypeOK
  <1>7. CallOK'
    BY <1>2 DEF CallOK
  <1>8. HeapOK(S)'
    <2>1. HeldOK(mem', mem_brk', S, Pointers', Asked')
      <3>1. CASE pc' = "exit"
        <4>1. Pointers' = Pointers /\ Asked' = Asked
          BY <1>1, <1>2, <1>6, <3>1, HeldNow, HeldThen DEF TypeOK
        <4> QED
          BY <1>2, <1>3, <4>1 DEF HeapOK
      <3>2. CASE pc' = "returned"
        <4>1. \A i \in Ids : /\ Pointers'[i] = Pointers[i]
                             /\ Pointers'[i] # NULL => Asked'[i] = Asked[i]
          BY <1>1, <1>2, <3>2, HeldNow, HeldReturned
        <4> QED
          BY <1>2, <1>3, <4>1 DEF HeapOK, HeldOK
      <3> QED
        BY <1>2, <3>1, <3>2
    <2> QED
      BY <1>2, <1>3, <2>1 DEF HeapOK
  <1> QED
    BY <1>2, <1>6, <1>7, <1>8 DEF IInv

(* find_fit goes on to the next block of the tiling.                       *)
LEMMA NextStep == ASSUME IInv, find_fit_next PROVE IInv'
  <1>1. TypeOK /\ CallOK /\ pc = "find_fit"
    BY DEF IInv, find_fit_next
  <1>2. /\ ~AtEpilogue /\ bp' = NEXT_BLKP(mem, bp)
        /\ UNCHANGED <<mem_brk, mem, pc, call, pass, blocks, block_sizes>>
    BY DEF find_fit_next
  <1>3. PICK S \in SUBSET BlockPtrs : HeapOK(S)
    BY <1>1 DEF IInv
  <1>4. mem \in [WordAddr -> Nat] /\ Tiling(mem, mem_brk, S) /\ bp \in S
    BY <1>1, <1>3 DEF TypeOK, HeapOK
  <1>5. bp # mem_brk
    BY <1>2, <1>4, TilingAddrs DEF AtEpilogue, GET_SIZE, HDRP, WSIZE
  <1>6. bp' \in S
    BY <1>2, <1>4, <1>5, TilingBlock
  <1>7. TypeOK'
    BY <1>1, <1>2, <1>6 DEF TypeOK
  <1>8. CallOK'
    BY <1>1, <1>2 DEF CallOK
  <1>9. HeapOK(S)'
    <2>1. Pointers' = Pointers /\ Asked' = Asked
      BY <1>1, <1>2, <1>7, HeldNow, HeldThen DEF TypeOK
    <2> QED
      BY <1>1, <1>2, <1>3, <1>6, <2>1 DEF HeapOK
  <1> QED
    BY <1>1, <1>2, <1>7, <1>8, <1>9 DEF IInv

(* find_fit stops at a free block that is big enough.                      *)
LEMMA FoundStep == ASSUME IInv, find_fit_found PROVE IInv'
  <1>1. TypeOK /\ CallOK /\ pc = "find_fit"
    BY DEF IInv, find_fit_found
  <1>2. /\ ~AtEpilogue /\ Fits /\ pc' = "place"
        /\ UNCHANGED <<mem_brk, mem, call, bp, pass, blocks, block_sizes>>
    BY DEF find_fit_found
  <1>3. PICK S \in SUBSET BlockPtrs : HeapOK(S)
    BY <1>1 DEF IInv
  <1>4. mem \in [WordAddr -> Nat] /\ Tiling(mem, mem_brk, S) /\ bp \in S
    BY <1>1, <1>3 DEF TypeOK, HeapOK
  <1>5. bp # mem_brk
    BY <1>2, <1>4, TilingAddrs DEF AtEpilogue, GET_SIZE, HDRP, WSIZE
  <1>6. IsFree(mem, bp) /\ call.asize <= GET_SIZE(mem, HDRP(bp))
    BY <1>2 DEF Fits, IsFree
  <1>7. bp # heap_listp
    BY <1>4, <1>6, TilingAddrs DEF IsFree, GET_ALLOC, HDRP, WSIZE
  <1>8. TypeOK'
    BY <1>1, <1>2 DEF TypeOK
  <1>9. CallOK'
    BY <1>1, <1>2 DEF CallOK
  <1>10. HeapOK(S)'
    <2>1. Pointers' = Pointers /\ Asked' = Asked
      BY <1>1, <1>2, <1>8, HeldNow, HeldThen DEF TypeOK
    <2> QED
      BY <1>2, <1>3, <1>4, <1>5, <1>6, <1>7, <2>1 DEF HeapOK
  <1> QED
    BY <1>2, <1>8, <1>9, <1>10 DEF IInv

(* What extend makes of the heap.                                          *)
LEMMA ExtendHeap ==
  ASSUME IInv, extend, NEW S \in SUBSET BlockPtrs, HeapOK(S)
  PROVE  \E size \in Nat :
           /\ call.asize <= size /\ mem_brk + size <= mem_max_addr
           /\ mem_brk' = mem_brk + size
           /\ Extended(mem, mem_brk, S, size, mem', bp')
  <1>1. TypeOK /\ CallOK /\ pc = "find_fit"
    BY DEF IInv, extend
  <1>2. /\ SbrkSucceeds(mem_brk, Increment)
        /\ mem_brk' = MovedBrk(mem_brk, Increment)
        /\ mem' = extend_heap(mem, mem_brk, WordsFor(call.asize)).mem
        /\ bp' = extend_heap(mem, mem_brk, WordsFor(call.asize)).bp
        /\ pc' = "place"
        /\ UNCHANGED <<call, pass, blocks, block_sizes>>
    BY DEF extend, mem_sbrk
  <1>4. PICK m \in [WordAddr -> Nat] : m = mem
    BY <1>1 DEF TypeOK
  <1>5. PICK brk \in Nat : brk = mem_brk /\ brk <= mem_max_addr
    BY <1>1, Area DEF TypeOK
  <1>6. Tiling(m, brk, S) /\ Coalesced(m, brk, S)
    BY <1>4, <1>5 DEF HeapOK
  <1>7. PICK size \in Nat :
          /\ size % 8 = 0 /\ size >= 16 /\ call.asize <= size
          /\ WordsFor(call.asize) = size \div WSIZE
          /\ Increment = size
          /\ MovedBrk(brk, size) = brk + size
          /\ brk + size <= mem_max_addr
    <2>1. /\ call.size \in Sizes /\ call.size > 0
          /\ call.asize = AdjustedSize(call.size)
      BY <1>1 DEF CallOK
    <2>2. SbrkSucceeds(brk, ToInt(ExtendSize(WordsFor(call.asize))))
      BY <1>2, <1>5 DEF Increment
    <2> QED
      BY <1>5, <2>1, <2>2, Grown DEF Increment
  <1>8. PICK n : n = mem'
    OBVIOUS
  <1>9. PICK p : p = bp'
    OBVIOUS
  <1>10. Extended(m, brk, S, size, n, p)
    <2>1. /\ n = extend_heap(m, brk, size \div WSIZE).mem
          /\ p = extend_heap(m, brk, size \div WSIZE).bp
      BY <1>2, <1>4, <1>5, <1>7, <1>8, <1>9
    <2> QED
      BY <1>6, <1>7, <2>1, Extend
  <1> QED
    BY <1>2, <1>4, <1>5, <1>7, <1>8, <1>9, <1>10

(* The heap is extended, and the block that results is big enough.         *)
LEMMA ExtendStep == ASSUME IInv, extend PROVE IInv'
  <1>1. TypeOK /\ CallOK /\ pc = "find_fit"
    BY DEF IInv, extend
  <1>2. /\ SbrkSucceeds(mem_brk, Increment)
        /\ mem_brk' = MovedBrk(mem_brk, Increment)
        /\ mem' = extend_heap(mem, mem_brk, WordsFor(call.asize)).mem
        /\ bp' = extend_heap(mem, mem_brk, WordsFor(call.asize)).bp
        /\ pc' = "place"
        /\ UNCHANGED <<call, pass, blocks, block_sizes>>
    BY DEF extend, mem_sbrk
  <1>3. PICK S \in SUBSET BlockPtrs : HeapOK(S)
    BY <1>1 DEF IInv
  <1>4. PICK m \in [WordAddr -> Nat] : m = mem
    BY <1>1 DEF TypeOK
  <1>5. PICK brk \in Nat : brk = mem_brk /\ brk <= mem_max_addr
    BY <1>1, Area DEF TypeOK
  <1>6. Tiling(m, brk, S) /\ Coalesced(m, brk, S)
    BY <1>3, <1>4, <1>5 DEF HeapOK
  <1>7. PICK size \in Nat :
           /\ call.asize <= size /\ mem_brk + size <= mem_max_addr
           /\ mem_brk' = mem_brk + size
           /\ Extended(mem, mem_brk, S, size, mem', bp')
    BY <1>3, ExtendHeap
  <1>8. PICK n : n = mem'
    OBVIOUS
  <1>9. PICK p : p = bp'
    OBVIOUS
  <1>10. Extended(m, brk, S, size, n, p)
    BY <1>4, <1>5, <1>7, <1>8, <1>9
  <1>11. PICK T \in SUBSET BlockPtrs :
           /\ Tiling(n, brk + size, T) /\ Coalesced(n, brk + size, T)
           /\ p \in T \ {heap_listp, brk + size} /\ IsFree(n, p)
           /\ size <= GET_SIZE(n, HDRP(p))
           /\ \A q \in S \ {brk} : ~IsFree(m, q) => q \in T /\ n[q - 4] = m[q - 4]
           /\ brk + size \notin S
    BY <1>10 DEF Extended
  <1>12. n \in [WordAddr -> Nat]
    BY <1>10 DEF Extended
  <1>13. mem_brk' = brk + size
    BY <1>2, <1>5, <1>7
  <1>14. TypeOK'
    <2>1. mem_brk' \in mem_start_brk .. mem_max_addr
      BY <1>1, <1>5, <1>7, <1>13, Area DEF TypeOK
    <2>2. bp' \in BlockPtrs
      BY <1>9, <1>11
    <2> QED
      BY <1>1, <1>2, <1>8, <1>12, <2>1, <2>2 DEF TypeOK
  <1>15. CallOK'
    BY <1>1, <1>2 DEF CallOK
  <1>16. HeldOK(n, brk + size, T, Pointers, Asked)
    <2>1. HeldOK(m, brk, S, Pointers, Asked)
      BY <1>3, <1>4, <1>5 DEF HeapOK
    <2>2. \A q, k : Owns(m, brk, S, q, k) => Owns(n, brk + size, T, q, k)
      <3> SUFFICES ASSUME NEW q, NEW k, Owns(m, brk, S, q, k)
                   PROVE  Owns(n, brk + size, T, q, k)
        OBVIOUS
      <3>1. q \in S \ {brk} /\ ~IsFree(m, q)
        BY DEF Owns
      <3>2. q \in T /\ n[q - 4] = m[q - 4] /\ q # brk + size
        BY <1>11, <3>1
      <3> QED
        BY <1>6, <1>12, <3>2, OwnsKept
    <2> QED
      BY <2>1, <2>2 DEF HeldOK
  <1>17. HeapOK(T)'
    <2>1. Pointers' = Pointers /\ Asked' = Asked
      BY <1>1, <1>2, <1>14, HeldNow, HeldThen DEF TypeOK
    <2>2. call.asize <= GET_SIZE(n, HDRP(p))
      <3>1. p \in T \ {brk + size}
        BY <1>11
      <3>2. GET_SIZE(n, HDRP(p)) \in Nat
        BY <1>11, <1>12, <3>1, TilingBlock
      <3> QED
        BY <1>1, <1>7, <1>11, <3>2 DEF TypeOK
    <2> QED
      BY <1>2, <1>8, <1>9, <1>11, <1>13, <1>16, <2>1, <2>2 DEF HeapOK
  <1> QED
    BY <1>2, <1>14, <1>15, <1>17 DEF IInv

(* mem_sbrk refuses, and nothing has changed.                              *)
LEMMA ExtendFailsStep == ASSUME IInv, extend_fails PROVE IInv'
  <1>1. TypeOK /\ CallOK /\ pc = "find_fit"
    BY DEF IInv, extend_fails
  <1>2. /\ pc' = IF call.op = "malloc" THEN "returned" ELSE "exit"
        /\ bp' = NULL
        /\ UNCHANGED <<mem_brk, mem, call, pass, blocks, block_sizes>>
    BY DEF extend_fails, mem_sbrk
  <1>3. PICK S \in SUBSET BlockPtrs : HeapOK(S)
    BY <1>1 DEF IInv
  <1>4. TypeOK'
    BY <1>1, <1>2 DEF TypeOK
  <1>5. CallOK'
    BY <1>1, <1>2 DEF CallOK
  <1>6. HeldOK(mem', mem_brk', S, Pointers', Asked')
    <2>1. CASE pc' = "exit"
      <3>1. Pointers' = Pointers /\ Asked' = Asked
        BY <1>1, <1>2, <1>4, <2>1, HeldNow, HeldThen DEF TypeOK
      <3> QED
        BY <1>2, <1>3, <3>1 DEF HeapOK
    <2>2. CASE pc' = "returned"
      <3>1. blocks[call.index] = NULL
        BY <1>1, <1>2, <2>2 DEF CallOK
      <3>2. \A i \in Ids : /\ Pointers'[i] = Pointers[i]
                           /\ Pointers'[i] # NULL => Asked'[i] = Asked[i]
        BY <1>1, <1>2, <2>2, <3>1, HeldNow, HeldReturned
      <3> QED
        BY <1>2, <1>3, <3>2 DEF HeapOK, HeldOK
    <2> QED
      BY <1>2, <2>1, <2>2
  <1>7. HeapOK(S)'
    BY <1>2, <1>3, <1>6 DEF HeapOK
  <1> QED
    BY <1>2, <1>4, <1>5, <1>7 DEF IInv

(* place, seen from the block bp it makes the call's own.                  *)
LEMMA PlaceHeap ==
  ASSUME IInv, pc = "place", mem' = place(mem, bp, call.asize),
         NEW S \in SUBSET BlockPtrs, HeapOK(S)
  PROVE  /\ mem' \in [WordAddr -> Nat] /\ bp \in BlockPtrs
         /\ \A i \in Ids : blocks[i] # bp
         /\ Keeps(mem, mem', mem_brk, S, bp)
         /\ \E T \in SUBSET BlockPtrs :
              /\ Tiling(mem', mem_brk, T) /\ Coalesced(mem', mem_brk, T)
              /\ Owns(mem', mem_brk, T, bp, call.size)
              /\ HeldOK(mem', mem_brk, T, blocks, block_sizes)
              /\ S \subseteq T /\ \A q \in S : ~IsFree(mem, q) => ~IsFree(mem', q)
              /\ \A q \in T : ~IsFree(mem', q) => q = bp \/ (q \in S /\ ~IsFree(mem, q))
  <1>1. TypeOK /\ CallOK
    BY DEF IInv
  <1>2. PICK m \in [WordAddr -> Nat] : m = mem
    BY <1>1 DEF TypeOK
  <1>3. /\ Tiling(m, mem_brk, S) /\ Coalesced(m, mem_brk, S)
        /\ HeldOK(m, mem_brk, S, blocks, block_sizes)
        /\ bp \in S \ {heap_listp, mem_brk} /\ IsFree(m, bp)
        /\ call.asize <= GET_SIZE(m, HDRP(bp))
    BY <1>1, <1>2, HeldNow DEF HeapOK
  <1>4. /\ call.size \in Sizes /\ call.size > 0 /\ call.size \in Nat
        /\ call.asize = AdjustedSize(call.size)
    BY <1>1, Area DEF CallOK
  <1>5. PICK asize \in Nat : /\ asize = call.asize /\ asize % 8 = 0 /\ asize >= 16
                             /\ call.size + 8 <= asize
    BY <1>4, Adjusted
  <1>6. PICK n : n = mem'
    OBVIOUS
  <1>7. PICK b \in S \ {heap_listp, mem_brk} : b = bp
    BY <1>3
  <1>8. Allotted(m, mem_brk, S, b, asize, n)
    <2>1. IsFree(m, b) /\ asize <= GET_SIZE(m, HDRP(b)) /\ n = place(m, b, asize)
      BY <1>2, <1>3, <1>5, <1>6, <1>7
    <2> QED
      BY <1>3, <1>5, <2>1, Place
  <1>9. n \in [WordAddr -> Nat] /\ Keeps(m, n, mem_brk, S, b)
    BY <1>8 DEF Allotted
  <1>10. PICK T \in SUBSET BlockPtrs :
           /\ Tiling(n, mem_brk, T) /\ Coalesced(n, mem_brk, T)
           /\ S \subseteq T /\ ~IsFree(n, b)
           /\ asize <= GET_SIZE(n, HDRP(b))
           /\ \A q \in S : q # b => n[q - 4] = m[q - 4]
           /\ \A q \in T \ S : IsFree(n, q)
    BY <1>8 DEF Allotted
  <1>11. Owns(n, mem_brk, T, b, call.size)
    <2>1. b \in T \ {heap_listp, mem_brk}
      BY <1>7, <1>10
    <2>2. GET_SIZE(n, HDRP(b)) \in Nat
      BY <1>9, <1>10, <2>1, TilingBlock
    <2>3. call.size + OVERHEAD <= GET_SIZE(n, HDRP(b))
      BY <1>4, <1>5, <1>10, <2>2 DEF OVERHEAD
    <2> QED
      BY <1>10, <2>1, <2>3 DEF Owns
  <1>12. \A q, k : Owns(m, mem_brk, S, q, k) =>
                     q # b /\ Owns(n, mem_brk, T, q, k)
    <2> SUFFICES ASSUME NEW q, NEW k, Owns(m, mem_brk, S, q, k)
                 PROVE  q # b /\ Owns(n, mem_brk, T, q, k)
      OBVIOUS
    <2>1. q \in S /\ q # b /\ q # mem_brk
      BY <1>3, <1>7 DEF Owns
    <2>2. q \in T /\ n[q - 4] = m[q - 4]
      BY <1>10, <2>1
    <2> QED
      BY <1>3, <1>9, <2>1, <2>2, OwnsKept
  <1>13. HeldOK(n, mem_brk, T, blocks, block_sizes)
    BY <1>3, <1>12 DEF HeldOK
  <1>14. b # NULL /\ b \in BlockPtrs
    <2>1. b \in BlockPtrs
      BY <1>7
    <2>2. b > NULL /\ b \in Nat
      BY <2>1, BlockPtrAddrs
    <2> QED
      BY <2>1, <2>2 DEF NULL
  <1>15. \A i \in Ids : blocks[i] # b
    BY <1>3, <1>12, <1>14 DEF HeldOK
  <1>16. \A q \in S : q # b => (IsFree(n, q) <=> IsFree(m, q))
    BY <1>10 DEF IsFree, GET_ALLOC, HDRP, WSIZE
  <1>17. \A q \in S : ~IsFree(m, q) => ~IsFree(n, q)
    <2>1. ~IsFree(n, b)
      BY <1>10
    <2> QED
      BY <1>16, <2>1
  <1>18. \A q \in T : ~IsFree(n, q) => q = b \/ (q \in S /\ ~IsFree(m, q))
    <2>1. \A q \in T \ S : IsFree(n, q)
      BY <1>10
    <2> QED
      BY <1>16, <2>1
  <1> QED
    BY <1>2, <1>6, <1>7, <1>9, <1>10, <1>11, <1>13, <1>14, <1>15, <1>17, <1>18

(* mm_malloc places the block it returns.                                  *)
LEMMA PlaceStep == ASSUME IInv, place_and_return PROVE IInv'
  <1>1. TypeOK /\ CallOK /\ pc = "place"
    BY DEF IInv, place_and_return
  <1>2. /\ mem' = place(mem, bp, call.asize) /\ pc' = "returned" /\ call.op = "malloc"
        /\ UNCHANGED <<mem_brk, call, bp, pass, blocks, block_sizes>>
    BY DEF place_and_return
  <1>3. PICK S \in SUBSET BlockPtrs : HeapOK(S)
    BY <1>1 DEF IInv
  <1>4. /\ mem' \in [WordAddr -> Nat] /\ bp \in BlockPtrs
        /\ \A i \in Ids : blocks[i] # bp
    BY <1>1, <1>2, <1>3, PlaceHeap
  <1>5. PICK T \in SUBSET BlockPtrs :
          /\ Tiling(mem', mem_brk, T) /\ Coalesced(mem', mem_brk, T)
          /\ Owns(mem', mem_brk, T, bp, call.size)
          /\ HeldOK(mem', mem_brk, T, blocks, block_sizes)
    BY <1>1, <1>2, <1>3, PlaceHeap
  <1>6. TypeOK'
    BY <1>1, <1>2, <1>4 DEF TypeOK
  <1>7. CallOK'
    <2>1. bp # NULL
      <3>1. bp > NULL /\ bp \in Nat
        BY <1>4, BlockPtrAddrs
      <3> QED
        BY <3>1 DEF NULL
    <2> QED
      BY <1>1, <1>2, <2>1 DEF CallOK
  <1>8. HeldOK(mem', mem_brk', T, Pointers', Asked')
    <2>1. \A i \in Ids :
            /\ Pointers'[i] = IF i = call.index THEN bp ELSE blocks[i]
            /\ Asked'[i] = IF i = call.index THEN call.size ELSE block_sizes[i]
      BY <1>2, HeldReturned
    <2> QED
      BY <1>2, <1>4, <1>5, <2>1 DEF HeldOK
  <1>9. HeapOK(T)'
    BY <1>2, <1>5, <1>8 DEF HeapOK
  <1> QED
    BY <1>2, <1>6, <1>7, <1>9 DEF IInv

(* mm_realloc places the new block while the old one is still held.        *)
LEMMA PlaceReallocStep == ASSUME IInv, place_for_realloc PROVE IInv'
  <1>1. TypeOK /\ CallOK /\ pc = "place"
    BY DEF IInv, place_for_realloc
  <1>2. /\ mem' = place(mem, bp, call.asize) /\ pc' = "copy" /\ call.op = "realloc"
        /\ UNCHANGED <<mem_brk, call, bp, pass, blocks, block_sizes>>
    BY DEF place_for_realloc
  <1>3. PICK S \in SUBSET BlockPtrs : HeapOK(S)
    BY <1>1 DEF IInv
  <1>4. /\ mem' \in [WordAddr -> Nat] /\ bp \in BlockPtrs
        /\ \A i \in Ids : blocks[i] # bp
    BY <1>1, <1>2, <1>3, PlaceHeap
  <1>5. PICK T \in SUBSET BlockPtrs :
          /\ Tiling(mem', mem_brk, T) /\ Coalesced(mem', mem_brk, T)
          /\ Owns(mem', mem_brk, T, bp, call.size)
          /\ HeldOK(mem', mem_brk, T, blocks, block_sizes)
    BY <1>1, <1>2, <1>3, PlaceHeap
  <1>6. TypeOK'
    BY <1>1, <1>2, <1>4 DEF TypeOK
  <1>7. CallOK'
    BY <1>1, <1>2 DEF CallOK
  <1>8. HeapOK(T)'
    <2>1. Pointers' = blocks' /\ Asked' = block_sizes'
      BY <1>2, <1>6, HeldThen DEF TypeOK
    <2> QED
      BY <1>2, <1>4, <1>5, <2>1 DEF HeapOK
  <1> QED
    BY <1>2, <1>6, <1>7, <1>8 DEF IInv

(* mm_free, seen by the owners of the other blocks.                        *)
LEMMA FreeHeap ==
  ASSUME NEW m \in [WordAddr -> Nat], NEW brk, NEW S \in SUBSET BlockPtrs,
         Tiling(m, brk, S), Coalesced(m, brk, S),
         NEW b, NEW k, Owns(m, brk, S, b, k), NEW n, n = mm_free(m, b)
  PROVE  /\ n \in [WordAddr -> Nat] /\ Keeps(m, n, brk, S, b)
         /\ \E T \in SUBSET BlockPtrs :
              /\ Tiling(n, brk, T) /\ Coalesced(n, brk, T)
              /\ \A q, l : Owns(m, brk, S, q, l) /\ q # b => Owns(n, brk, T, q, l)
              /\ \A q \in T : ~IsFree(n, q) => q \in S \ {b} /\ ~IsFree(m, q)
  <1>1. PICK c \in S \ {heap_listp, brk} : c = b
    BY DEF Owns
  <1>2. Freed(m, brk, S, c, mm_free(m, c))
    BY Free
  <1>3. Freed(m, brk, S, b, n)
    BY <1>1, <1>2
  <1>4. n \in [WordAddr -> Nat] /\ Keeps(m, n, brk, S, b)
    BY <1>3 DEF Freed
  <1>5. PICK T \in SUBSET S :
          /\ Tiling(n, brk, T) /\ Coalesced(n, brk, T)
          /\ \A q \in S : q # b /\ ~IsFree(m, q) => q \in T /\ n[q - 4] = m[q - 4]
          /\ \A q \in T : ~IsFree(n, q) => q # b /\ ~IsFree(m, q)
    BY <1>3 DEF Freed
  <1>6. \A q, l : Owns(m, brk, S, q, l) /\ q # b => Owns(n, brk, T, q, l)
    <2> SUFFICES ASSUME NEW q, NEW l, Owns(m, brk, S, q, l), q # b
                 PROVE  Owns(n, brk, T, q, l)
      OBVIOUS
    <2>1. q \in S /\ q # brk /\ ~IsFree(m, q)
      BY DEF Owns
    <2>2. q \in T /\ n[q - 4] = m[q - 4]
      BY <1>5, <2>1
    <2> QED
      BY <1>4, <2>1, <2>2, OwnsKept
  <1>7. T \in SUBSET BlockPtrs
    OBVIOUS
  <1> QED
    BY <1>4, <1>5, <1>6, <1>7

(* mm_free of a block the client holds.                                    *)
LEMMA FreeStep ==
  ASSUME IInv, NEW index \in Ids, client_free(index)
  PROVE  IInv'
  <1>1. TypeOK /\ CallOK /\ pc = "idle"
    BY DEF IInv, client_free
  <1>2. /\ blocks[index] # NULL /\ mem' = mm_free(mem, blocks[index])
        /\ blocks' = [blocks EXCEPT ![index] = NULL]
        /\ block_sizes' = [block_sizes EXCEPT ![index] = 0]
        /\ UNCHANGED <<mem_brk, pc, call, bp, pass>>
    BY DEF client_free
  <1>3. PICK S \in SUBSET BlockPtrs : HeapOK(S)
    BY <1>1 DEF IInv
  <1>4. PICK m \in [WordAddr -> Nat] : m = mem
    BY <1>1 DEF TypeOK
  <1>5. /\ Tiling(m, mem_brk, S) /\ Coalesced(m, mem_brk, S)
        /\ HeldOK(m, mem_brk, S, blocks, block_sizes)
    BY <1>1, <1>3, <1>4, HeldNow DEF HeapOK
  <1>6. Owns(m, mem_brk, S, blocks[index], block_sizes[index])
    BY <1>2, <1>5 DEF HeldOK
  <1>7. PICK n : n = mem' /\ n = mm_free(m, blocks[index])
    BY <1>2, <1>4
  <1>8. /\ n \in [WordAddr -> Nat]
        /\ \E T \in SUBSET BlockPtrs :
             /\ Tiling(n, mem_brk, T) /\ Coalesced(n, mem_brk, T)
             /\ \A q, l : Owns(m, mem_brk, S, q, l) /\ q # blocks[index]
                            => Owns(n, mem_brk, T, q, l)
    BY <1>5, <1>6, <1>7, FreeHeap
  <1>9. PICK T \in SUBSET BlockPtrs :
             /\ Tiling(n, mem_brk, T) /\ Coalesced(n, mem_brk, T)
             /\ \A q, l : Owns(m, mem_brk, S, q, l) /\ q # blocks[index]
                            => Owns(n, mem_brk, T, q, l)
    BY <1>8
  <1>10. TypeOK'
    BY <1>1, <1>2, <1>7, <1>8 DEF TypeOK
  <1>11. CallOK'
    BY <1>1, <1>2 DEF CallOK
  <1>12. HeldOK(n, mem_brk, T, blocks', block_sizes')
    <2>1. \A i \in Ids : /\ blocks'[i] = IF i = index THEN NULL ELSE blocks[i]
                         /\ block_sizes'[i] = IF i = index THEN 0 ELSE block_sizes[i]
      BY <1>1, <1>2 DEF TypeOK
    <2> QED
      BY <1>2, <1>5, <1>9, <2>1 DEF HeldOK
  <1>13. HeapOK(T)'
    <2>1. Pointers' = blocks' /\ Asked' = block_sizes'
      BY <1>1, <1>2, <1>10, HeldThen DEF TypeOK
    <2> QED
      BY <1>1, <1>2, <1>7, <1>9, <1>12, <2>1 DEF HeapOK
  <1> QED
    BY <1>1, <1>2, <1>10, <1>11, <1>13 DEF IInv

(* The words CopySize covers.                                              *)
LEMMA CopyFits ==
  ASSUME IInv, pc = "copy", NEW S \in SUBSET BlockPtrs, HeapOK(S)
  PROVE  /\ CopySize \in Nat /\ CopySize <= call.size
         /\ call.index \in Ids /\ call.size \in Nat
         /\ blocks[call.index] # NULL
         /\ Owns(mem, mem_brk, S, blocks[call.index], block_sizes[call.index])
         /\ block_sizes[call.index] \in Nat
         /\ blocks[call.index] + CopySize <= NEXT_BLKP(mem, blocks[call.index])
  <1>1. TypeOK /\ CallOK
    BY DEF IInv
  <1>2. /\ call.index \in Ids /\ call.size \in Nat
        /\ blocks[call.index] # NULL
        /\ block_sizes[call.index] \in Nat
    <2>1. /\ call.index \in Ids /\ call.size \in Sizes
          /\ call.op = "realloc"
          /\ (call.op = "malloc") <=> (blocks[call.index] = NULL)
      BY <1>1 DEF CallOK
    <2>2. block_sizes[call.index] \in Sizes \cup {0}
      BY <1>1, <2>1 DEF TypeOK
    <2>3. blocks[call.index] # NULL
      BY <2>1
    <2>4. call.size \in Nat /\ block_sizes[call.index] \in Nat
      BY <2>1, <2>2, SizesNat
    <2> QED
      BY <2>1, <2>3, <2>4
  <1>3. Owns(mem, mem_brk, S, blocks[call.index], block_sizes[call.index])
    BY <1>1, <1>2, HeldNow DEF HeapOK, HeldOK
  <1> DEFINE p == blocks[call.index]
  <1>4. /\ p \in Nat /\ NEXT_BLKP(mem, p) \in Nat
        /\ NEXT_BLKP(mem, p) = p + GET_SIZE(mem, HDRP(p))
        /\ GET_SIZE(mem, HDRP(p)) \in Nat
    <2>1. p \in S \ {mem_brk} /\ Tiling(mem, mem_brk, S) /\ mem \in [WordAddr -> Nat]
      BY <1>1, <1>3 DEF Owns, HeapOK, TypeOK
    <2> HIDE DEF p
    <2> QED
      BY <2>1, TilingBlock, TilingAddrs
  <1>5. CopySize = IF call.size < GET_SIZE(mem, HDRP(p)) THEN call.size
                                                         ELSE GET_SIZE(mem, HDRP(p))
    BY DEF CopySize
  <1> HIDE DEF p
  <1>6. CopySize \in Nat /\ CopySize <= call.size /\ p + CopySize <= NEXT_BLKP(mem, p)
    BY <1>2, <1>4, <1>5
  <1> QED
    BY <1>2, <1>3, <1>6 DEF p

(* What memcpy makes of the heap, before the old block is freed.           *)
LEMMA CopyHeap ==
  ASSUME IInv, copy_and_free, NEW S \in SUBSET BlockPtrs, HeapOK(S)
  PROVE  \E h \in [WordAddr -> Nat] :
           /\ h = memcpy(mem, bp, blocks[call.index], CopySize)
           /\ WritesOnly(mem, h, bp, call.size)
           /\ Tiling(h, mem_brk, S) /\ Coalesced(h, mem_brk, S)
           /\ \A q, l : Owns(mem, mem_brk, S, q, l) => Owns(h, mem_brk, S, q, l)
           /\ \A q \in S : h[q - 4] = mem[q - 4]
           /\ mem' = mm_free(h, blocks[call.index])
  <1>1. TypeOK /\ CallOK /\ pc = "copy"
    BY DEF IInv, copy_and_free
  <1>2. /\ mem' = mm_free(memcpy(mem, bp, blocks[call.index], CopySize),
                           blocks[call.index])
        /\ pc' = "returned"
        /\ UNCHANGED <<mem_brk, call, bp, pass, blocks, block_sizes>>
    BY DEF copy_and_free
  <1>4. PICK m \in [WordAddr -> Nat] : m = mem
    BY <1>1 DEF TypeOK
  <1>5. /\ Tiling(m, mem_brk, S) /\ Coalesced(m, mem_brk, S)
        /\ HeldOK(m, mem_brk, S, blocks, block_sizes)
        /\ Owns(m, mem_brk, S, bp, call.size)
        /\ \A i \in Ids : blocks[i] # bp
    BY <1>1, <1>4, HeldNow DEF HeapOK
  <1>6. /\ CopySize \in Nat /\ CopySize <= call.size
        /\ call.index \in Ids /\ call.size \in Nat
        /\ blocks[call.index] # NULL
        /\ Owns(m, mem_brk, S, blocks[call.index], block_sizes[call.index])
        /\ block_sizes[call.index] \in Nat
        /\ blocks[call.index] + CopySize <= NEXT_BLKP(m, blocks[call.index])
    BY <1>1, <1>4, CopyFits
  <1>7. PICK to \in Nat : /\ to = bp /\ to % 8 = 0 /\ to # NULL
                          /\ to \in BlockPtrs
    <2>1. bp \in S /\ bp \in Nat /\ bp % 8 = 0 /\ bp > NULL
      BY <1>5, <1>6, OwnsAddrs
    <2> QED
      BY <2>1 DEF NULL
  <1>8. PICK from \in Nat : /\ from = blocks[call.index] /\ from % 8 = 0
                            /\ mem_start_brk <= from
                            /\ from + CopySize <= mem_max_addr
    <2>1. PICK p : p = blocks[call.index]
      OBVIOUS
    <2>2. /\ Owns(m, mem_brk, S, p, block_sizes[call.index])
          /\ p + CopySize <= NEXT_BLKP(m, p)
      BY <1>6, <2>1
    <2>3. /\ p \in Nat /\ p % 8 = 0 /\ heap_listp < p
          /\ NEXT_BLKP(m, p) \in Nat /\ NEXT_BLKP(m, p) <= mem_brk
          /\ mem_brk \in Nat /\ mem_brk <= mem_max_addr
      BY <1>5, <1>6, <2>2, OwnsAddrs
    <2>4. mem_start_brk <= p
      BY <2>3, Area DEF heap_listp, DSIZE
    <2> QED
      BY <1>6, <2>1, <2>2, <2>3, <2>4, Area
  <1>9. PICK k \in Nat : k = CopySize /\ k <= call.size
    BY <1>6
  <1>10. PICK h : h = memcpy(m, to, from, k)
    OBVIOUS
  <1>11. /\ h \in [WordAddr -> Nat]
         /\ \A w \in WordAddr : w < to \/ to + k <= w => h[w] = m[w]
    <2>1. /\ to % 8 = 0 /\ from % 8 = 0 /\ mem_start_brk <= from
          /\ from + k <= mem_max_addr
      BY <1>7, <1>8, <1>9
    <2>2. WritesOnly(m, h, to, k)
      BY <1>10, <2>1, Memcpy
    <2> QED
      BY <2>2 DEF WritesOnly
  <1>12. \A w \in WordAddr : w < to \/ to + call.size <= w => h[w] = m[w]
    <2>1. \A w \in WordAddr : w \in Int
      BY Area DEF WordAddr
    <2> QED
      BY <1>6, <1>9, <1>11, <2>1
  <1>13. /\ Tiling(h, mem_brk, S) /\ Coalesced(h, mem_brk, S)
         /\ \A q \in S : h[q - 4] = m[q - 4]
    BY <1>5, <1>6, <1>7, <1>11, <1>12, PayloadWrite
  <1>14. \A q, l : Owns(m, mem_brk, S, q, l) => Owns(h, mem_brk, S, q, l)
    <2> SUFFICES ASSUME NEW q, NEW l, Owns(m, mem_brk, S, q, l)
                 PROVE  Owns(h, mem_brk, S, q, l)
      OBVIOUS
    <2>1. q \in S /\ q # mem_brk
      BY DEF Owns
    <2> QED
      BY <1>5, <1>11, <1>13, <2>1, OwnsKept
  <1>15. WritesOnly(mem, h, bp, call.size)
    BY <1>4, <1>7, <1>11, <1>12 DEF WritesOnly
  <1> QED
    BY <1>2, <1>4, <1>7, <1>8, <1>9, <1>10, <1>11, <1>13, <1>14, <1>15

(* mm_realloc copies into the new block, no further, and frees the old one. *)
LEMMA CopyStep == ASSUME IInv, copy_and_free PROVE IInv'
  <1>1. TypeOK /\ CallOK /\ pc = "copy"
    BY DEF IInv, copy_and_free
  <1>2. /\ mem' = mm_free(memcpy(mem, bp, blocks[call.index], CopySize),
                           blocks[call.index])
        /\ pc' = "returned"
        /\ UNCHANGED <<mem_brk, call, bp, pass, blocks, block_sizes>>
    BY DEF copy_and_free
  <1>3. PICK S \in SUBSET BlockPtrs : HeapOK(S)
    BY <1>1 DEF IInv
  <1>4. PICK m \in [WordAddr -> Nat] : m = mem
    BY <1>1 DEF TypeOK
  <1>5. /\ Tiling(m, mem_brk, S) /\ Coalesced(m, mem_brk, S)
        /\ HeldOK(m, mem_brk, S, blocks, block_sizes)
        /\ Owns(m, mem_brk, S, bp, call.size)
        /\ \A i \in Ids : blocks[i] # bp
    BY <1>1, <1>3, <1>4, HeldNow DEF HeapOK
  <1>6. /\ CopySize \in Nat /\ CopySize <= call.size
        /\ call.index \in Ids /\ call.size \in Nat
        /\ blocks[call.index] # NULL
        /\ Owns(m, mem_brk, S, blocks[call.index], block_sizes[call.index])
        /\ block_sizes[call.index] \in Nat
        /\ blocks[call.index] + CopySize <= NEXT_BLKP(m, blocks[call.index])
    BY <1>1, <1>3, <1>4, CopyFits
  <1>7. PICK to \in Nat : /\ to = bp /\ to % 8 = 0 /\ to # NULL
                          /\ to \in BlockPtrs
    <2>1. bp \in S /\ bp \in Nat /\ bp % 8 = 0 /\ bp > NULL
      BY <1>5, <1>6, OwnsAddrs
    <2> QED
      BY <2>1 DEF NULL
  <1>8. PICK from : from = blocks[call.index]
    OBVIOUS
  <1>9. PICK h \in [WordAddr -> Nat] :
           /\ Tiling(h, mem_brk, S) /\ Coalesced(h, mem_brk, S)
           /\ \A q, l : Owns(m, mem_brk, S, q, l) => Owns(h, mem_brk, S, q, l)
           /\ mem' = mm_free(h, from)
    BY <1>3, <1>4, <1>8, CopyHeap
  <1>15. PICK n : n = mem' /\ n = mm_free(h, from)
    BY <1>9
  <1>16. /\ n \in [WordAddr -> Nat]
         /\ \E T \in SUBSET BlockPtrs :
              /\ Tiling(n, mem_brk, T) /\ Coalesced(n, mem_brk, T)
              /\ \A q, l : Owns(h, mem_brk, S, q, l) /\ q # from
                             => Owns(n, mem_brk, T, q, l)
    <2>1. Owns(h, mem_brk, S, from, block_sizes[call.index])
      BY <1>6, <1>8, <1>9
    <2> QED
      BY <1>9, <1>15, <2>1, FreeHeap
  <1>17. PICK T \in SUBSET BlockPtrs :
              /\ Tiling(n, mem_brk, T) /\ Coalesced(n, mem_brk, T)
              /\ \A q, l : Owns(h, mem_brk, S, q, l) /\ q # from
                             => Owns(n, mem_brk, T, q, l)
    BY <1>16
  <1>18. \A q, l : Owns(m, mem_brk, S, q, l) /\ q # from => Owns(n, mem_brk, T, q, l)
    BY <1>9, <1>17
  <1>19. TypeOK'
    BY <1>1, <1>2, <1>15, <1>16 DEF TypeOK
  <1>20. CallOK'
    BY <1>1, <1>2, <1>7 DEF CallOK
  <1>21. HeldOK(n, mem_brk, T, Pointers', Asked')
    <2>1. \A i \in Ids :
            /\ Pointers'[i] = IF i = call.index THEN bp ELSE blocks[i]
            /\ Asked'[i] = IF i = call.index THEN call.size ELSE block_sizes[i]
      BY <1>2, HeldReturned
    <2>2. Owns(n, mem_brk, T, bp, call.size)
      BY <1>5, <1>6, <1>8, <1>18
    <2>3. \A i \in Ids : i # call.index /\ blocks[i] # NULL =>
            /\ blocks[i] # from
            /\ Owns(n, mem_brk, T, blocks[i], block_sizes[i])
      BY <1>5, <1>6, <1>8, <1>18 DEF HeldOK
    <2>4. \A i, j \in Ids : i # j /\ Pointers'[i] # NULL => Pointers'[i] # Pointers'[j]
      BY <1>5, <2>1 DEF HeldOK
    <2> QED
      BY <2>1, <2>2, <2>3, <2>4 DEF HeldOK
  <1>22. HeapOK(T)'
    BY <1>2, <1>15, <1>17, <1>21 DEF HeapOK
  <1> QED
    BY <1>2, <1>19, <1>20, <1>22 DEF IInv

(* The client writes to the payload it was handed, and to nothing else.    *)
LEMMA FillStep == ASSUME IInv, fill PROVE IInv'
  <1>1. TypeOK /\ CallOK /\ pc = "returned" /\ bp # NULL
    BY DEF IInv, fill
  <1>2. /\ mem' = memset(mem, bp, FillWord(call.index), call.size)
        /\ blocks' = [blocks EXCEPT ![call.index] = bp]
        /\ block_sizes' = [block_sizes EXCEPT ![call.index] = call.size]
        /\ pc' = "idle" /\ call' = NoCall /\ bp' = NULL
        /\ UNCHANGED <<mem_brk, pass>>
    BY DEF fill
  <1>3. PICK S \in SUBSET BlockPtrs : HeapOK(S)
    BY <1>1 DEF IInv
  <1>4. PICK m \in [WordAddr -> Nat] : m = mem
    BY <1>1 DEF TypeOK
  <1>5. PICK k \in Nat : k = call.size
    BY <1>1, Area DEF CallOK
  <1>6. call.index \in Ids /\ call.index \in Nat /\ call.size \in Sizes
    BY <1>1, Area DEF CallOK
  <1>7. \A i \in Ids : /\ Pointers[i] = IF i = call.index THEN bp ELSE blocks[i]
                       /\ Asked[i] = IF i = call.index THEN call.size ELSE block_sizes[i]
    BY <1>1 DEF Pointers, Asked, Pointer, Bytes, HandedOver
  <1>8. /\ Tiling(m, mem_brk, S) /\ Coalesced(m, mem_brk, S)
        /\ HeldOK(m, mem_brk, S, Pointers, Asked)
        /\ Owns(m, mem_brk, S, bp, k)
    <2>1. /\ Tiling(m, mem_brk, S) /\ Coalesced(m, mem_brk, S)
          /\ HeldOK(m, mem_brk, S, Pointers, Asked)
      BY <1>3, <1>4 DEF HeapOK
    <2> QED
      BY <1>1, <1>5, <1>6, <1>7, <2>1 DEF HeldOK
  <1>9. PICK p \in Nat : p = bp /\ p \in BlockPtrs
    BY <1>8, OwnsAddrs
  <1>10. FillWord(call.index) \in Nat
    BY <1>6 DEF FillWord
  <1>11. PICK n : n = mem' /\ n = memset(m, p, FillWord(call.index), k)
    BY <1>2, <1>4, <1>5, <1>9
  <1>12. /\ n \in [WordAddr -> Nat]
         /\ \A w \in WordAddr : w < p \/ p + k <= w => n[w] = m[w]
    <2>1. WritesOnly(m, n, p, k)
      BY <1>10, <1>11, Memset
    <2> QED
      BY <2>1 DEF WritesOnly
  <1>13. /\ Tiling(n, mem_brk, S) /\ Coalesced(n, mem_brk, S)
         /\ \A q \in S : n[q - 4] = m[q - 4]
    BY <1>8, <1>9, <1>12, PayloadWrite
  <1>14. \A q, l : Owns(m, mem_brk, S, q, l) => Owns(n, mem_brk, S, q, l)
    <2> SUFFICES ASSUME NEW q, NEW l, Owns(m, mem_brk, S, q, l)
                 PROVE  Owns(n, mem_brk, S, q, l)
      OBVIOUS
    <2>1. q \in S /\ q # mem_brk
      BY DEF Owns
    <2> QED
      BY <1>8, <1>12, <1>13, <2>1, OwnsKept
  <1>15. TypeOK'
    <2>1. blocks' \in [Ids -> {NULL} \cup BlockPtrs]
      BY <1>1, <1>2, <1>9 DEF TypeOK
    <2>2. block_sizes' \in [Ids -> Sizes \cup {0}]
      BY <1>1, <1>2, <1>6 DEF TypeOK
    <2> QED
      BY <1>1, <1>2, <1>11, <1>12, <2>1, <2>2 DEF TypeOK, NoCall
  <1>16. CallOK'
    BY <1>2 DEF CallOK
  <1>17. HeapOK(S)'
    <2>1. Pointers' = blocks' /\ Asked' = block_sizes'
      BY <1>2, <1>15, HeldThen DEF TypeOK
    <2>2. \A i \in Ids : Pointers'[i] = Pointers[i] /\ Asked'[i] = Asked[i]
      BY <1>1, <1>2, <1>7, <2>1 DEF TypeOK
    <2>3. HeldOK(n, mem_brk, S, Pointers', Asked')
      BY <1>8, <1>14, <2>2 DEF HeldOK
    <2> QED
      BY <1>2, <1>11, <1>13, <2>3 DEF HeapOK
  <1> QED
    BY <1>2, <1>15, <1>16, <1>17 DEF IInv

(* A request was answered NULL.                                            *)
LEMMA GiveUpStep == ASSUME IInv, give_up PROVE IInv'
  <1>1. TypeOK /\ CallOK /\ pc = "returned" /\ bp = NULL
    BY DEF IInv, give_up
  <1>2. /\ pc' = "idle" /\ call' = NoCall
        /\ UNCHANGED <<mem_brk, mem, bp, pass, blocks, block_sizes>>
    BY DEF give_up
  <1>3. PICK S \in SUBSET BlockPtrs : HeapOK(S)
    BY <1>1 DEF IInv
  <1>4. TypeOK'
    BY <1>1, <1>2 DEF TypeOK, NoCall
  <1>5. CallOK'
    BY <1>2 DEF CallOK
  <1>6. HeapOK(S)'
    <2>1. Pointers' = blocks' /\ Asked' = block_sizes'
      BY <1>2, <1>4, HeldThen DEF TypeOK
    <2>2. blocks[call.index] = NULL
      BY <1>1 DEF CallOK
    <2>3. \A i \in Ids : /\ Pointers'[i] = Pointers[i]
                         /\ Pointers'[i] # NULL => Asked'[i] = Asked[i]
      BY <1>1, <1>2, <2>1, <2>2 DEF Pointers, Asked, Pointer, Bytes, HandedOver
    <2>4. HeldOK(mem, mem_brk, S, Pointers', Asked')
      BY <1>3, <2>3 DEF HeapOK, HeldOK
    <2> QED
      BY <1>2, <1>3, <2>4 DEF HeapOK
  <1> QED
    BY <1>2, <1>4, <1>5, <1>6 DEF IInv

(* Nothing changes.                                                        *)
LEMMA StutterStep == ASSUME IInv, UNCHANGED vars PROVE IInv'
  <1>1. UNCHANGED <<mem_brk, mem, pc, call, bp, pass, blocks, block_sizes>>
    BY DEF vars
  <1>2. TypeOK' <=> TypeOK
    BY <1>1 DEF TypeOK
  <1>3. CallOK' <=> CallOK
    BY <1>1 DEF CallOK
  <1>4. Pointers' = Pointers /\ Asked' = Asked
    BY <1>1 DEF Pointers, Asked, Pointer, Bytes, HandedOver
  <1>5. \A S \in SUBSET BlockPtrs : HeapOK(S)' <=> HeapOK(S)
    BY <1>1, <1>4 DEF HeapOK
  <1> QED
    BY <1>1, <1>2, <1>3, <1>5 DEF IInv

(* Before mm_init nothing is held.                                         *)
LEMMA InitStep == ASSUME Init PROVE IInv
  <1>1. TypeOK
    <2>1. mem_brk \in mem_start_brk .. mem_max_addr
      BY Area DEF Init
    <2>2. mem \in [WordAddr -> Nat] /\ pass \in 0 .. Passes
      BY FirstFitAssumption DEF Init, FirstFitAssumption
    <2> QED
      BY <2>1, <2>2 DEF Init, TypeOK, NoCall
  <1> QED
    BY <1>1 DEF Init, IInv, CallOK

-----------------------------------------------------------------------------
(* The theorems.                                                           *)

(* IInv is an invariant: at all times there is a set of blocks that tiles  *)
(* the heap, without free neighbours, in which each client has its own.    *)
THEOREM Invariance == Spec => []IInv
  <1>1. Init => IInv
    BY InitStep
  <1>2. IInv /\ [Next]_vars => IInv'
    <2> SUFFICES ASSUME IInv, [Next]_vars PROVE IInv'
      OBVIOUS
    <2>1. CASE mm_init
      BY <2>1, StartStep
    <2>2. CASE Request
      <3>1. PICK index \in Ids :
              \/ \E size \in Sizes : mm_malloc(index, size) \/ mm_realloc(index, size)
              \/ 0 \in Sizes /\ (mm_malloc_nothing(index) \/ mm_realloc_nothing(index))
              \/ client_free(index)
        BY <2>2 DEF Request
      <3> QED
        BY <3>1, EnterStep, NothingStep, FreeStep
    <2>3. CASE Run
      BY <2>3, NextStep, FoundStep, ExtendStep, ExtendFailsStep, PlaceStep,
         PlaceReallocStep, CopyStep, FillStep, GiveUpStep DEF Run
    <2>4. CASE exited \/ UNCHANGED vars
      BY <2>4, StutterStep DEF exited
    <2> QED
      BY <2>1, <2>2, <2>3, <2>4 DEF Next
  <1> QED
    BY <1>1, <1>2, PTL DEF Spec

(* Every variable keeps its type, whatever the sizes of the heap and of    *)
(* the requests: in particular the break never leaves the area.            *)
THEOREM TypeCorrect == Spec => []TypeOK
  <1>1. IInv => TypeOK
    BY DEF IInv
  <1> QED
    BY <1>1, Invariance, PTL

(* What the two theorems after it rest on: a held block has an owner.      *)
LEMMA HeldOwns ==
  ASSUME IInv, NEW S \in SUBSET BlockPtrs, HeapOK(S)
  PROVE  /\ Tiling(mem, mem_brk, S) /\ mem \in [WordAddr -> Nat]
         /\ \A i \in Held : /\ Bytes(i) \in Nat
                            /\ Owns(mem, mem_brk, S, Pointer(i), Bytes(i))
         /\ \A i, j \in Held : i # j => Pointer(i) # Pointer(j)
  <1>1. TypeOK /\ CallOK
    BY DEF IInv
  <1>3. \A i \in Ids : Pointers[i] = Pointer(i) /\ Asked[i] = Bytes(i)
    BY DEF Pointers, Asked
  <1>4. HeldOK(mem, mem_brk, S, Pointers, Asked) /\ Tiling(mem, mem_brk, S)
    BY DEF HeapOK
  <1>5. \A i \in Ids : Bytes(i) \in Nat
    <2> SUFFICES ASSUME NEW i \in Ids PROVE Bytes(i) \in Nat
      OBVIOUS
    <2>1. block_sizes[i] \in Sizes \cup {0} /\ call.size \in Sizes \cup {0}
      BY <1>1 DEF TypeOK
    <2>3. block_sizes[i] \in Nat /\ call.size \in Nat
      BY <2>1, SizesNat
    <2> QED
      BY <2>3 DEF Bytes
  <1> QED
    BY <1>1, <1>3, <1>4, <1>5 DEF HeldOK, Held, TypeOK

(* ... and so the properties of what is held say nothing then.             *)
LEMMA NoneHeld == ASSUME IInv, pc = "start" PROVE Held = {}
  BY DEF IInv, Held, Pointer, HandedOver

(* No two payloads that the client holds overlap, for every heap, every    *)
(* client and every sequence of calls whose sizes do not wrap round.       *)
THEOREM Disjointness == Spec => []PayloadsDisjoint
  <1>1. IInv => PayloadsDisjoint
    <2> SUFFICES ASSUME IInv, NEW i \in Held, NEW j \in Held, i # j
                 PROVE  Apart(Pointer(i), Bytes(i), Pointer(j), Bytes(j))
      BY DEF PayloadsDisjoint
    <2>1. pc # "start"
      BY NoneHeld
    <2>2. PICK S \in SUBSET BlockPtrs :
            /\ Tiling(mem, mem_brk, S) /\ mem \in [WordAddr -> Nat]
            /\ \A k \in Held : /\ Bytes(k) \in Nat
                               /\ Owns(mem, mem_brk, S, Pointer(k), Bytes(k))
            /\ \A k, l \in Held : k # l => Pointer(k) # Pointer(l)
      BY <2>1, HeldOwns DEF IInv
    <2>3. PICK m \in [WordAddr -> Nat] : m = mem
      BY <2>2
    <2>4. PICK k \in Nat : k = Bytes(i)
      BY <2>2
    <2>5. PICK l \in Nat : l = Bytes(j)
      BY <2>2
    <2>6. /\ Tiling(m, mem_brk, S)
          /\ Owns(m, mem_brk, S, Pointer(i), k)
          /\ Owns(m, mem_brk, S, Pointer(j), l)
          /\ Pointer(i) # Pointer(j)
      BY <2>2, <2>3, <2>4, <2>5
    <2>7. \/ Pointer(i) + k <= Pointer(j)
          \/ Pointer(j) + l <= Pointer(i)
      BY <2>6, OwnersApart
    <2> QED
      BY <2>4, <2>5, <2>7 DEF Apart
  <1> QED
    BY <1>1, Invariance, PTL

(* Every payload the client holds lies inside the heap.                    *)
THEOREM Inside == Spec => []PayloadsInHeap
  <1>1. IInv => PayloadsInHeap
    <2> SUFFICES ASSUME IInv, NEW i \in Held
                 PROVE  /\ mem_heap_lo <= Pointer(i)
                        /\ Pointer(i) + Bytes(i) - 1 <= mem_heap_hi
      BY DEF PayloadsInHeap
    <2>1. pc # "start"
      BY NoneHeld
    <2>2. PICK S \in SUBSET BlockPtrs :
            /\ Tiling(mem, mem_brk, S) /\ mem \in [WordAddr -> Nat]
            /\ \A k \in Held : /\ Bytes(k) \in Nat
                               /\ Owns(mem, mem_brk, S, Pointer(k), Bytes(k))
            /\ \A k, l \in Held : k # l => Pointer(k) # Pointer(l)
      BY <2>1, HeldOwns DEF IInv
    <2>3. PICK m \in [WordAddr -> Nat] : m = mem
      BY <2>2
    <2>4. PICK k \in Nat : k = Bytes(i)
      BY <2>2
    <2>5. PICK p : p = Pointer(i)
      OBVIOUS
    <2>6. Tiling(m, mem_brk, S) /\ Owns(m, mem_brk, S, p, k)
      BY <2>2, <2>3, <2>4, <2>5
    <2>7. /\ p \in Nat /\ heap_listp < p /\ mem_brk \in Nat
          /\ NEXT_BLKP(m, p) \in Nat
          /\ p + k <= NEXT_BLKP(m, p) - 8 /\ NEXT_BLKP(m, p) <= mem_brk
      BY <2>6, OwnsAddrs
    <2>8. mem_start_brk <= p /\ p + k - 1 <= mem_brk - 1
      BY <2>7, Area DEF heap_listp, DSIZE
    <2> QED
      BY <2>4, <2>5, <2>8 DEF mem_heap_lo, mem_heap_hi
  <1> QED
    BY <1>1, Invariance, PTL

(* memcpy in mm_realloc never copies between overlapping areas.            *)
THEOREM CopyDefined == Spec => []CopyAreasApart
  <1>1. IInv => CopyAreasApart
    <2> SUFFICES ASSUME IInv, pc = "copy"
                 PROVE  Apart(bp, CopySize, blocks[call.index], CopySize)
      BY DEF CopyAreasApart
    <2>1. TypeOK
      BY DEF IInv
    <2>2. PICK S \in SUBSET BlockPtrs : HeapOK(S)
      BY DEF IInv
    <2>3. /\ CopySize \in Nat /\ CopySize <= call.size
          /\ call.index \in Ids /\ call.size \in Nat
          /\ Owns(mem, mem_brk, S, blocks[call.index], block_sizes[call.index])
          /\ block_sizes[call.index] \in Nat
          /\ blocks[call.index] + CopySize <= NEXT_BLKP(mem, blocks[call.index])
      BY <2>2, CopyFits
    <2>4. PICK m \in [WordAddr -> Nat] : m = mem
      BY <2>1 DEF TypeOK
    <2>5. PICK p : p = bp
      OBVIOUS
    <2>6. PICK q : q = blocks[call.index]
      OBVIOUS
    <2>7. PICK k \in Nat : k = call.size
      BY <2>3
    <2>8. PICK l \in Nat : l = block_sizes[call.index]
      BY <2>3
    <2>9. /\ Tiling(m, mem_brk, S) /\ p # q
          /\ Owns(m, mem_brk, S, p, k) /\ Owns(m, mem_brk, S, q, l)
          /\ q + CopySize <= NEXT_BLKP(m, q)
      BY <2>2, <2>3, <2>4, <2>5, <2>6, <2>7, <2>8 DEF HeapOK
    <2>10. \/ p + k <= q
           \/ NEXT_BLKP(m, q) <= p
      BY <2>9, OwnersApart
    <2>11. p \in Nat /\ q \in Nat /\ NEXT_BLKP(m, q) \in Nat
      BY <2>9, OwnsAddrs
    <2>12. p + CopySize <= q \/ q + CopySize <= p
      BY <2>3, <2>7, <2>9, <2>10, <2>11
    <2> QED
      BY <2>5, <2>6, <2>12 DEF Apart
  <1> QED
    BY <1>1, Invariance, PTL

-----------------------------------------------------------------------------
(* Payloads.                                                               *)

(* The payload of k bytes at p, as the interface describes it.             *)
PayloadAt(m, p, k) ==
  [lo |-> p, size |-> k,
   data |-> [o \in {a - p : a \in WordsOf(p, k)} |-> m[p + o]]]

(* The words at p are the same in both memories.                           *)
SameWords(m, n, p, k) == \A a \in WordsOf(p, k) : n[a] = m[a]

(* A payload is what its words are.                                        *)
LEMMA SamePayload ==
  ASSUME NEW m, NEW n, NEW p \in Int, NEW k, SameWords(m, n, p, k)
  PROVE  PayloadAt(n, p, k) = PayloadAt(m, p, k)
  <1> DEFINE D == {a - p : a \in WordsOf(p, k)}
  <1>1. \A o \in D : n[p + o] = m[p + o]
    <2> SUFFICES ASSUME NEW o \in D PROVE n[p + o] = m[p + o]
      OBVIOUS
    <2>1. PICK a \in WordsOf(p, k) : o = a - p
      OBVIOUS
    <2>2. a \in Int
      BY Area DEF WordsOf, WordAddr
    <2>3. p + o = a
      BY <2>1, <2>2
    <2> QED
      BY <2>3 DEF SameWords
  <1> HIDE DEF D
  <1>2. [o \in D |-> n[p + o]] = [o \in D |-> m[p + o]]
    BY <1>1
  <1> QED
    BY <1>2 DEF PayloadAt, D

(* The offsets of its words.                                               *)
LEMMA WordOffsets ==
  ASSUME NEW p \in Nat, p % 8 = 0, mem_start_brk <= p,
         NEW k \in Nat, p + k <= mem_max_addr
  PROVE  {a - p : a \in WordsOf(p, k)} = Contract!Offsets(k)
  <1>1. ASSUME NEW a \in WordsOf(p, k) PROVE a - p \in Contract!Offsets(k)
    <2>1. a \in Int /\ a % 4 = 0 /\ p <= a /\ a < p + k
      BY Area DEF WordsOf, WordAddr, WSIZE
    <2>2. (a - p) % 4 = 0
      BY <2>1
    <2> QED
      BY <2>1, <2>2 DEF Contract!Offsets, Contract!WORD
  <1>2. ASSUME NEW o \in Contract!Offsets(k)
        PROVE  \E a \in WordsOf(p, k) : o = a - p
    <2>1. o \in Int /\ 0 <= o /\ o < k /\ o % 4 = 0
      BY DEF Contract!Offsets, Contract!WORD
    <2>2. (p + o) % 4 = 0
      BY <2>1
    <2>3. p + o \in WordsOf(p, k)
      BY <2>1, <2>2, Area DEF WordsOf, WordAddr, WSIZE
    <2>4. o = (p + o) - p
      BY <2>1
    <2> QED
      BY <2>3, <2>4
  <1> QED
    BY <1>1, <1>2

(* Such a payload is one the interface allows.                             *)
LEMMA IsPayloadAt ==
  ASSUME NEW m, NEW p \in Nat, p % 8 = 0, mem_start_brk <= p,
         NEW k \in Nat, k > 0, p + k <= mem_max_addr
  PROVE  /\ Contract!IsPayload(PayloadAt(m, p, k))
         /\ PayloadAt(m, p, k) # Contract!Nothing
  <1>1. DOMAIN PayloadAt(m, p, k).data = Contract!Offsets(k)
    BY WordOffsets DEF PayloadAt
  <1>2. PayloadAt(m, p, k).lo = p /\ PayloadAt(m, p, k).size = k
    BY DEF PayloadAt
  <1>3. Contract!Nothing.size = 0
    BY DEF Contract!Nothing
  <1> QED
    BY <1>1, <1>2, <1>3 DEF Contract!IsPayload, Contract!ALIGNMENT, mem_heap_lo

(* What is in an allocated block stays there.                              *)
LEMMA KeptWords ==
  ASSUME NEW m \in [WordAddr -> Nat], NEW brk, NEW S, Tiling(m, brk, S),
         NEW n, NEW b, Keeps(m, n, brk, S, b),
         NEW p, NEW k \in Nat, Owns(m, brk, S, p, k), p # b
  PROVE  SameWords(m, n, p, k)
  <1>1. p \in S \ {brk, b} /\ ~IsFree(m, p)
    BY DEF Owns
  <1>2. p \in Nat /\ NEXT_BLKP(m, p) \in Nat /\ p + k <= NEXT_BLKP(m, p) - 8
    BY OwnsAddrs
  <1> SUFFICES ASSUME NEW w \in WordsOf(p, k) PROVE n[w] = m[w]
    BY DEF SameWords
  <1>3. w \in WordAddr /\ w \in Int /\ p <= w /\ w < p + k
    BY Area DEF WordsOf, WordAddr
  <1>4. w < NEXT_BLKP(m, p) - 8
    BY <1>2, <1>3
  <1> QED
    BY <1>1, <1>3, <1>4 DEF Keeps

(* Writing to one payload leaves the others.                               *)
LEMMA OthersKept ==
  ASSUME NEW m \in [WordAddr -> Nat], NEW brk, NEW S, Tiling(m, brk, S),
         NEW n, NEW b, NEW l \in Nat, Owns(m, brk, S, b, l), WritesOnly(m, n, b, l),
         NEW p, NEW k \in Nat, Owns(m, brk, S, p, k), p # b
  PROVE  SameWords(m, n, p, k)
  <1>1. p \in Nat /\ b \in Nat
    BY OwnsAddrs
  <1>2. p + k <= b \/ b + l <= p
    BY OwnersApart
  <1> SUFFICES ASSUME NEW w \in WordsOf(p, k) PROVE n[w] = m[w]
    BY DEF SameWords
  <1>3. w \in WordAddr /\ w \in Int /\ p <= w /\ w < p + k
    BY Area DEF WordsOf, WordAddr
  <1>4. w < b \/ b + l <= w
    BY <1>1, <1>2, <1>3
  <1> QED
    BY <1>3, <1>4 DEF WritesOnly

-----------------------------------------------------------------------------
(* What each step leaves in the payloads that are held.                    *)

(* The heap is extended: nothing of them changes.                          *)
LEMMA ExtendSpares ==
  ASSUME IInv, extend, NEW i \in Held
  PROVE  SameWords(mem, mem', Pointer(i), Bytes(i))
  <1>1. pc = "find_fit"
    BY DEF extend
  <1>2. PICK S \in SUBSET BlockPtrs : HeapOK(S)
    BY <1>1 DEF IInv
  <1>3. PICK size \in Nat : Extended(mem, mem_brk, S, size, mem', bp')
    BY <1>2, ExtendHeap
  <1>4. PICK m \in [WordAddr -> Nat] : m = mem
    BY DEF IInv, TypeOK
  <1>5. PICK k \in Nat : k = Bytes(i)
    BY <1>2, HeldOwns
  <1>6. /\ Tiling(m, mem_brk, S) /\ Keeps(m, mem', mem_brk, S, mem_brk)
        /\ Owns(m, mem_brk, S, Pointer(i), k)
    BY <1>2, <1>3, <1>4, <1>5, HeldOwns DEF Extended
  <1>7. Pointer(i) # mem_brk
    BY <1>6 DEF Owns
  <1> QED
    BY <1>4, <1>5, <1>6, <1>7, KeptWords

(* A block is cut out of a free one.                                       *)
LEMMA PlaceSpares ==
  ASSUME IInv, pc = "place", mem' = place(mem, bp, call.asize), NEW i \in Held
  PROVE  SameWords(mem, mem', Pointer(i), Bytes(i))
  <1>1. PICK S \in SUBSET BlockPtrs : HeapOK(S)
    BY DEF IInv
  <1>2. PICK m \in [WordAddr -> Nat] : m = mem
    BY DEF IInv, TypeOK
  <1>3. PICK k \in Nat : k = Bytes(i)
    BY <1>1, HeldOwns
  <1>4. /\ Tiling(m, mem_brk, S) /\ Owns(m, mem_brk, S, Pointer(i), k)
        /\ Keeps(m, mem', mem_brk, S, bp)
    BY <1>1, <1>2, <1>3, HeldOwns, PlaceHeap
  <1>5. Pointer(i) # bp
    BY <1>1, PlaceHeap DEF Held, Pointer, HandedOver
  <1> QED
    BY <1>2, <1>3, <1>4, <1>5, KeptWords

(* Another block is freed.                                                 *)
LEMMA FreeSpares ==
  ASSUME IInv, NEW index \in Ids, client_free(index), NEW i \in Held, i # index
  PROVE  SameWords(mem, mem', Pointer(i), Bytes(i))
  <1>1. /\ pc = "idle" /\ mem' = mm_free(mem, blocks[index]) /\ blocks[index] # NULL
        /\ Pointer(i) = blocks[i] /\ Pointer(index) = blocks[index]
        /\ index \in Held
    BY DEF client_free, Pointer, HandedOver, Held
  <1>2. PICK S \in SUBSET BlockPtrs : HeapOK(S)
    BY <1>1 DEF IInv
  <1>3. PICK m \in [WordAddr -> Nat] : m = mem
    BY DEF IInv, TypeOK
  <1>4. PICK k \in Nat : k = Bytes(i)
    BY <1>2, HeldOwns
  <1>5. PICK b : b = blocks[index]
    OBVIOUS
  <1>6. /\ Tiling(m, mem_brk, S) /\ Coalesced(m, mem_brk, S)
        /\ Owns(m, mem_brk, S, Pointer(i), k)
        /\ Owns(m, mem_brk, S, b, Bytes(index)) /\ Pointer(i) # b
    BY <1>1, <1>2, <1>3, <1>4, <1>5, HeldOwns DEF HeapOK
  <1>7. PICK n : n = mem' /\ n = mm_free(m, b)
    BY <1>1, <1>3, <1>5
  <1>8. Keeps(m, n, mem_brk, S, b)
    BY <1>6, <1>7, FreeHeap
  <1> QED
    BY <1>3, <1>4, <1>6, <1>7, <1>8, KeptWords

(* mm_realloc copies to a new block and frees the old one: the others keep *)
(* what is in them, and the words copied arrive.                           *)
LEMMA CopySpares ==
  ASSUME IInv, copy_and_free
  PROVE  /\ \A i \in Held : i # call.index =>
              SameWords(mem, mem', Pointer(i), Bytes(i))
         /\ \A w \in WordsOf(bp, CopySize) :
              mem'[w] = mem[w - bp + blocks[call.index]]
  <1>1. pc = "copy"
    BY DEF copy_and_free
  <1>2. PICK S \in SUBSET BlockPtrs : HeapOK(S)
    BY <1>1 DEF IInv
  <1>3. PICK m \in [WordAddr -> Nat] : m = mem
    BY DEF IInv, TypeOK
  <1>4. PICK from : from = blocks[call.index]
    OBVIOUS
  <1>5. PICK h \in [WordAddr -> Nat] :
           /\ h = memcpy(m, bp, from, CopySize)
           /\ WritesOnly(m, h, bp, call.size)
           /\ Tiling(h, mem_brk, S) /\ Coalesced(h, mem_brk, S)
           /\ \A q, l : Owns(m, mem_brk, S, q, l) => Owns(h, mem_brk, S, q, l)
           /\ mem' = mm_free(h, from)
    BY <1>2, <1>3, <1>4, CopyHeap
  <1>6. /\ CopySize \in Nat /\ CopySize <= call.size /\ call.index \in Ids
        /\ from # NULL /\ Owns(m, mem_brk, S, from, block_sizes[call.index])
    BY <1>1, <1>2, <1>3, <1>4, CopyFits
  <1>7. PICK k \in Nat : k = call.size
    BY <1>1, <1>2, CopyFits
  <1>8. /\ Tiling(m, mem_brk, S) /\ Owns(m, mem_brk, S, bp, k)
        /\ \A i \in Ids : blocks[i] # bp
    BY <1>1, <1>2, <1>3, <1>7 DEF HeapOK
  <1>9. PICK n : n = mem' /\ n = mm_free(h, from)
    BY <1>5
  <1>10. Keeps(h, n, mem_brk, S, from)
    <2>1. Owns(h, mem_brk, S, from, block_sizes[call.index])
      BY <1>5, <1>6
    <2> QED
      BY <1>5, <1>9, <2>1, FreeHeap
  <1>11. ASSUME NEW i \in Held, i # call.index
         PROVE  SameWords(m, n, Pointer(i), Bytes(i))
    <2>1. PICK l \in Nat : l = Bytes(i)
      BY <1>2, HeldOwns
    <2>2. PICK p : p = Pointer(i)
      OBVIOUS
    <2>3. /\ p = blocks[i] /\ i \in Ids /\ Pointer(call.index) = from
          /\ call.index \in Held
      BY <1>1, <1>4, <1>6, <2>2 DEF Held, Pointer, HandedOver
    <2>4. Owns(m, mem_brk, S, p, l) /\ p # from /\ p # bp
      BY <1>2, <1>3, <1>8, <1>11, <2>1, <2>2, <2>3, HeldOwns
    <2>5. WritesOnly(m, h, bp, k)
      BY <1>5, <1>7
    <2>6. SameWords(m, h, p, l)
      BY <1>8, <2>4, <2>5, OthersKept
    <2>7. Owns(h, mem_brk, S, p, l)
      BY <1>5, <2>4
    <2>8. SameWords(h, n, p, l)
      BY <1>5, <1>10, <2>4, <2>7, KeptWords
    <2> QED
      BY <2>1, <2>2, <2>6, <2>8 DEF SameWords
  <1>12. ASSUME NEW w \in WordsOf(bp, CopySize) PROVE n[w] = m[w - bp + from]
    <2>1. w \in WordAddr
      BY DEF WordsOf
    <2>2. h[w] = m[w - bp + from]
      BY <1>5, <2>1 DEF memcpy
    <2>3. Owns(h, mem_brk, S, bp, k) /\ bp # from
      BY <1>4, <1>5, <1>6, <1>8
    <2>4. SameWords(h, n, bp, k)
      BY <1>5, <1>10, <2>3, KeptWords
    <2>5. bp \in Nat
      BY <1>8, OwnsAddrs
    <2>6. w \in WordsOf(bp, k)
      <3>1. w \in Int
        BY <2>1, Area DEF WordAddr
      <3>2. bp <= w /\ w < bp + CopySize
        BY DEF WordsOf
      <3>3. w < bp + k
        BY <1>6, <1>7, <2>5, <3>1, <3>2
      <3> QED
        BY <2>1, <3>2, <3>3 DEF WordsOf
    <2> QED
      BY <2>2, <2>4, <2>6 DEF SameWords
  <1> QED
    BY <1>3, <1>4, <1>9, <1>11, <1>12

(* The client fills one payload.                                           *)
LEMMA FillSpares ==
  ASSUME IInv, fill, NEW i \in Held, i # call.index
  PROVE  SameWords(mem, mem', Pointer(i), Bytes(i))
  <1>1. /\ pc = "returned" /\ bp # NULL
        /\ mem' = memset(mem, bp, FillWord(call.index), call.size)
    BY DEF fill
  <1>2. PICK S \in SUBSET BlockPtrs : HeapOK(S)
    BY <1>1 DEF IInv
  <1>3. PICK m \in [WordAddr -> Nat] : m = mem
    BY DEF IInv, TypeOK
  <1>4. /\ call.index \in Ids /\ call.index \in Nat
        /\ Pointer(call.index) = bp /\ Bytes(call.index) = call.size
        /\ call.index \in Held
    BY <1>1, Area DEF IInv, CallOK, Pointer, Bytes, HandedOver, Held
  <1>5. PICK k \in Nat : k = Bytes(i)
    BY <1>2, HeldOwns
  <1>6. PICK l \in Nat : l = call.size
    BY <1>2, <1>4, HeldOwns
  <1>7. /\ Tiling(m, mem_brk, S) /\ Owns(m, mem_brk, S, Pointer(i), k)
        /\ Owns(m, mem_brk, S, bp, l) /\ Pointer(i) # bp
    BY <1>2, <1>3, <1>4, <1>5, <1>6, HeldOwns
  <1>8. PICK n : n = mem' /\ n = memset(m, bp, FillWord(call.index), l)
    BY <1>1, <1>3, <1>6
  <1>9. FillWord(call.index) \in Nat
    BY <1>4 DEF FillWord
  <1>10. bp \in Nat
    BY <1>7, OwnsAddrs
  <1>11. WritesOnly(m, n, bp, l)
    BY <1>8, <1>9, <1>10, Memset
  <1> QED
    BY <1>3, <1>5, <1>7, <1>8, <1>11, OthersKept

-----------------------------------------------------------------------------
(* Which payloads a step leaves alone.                                     *)

(* What is held as i is the same afterwards, and so is what is in it.      *)
Leaves(i) ==
  /\ Pointer(i)' = Pointer(i)
  /\ Pointer(i) # NULL => /\ Bytes(i)' = Bytes(i)
                          /\ SameWords(mem, mem', Pointer(i), Bytes(i))
                          /\ HandedOver(i) => HandedOver(i)'

(* The steps that the client does not notice.                              *)
Quiet ==
  \/ \E index \in Ids :
       \/ \E size \in Sizes : mm_malloc(index, size) \/ mm_realloc(index, size)
       \/ mm_malloc_nothing(index) \/ mm_realloc_nothing(index)
  \/ find_fit_next \/ find_fit_found \/ extend \/ extend_fails
  \/ place_for_realloc \/ give_up \/ exited \/ UNCHANGED vars

(* A step between a call and its answer leaves all that is held, if it     *)
(* leaves the words.                                                       *)
LEMMA Undisturbed ==
  ASSUME pc # "returned", pc' # "returned", UNCHANGED <<blocks, block_sizes>>,
         NEW i \in Ids, i \in Held => SameWords(mem, mem', Pointer(i), Bytes(i))
  PROVE  Leaves(i)
  BY DEF Leaves, Held, Pointer, Bytes, HandedOver

(* Memory that does not change has the same words.                         *)
LEMMA SameMem ==
  ASSUME mem' = mem, NEW p, NEW k PROVE SameWords(mem, mem', p, k)
  BY DEF SameWords

(* They leave every payload as it was.                                     *)
LEMMA QuietLeaves ==
  ASSUME IInv, Quiet, NEW i \in Ids
  PROVE  Leaves(i)
  <1>1. ASSUME NEW index \in Ids, NEW size \in Sizes,
               mm_malloc(index, size) \/ mm_realloc(index, size)
        PROVE  Leaves(i)
    BY <1>1, SameMem, Undisturbed DEF mm_malloc, mm_realloc, EnterMalloc
  <1>2. ASSUME NEW index \in Ids, mm_malloc_nothing(index) PROVE Leaves(i)
    <2>1. /\ blocks[index] = NULL /\ pc = "idle" /\ pc' = "returned" /\ bp' = NULL
          /\ call'.index = index
          /\ UNCHANGED <<mem, blocks, block_sizes>>
      BY <1>2 DEF mm_malloc_nothing, EnterMalloc
    <2> QED
      BY <2>1, SameMem DEF Leaves, Pointer, Bytes, HandedOver
  <1>3. ASSUME NEW index \in Ids, mm_realloc_nothing(index) PROVE Leaves(i)
    BY <1>3, SameMem, Undisturbed DEF mm_realloc_nothing, EnterMalloc
  <1>4. CASE find_fit_next \/ find_fit_found
    BY <1>4, SameMem, Undisturbed DEF find_fit_next, find_fit_found
  <1>5. CASE extend
    <2>1. pc # "returned" /\ pc' # "returned" /\ UNCHANGED <<blocks, block_sizes>>
      BY <1>5 DEF extend
    <2> QED
      BY <1>5, <2>1, ExtendSpares, Undisturbed
  <1>6. CASE extend_fails
    <2>1. /\ pc = "find_fit" /\ bp' = NULL
          /\ pc' = IF call.op = "malloc" THEN "returned" ELSE "exit"
          /\ UNCHANGED <<mem, call, blocks, block_sizes>>
      BY <1>6 DEF extend_fails, mem_sbrk
    <2>2. call.op = "malloc" <=> blocks[call.index] = NULL
      BY <2>1 DEF IInv, CallOK
    <2> QED
      BY <2>1, <2>2, SameMem DEF Leaves, Pointer, Bytes, HandedOver
  <1>7. CASE place_for_realloc
    <2>1. /\ pc = "place" /\ pc' = "copy" /\ mem' = place(mem, bp, call.asize)
          /\ UNCHANGED <<blocks, block_sizes>>
      BY <1>7 DEF place_for_realloc
    <2> QED
      BY <2>1, PlaceSpares, Undisturbed
  <1>8. CASE give_up
    <2>1. /\ pc = "returned" /\ bp = NULL /\ pc' = "idle"
          /\ UNCHANGED <<mem, blocks, block_sizes>>
      BY <1>8 DEF give_up
    <2>2. blocks[call.index] = NULL
      BY <2>1 DEF IInv, CallOK
    <2> QED
      BY <2>1, <2>2, SameMem DEF Leaves, Pointer, Bytes, HandedOver
  <1>9. CASE exited \/ UNCHANGED vars
    <2>1. UNCHANGED <<mem, pc, call, bp, blocks, block_sizes>>
      BY <1>9 DEF exited, vars
    <2> QED
      BY <2>1, SameMem DEF Leaves, Pointer, Bytes, HandedOver
  <1> QED
    BY <1>1, <1>2, <1>3, <1>4, <1>5, <1>6, <1>7, <1>8, <1>9 DEF Quiet

(* mm_malloc hands a block over.                                           *)
LEMMA PlaceLeaves ==
  ASSUME IInv, place_and_return, NEW index, index = call.index
  PROVE  /\ index \in Ids /\ Pointer(index) = NULL
         /\ Pointer(index)' = bp /\ Bytes(index)' = call.size /\ call.size > 0
         /\ HandedOver(index)' /\ bp # NULL
         /\ \A i \in Ids : i # index => Leaves(i)
  <1>1. /\ pc = "place" /\ pc' = "returned" /\ call.op = "malloc"
        /\ mem' = place(mem, bp, call.asize)
        /\ UNCHANGED <<call, bp, blocks, block_sizes>>
    BY DEF place_and_return
  <1>2. call.index \in Ids /\ blocks[call.index] = NULL /\ call.size > 0
    BY <1>1 DEF IInv, CallOK
  <1>3. bp # NULL
    <2>1. PICK S \in SUBSET BlockPtrs : HeapOK(S)
      BY <1>1 DEF IInv
    <2>2. bp \in BlockPtrs
      BY <1>1, <2>1, PlaceHeap
    <2> QED
      BY <2>2, BlockPtrAddrs DEF NULL
  <1>4. \A i \in Ids : i \in Held => SameWords(mem, mem', Pointer(i), Bytes(i))
    BY <1>1, PlaceSpares
  <1> QED
    BY <1>1, <1>2, <1>3, <1>4 DEF Leaves, Held, Pointer, Bytes, HandedOver

(* mm_realloc hands the new block over, for the old one.                   *)
LEMMA CopyLeaves ==
  ASSUME IInv, copy_and_free, NEW index, index = call.index
  PROVE  /\ index \in Ids
         /\ Pointer(index) = blocks[index] /\ Bytes(index) = block_sizes[index]
         /\ Pointer(index) # NULL
         /\ Pointer(index)' = bp /\ Bytes(index)' = call.size /\ call.size > 0
         /\ HandedOver(index)' /\ bp # NULL
         /\ \A i \in Ids : i # index => Leaves(i)
  <1>1. /\ pc = "copy" /\ pc' = "returned"
        /\ UNCHANGED <<call, bp, blocks, block_sizes>>
    BY DEF copy_and_free
  <1>2. /\ call.index \in Ids /\ blocks[call.index] # NULL /\ call.size > 0
        /\ bp # NULL
    <2>1. PICK S \in SUBSET BlockPtrs : HeapOK(S)
      BY <1>1 DEF IInv
    <2>2. call.index \in Ids /\ blocks[call.index] # NULL
      BY <1>1, <2>1, CopyFits
    <2>3. call.size > 0
      BY <1>1 DEF IInv, CallOK
    <2>4. bp \in BlockPtrs
      BY <1>1, <2>1 DEF HeapOK, Owns
    <2>5. bp # NULL
      BY <2>4, BlockPtrAddrs DEF NULL
    <2> QED
      BY <2>2, <2>3, <2>5
  <1>3. \A i \in Ids : i \in Held /\ i # call.index =>
          SameWords(mem, mem', Pointer(i), Bytes(i))
    BY CopySpares
  <1> QED
    BY <1>1, <1>2, <1>3 DEF Leaves, Held, Pointer, Bytes, HandedOver

(* mm_free takes one block away.                                           *)
LEMMA FreeLeaves ==
  ASSUME IInv, NEW index \in Ids, client_free(index)
  PROVE  /\ Pointer(index) # NULL /\ Pointer(index)' = NULL
         /\ \A i \in Ids : i # index => Leaves(i)
  <1>1. /\ pc = "idle" /\ pc' = "idle" /\ blocks[index] # NULL
        /\ blocks' = [blocks EXCEPT ![index] = NULL]
        /\ block_sizes' = [block_sizes EXCEPT ![index] = 0]
    BY DEF client_free
  <1>2. \A i \in Ids : /\ blocks'[i] = IF i = index THEN NULL ELSE blocks[i]
                       /\ block_sizes'[i] = IF i = index THEN 0 ELSE block_sizes[i]
    BY <1>1 DEF IInv, TypeOK
  <1>3. \A i \in Ids : i \in Held /\ i # index =>
          SameWords(mem, mem', Pointer(i), Bytes(i))
    BY FreeSpares
  <1> QED
    BY <1>1, <1>2, <1>3 DEF Leaves, Held, Pointer, Bytes, HandedOver

(* The client fills the block it was handed.                               *)
LEMMA FillLeaves ==
  ASSUME IInv, fill, NEW index, index = call.index
  PROVE  /\ index \in Ids /\ bp # NULL /\ call.size > 0
         /\ Pointer(index) = bp /\ Bytes(index) = call.size
         /\ Pointer(index)' = bp /\ Bytes(index)' = call.size
         /\ \A w \in WordsOf(bp, call.size) : mem'[w] = FillWord(index)
         /\ \A i \in Ids : i # index => Leaves(i)
  <1>1. /\ pc = "returned" /\ bp # NULL /\ pc' = "idle"
        /\ mem' = memset(mem, bp, FillWord(index), call.size)
        /\ blocks' = [blocks EXCEPT ![index] = bp]
        /\ block_sizes' = [block_sizes EXCEPT ![index] = call.size]
    BY DEF fill
  <1>2. index \in Ids /\ call.size > 0
    BY <1>1 DEF IInv, CallOK
  <1>3. \A i \in Ids : /\ blocks'[i] = IF i = index THEN bp ELSE blocks[i]
                       /\ block_sizes'[i] = IF i = index THEN call.size
                                                         ELSE block_sizes[i]
    BY <1>1 DEF IInv, TypeOK
  <1>4. \A w \in WordsOf(bp, call.size) : mem'[w] = FillWord(index)
    BY <1>1 DEF memset, WordsOf
  <1>5. /\ Pointer(index) = bp /\ Bytes(index) = call.size
        /\ \A i \in Ids : i # index => /\ Pointer(i) = blocks[i]
                                      /\ Bytes(i) = block_sizes[i]
                                      /\ ~HandedOver(i)
    BY <1>1 DEF Pointer, Bytes, HandedOver
  <1>6. \A i \in Ids : Pointer(i)' = blocks'[i] /\ Bytes(i)' = block_sizes'[i]
    BY <1>1 DEF Pointer, Bytes, HandedOver
  <1>7. ASSUME NEW i \in Ids, i # index PROVE Leaves(i)
    <2>1. /\ Pointer(i)' = Pointer(i) /\ Bytes(i)' = Bytes(i)
          /\ ~HandedOver(i)
      BY <1>3, <1>5, <1>6, <1>7
    <2>2. Pointer(i) # NULL => SameWords(mem, mem', Pointer(i), Bytes(i))
      BY <1>7, FillSpares DEF Held
    <2> QED
      BY <2>1, <2>2 DEF Leaves
  <1> QED
    BY <1>1, <1>2, <1>3, <1>4, <1>5, <1>6, <1>7

(* mm_init: nothing is held afterwards.                                    *)
LEMMA InitHolds == ASSUME mm_init PROVE \A i \in Ids : Pointer(i)' = NULL
  BY DEF mm_init, Pointer, HandedOver

-----------------------------------------------------------------------------
(* The theorems.                                                           *)

(* One step of the program is one of those.                                *)
LEMMA Steps ==
  ASSUME [Next]_vars
  PROVE  \/ mm_init \/ Quiet \/ place_and_return \/ copy_and_free \/ fill
         \/ \E index \in Ids : client_free(index)
  BY DEF Next, Request, Run, Quiet

(* What the client has written stays.                                      *)
LEMMA IntactStep ==
  ASSUME IInv, PayloadIntact, [Next]_vars
  PROVE  PayloadIntact'
  <1> SUFFICES ASSUME NEW i \in Held', ~HandedOver(i)',
                      NEW a \in WordsOf(Pointer(i)', Bytes(i)')
               PROVE  mem'[a] = FillWord(i)
    BY DEF PayloadIntact, WordsOf
  <1>1. i \in Ids /\ Pointer(i)' # NULL
    BY DEF Held
  <1>2. CASE Leaves(i)
    <2>1. i \in Held /\ ~HandedOver(i) /\ a \in WordsOf(Pointer(i), Bytes(i))
      BY <1>1, <1>2 DEF Leaves, Held
    <2>2. mem[a] = FillWord(i)
      BY <2>1 DEF PayloadIntact
    <2>3. mem'[a] = mem[a]
      BY <1>1, <1>2, <2>1 DEF Leaves, SameWords
    <2> QED
      BY <2>2, <2>3
  <1>3. CASE fill
    <2>1. CASE i = call.index
      <3>1. Pointer(i)' = bp /\ Bytes(i)' = call.size
        BY <1>3, <2>1, FillLeaves
      <3>2. a \in WordsOf(bp, call.size)
        BY <3>1
      <3> QED
        BY <1>3, <2>1, <3>2, FillLeaves
    <2>2. CASE i # call.index
      BY <1>1, <1>2, <1>3, <2>2, FillLeaves
    <2> QED
      BY <2>1, <2>2
  <1>4. CASE mm_init
    BY <1>1, <1>4, InitHolds
  <1>5. CASE Quiet
    BY <1>1, <1>2, <1>5, QuietLeaves
  <1>6. CASE place_and_return
    BY <1>1, <1>2, <1>6, PlaceLeaves DEF place_and_return, HandedOver
  <1>7. CASE copy_and_free
    BY <1>1, <1>2, <1>7, CopyLeaves DEF copy_and_free, HandedOver
  <1>8. ASSUME NEW index \in Ids, client_free(index) PROVE mem'[a] = FillWord(i)
    <2>1. CASE i = index
      BY <1>1, <1>8, <2>1, FreeLeaves
    <2>2. CASE i # index
      BY <1>1, <1>2, <1>8, <2>2, FreeLeaves
    <2> QED
      BY <2>1, <2>2
  <1> QED
    BY <1>3, <1>4, <1>5, <1>6, <1>7, <1>8, Steps

(* What the client has written to a payload stays there until it frees it  *)
(* or resizes it: no tag, no copy and no other payload is written over it. *)
THEOREM Intact == Spec => []PayloadIntact
  <1>1. Init => PayloadIntact
    BY DEF Init, PayloadIntact, Held, Pointer, HandedOver
  <1>2. IInv /\ PayloadIntact /\ [Next]_vars => PayloadIntact'
    BY IntactStep
  <1> QED
    BY <1>1, <1>2, Invariance, PTL DEF Spec

-----------------------------------------------------------------------------
(* Implementing the interface.                                             *)

Payloads == [i \in Ids |-> Payload(i)]

(* What is held lies in the area of the heap, at a multiple of eight.      *)
HeldFits ==
  \A i \in Held :
    /\ Pointer(i) \in Nat /\ Pointer(i) % 8 = 0 /\ mem_start_brk <= Pointer(i)
    /\ Bytes(i) \in Nat /\ Pointer(i) + Bytes(i) <= mem_max_addr

(* The invariant says so.                                                  *)
LEMMA HoldsFit == ASSUME IInv PROVE HeldFits
  <1>1. ASSUME NEW i \in Held
        PROVE  /\ Pointer(i) \in Nat /\ Pointer(i) % 8 = 0
               /\ mem_start_brk <= Pointer(i)
               /\ Bytes(i) \in Nat /\ Pointer(i) + Bytes(i) <= mem_max_addr
    <2>1. pc # "start"
      BY DEF IInv, Held, Pointer, HandedOver
    <2>2. PICK S \in SUBSET BlockPtrs : HeapOK(S)
      BY <2>1 DEF IInv
    <2>3. PICK m \in [WordAddr -> Nat] : m = mem
      BY DEF IInv, TypeOK
    <2>4. PICK k \in Nat : k = Bytes(i)
      BY <2>2, HeldOwns
    <2>5. PICK p : p = Pointer(i)
      OBVIOUS
    <2>6. Tiling(m, mem_brk, S) /\ Owns(m, mem_brk, S, p, k)
      BY <2>2, <2>3, <2>4, <2>5, HeldOwns
    <2>7. p \in BlockPtrs
      BY <2>6 DEF Owns, Tiling
    <2>8. p \in Nat /\ p % 8 = 0 /\ mem_start_brk <= p
      <3>1. p \in Nat /\ p % 8 = 0 /\ heap_listp <= p
        BY <2>7, BlockPtrAddrs
      <3> QED
        BY <3>1, Area DEF heap_listp, DSIZE
    <2>9. /\ NEXT_BLKP(m, p) \in Nat /\ p + k <= NEXT_BLKP(m, p) - 8
          /\ NEXT_BLKP(m, p) <= mem_max_addr
      BY <2>6, OwnsAddrs DEF Tiling, WellTagged, Owns
    <2>10. mem_max_addr \in Nat
      BY Area
    <2>11. p + k <= mem_max_addr
      BY <2>8, <2>9, <2>10
    <2> QED
      BY <2>4, <2>5, <2>8, <2>11
  <1> QED
    BY <1>1 DEF HeldFits

(* What the refinement mapping makes of block i.                           *)
LEMMA PayloadIs ==
  ASSUME NEW i \in Ids
  PROVE  /\ Payload(i) = IF Pointer(i) = NULL THEN Contract!Nothing
                         ELSE PayloadAt(mem, Pointer(i), Bytes(i))
         /\ Payload(i)' = IF Pointer(i)' = NULL THEN Contract!Nothing
                          ELSE PayloadAt(mem', Pointer(i)', Bytes(i)')
  <1>1. Payload(i) = IF Pointer(i) = NULL THEN Contract!Nothing
                     ELSE PayloadAt(mem, Pointer(i), Bytes(i))
    BY DEF Payload, PayloadAt, Contract!Nothing
  <1>2. Payload(i)' = IF Pointer(i)' = NULL THEN Contract!Nothing
                      ELSE PayloadAt(mem', Pointer(i)', Bytes(i)')
    BY DEF Payload, PayloadAt, Contract!Nothing
  <1> QED
    BY <1>1, <1>2

(* A pointer that is not NULL is something to the interface.               *)
LEMMA IsHeldAt ==
  ASSUME NEW i \in Ids
  PROVE  /\ (Payload(i) # Contract!Nothing) <=> (Pointer(i) # NULL)
         /\ (Payload(i)' # Contract!Nothing) <=> (Pointer(i)' # NULL)
  <1>1. ASSUME NEW m, NEW p, NEW k, p # NULL
        PROVE  PayloadAt(m, p, k) # Contract!Nothing
    <2>1. PayloadAt(m, p, k).lo = p
      BY DEF PayloadAt
    <2>2. Contract!Nothing.lo = NULL
      BY DEF Contract!Nothing, NULL
    <2> QED
      BY <1>1, <2>1, <2>2
  <1> QED
    BY <1>1, PayloadIs

(* What is left as it was is the same payload for the interface.           *)
LEMMA LeavesPayload ==
  ASSUME HeldFits, NEW i \in Ids, Leaves(i)
  PROVE  Payload(i)' = Payload(i)
  <1>1. CASE Pointer(i) = NULL
    BY <1>1, PayloadIs DEF Leaves
  <1>2. CASE Pointer(i) # NULL
    <2>1. PICK p : p = Pointer(i)
      OBVIOUS
    <2>2. PICK k : k = Bytes(i)
      OBVIOUS
    <2>3. p \in Int /\ SameWords(mem, mem', p, k)
      BY <1>2, <2>1, <2>2 DEF Leaves, Held, HeldFits
    <2>4. PayloadAt(mem', p, k) = PayloadAt(mem, p, k)
      BY <2>3, SamePayload
    <2> QED
      BY <1>2, <2>1, <2>2, <2>4, PayloadIs DEF Leaves
  <1> QED
    BY <1>1, <1>2

(* The other blocks stay where they are.                                   *)
LEMMA OthersStay ==
  ASSUME HeldFits, NEW index \in Ids, \A i \in Ids : i # index => Leaves(i)
  PROVE  Contract!OnlyMoves(index)
  BY LeavesPayload DEF Contract!OnlyMoves

(* A block handed over is one the interface allows.                        *)
LEMMA IsPlaced ==
  ASSUME HeldFits, HeldFits', PayloadsDisjoint', NEW index \in Ids,
         \A i \in Ids : i # index => Leaves(i),
         Pointer(index)' # NULL, Bytes(index)' > 0
  PROVE  Contract!Placed(index)
  <1>1. PICK p : p = Pointer(index)'
    OBVIOUS
  <1>2. PICK k : k = Bytes(index)'
    OBVIOUS
  <1>3. index \in Held'
    BY DEF Held
  <1>4. /\ p \in Nat /\ p % 8 = 0 /\ mem_start_brk <= p
        /\ k \in Nat /\ k > 0 /\ p + k <= mem_max_addr
    BY <1>1, <1>2, <1>3 DEF HeldFits
  <1>5. PICK r : r = PayloadAt(mem', p, k)
    OBVIOUS
  <1>6. Payload(index)' = r
    BY <1>1, <1>2, <1>5, PayloadIs
  <1>7. Contract!IsPayload(r) /\ r.lo = p /\ r.size = k
    BY <1>4, <1>5, IsPayloadAt DEF PayloadAt
  <1>8. ASSUME NEW j \in Ids \ {index}, Payload(j) # Contract!Nothing
        PROVE  Contract!Disjoint(r, Payload(j))
    <2>1. Pointer(j) # NULL
      BY <1>8, IsHeldAt
    <2>2. Pointer(j)' = Pointer(j) /\ Bytes(j)' = Bytes(j) /\ j \in Held'
      BY <2>1 DEF Leaves, Held
    <2>3. Apart(p, k, Pointer(j), Bytes(j))
      BY <1>1, <1>2, <1>3, <2>2 DEF PayloadsDisjoint
    <2>4. Payload(j).lo = Pointer(j) /\ Payload(j).size = Bytes(j)
      <3>1. Payload(j) = PayloadAt(mem, Pointer(j), Bytes(j))
        BY <2>1, PayloadIs
      <3> QED
        BY <3>1 DEF PayloadAt
    <2> QED
      BY <1>7, <2>3, <2>4 DEF Contract!Disjoint, Apart
  <1> QED
    BY <1>6, <1>7, <1>8 DEF Contract!Placed, Contract!IsHeld

(* What is at an offset of a payload.                                      *)
LEMMA PayloadData ==
  ASSUME NEW m, NEW p, NEW k, NEW o \in DOMAIN PayloadAt(m, p, k).data
  PROVE  PayloadAt(m, p, k).data[o] = m[p + o]
  BY DEF PayloadAt

(* mm_realloc copies all that was in the old block and fits the new one.   *)
LEMMA CopyCovers ==
  ASSUME IInv, pc = "copy", NEW o \in Nat,
         o < block_sizes[call.index], o < call.size
  PROVE  o < CopySize
  <1>1. PICK S \in SUBSET BlockPtrs : HeapOK(S)
    BY DEF IInv
  <1>2. PICK b : b = blocks[call.index]
    OBVIOUS
  <1>3. PICK k \in Nat : k = block_sizes[call.index]
    BY <1>1, CopyFits
  <1>4. PICK old : old = GET_SIZE(mem, HDRP(b))
    OBVIOUS
  <1>5. Owns(mem, mem_brk, S, b, k) /\ call.size \in Nat
    BY <1>1, <1>2, <1>3, CopyFits
  <1>6. k + 8 <= old
    BY <1>4, <1>5 DEF Owns, OVERHEAD
  <1>7. old \in Nat
    <2>1. mem \in [WordAddr -> Nat] /\ Tiling(mem, mem_brk, S)
      BY <1>1 DEF IInv, TypeOK, HeapOK
    <2>2. b \in S \ {mem_brk}
      BY <1>5 DEF Owns
    <2>3. PICK m \in [WordAddr -> Nat] : m = mem
      BY <2>1
    <2> QED
      BY <1>4, <2>1, <2>2, <2>3, TilingBlock, TilingAddrs
  <1>8. o < old
    BY <1>3, <1>6, <1>7
  <1> QED
    BY <1>2, <1>4, <1>8 DEF CopySize

(* mm_realloc: what was in the old block is in the new one.                *)
LEMMA CopyArrives ==
  ASSUME IInv, HeldFits, HeldFits', copy_and_free, NEW index, index = call.index
  PROVE  \A o \in DOMAIN Payload(index).data \cap DOMAIN Payload(index)'.data :
           Payload(index)'.data[o] = Payload(index).data[o]
  <1>1. PICK S \in SUBSET BlockPtrs : HeapOK(S)
    BY DEF IInv, copy_and_free
  <1>2. PICK from : from = blocks[index]
    OBVIOUS
  <1>3. PICK k : k = block_sizes[index]
    OBVIOUS
  <1>4. PICK n : n = call.size
    OBVIOUS
  <1>5. /\ index \in Ids /\ Pointer(index) = from /\ Bytes(index) = k
        /\ Pointer(index)' = bp /\ Bytes(index)' = n
        /\ from # NULL /\ bp # NULL /\ n > 0
    BY <1>2, <1>3, <1>4, CopyLeaves
  <1>6. index \in Held /\ index \in Held'
    BY <1>5 DEF Held
  <1>7. /\ from \in Nat /\ from % 8 = 0 /\ mem_start_brk <= from
        /\ k \in Nat /\ from + k <= mem_max_addr
        /\ bp \in Nat /\ bp % 8 = 0 /\ mem_start_brk <= bp
        /\ n \in Nat /\ bp + n <= mem_max_addr
    BY <1>5, <1>6 DEF HeldFits
  <1>8. /\ Payload(index) = PayloadAt(mem, from, k)
        /\ Payload(index)' = PayloadAt(mem', bp, n)
    BY <1>5, PayloadIs
  <1>9. /\ DOMAIN Payload(index).data = Contract!Offsets(k)
        /\ DOMAIN Payload(index)'.data = Contract!Offsets(n)
    BY <1>7, <1>8, WordOffsets DEF PayloadAt
  <1>10. ASSUME NEW o \in Contract!Offsets(k) \cap Contract!Offsets(n)
         PROVE  mem'[bp + o] = mem[from + o]
    <2>1. o \in Nat /\ o < k /\ o < n /\ o % 4 = 0
      BY <1>7 DEF Contract!Offsets, Contract!WORD
    <2>2. o < CopySize
      BY <1>3, <1>4, <2>1, CopyCovers DEF copy_and_free
    <2>3. (bp + o) % 4 = 0
      BY <1>7, <2>1
    <2>4. bp + o \in WordAddr
      BY <1>7, <2>1, <2>3, Area DEF WordAddr, WSIZE
    <2>5. bp + o \in WordsOf(bp, CopySize)
      <3>1. pc = "copy" /\ CopySize \in Nat
        BY <1>1, CopyFits DEF copy_and_free
      <3>2. bp + o < bp + CopySize
        BY <1>7, <2>1, <2>2, <3>1
      <3> QED
        BY <1>7, <2>1, <2>4, <3>2 DEF WordsOf
    <2>6. mem'[bp + o] = mem[(bp + o) - bp + from]
      BY <1>2, <2>5, CopySpares
    <2>7. (bp + o) - bp + from = from + o
      BY <1>7, <2>1
    <2> QED
      BY <2>6, <2>7
  <1> QED
    BY <1>8, <1>9, <1>10, PayloadData

(* Every step is one of the interface's for the client, or none at all.    *)
LEMMA RefineStep ==
  ASSUME IInv, HeldFits, HeldFits', PayloadsDisjoint', [Next]_vars
  PROVE  [Contract!Next]_Payloads
  <1>1. CASE mm_init
    <2>1. \A i \in Ids : Payload(i)' = Contract!Nothing
      BY <1>1, InitHolds, PayloadIs
    <2>2. Contract!Restart
      BY <2>1 DEF Contract!Restart
    <2> QED
      BY <2>2 DEF Contract!Next
  <1>2. CASE Quiet
    <2>1. \A i \in Ids : Payload(i)' = Payload(i)
      BY <1>2, QuietLeaves, LeavesPayload
    <2> QED
      BY <2>1 DEF Payloads
  <1>3. CASE place_and_return
    <2>1. PICK index : index = call.index
      OBVIOUS
    <2>2. /\ index \in Ids /\ Pointer(index) = NULL /\ Pointer(index)' # NULL
          /\ Bytes(index)' > 0
          /\ \A i \in Ids : i # index => Leaves(i)
      BY <1>3, <2>1, PlaceLeaves
    <2>3. Contract!Placed(index) /\ Contract!OnlyMoves(index)
      BY <2>2, IsPlaced, OthersStay
    <2>4. ~Contract!IsHeld(index)
      BY <2>2, IsHeldAt DEF Contract!IsHeld
    <2>5. Contract!Grant(index)
      BY <2>3, <2>4 DEF Contract!Grant
    <2> QED
      BY <2>2, <2>5 DEF Contract!Next
  <1>4. CASE copy_and_free
    <2>1. PICK index : index = call.index
      OBVIOUS
    <2>2. /\ index \in Ids /\ Pointer(index) # NULL /\ Pointer(index)' # NULL
          /\ Bytes(index)' > 0
          /\ \A i \in Ids : i # index => Leaves(i)
      BY <1>4, <2>1, CopyLeaves
    <2>3. Contract!Placed(index) /\ Contract!OnlyMoves(index)
      BY <2>2, IsPlaced, OthersStay
    <2>4. Contract!IsHeld(index)
      BY <2>2, IsHeldAt DEF Contract!IsHeld
    <2>5. \A o \in DOMAIN Payload(index).data \cap DOMAIN Payload(index)'.data :
            Payload(index)'.data[o] = Payload(index).data[o]
      BY <1>4, <2>1, CopyArrives
    <2>6. Contract!Resize(index)
      BY <2>2, <2>3, <2>4, <2>5 DEF Contract!Resize
    <2> QED
      BY <2>2, <2>6 DEF Contract!Next
  <1>5. CASE fill
    <2>1. PICK index : index = call.index
      OBVIOUS
    <2>2. /\ index \in Ids /\ Pointer(index) # NULL
          /\ Pointer(index)' = Pointer(index) /\ Bytes(index)' = Bytes(index)
          /\ \A i \in Ids : i # index => Leaves(i)
      BY <1>5, <2>1, FillLeaves
    <2>3. Contract!OnlyMoves(index)
      BY <2>2, OthersStay
    <2>4. Contract!IsHeld(index) /\ Payload(index)' # Contract!Nothing
      BY <2>2, IsHeldAt DEF Contract!IsHeld
    <2>5. /\ Payload(index) = PayloadAt(mem, Pointer(index), Bytes(index))
          /\ Payload(index)' = PayloadAt(mem', Pointer(index), Bytes(index))
      BY <2>2, PayloadIs
    <2>6. /\ Payload(index)'.lo = Payload(index).lo
          /\ Payload(index)'.size = Payload(index).size
          /\ DOMAIN Payload(index)'.data = DOMAIN Payload(index).data
      BY <2>5 DEF PayloadAt
    <2>7. Contract!Write(index)
      BY <2>2, <2>3, <2>4, <2>6 DEF Contract!Write
    <2> QED
      BY <2>2, <2>7 DEF Contract!Next
  <1>6. ASSUME NEW index \in Ids, client_free(index) PROVE Contract!Next
    <2>1. /\ Pointer(index) # NULL /\ Pointer(index)' = NULL
          /\ \A i \in Ids : i # index => Leaves(i)
      BY <1>6, FreeLeaves
    <2>2. Contract!OnlyMoves(index)
      BY <2>1, OthersStay
    <2>3. Contract!IsHeld(index)
      BY <2>1, IsHeldAt DEF Contract!IsHeld
    <2>4. Payload(index)' = Contract!Nothing
      BY <2>1, PayloadIs
    <2>5. Contract!Release(index)
      BY <2>2, <2>3, <2>4 DEF Contract!Release
    <2> QED
      BY <2>5 DEF Contract!Next
  <1> QED
    BY <1>1, <1>2, <1>3, <1>4, <1>5, <1>6, Steps

(* mm-firstfit.c implements the interface of the allocators: whatever the  *)
(* client asks for, what it sees is what AllocContract allows.             *)
THEOREM Refines == Spec => ImplementsContract
  <1>1. Init => Contract!Init
    BY DEF Init, Contract!Init, Payload, Pointer, HandedOver, Contract!Nothing
  <1>2. IInv => HeldFits
    BY HoldsFit
  <1>3. IInv /\ HeldFits /\ HeldFits' /\ PayloadsDisjoint' /\ [Next]_vars
          => [Contract!Next]_Payloads
    BY RefineStep
  <1> QED
    BY <1>1, <1>2, <1>3, Invariance, Disjointness, PTL
       DEF Spec, ImplementsContract, Contract!Spec, Payloads

-----------------------------------------------------------------------------
(* The walk of the properties is the walk of this memory.                  *)
LEMMA WalkNow == Walk = WalkOf(mem, mem_brk)
  BY DEF Walk, WalkOf, Walks, Onward, LinkedOn

(* And after a step, the walk of the next one.                             *)
LEMMA WalkThen == Walk' = WalkOf(mem', mem_brk')
  BY DEF Walk, WalkOf, Walks, Onward, LinkedOn

-----------------------------------------------------------------------------
(* Tags.                                                                   *)

(* The epilogue is marked allocated,                                       *)
LEMMA EpilogueTaken ==
  ASSUME NEW m \in [WordAddr -> Nat], NEW brk, NEW S, Tiling(m, brk, S)
  PROVE  GET_ALLOC(m, HDRP(brk)) = 1
  BY TilingAddrs DEF GET_ALLOC, HDRP, WSIZE

(* and so is the prologue, the first block of every tiling.                *)
LEMMA PrologueTaken ==
  ASSUME NEW m \in [WordAddr -> Nat], NEW brk, NEW S, Tiling(m, brk, S)
  PROVE  heap_listp \in S /\ ~IsFree(m, heap_listp)
  BY TilingAddrs DEF IsFree, GET_ALLOC, HDRP, WSIZE

(* A block is allocated or free.                                           *)
LEMMA TagBit ==
  ASSUME NEW m \in [WordAddr -> Nat], NEW brk, NEW S, Tiling(m, brk, S), NEW p \in S
  PROVE  GET_ALLOC(m, HDRP(p)) \in {0, 1}
  <1>1. CASE p = brk
    BY <1>1, EpilogueTaken
  <1>2. CASE p # brk
    BY <1>2, TilingBlock
  <1> QED
    BY <1>1, <1>2

(* In a coalesced heap the block behind a free one is allocated.           *)
LEMMA NotBothFree ==
  ASSUME NEW m \in [WordAddr -> Nat], NEW brk, NEW S, Tiling(m, brk, S),
         Coalesced(m, brk, S), NEW p \in S \ {brk}, IsFree(m, p)
  PROVE  ~IsFree(m, NEXT_BLKP(m, p))
  <1>1. p # NULL /\ NEXT_BLKP(m, p) # NULL
    <2>1. p \in BlockPtrs /\ NEXT_BLKP(m, p) \in BlockPtrs
      BY TilingBlock, TilingAddrs
    <2> QED
      BY <2>1, BlockPtrAddrs DEF NULL
  <1> QED
    BY <1>1 DEF Coalesced, CoalescedBut

(* The heap is consistent: the list leads from the prologue to the break,  *)
(* its tags agree, and no two neighbours on it are free.                   *)
THEOREM Consistent == Spec => []HeapConsistent
  <1>1. IInv => HeapConsistent
    <2> SUFFICES ASSUME IInv, pc # "start" PROVE HeapConsistent
      BY DEF HeapConsistent, Initialised
    <2>1. PICK S \in SUBSET BlockPtrs : HeapOK(S)
      BY DEF IInv
    <2>2. PICK m \in [WordAddr -> Nat] : m = mem
      BY DEF IInv, TypeOK
    <2>3. Tiling(m, mem_brk, S) /\ Coalesced(m, mem_brk, S)
      BY <2>1, <2>2 DEF HeapOK
    <2>4. Walk = S
      BY <2>2, <2>3, WalkNow, WalkTiles
    <2>5. /\ m[HDRP(heap_listp)] = PACK(DSIZE, 1) /\ mem_brk \in S
          /\ m[HDRP(mem_brk)] = PACK(0, 1)
      BY <2>3 DEF Tiling
    <2>6. \A p \in S \ {mem_brk} : GET_SIZE(m, HDRP(p)) > 0 /\ m[HDRP(p)] = m[FTRP(m, p)]
      <3> SUFFICES ASSUME NEW p \in S \ {mem_brk}
                   PROVE  GET_SIZE(m, HDRP(p)) > 0 /\ m[HDRP(p)] = m[FTRP(m, p)]
        OBVIOUS
      <3>1. m[FTRP(m, p)] = m[HDRP(p)]
        BY <2>3 DEF Tiling, WellTagged
      <3>2. /\ NEXT_BLKP(m, p) >= p + 8 /\ NEXT_BLKP(m, p) = p + GET_SIZE(m, HDRP(p))
            /\ GET_SIZE(m, HDRP(p)) \in Nat /\ p \in Nat
        BY <2>3, TilingBlock, TilingAddrs
      <3> QED
        BY <3>1, <3>2
    <2>7. ASSUME NEW p \in S, GET_ALLOC(m, HDRP(p)) # 1
          PROVE  GET_ALLOC(m, HDRP(NEXT_BLKP(m, p))) = 1
      <3>1. p # mem_brk
        BY <2>3, <2>7, EpilogueTaken
      <3>2. GET_ALLOC(m, HDRP(p)) = 0
        BY <2>3, <2>7, <3>1, TagBit
      <3>3. PICK e \in S : e = NEXT_BLKP(m, p)
        BY <2>3, <3>1, TilingBlock
      <3>4. GET_ALLOC(m, HDRP(e)) # 0
        BY <2>3, <3>1, <3>2, <3>3, NotBothFree DEF IsFree
      <3> QED
        BY <2>3, <3>3, <3>4, TagBit
    <2> QED
      BY <2>2, <2>4, <2>5, <2>6, <2>7 DEF HeapConsistent, FreeBlocks, Allocated
  <1> QED
    BY <1>1, Invariance, PTL

-----------------------------------------------------------------------------
(* No block is lost.                                                       *)

(* The walk finds the heap the invariant speaks of.                        *)
LEMMA WalkOK ==
  ASSUME IInv, pc # "start"
  PROVE  Walk \in SUBSET BlockPtrs /\ HeapOK(Walk)
  <1>1. PICK S \in SUBSET BlockPtrs : HeapOK(S)
    BY DEF IInv
  <1>2. PICK m \in [WordAddr -> Nat] : m = mem
    BY DEF IInv, TypeOK
  <1>3. Tiling(m, mem_brk, S)
    BY <1>1, <1>2 DEF HeapOK
  <1>4. Walk = S
    BY <1>2, <1>3, WalkNow, WalkTiles
  <1> QED
    BY <1>1, <1>4

(* After a step it finds the tiling the step has made.                     *)
LEMMA WalkAfter ==
  ASSUME mem' \in [WordAddr -> Nat], NEW T, Tiling(mem', mem_brk', T)
  PROVE  Walk' = T
  <1>1. PICK n \in [WordAddr -> Nat] : n = mem'
    OBVIOUS
  <1>2. PICK b : b = mem_brk'
    OBVIOUS
  <1>3. Tiling(n, b, T)
    BY <1>1, <1>2
  <1> QED
    BY <1>1, <1>2, <1>3, WalkThen, WalkTiles

(* Whose the allocated blocks are.                                         *)
Owners == {heap_listp, mem_brk} \cup {Pointer(i) : i \in Held} \cup Pending

NothingLost == Initialised => \A p \in Walk : ~IsFree(mem, p) => p \in Owners

(* NothingLost of the next state, read off a tiling of its memory.         *)
LEMMA LostBy ==
  ASSUME mem' \in [WordAddr -> Nat], NEW T, Tiling(mem', mem_brk', T),
         \A q \in T : ~IsFree(mem', q) => q \in Owners'
  PROVE  NothingLost'
  BY WalkAfter DEF NothingLost

(* Steps that change neither the heap nor what is held.                    *)
LEMMA LostQuiet ==
  ASSUME IInv, NothingLost, pc # "start", UNCHANGED <<mem, mem_brk>>, Pending' = Pending,
         \A i \in Ids : Leaves(i)
  PROVE  NothingLost'
  <1>1. HeapOK(Walk) /\ mem \in [WordAddr -> Nat]
    BY WalkOK DEF IInv, TypeOK
  <1>2. Tiling(mem', mem_brk', Walk) /\ mem' \in [WordAddr -> Nat]
    BY <1>1 DEF HeapOK
  <1>3. \A i \in Held : i \in Held' /\ Pointer(i)' = Pointer(i)
    BY DEF Held, Leaves
  <1>4. Owners \subseteq Owners'
    BY <1>3 DEF Owners
  <1>5. \A q \in Walk : ~IsFree(mem', q) => q \in Owners'
    BY <1>4 DEF NothingLost, Initialised
  <1> QED
    BY <1>2, <1>5, LostBy

(* The area extend_heap adds is free, or joins a free block.               *)
LEMMA LostExtend ==
  ASSUME IInv, NothingLost, extend
  PROVE  NothingLost'
  <1>1. pc = "find_fit" /\ pc' = "place"
    BY DEF extend
  <1>2. Walk \in SUBSET BlockPtrs /\ HeapOK(Walk)
    BY <1>1, WalkOK
  <1>3. PICK size \in Nat : mem_brk' = mem_brk + size
                            /\ Extended(mem, mem_brk, Walk, size, mem', bp')
    BY <1>2, ExtendHeap
  <1>4. PICK T \in SUBSET BlockPtrs :
          /\ Tiling(mem', mem_brk + size, T)
          /\ IsFree(mem', bp')
          /\ \A q \in T \ {mem_brk + size, bp'} :
               q \in Walk \ {mem_brk} /\ mem'[q - 4] = mem[q - 4]
    BY <1>3 DEF Extended
  <1>5. mem' \in [WordAddr -> Nat]
    BY <1>3 DEF Extended
  <1>6. \A i \in Held : i \in Held' /\ Pointer(i)' = Pointer(i)
    BY QuietLeaves DEF Quiet, Held, Leaves
  <1>7. ASSUME NEW q \in T, ~IsFree(mem', q) PROVE q \in Owners'
    <2>1. CASE q = mem_brk + size
      BY <1>3, <2>1 DEF Owners
    <2>2. CASE q # mem_brk + size
      <3>1. q \in Walk \ {mem_brk} /\ mem'[q - 4] = mem[q - 4]
        BY <1>4, <1>7, <2>2
      <3>2. ~IsFree(mem, q)
        BY <1>7, <3>1 DEF IsFree, GET_ALLOC, HDRP, WSIZE
      <3>3. q \in Owners \ {mem_brk}
        BY <1>1, <3>1, <3>2 DEF NothingLost, Initialised
      <3> QED
        BY <1>1, <1>6, <3>3 DEF Owners, Pending
    <2> QED
      BY <2>1, <2>2
  <1> QED
    BY <1>3, <1>4, <1>5, <1>7, LostBy

(* A block is placed, for mm_malloc or for mm_realloc.                     *)
LEMMA LostPlace ==
  ASSUME IInv, NothingLost, place_and_return \/ place_for_realloc
  PROVE  NothingLost'
  <1>1. /\ pc = "place" /\ mem' = place(mem, bp, call.asize)
        /\ UNCHANGED <<mem_brk, call, bp, blocks, block_sizes>>
        /\ pc' = IF call.op = "malloc" THEN "returned" ELSE "copy"
        /\ call.op \in {"malloc", "realloc"}
    BY DEF place_and_return, place_for_realloc
  <1>2. Walk \in SUBSET BlockPtrs /\ HeapOK(Walk)
    BY <1>1, WalkOK
  <1>3. PICK T \in SUBSET BlockPtrs :
          /\ Tiling(mem', mem_brk, T)
          /\ \A q \in T : ~IsFree(mem', q) => q = bp \/ (q \in Walk /\ ~IsFree(mem, q))
    BY <1>1, <1>2, PlaceHeap
  <1>4. mem' \in [WordAddr -> Nat] /\ bp \in BlockPtrs /\ \A i \in Ids : blocks[i] # bp
    BY <1>1, <1>2, PlaceHeap
  <1>5. call.index \in Ids /\ bp # NULL
    <2>1. call.index \in Ids
      BY <1>1 DEF IInv, CallOK
    <2> QED
      BY <1>4, <2>1, BlockPtrAddrs DEF NULL
  <1>6. \A i \in Held : i \in Held' /\ Pointer(i)' = Pointer(i)
    <2>1. CASE place_and_return
      BY <2>1, PlaceLeaves DEF Held, Leaves
    <2>2. CASE place_for_realloc
      BY <2>2, QuietLeaves DEF Quiet, Held, Leaves
    <2> QED
      BY <2>1, <2>2
  <1>7. bp \in Owners'
    <2>1. CASE pc' = "copy"
      BY <1>1, <2>1 DEF Owners, Pending
    <2>2. CASE pc' = "returned"
      <3>1. PICK i \in Ids : i = call.index
        BY <1>5
      <3>2. Pointer(i)' = bp /\ i \in Held'
        BY <1>1, <1>5, <2>2, <3>1 DEF Pointer, HandedOver, Held
      <3> QED
        BY <3>2 DEF Owners
    <2> QED
      BY <1>1, <2>1, <2>2
  <1>8. ASSUME NEW q \in T, ~IsFree(mem', q) PROVE q \in Owners'
    <2>1. CASE q = bp
      BY <1>7, <2>1
    <2>2. CASE q \in Walk /\ ~IsFree(mem, q)
      <3>1. q \in Owners
        BY <1>1, <2>2 DEF NothingLost, Initialised
      <3> QED
        BY <1>1, <1>6, <3>1 DEF Owners, Pending
    <2> QED
      BY <1>3, <1>8, <2>1, <2>2
  <1> QED
    BY <1>1, <1>3, <1>4, <1>8, LostBy

(* mm_realloc copies into the block it was given and frees the old one.    *)
LEMMA LostCopy ==
  ASSUME IInv, NothingLost, copy_and_free
  PROVE  NothingLost'
  <1>1. /\ pc = "copy" /\ pc' = "returned"
        /\ UNCHANGED <<mem_brk, call, bp, blocks, block_sizes>>
    BY DEF copy_and_free
  <1>2. Walk \in SUBSET BlockPtrs /\ HeapOK(Walk)
    BY <1>1, WalkOK
  <1>3. PICK index \in Ids : index = call.index
    BY <1>1 DEF IInv, CallOK
  <1>4. /\ Pointer(index) = blocks[index] /\ Pointer(index)' = bp /\ bp # NULL
        /\ \A i \in Ids : i # index => Leaves(i)
    BY <1>3, CopyLeaves
  <1>5. PICK h \in [WordAddr -> Nat] :
           /\ Tiling(h, mem_brk, Walk) /\ Coalesced(h, mem_brk, Walk)
           /\ \A q, l : Owns(mem, mem_brk, Walk, q, l) => Owns(h, mem_brk, Walk, q, l)
           /\ \A q \in Walk : h[q - 4] = mem[q - 4]
           /\ mem' = mm_free(h, blocks[index])
    BY <1>2, <1>3, CopyHeap
  <1>6. Owns(h, mem_brk, Walk, blocks[index], block_sizes[index])
    BY <1>1, <1>2, <1>3, <1>5, CopyFits
  <1>7. PICK n : n = mem' /\ n = mm_free(h, blocks[index])
    BY <1>5
  <1>8. n \in [WordAddr -> Nat]
    BY <1>2, <1>5, <1>6, <1>7, FreeHeap
  <1>9. PICK T \in SUBSET BlockPtrs :
          /\ Tiling(n, mem_brk, T)
          /\ \A q \in T : ~IsFree(n, q) => q \in Walk \ {blocks[index]} /\ ~IsFree(h, q)
    BY <1>2, <1>5, <1>6, <1>7, FreeHeap
  <1>10. \A i \in Held : i # index => i \in Held' /\ Pointer(i)' = Pointer(i)
    BY <1>4 DEF Held, Leaves
  <1>11. index \in Held'
    BY <1>4 DEF Held
  <1>12. ASSUME NEW q \in T, ~IsFree(mem', q) PROVE q \in Owners'
    <2>1. q \in Walk /\ q # blocks[index] /\ ~IsFree(h, q)
      BY <1>7, <1>9, <1>12
    <2>2. ~IsFree(mem, q)
      BY <1>5, <2>1 DEF IsFree, GET_ALLOC, HDRP, WSIZE
    <2>3. q \in Owners
      BY <1>1, <2>1, <2>2 DEF NothingLost, Initialised
    <2>4. CASE q = bp
      BY <1>4, <1>11, <2>4 DEF Owners
    <2>5. CASE q \in {heap_listp, mem_brk}
      BY <1>1, <2>5 DEF Owners
    <2>6. CASE q \in {Pointer(i) : i \in Held}
      <3>1. PICK i \in Held : q = Pointer(i)
        BY <2>6
      <3>2. i # index
        BY <1>4, <2>1, <3>1
      <3> QED
        BY <1>10, <3>1, <3>2 DEF Owners
    <2> QED
      BY <1>1, <2>3, <2>4, <2>5, <2>6 DEF Owners, Pending
  <1> QED
    BY <1>1, <1>7, <1>8, <1>9, <1>12, LostBy

(* The caller takes over the block that was pending.                       *)
LEMMA LostFill ==
  ASSUME IInv, NothingLost, fill
  PROVE  NothingLost'
  <1>1. /\ pc = "returned" /\ pc' = "idle" /\ bp # NULL /\ UNCHANGED mem_brk
        /\ mem' = memset(mem, bp, FillWord(call.index), call.size)
    BY DEF fill
  <1>2. Walk \in SUBSET BlockPtrs /\ HeapOK(Walk)
    BY <1>1, WalkOK
  <1>3. PICK index \in Ids : index = call.index
    BY <1>1 DEF IInv, CallOK
  <1>4. /\ Pointer(index) = bp /\ Pointer(index)' = bp /\ Bytes(index) = call.size
        /\ \A i \in Ids : i # index => Leaves(i)
    BY <1>3, FillLeaves
  <1>5. PICK m \in [WordAddr -> Nat] : m = mem
    BY DEF IInv, TypeOK
  <1>6. PICK k \in Nat : k = call.size
    BY <1>1, <1>2, <1>4, HeldOwns DEF Held
  <1>7. /\ Tiling(m, mem_brk, Walk) /\ Coalesced(m, mem_brk, Walk)
        /\ Owns(m, mem_brk, Walk, bp, k)
    BY <1>1, <1>2, <1>4, <1>5, <1>6, HeldOwns DEF Held, HeapOK
  <1>8. PICK n : n = mem' /\ n = memset(m, bp, FillWord(index), k)
    BY <1>1, <1>3, <1>5, <1>6
  <1>9. /\ n \in [WordAddr -> Nat]
        /\ \A w \in WordAddr : w < bp \/ bp + k <= w => n[w] = m[w]
    <2>1. FillWord(index) \in Nat /\ bp \in Nat
      BY <1>7, Area, OwnsAddrs DEF FillWord
    <2>2. WritesOnly(m, n, bp, k)
      BY <1>8, <2>1, Memset
    <2> QED
      BY <2>2 DEF WritesOnly
  <1>10. Tiling(n, mem_brk, Walk) /\ \A q \in Walk : n[q - 4] = m[q - 4]
    BY <1>7, <1>9, PayloadWrite
  <1>11. \A i \in Held : i \in Held' /\ Pointer(i)' = Pointer(i)
    BY <1>4 DEF Held, Leaves
  <1>12. ASSUME NEW q \in Walk, ~IsFree(mem', q) PROVE q \in Owners'
    <2>1. ~IsFree(mem, q)
      BY <1>5, <1>8, <1>10, <1>12 DEF IsFree, GET_ALLOC, HDRP, WSIZE
    <2>2. q \in Owners
      BY <1>1, <2>1 DEF NothingLost, Initialised
    <2> QED
      BY <1>1, <1>11, <2>2 DEF Owners, Pending
  <1> QED
    BY <1>1, <1>8, <1>9, <1>10, <1>12, LostBy

(* mm_free takes away an owner and the tag of its block.                   *)
LEMMA LostFree ==
  ASSUME IInv, NothingLost, NEW index \in Ids, client_free(index)
  PROVE  NothingLost'
  <1>1. /\ pc = "idle" /\ pc' = "idle" /\ UNCHANGED mem_brk
        /\ blocks[index] # NULL /\ mem' = mm_free(mem, blocks[index])
    BY DEF client_free
  <1>2. Walk \in SUBSET BlockPtrs /\ HeapOK(Walk)
    BY <1>1, WalkOK
  <1>3. PICK m \in [WordAddr -> Nat] : m = mem
    BY DEF IInv, TypeOK
  <1>4. Pointer(index) = blocks[index] /\ index \in Held
    BY <1>1 DEF Pointer, HandedOver, Held
  <1>5. /\ Tiling(m, mem_brk, Walk) /\ Coalesced(m, mem_brk, Walk)
        /\ Owns(m, mem_brk, Walk, blocks[index], Bytes(index))
    BY <1>2, <1>3, <1>4, HeldOwns DEF HeapOK
  <1>6. PICK n : n = mem' /\ n = mm_free(m, blocks[index])
    BY <1>1, <1>3
  <1>7. n \in [WordAddr -> Nat]
    BY <1>2, <1>5, <1>6, FreeHeap
  <1>8. PICK T \in SUBSET BlockPtrs :
          /\ Tiling(n, mem_brk, T)
          /\ \A q \in T : ~IsFree(n, q) => q \in Walk \ {blocks[index]} /\ ~IsFree(m, q)
    BY <1>2, <1>5, <1>6, FreeHeap
  <1>9. \A i \in Held : i # index => i \in Held' /\ Pointer(i)' = Pointer(i)
    BY FreeLeaves DEF Held, Leaves
  <1>10. ASSUME NEW q \in T, ~IsFree(mem', q) PROVE q \in Owners'
    <2>1. q \in Walk /\ q # Pointer(index) /\ ~IsFree(mem, q)
      BY <1>3, <1>4, <1>6, <1>8, <1>10
    <2>2. q \in Owners
      BY <1>1, <2>1 DEF NothingLost, Initialised
    <2> QED
      BY <1>1, <1>9, <2>1, <2>2 DEF Owners, Pending
  <1> QED
    BY <1>1, <1>6, <1>7, <1>8, <1>10, LostBy

(* After mm_init only the prologue and the epilogue are allocated.         *)
LEMMA LostStart ==
  ASSUME IInv, mm_init
  PROVE  NothingLost'
  <1>1. mem' \in [WordAddr -> Nat]
    BY StartHeap
  <1>2. PICK T \in SUBSET BlockPtrs :
          /\ Tiling(mem', mem_brk', T)
          /\ \A q \in T : ~IsFree(mem', q) => q \in {heap_listp, mem_brk'}
    BY StartHeap
  <1> QED
    BY <1>1, <1>2, LostBy DEF Owners

(* No step leaves an allocated block without an owner.                     *)
LEMMA LostStep ==
  ASSUME IInv, NothingLost, [Next]_vars
  PROVE  NothingLost'
  <1>1. CASE mm_init
    BY <1>1, LostStart
  <1>2. CASE extend
    BY <1>2, LostExtend
  <1>3. CASE place_and_return \/ place_for_realloc
    BY <1>3, LostPlace
  <1>4. CASE copy_and_free
    BY <1>4, LostCopy
  <1>5. CASE fill
    BY <1>5, LostFill
  <1>6. CASE \E index \in Ids : client_free(index)
    BY <1>6, LostFree
  <1>7. CASE UNCHANGED vars
    <2>1. UNCHANGED <<mem, mem_brk, pc, call, bp, blocks, block_sizes>>
      BY <1>7 DEF vars
    <2>2. CASE pc = "start"
      BY <2>1, <2>2 DEF NothingLost, Initialised
    <2>3. CASE pc # "start"
      <3>1. Pending' = Pending
        BY <2>1 DEF Pending
      <3>2. \A i \in Ids : Leaves(i)
        BY <1>7, QuietLeaves DEF Quiet
      <3> QED
        BY <2>1, <2>3, <3>1, <3>2, LostQuiet
    <2> QED
      BY <2>2, <2>3
  <1>8. CASE \/ \E index \in Ids :
                  \/ \E size \in Sizes : mm_malloc(index, size) \/ mm_realloc(index, size)
                  \/ mm_malloc_nothing(index) \/ mm_realloc_nothing(index)
             \/ find_fit_next \/ find_fit_found \/ extend_fails \/ give_up \/ exited
    <2>1. pc # "start" /\ UNCHANGED <<mem, mem_brk>> /\ Pending' = Pending
      <3>1. ASSUME NEW index \in Ids,
                   \/ \E size \in Sizes : mm_malloc(index, size) \/ mm_realloc(index, size)
                   \/ mm_malloc_nothing(index) \/ mm_realloc_nothing(index)
            PROVE  pc # "start" /\ UNCHANGED <<mem, mem_brk>> /\ Pending' = Pending
        BY <3>1 DEF mm_malloc, mm_realloc, mm_malloc_nothing, mm_realloc_nothing,
                    EnterMalloc, Pending
      <3>2. CASE find_fit_next \/ find_fit_found
        BY <3>2 DEF find_fit_next, find_fit_found, Pending
      <3>3. CASE extend_fails
        BY <3>3 DEF extend_fails, mem_sbrk, Pending
      <3>4. CASE give_up
        BY <3>4 DEF give_up, Pending
      <3>5. CASE exited
        BY <3>5 DEF exited, vars, Pending
      <3> QED
        BY <1>8, <3>1, <3>2, <3>3, <3>4, <3>5
    <2>2. \A i \in Ids : Leaves(i)
      BY <1>8, QuietLeaves DEF Quiet
    <2> QED
      BY <2>1, <2>2, LostQuiet
  <1> QED
    BY <1>1, <1>2, <1>3, <1>4, <1>5, <1>6, <1>7, <1>8 DEF Next, Request, Run

(* Nothing is lost and nothing is kept: the blocks marked allocated are    *)
(* the prologue, the epilogue and those the client holds or is about to be *)
(* handed.                                                                 *)
THEOREM NoLeak == Spec => []AllocatedIsHeld
  <1>1. Init => NothingLost
    BY DEF Init, NothingLost, Initialised
  <1>2. IInv /\ NothingLost => AllocatedIsHeld
    <2> SUFFICES ASSUME IInv, NothingLost, pc # "start"
                 PROVE  Walk \ FreeBlocks = Owners
      BY DEF AllocatedIsHeld, Initialised, Owners
    <2>1. HeapOK(Walk) /\ Walk \in SUBSET BlockPtrs
      BY WalkOK
    <2>2. PICK m \in [WordAddr -> Nat] : m = mem
      BY DEF IInv, TypeOK
    <2>3. Tiling(m, mem_brk, Walk)
      BY <2>1, <2>2 DEF HeapOK
    <2>4. \A p \in Walk : Allocated(p) <=> ~IsFree(mem, p)
      BY <2>2, <2>3, TagBit DEF Allocated, IsFree
    <2>5. ASSUME NEW p \in Owners PROVE p \in Walk /\ ~IsFree(mem, p)
      <3>1. CASE p = heap_listp
        BY <2>2, <2>3, <3>1, PrologueTaken
      <3>2. CASE p = mem_brk
        BY <2>2, <2>3, <3>2, EpilogueTaken DEF IsFree, Tiling
      <3>3. CASE p \in {Pointer(i) : i \in Held}
        BY <2>1, <3>3, HeldOwns DEF Owns
      <3>4. CASE p \in Pending
        BY <2>1, <3>4 DEF Pending, HeapOK, Owns
      <3> QED
        BY <2>5, <3>1, <3>2, <3>3, <3>4 DEF Owners
    <2> QED
      BY <2>4, <2>5 DEF FreeBlocks, NothingLost, Initialised
  <1>3. IInv /\ NothingLost /\ [Next]_vars => NothingLost'
    BY LostStep
  <1> QED
    BY <1>1, <1>2, <1>3, Invariance, PTL DEF Spec

-----------------------------------------------------------------------------
(* The search for a block.                                                 *)

(* find_fit has passed no block that is big enough.                        *)
Searched == pc = "find_fit" => \A p \in Fitting : bp <= p

(* A free block of the heap that is big enough, by its tag.                *)
FitsTag(m, a, p) == IsFree(m, p) /\ a <= GET_SIZE(m, HDRP(p))

(* The blocks that fit are those of the walk with the tag of one that fits. *)
LEMMA FittingNow ==
  ASSUME IInv, pc # "start"
  PROVE  Fitting = {p \in Walk : FitsTag(mem, call.asize, p)}
  <1>1. HeapOK(Walk) /\ Walk \in SUBSET BlockPtrs
    BY WalkOK
  <1>2. PICK m \in [WordAddr -> Nat] : m = mem
    BY DEF IInv, TypeOK
  <1>3. Tiling(m, mem_brk, Walk)
    BY <1>1, <1>2 DEF HeapOK
  <1>4. \A p \in Walk : ~Allocated(p) <=> IsFree(mem, p)
    BY <1>2, <1>3, TagBit DEF Allocated, IsFree
  <1> QED
    BY <1>4 DEF Fitting, FreeBlocks, FitsTag

(* The same when a step has made the tiling T.                             *)
LEMMA FittingThen ==
  ASSUME mem' \in [WordAddr -> Nat], NEW T, Tiling(mem', mem_brk', T)
  PROVE  Fitting' = {p \in T : FitsTag(mem', call.asize', p)}
  <1>1. PICK n \in [WordAddr -> Nat] : n = mem'
    OBVIOUS
  <1>2. PICK b : b = mem_brk'
    OBVIOUS
  <1>3. Tiling(n, b, T)
    BY <1>1, <1>2
  <1>4. \A p \in T : ~(GET_ALLOC(n, HDRP(p)) = 1) <=> IsFree(n, p)
    BY <1>3, TagBit DEF IsFree
  <1>5. Walk' = T
    BY WalkAfter
  <1> QED
    BY <1>1, <1>4, <1>5 DEF Fitting, FreeBlocks, Allocated, FitsTag

(* A step that leaves the heap and the size sought leaves what fits.       *)
LEMMA FittingStays ==
  ASSUME IInv, pc # "start", UNCHANGED <<mem, mem_brk>>, call'.asize = call.asize
  PROVE  Fitting' = Fitting
  <1>1. HeapOK(Walk) /\ mem \in [WordAddr -> Nat]
    BY WalkOK DEF IInv, TypeOK
  <1>2. mem' \in [WordAddr -> Nat] /\ Tiling(mem', mem_brk', Walk)
    BY <1>1 DEF HeapOK
  <1> QED
    BY <1>2, FittingNow, FittingThen

(* Where the search is, and what it has found so far.                      *)
LEMMA AtBlock ==
  ASSUME IInv, pc = "find_fit"
  PROVE  /\ bp \in Walk /\ bp \in Nat /\ mem_brk \in Nat
         /\ \A p \in Walk : p \in Nat /\ p <= mem_brk
         /\ AtEpilogue <=> bp = mem_brk
         /\ Fits <=> FitsTag(mem, call.asize, bp)
         /\ bp # mem_brk => \A p \in Walk : p <= bp \/ NEXT_BLKP(mem, bp) <= p
         /\ ~FitsTag(mem, call.asize, mem_brk)
  <1>1. HeapOK(Walk) /\ Walk \in SUBSET BlockPtrs
    BY WalkOK
  <1>2. PICK m \in [WordAddr -> Nat] : m = mem
    BY DEF IInv, TypeOK
  <1>3. Tiling(m, mem_brk, Walk) /\ bp \in Walk
    BY <1>1, <1>2 DEF HeapOK
  <1>4. /\ mem_brk \in Walk /\ \A p \in Walk : p \in Nat /\ p <= mem_brk
        /\ \A q \in Walk \ {mem_brk}, r \in Walk : r <= q \/ NEXT_BLKP(m, q) <= r
        /\ m[mem_brk - 4] = 1
    BY <1>3, TilingAddrs
  <1>5. GET_SIZE(m, HDRP(mem_brk)) = 0 /\ ~IsFree(m, mem_brk)
    BY <1>4 DEF GET_SIZE, IsFree, GET_ALLOC, HDRP, WSIZE, DSIZE
  <1>6. bp # mem_brk => GET_SIZE(m, HDRP(bp)) # 0
    <2> SUFFICES ASSUME bp # mem_brk PROVE GET_SIZE(m, HDRP(bp)) # 0
      OBVIOUS
    <2>1. PICK b \in Walk \ {mem_brk} : b = bp
      BY <1>3
    <2>2. /\ NEXT_BLKP(m, b) >= b + 8 /\ NEXT_BLKP(m, b) = b + GET_SIZE(m, HDRP(b))
          /\ b \in Nat /\ GET_SIZE(m, HDRP(b)) \in Nat
      BY <1>3, <1>4, <2>1, TilingBlock
    <2> QED
      BY <2>1, <2>2
  <1> QED
    BY <1>2, <1>3, <1>4, <1>5, <1>6 DEF AtEpilogue, Fits, FitsTag, IsFree

(* A call begins its search at the first block of all.                     *)
LEMMA SearchEnters ==
  ASSUME IInv, NEW index \in Ids, NEW size \in Sizes,
         mm_malloc(index, size) \/ mm_realloc(index, size)
  PROVE  Searched' /\ LowestFit'
  <1>1. /\ pc = "idle" /\ pc' = "find_fit" /\ bp' = heap_listp
        /\ UNCHANGED <<mem, mem_brk>>
    BY DEF mm_malloc, mm_realloc, EnterMalloc
  <1>2. HeapOK(Walk) /\ mem \in [WordAddr -> Nat]
    BY <1>1, WalkOK DEF IInv, TypeOK
  <1>3. PICK m \in [WordAddr -> Nat] : m = mem
    BY <1>2
  <1>4. Tiling(m, mem_brk, Walk)
    BY <1>2, <1>3 DEF HeapOK
  <1>5. \A p \in Walk : heap_listp <= p
    BY <1>4, TilingAddrs
  <1>6. Fitting' \subseteq Walk
    BY <1>1, <1>3, <1>4, FittingThen
  <1> QED
    BY <1>1, <1>5, <1>6 DEF Searched, LowestFit

(* The search steps past a block only if it does not fit.                  *)
LEMMA SearchGoesOn ==
  ASSUME IInv, Searched, find_fit_next
  PROVE  Searched' /\ LowestFit'
  <1>1. /\ pc = "find_fit" /\ pc' = "find_fit" /\ bp' = NEXT_BLKP(mem, bp)
        /\ ~AtEpilogue /\ ~Fits /\ UNCHANGED <<mem, mem_brk, call>>
    BY DEF find_fit_next
  <1>2. Fitting' = Fitting /\ Fitting = {p \in Walk : FitsTag(mem, call.asize, p)}
    BY <1>1, FittingNow, FittingStays
  <1>3. ASSUME NEW p \in Fitting PROVE NEXT_BLKP(mem, bp) <= p
    <2>1. p \in Walk /\ p # bp /\ bp <= p /\ p \in Nat /\ bp \in Nat
      BY <1>1, <1>2, AtBlock DEF Searched
    <2>2. p <= bp \/ NEXT_BLKP(mem, bp) <= p
      BY <1>1, <2>1, AtBlock
    <2> QED
      BY <2>1, <2>2
  <1> QED
    BY <1>1, <1>2, <1>3 DEF Searched, LowestFit

(* What the search takes is the lowest block that fits.                    *)
LEMMA SearchFinds ==
  ASSUME IInv, Searched, find_fit_found
  PROVE  Searched' /\ LowestFit'
  <1>1. /\ pc = "find_fit" /\ pc' = "place" /\ Fits
        /\ UNCHANGED <<mem, mem_brk, call, bp>>
    BY DEF find_fit_found
  <1>2. Fitting' = Fitting /\ Fitting = {p \in Walk : FitsTag(mem, call.asize, p)}
    BY <1>1, FittingNow, FittingStays
  <1>3. bp \in Fitting
    BY <1>1, <1>2, AtBlock
  <1> QED
    BY <1>1, <1>2, <1>3 DEF Searched, LowestFit

(* At the end of the list nothing fits.                                    *)
LEMMA NothingFits ==
  ASSUME IInv, Searched, pc = "find_fit", AtEpilogue
  PROVE  Fitting = {}
  <1>1. Fitting = {p \in Walk : FitsTag(mem, call.asize, p)}
    BY FittingNow
  <1>2. ASSUME NEW p \in Fitting PROVE FALSE
    <2>1. p \in Walk /\ p \in Nat /\ p <= mem_brk /\ bp = mem_brk /\ mem_brk \in Nat
      BY <1>1, AtBlock
    <2>2. bp <= p
      BY DEF Searched
    <2>3. p = mem_brk
      BY <2>1, <2>2
    <2> QED
      BY <1>1, <2>3, AtBlock
  <1> QED
    BY <1>2

(* A request fails only after the whole walk was searched.                 *)
LEMMA SearchFails ==
  ASSUME IInv, Searched, extend_fails
  PROVE  Searched' /\ LowestFit'
  <1>1. /\ pc = "find_fit" /\ pc' \in {"returned", "exit"} /\ AtEpilogue
        /\ UNCHANGED <<mem, mem_brk, call>>
    BY DEF extend_fails, mem_sbrk
  <1>2. Fitting' = {}
    BY <1>1, NothingFits, FittingStays
  <1> QED
    BY <1>1, <1>2 DEF Searched, LowestFit

(* After the heap was extended the new block is the only one that fits.    *)
LEMMA SearchExtends ==
  ASSUME IInv, Searched, extend
  PROVE  Searched' /\ LowestFit'
  <1>1. pc = "find_fit" /\ pc' = "place" /\ AtEpilogue /\ UNCHANGED call
    BY DEF extend
  <1>2. Walk \in SUBSET BlockPtrs /\ HeapOK(Walk)
    BY <1>1, WalkOK
  <1>3. PICK size \in Nat : /\ call.asize <= size
                            /\ mem_brk' = mem_brk + size
                            /\ Extended(mem, mem_brk, Walk, size, mem', bp')
    BY <1>2, ExtendHeap
  <1>4. PICK n \in [WordAddr -> Nat] : n = mem'
    BY <1>3 DEF Extended
  <1>5. PICK b : b = bp'
    OBVIOUS
  <1>6. PICK z : z = mem_brk + size
    OBVIOUS
  <1>7. PICK T \in SUBSET BlockPtrs :
          /\ Tiling(n, z, T)
          /\ b \in T \ {heap_listp, z} /\ IsFree(n, b)
          /\ size <= GET_SIZE(n, HDRP(b))
          /\ \A q \in T \ {z, b} : q \in Walk \ {mem_brk} /\ n[q - 4] = mem[q - 4]
    BY <1>3, <1>4, <1>5, <1>6 DEF Extended
  <1>8. Fitting' = {p \in T : FitsTag(n, call.asize, p)}
    BY <1>1, <1>3, <1>4, <1>6, <1>7, FittingThen
  <1>9. FitsTag(n, call.asize, b)
    <2>1. call.asize \in Nat /\ GET_SIZE(n, HDRP(b)) \in Nat
      BY <1>7, TilingBlock DEF IInv, TypeOK
    <2> QED
      BY <1>3, <1>7, <2>1 DEF FitsTag
  <1>10. ASSUME NEW p \in T, FitsTag(n, call.asize, p) PROVE p = b
    <2>1. SUFFICES ASSUME p # b PROVE FALSE
      OBVIOUS
    <2>2. p # z
      BY <1>7, <1>10, EpilogueTaken DEF FitsTag, IsFree
    <2>3. p \in Walk /\ n[p - 4] = mem[p - 4]
      BY <1>7, <2>1, <2>2
    <2>4. FitsTag(mem, call.asize, p)
      BY <1>10, <2>3 DEF FitsTag, IsFree, GET_ALLOC, GET_SIZE, HDRP, WSIZE
    <2> QED
      BY <1>1, <2>3, <2>4, FittingNow, NothingFits
  <1>11. b \in Nat /\ Fitting' = {b}
    BY <1>7, <1>8, <1>9, <1>10, BlockPtrAddrs
  <1> QED
    BY <1>1, <1>5, <1>11 DEF Searched, LowestFit

(* Every step keeps what the search has established.                       *)
LEMMA SearchStep ==
  ASSUME IInv, Searched, LowestFit, [Next]_vars
  PROVE  Searched' /\ LowestFit'
  <1>1. CASE \E index \in Ids, size \in Sizes :
               mm_malloc(index, size) \/ mm_realloc(index, size)
    BY <1>1, SearchEnters
  <1>2. CASE find_fit_next \/ find_fit_found
    BY <1>2, SearchGoesOn, SearchFinds
  <1>3. CASE extend \/ extend_fails
    BY <1>3, SearchExtends, SearchFails
  <1>4. CASE \E index \in Ids : mm_malloc_nothing(index) \/ mm_realloc_nothing(index)
    <2>1. pc' \in {"returned", "exit"} /\ call'.size = 0
      BY <1>4 DEF mm_malloc_nothing, mm_realloc_nothing, EnterMalloc
    <2> QED
      BY <2>1 DEF Searched, LowestFit
  <1>5. CASE place_and_return \/ copy_and_free
    <2>1. pc' = "returned" /\ bp' = bp /\ bp # NULL
      <3>1. CASE place_and_return
        BY <3>1, PlaceLeaves DEF place_and_return
      <3>2. CASE copy_and_free
        BY <3>2, CopyLeaves DEF copy_and_free
      <3> QED
        BY <1>5, <3>1, <3>2
    <2> QED
      BY <2>1 DEF Searched, LowestFit
  <1>6. CASE \/ mm_init \/ place_for_realloc \/ fill \/ give_up
             \/ \E index \in Ids : client_free(index)
    <2>1. pc' \in {"idle", "copy"}
      BY <1>6 DEF mm_init, place_for_realloc, fill, give_up, client_free
    <2> QED
      BY <2>1 DEF Searched, LowestFit
  <1>7. CASE exited \/ UNCHANGED vars
    <2>1. UNCHANGED <<mem, mem_brk, pc, call, bp>>
      BY <1>7 DEF exited, vars
    <2>2. CASE pc = "start"
      BY <2>1, <2>2 DEF Searched, LowestFit
    <2>3. CASE pc # "start"
      BY <2>1, <2>3, FittingStays DEF Searched, LowestFit
    <2> QED
      BY <2>2, <2>3
  <1> QED
    BY <1>1, <1>2, <1>3, <1>4, <1>5, <1>6, <1>7 DEF Next, Request, Run

(* First fit: the block placed is the lowest one that is big enough, and   *)
(* NULL answers a positive request only if there is none.                  *)
THEOREM FirstFits == Spec => []LowestFit
  <1>1. Init => Searched /\ LowestFit
    BY DEF Init, Searched, LowestFit
  <1>2. IInv /\ Searched /\ LowestFit /\ [Next]_vars => Searched' /\ LowestFit'
    BY SearchStep
  <1> QED
    BY <1>1, <1>2, Invariance, PTL DEF Spec
=============================================================================
