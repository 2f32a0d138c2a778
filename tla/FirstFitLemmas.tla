--------------------------- MODULE FirstFitLemmas ---------------------------
(***************************************************************************)
(* What the routines of mm-firstfit.c do to a heap: coalesce, mm_free,     *)
(* place, extend_heap and the copying and filling of payloads, each as a   *)
(* lemma about a memory m whose blocks S tile the heap that ends at brk.   *)
(* No lemma here speaks of the program's variables; FirstFitProof applies  *)
(* them to its actions.                                                    *)
(*                                                                         *)
(* The operators before some of the lemmas name a lemma's conclusion, so   *)
(* that it can be cited as one fact.                                       *)
(***************************************************************************)
EXTENDS FirstFitInv, WellFoundedInduction, TLAPS

-----------------------------------------------------------------------------

(* A tag gives back the size and the bit that were packed into it.         *)
LEMMA TagArith ==
  \A s \in Nat, a \in {0, 1} :
    s % 8 = 0 => /\ (s + a) % 8 = a
                 /\ (s + a) - ((s + a) % 8) = s
                 /\ (s + a) % 2 = a
  BY SMT

(* Any word read as a tag gives a size that is a multiple of eight.        *)
LEMMA WordArith ==
  \A w \in Nat : /\ w % 8 \in 0 .. 7
                 /\ w - (w % 8) \in Nat /\ (w - (w % 8)) % 8 = 0
                 /\ w % 8 \in {0, 1} => w % 2 = w % 8
  BY SMT

(* Multiples of eight are closed under sum and difference.                 *)
LEMMA SumArith ==
  \A a, b \in Int : a % 8 = 0 /\ b % 8 = 0 => (a + b) % 8 = 0 /\ (a - b) % 8 = 0
  BY SMT

(* What the assumptions on the constants say of the area, in numbers.      *)
LEMMA Area ==
  /\ mem_start_brk \in Nat /\ mem_start_brk > 0 /\ mem_start_brk % 8 = 0
  /\ mem_max_addr \in Nat /\ mem_max_addr % 8 = 0
  /\ mem_start_brk + 16 + CHUNKSIZE <= mem_max_addr
  /\ CHUNKSIZE \in Nat /\ CHUNKSIZE % 8 = 0 /\ CHUNKSIZE >= 16
  /\ mem_max_addr < WORD_MOD /\ mem_max_addr + CHUNKSIZE < WORD_MOD
  /\ WORD_MOD \in Nat /\ WORD_MOD % 16 = 0
  /\ Ids \subseteq Nat /\ Sizes \subseteq Nat
  BY MemlibAssumption, FirstFitAssumption
     DEF MemlibAssumption, FirstFitAssumption, mem_max_addr, WSIZE, DSIZE

(* The header before a block pointer, and the footer before that header,   *)
(* are words of the area.                                                  *)
LEMMA BlockPtrAddrs ==
  ASSUME NEW p \in BlockPtrs
  PROVE  /\ p \in Nat /\ p % 8 = 0 /\ p >= heap_listp /\ p <= mem_max_addr
         /\ p - 4 \in WordAddr /\ p - 8 \in WordAddr
         /\ p > NULL
  <1>1. p \in Nat /\ p % 8 = 0 /\ p >= mem_start_brk + 8 /\ p <= mem_max_addr
    BY Area DEF BlockPtrs, heap_listp, DSIZE
  <1>2. (p - 4) % 4 = 0 /\ (p - 8) % 4 = 0
    BY <1>1
  <1> QED
    BY <1>1, <1>2, Area DEF heap_listp, WordAddr, WSIZE, DSIZE, NULL

(* A number below the modulus is its own remainder.                        *)
LEMMA NoWrap == \A x, y \in Nat : x < y => x % y = x
  BY SMT

(* The places of a tiling's tags, and that only they matter.               *)
LEMMA TilingBlock ==
  ASSUME NEW m \in [WordAddr -> Nat], NEW brk, NEW S, Tiling(m, brk, S),
         NEW p \in S \ {brk}
  PROVE  /\ NEXT_BLKP(m, p) \in S /\ NEXT_BLKP(m, p) \in Nat
         /\ NEXT_BLKP(m, p) = p + GET_SIZE(m, HDRP(p))
         /\ GET_SIZE(m, HDRP(p)) \in Nat /\ GET_SIZE(m, HDRP(p)) % 8 = 0
         /\ NEXT_BLKP(m, p) >= p + 8
         /\ p # heap_listp => NEXT_BLKP(m, p) >= p + 16
         /\ FTRP(m, p) = NEXT_BLKP(m, p) - 8
         /\ m[NEXT_BLKP(m, p) - 8] = m[p - 4]
         /\ m[p - 4] = GET_SIZE(m, HDRP(p)) + (m[p - 4] % 8)
         /\ m[p - 4] % 8 \in {0, 1} /\ m[p - 4] % 8 = GET_ALLOC(m, HDRP(p))
  <1>1. p \in BlockPtrs
    BY DEF Tiling
  <1>2. m[p - 4] \in Nat /\ p \in Nat
    BY <1>1, BlockPtrAddrs
  <1>3. WellTagged(m, p) /\ NEXT_BLKP(m, p) \in S
    BY DEF Tiling
  <1>4. NEXT_BLKP(m, p) \in Nat
    BY <1>3, BlockPtrAddrs DEF Tiling
  <1>5. PICK w \in Nat : w = m[p - 4]
    BY <1>2
  <1>6. HDRP(p) = p - 4 /\ GET_SIZE(m, HDRP(p)) = w - (w % 8) /\ GET_ALLOC(m, HDRP(p)) = w % 2
    BY <1>5 DEF HDRP, WSIZE, GET_SIZE, GET_ALLOC
  <1>7. w % 8 \in {0, 1} /\ w - (w % 8) >= 8 /\ m[FTRP(m, p)] = w
        /\ (p # heap_listp => w - (w % 8) >= 16)
    BY <1>3, <1>5, <1>6 DEF WellTagged, DSIZE, OVERHEAD
  <1>8. w - (w % 8) \in Nat /\ (w - (w % 8)) % 8 = 0 /\ w % 2 = w % 8
    BY <1>7, WordArith
  <1>9. PICK g \in Nat : g = w - (w % 8)
    BY <1>8
  <1>10. w = g + (w % 8)
    <2>1. PICK r \in Nat : r = w % 8
      BY <1>7
    <2>2. g = w - r
      BY <1>9, <2>1
    <2>3. w = g + r
      BY <2>2
    <2> QED
      BY <2>1, <2>3
  <1>11. NEXT_BLKP(m, p) = p + g /\ FTRP(m, p) = p + g - 8
    BY <1>2, <1>6, <1>9 DEF NEXT_BLKP, FTRP, DSIZE
  <1>12. /\ NEXT_BLKP(m, p) - 8 = FTRP(m, p) /\ NEXT_BLKP(m, p) >= p + 8
         /\ p # heap_listp => NEXT_BLKP(m, p) >= p + 16
    <2>1. g >= 8 /\ (p # heap_listp => g >= 16)
      BY <1>7, <1>9
    <2> QED
      BY <1>2, <1>11, <2>1
  <1>13. GET_SIZE(m, HDRP(p)) = g /\ g % 8 = 0
    BY <1>6, <1>8, <1>9
  <1>14. m[NEXT_BLKP(m, p) - 8] = m[p - 4]
    BY <1>5, <1>7, <1>12
  <1>15. /\ m[p - 4] = GET_SIZE(m, HDRP(p)) + (m[p - 4] % 8)
         /\ m[p - 4] % 8 \in {0, 1} /\ m[p - 4] % 8 = GET_ALLOC(m, HDRP(p))
    BY <1>5, <1>6, <1>7, <1>8, <1>10, <1>13
  <1> QED
    BY <1>3, <1>4, <1>9, <1>11, <1>12, <1>13, <1>14, <1>15

(* A block whose two tags are as they were is the block it was.            *)
LEMMA Untouched ==
  ASSUME NEW m \in [WordAddr -> Nat], NEW n \in [WordAddr -> Nat],
         NEW brk, NEW S, Tiling(m, brk, S), NEW q \in S \ {brk},
         n[q - 4] = m[q - 4],
         n[NEXT_BLKP(m, q) - 8] = m[NEXT_BLKP(m, q) - 8]
  PROVE  /\ WellTagged(n, q) /\ NEXT_BLKP(n, q) = NEXT_BLKP(m, q)
         /\ GET_SIZE(n, HDRP(q)) = GET_SIZE(m, HDRP(q))
         /\ GET_ALLOC(n, HDRP(q)) = GET_ALLOC(m, HDRP(q))
  <1>1. /\ NEXT_BLKP(n, q) = NEXT_BLKP(m, q)
        /\ GET_SIZE(n, HDRP(q)) = GET_SIZE(m, HDRP(q))
        /\ GET_ALLOC(n, HDRP(q)) = GET_ALLOC(m, HDRP(q))
        /\ FTRP(n, q) = FTRP(m, q)
    BY DEF NEXT_BLKP, GET_SIZE, GET_ALLOC, FTRP, HDRP, WSIZE
  <1>2. WellTagged(m, q) /\ FTRP(m, q) = NEXT_BLKP(m, q) - 8
    BY TilingBlock DEF Tiling
  <1> QED
    BY <1>1, <1>2 DEF WellTagged, HDRP, WSIZE

(* A block of a tiling, seen as numbers and addresses.                     *)
LEMMA TilingAddrs ==
  ASSUME NEW m \in [WordAddr -> Nat], NEW brk, NEW S, Tiling(m, brk, S)
  PROVE  /\ S \subseteq BlockPtrs /\ heap_listp \in S /\ brk \in S
         /\ heap_listp < brk
         /\ \A q \in S : /\ q \in Nat /\ q % 8 = 0 /\ q - 4 \in WordAddr
                         /\ q - 8 \in WordAddr /\ heap_listp <= q /\ q <= brk
                         /\ q <= mem_max_addr
         /\ \A q \in S \ {brk}, r \in S : r <= q \/ NEXT_BLKP(m, q) <= r
         /\ \A q \in S \ {heap_listp} : \E r \in S \ {brk} : NEXT_BLKP(m, r) = q
         /\ m[heap_listp - 4] = 9 /\ m[brk - 4] = 1
  <1>1. /\ S \subseteq BlockPtrs /\ heap_listp \in S /\ brk \in S
        /\ heap_listp < brk /\ \A q \in S : q <= brk
        /\ \A q \in S \ {brk}, r \in S : r <= q \/ NEXT_BLKP(m, q) <= r
        /\ \A q \in S \ {heap_listp} : \E r \in S \ {brk} : NEXT_BLKP(m, r) = q
    BY DEF Tiling
  <1>2. m[heap_listp - 4] = 9 /\ m[brk - 4] = 1
    BY DEF Tiling, HDRP, PACK, WSIZE, DSIZE
  <1> QED
    BY <1>1, <1>2, BlockPtrAddrs

(* The distance of two blocks is the size of a block.                      *)
LEMMA Gap ==
  ASSUME NEW x \in Nat, NEW y \in Nat, x % 8 = 0, y % 8 = 0, x + 16 <= y
  PROVE  (y - x) \in Nat /\ (y - x) % 8 = 0 /\ y - x >= 16
  BY SumArith

(* Two tags that say how far apart they are make a block.                  *)
LEMMA Tagged ==
  ASSUME NEW n \in [WordAddr -> Nat], NEW p \in Nat, NEW e \in Nat,
         p % 8 = 0, e % 8 = 0, p + 16 <= e, e <= mem_max_addr,
         NEW a \in {0, 1}, n[p - 4] = (e - p) + a, n[e - 8] = (e - p) + a
  PROVE  /\ WellTagged(n, p) /\ NEXT_BLKP(n, p) = e
         /\ GET_SIZE(n, HDRP(p)) = e - p /\ GET_ALLOC(n, HDRP(p)) = a
  <1>1. (e - p) \in Nat /\ (e - p) % 8 = 0 /\ e - p >= 16
    BY Gap
  <1>2. /\ ((e - p) + a) % 8 = a /\ ((e - p) + a) - (((e - p) + a) % 8) = e - p
        /\ ((e - p) + a) % 2 = a
    BY <1>1, TagArith
  <1>3. n[p - 4] % 8 = a /\ n[p - 4] - (n[p - 4] % 8) = e - p /\ n[p - 4] % 2 = a
    BY <1>2
  <1>4. /\ NEXT_BLKP(n, p) = e /\ GET_SIZE(n, HDRP(p)) = e - p
        /\ GET_ALLOC(n, HDRP(p)) = a /\ FTRP(n, p) = e - 8
    BY <1>1, <1>3 DEF NEXT_BLKP, GET_SIZE, GET_ALLOC, HDRP, FTRP, WSIZE, DSIZE
  <1> QED
    BY <1>1, <1>3, <1>4 DEF WellTagged, HDRP, WSIZE, DSIZE, OVERHEAD

(* The blocks that are left when the area from p to e becomes one block.   *)
Outside(S, p, e) == {q \in S : q <= p \/ e <= q}

(* Rewriting the tags of the area from p to e so that they mark one block: *)
(* this is what retagging a block and each case of coalesce amounts to.    *)
LEMMA Fuse ==
  ASSUME NEW m \in [WordAddr -> Nat], NEW n \in [WordAddr -> Nat],
         NEW brk, NEW S, Tiling(m, brk, S),
         NEW p \in S \ {heap_listp}, NEW e \in S, p < e, NEW a \in {0, 1},
         n[p - 4] = (e - p) + a, n[e - 8] = (e - p) + a,
         \A w \in WordAddr : w < p - 4 \/ e - 4 <= w => n[w] = m[w]
  PROVE  /\ Tiling(n, brk, Outside(S, p, e))
         /\ NEXT_BLKP(n, p) = e
         /\ GET_SIZE(n, HDRP(p)) = e - p
         /\ GET_ALLOC(n, HDRP(p)) = a
         /\ \A q \in S \ {brk} : q < p \/ e <= q =>
              n[q - 4] = m[q - 4] /\ NEXT_BLKP(n, q) = NEXT_BLKP(m, q)
  <1> DEFINE T == {q \in S : q <= p \/ e <= q}
  <1>1. /\ S \subseteq BlockPtrs /\ heap_listp \in S /\ brk \in S
        /\ heap_listp < brk /\ p # brk
        /\ \A q \in S : q <= brk
        /\ \A q \in S \ {brk}, r \in S : r <= q \/ NEXT_BLKP(m, q) <= r
        /\ \A q \in S \ {heap_listp} : \E r \in S \ {brk} : NEXT_BLKP(m, r) = q
    BY BlockPtrAddrs DEF Tiling
  <1>2. \A q \in S : q \in Nat /\ q % 8 = 0 /\ q - 4 \in WordAddr
                      /\ q - 8 \in WordAddr /\ heap_listp <= q
    BY <1>1, BlockPtrAddrs
  <1>21. /\ p \in Nat /\ p % 8 = 0 /\ p - 4 \in WordAddr
         /\ e \in Nat /\ e % 8 = 0 /\ e - 8 \in WordAddr
    BY <1>2
  <1>22. p + 16 <= e /\ e <= mem_max_addr
    <2>1. NEXT_BLKP(m, p) >= p + 16 /\ NEXT_BLKP(m, p) \in Nat
      BY <1>1, TilingBlock
    <2>2. e <= p \/ NEXT_BLKP(m, p) <= e
      BY <1>1
    <2>3. e <= mem_max_addr
      BY <1>1, BlockPtrAddrs
    <2> QED
      BY <1>21, <2>1, <2>2, <2>3
  <1>3. \A q \in S \ {brk} : q < p \/ e <= q =>
          n[q - 4] = m[q - 4] /\ NEXT_BLKP(n, q) = NEXT_BLKP(m, q)
    <2> SUFFICES ASSUME NEW q \in S \ {brk}, q < p \/ e <= q
                 PROVE  n[q - 4] = m[q - 4] /\ NEXT_BLKP(n, q) = NEXT_BLKP(m, q)
      OBVIOUS
    <2>1. q - 4 \in WordAddr /\ q \in Nat /\ p \in Nat /\ e \in Nat
      BY <1>2
    <2>2. q - 4 < p - 4 \/ e - 4 <= q - 4
      BY <2>1
    <2>3. n[q - 4] = m[q - 4]
      BY <2>1, <2>2
    <2> QED
      BY <2>3 DEF NEXT_BLKP, GET_SIZE, HDRP, WSIZE
  <1>4. /\ NEXT_BLKP(n, p) = e /\ GET_SIZE(n, HDRP(p)) = e - p
        /\ GET_ALLOC(n, HDRP(p)) = a /\ WellTagged(n, p)
    BY <1>22, <1>21, Tagged
  <1>6. \A q \in T \ {brk} : WellTagged(n, q) /\ NEXT_BLKP(n, q) \in T
    <2> SUFFICES ASSUME NEW q \in S \ {brk}, q <= p \/ e <= q, q # p
                 PROVE  WellTagged(n, q) /\ NEXT_BLKP(n, q) \in T
      <3>1. WellTagged(n, p) /\ NEXT_BLKP(n, p) \in T
        BY <1>4, <1>21
      <3>2. \A q \in S \ {brk} : q = p => WellTagged(n, q) /\ NEXT_BLKP(n, q) \in T
        BY <3>1
      <3> HIDE DEF T
      <3>3. \A q \in T : q \in S /\ (q <= p \/ e <= q)
        BY DEF T
      <3> QED
        BY <3>2, <3>3
    <2>1. /\ NEXT_BLKP(m, q) \in S /\ NEXT_BLKP(m, q) \in Nat
          /\ NEXT_BLKP(m, q) >= q + 8 /\ NEXT_BLKP(m, q) - 8 \in WordAddr
          /\ FTRP(m, q) = NEXT_BLKP(m, q) - 8
      <3>1. /\ NEXT_BLKP(m, q) \in S /\ NEXT_BLKP(m, q) \in Nat
            /\ NEXT_BLKP(m, q) >= q + 8
            /\ FTRP(m, q) = NEXT_BLKP(m, q) - 8
        BY TilingBlock
      <3> QED
        BY <1>2, <3>1
    <2>2. q \in Nat /\ q - 4 \in WordAddr /\ (p <= q \/ NEXT_BLKP(m, q) <= p)
      BY <1>1, <1>2
    <2>3. q < p \/ e <= q
      BY <1>21, <2>2
    <2>4. NEXT_BLKP(m, q) <= p \/ e <= NEXT_BLKP(m, q)
      BY <1>21, <2>1, <2>2, <2>3
    <2>5. n[q - 4] = m[q - 4] /\ NEXT_BLKP(n, q) = NEXT_BLKP(m, q)
      BY <1>3, <2>3
    <2>6. n[NEXT_BLKP(m, q) - 8] = m[NEXT_BLKP(m, q) - 8]
      <3>1. NEXT_BLKP(m, q) - 8 < p - 4 \/ e - 4 <= NEXT_BLKP(m, q) - 8
        BY <1>21, <2>1, <2>2, <2>3
      <3> QED
        BY <2>1, <3>1
    <2>9. WellTagged(n, q)
      BY <2>5, <2>6, Untouched
    <2> QED
      BY <2>1, <2>4, <2>5, <2>9
  <1>7. \A q \in T \ {brk}, r \in T : r <= q \/ NEXT_BLKP(n, q) <= r
    <2> SUFFICES ASSUME NEW q \in S \ {brk}, q <= p \/ e <= q,
                        NEW r \in S, r <= p \/ e <= r
                 PROVE  r <= q \/ NEXT_BLKP(n, q) <= r
      OBVIOUS
    <2>1. q \in Nat /\ r \in Nat /\ (r <= q \/ NEXT_BLKP(m, q) <= r)
      BY <1>1, <1>2
    <2>2. CASE q = p
      BY <1>4, <1>21, <2>1, <2>2
    <2>3. CASE q # p
      BY <1>3, <1>21, <2>1, <2>3
    <2> QED
      BY <2>2, <2>3
  <1>8. \A q \in T \ {heap_listp} : \E r \in T \ {brk} : NEXT_BLKP(n, r) = q
    <2> SUFFICES ASSUME NEW q \in S \ {heap_listp}, q <= p \/ e <= q, q # e
                 PROVE  \E r \in T \ {brk} : NEXT_BLKP(n, r) = q
      <3>1. p \in T \ {brk} /\ NEXT_BLKP(n, p) = e
        BY <1>1, <1>4, <1>21
      <3> QED
        BY <3>1
    <2>1. PICK r \in S \ {brk} : NEXT_BLKP(m, r) = q
      BY <1>1
    <2>2. /\ q \in Nat /\ r \in Nat /\ r + 8 <= q
          /\ e <= r \/ NEXT_BLKP(m, r) <= e
      BY <2>1, TilingBlock, <1>1, <1>2
    <2>3. r < p \/ e <= r
      BY <1>21, <2>1, <2>2
    <2> QED
      BY <1>3, <1>21, <2>1, <2>2, <2>3
  <1>9. n[HDRP(heap_listp)] = PACK(DSIZE, 1) /\ n[HDRP(brk)] = PACK(0, 1)
    <2>1. m[HDRP(heap_listp)] = PACK(DSIZE, 1) /\ m[HDRP(brk)] = PACK(0, 1)
      BY DEF Tiling
    <2>2. /\ heap_listp \in Nat /\ heap_listp - 4 \in WordAddr /\ heap_listp <= p
          /\ brk \in Nat /\ brk - 4 \in WordAddr /\ e <= brk
      BY <1>1, <1>2
    <2>3. heap_listp - 4 < p - 4 /\ e - 4 <= brk - 4
      BY <1>21, <2>2
    <2> QED
      BY <2>1, <2>2, <2>3 DEF HDRP, WSIZE
  <1>10. Tiling(n, brk, T)
    BY <1>1, <1>2, <1>6, <1>7, <1>8, <1>9 DEF Tiling
  <1> QED
    BY <1>3, <1>4, <1>10 DEF Outside

(* A block p cut in two at x, both parts retagged.                         *)

(* In n the block from p to e of m is two: an allocated one, and from x on *)
(* a free one.                                                             *)
CutAt(m, n, p, x, e) ==
  /\ x \in BlockPtrs /\ p + 16 <= x /\ x + 16 <= e
  /\ n[p - 4] = (x - p) + 1 /\ n[x - 8] = (x - p) + 1
  /\ n[x - 4] = (e - x) + 0 /\ n[e - 8] = (e - x) + 0
  /\ \A w \in WordAddr : w < p - 4 \/ e - 4 <= w => n[w] = m[w]

CutInto(m, n, brk, S, p, x, e) ==
  /\ Tiling(n, brk, S \cup {x}) /\ x \notin S
  /\ NEXT_BLKP(n, p) = x /\ NEXT_BLKP(n, x) = e
  /\ GET_SIZE(n, HDRP(p)) = x - p
  /\ GET_ALLOC(n, HDRP(p)) = 1 /\ GET_ALLOC(n, HDRP(x)) = 0
  /\ \A q \in S \ {brk, p} : /\ n[q - 4] = m[q - 4]
                             /\ NEXT_BLKP(n, q) = NEXT_BLKP(m, q)

(* Cutting the block p of a tiling in two at x leaves a tiling.            *)
LEMMA Split ==
  ASSUME NEW m \in [WordAddr -> Nat], NEW n \in [WordAddr -> Nat],
         NEW brk, NEW S, Tiling(m, brk, S),
         NEW p \in S \ {heap_listp, brk}, NEW e \in S, NEXT_BLKP(m, p) = e,
         NEW x \in BlockPtrs, CutAt(m, n, p, x, e)
  PROVE  CutInto(m, n, brk, S, p, x, e)
  <1>0. /\ x \in BlockPtrs /\ p + 16 <= x /\ x + 16 <= e
        /\ n[p - 4] = (x - p) + 1 /\ n[x - 8] = (x - p) + 1
        /\ n[x - 4] = (e - x) + 0 /\ n[e - 8] = (e - x) + 0
        /\ \A w \in WordAddr : w < p - 4 \/ e - 4 <= w => n[w] = m[w]
    BY DEF CutAt
  <1>1. /\ S \subseteq BlockPtrs /\ heap_listp \in S /\ brk \in S
        /\ heap_listp < brk
        /\ \A q \in S : /\ q \in Nat /\ q % 8 = 0 /\ q - 4 \in WordAddr
                        /\ q - 8 \in WordAddr /\ heap_listp <= q /\ q <= brk
                        /\ q <= mem_max_addr
        /\ \A q \in S \ {brk}, r \in S : r <= q \/ NEXT_BLKP(m, q) <= r
        /\ \A q \in S \ {heap_listp} : \E r \in S \ {brk} : NEXT_BLKP(m, r) = q
        /\ m[heap_listp - 4] = 9 /\ m[brk - 4] = 1
    BY TilingAddrs
  <1>2. /\ p \in Nat /\ p % 8 = 0 /\ p - 4 \in WordAddr
        /\ e \in S /\ e \in Nat /\ e % 8 = 0 /\ e <= mem_max_addr
        /\ heap_listp \in Nat /\ heap_listp < p
    <2>1. e \in S
      BY TilingBlock
    <2> QED
      BY <1>1, <2>1
  <1>3. x \in Nat /\ x % 8 = 0 /\ x <= mem_max_addr
    BY BlockPtrAddrs
  <1>4. x \notin S
    <2> SUFFICES ASSUME x \in S PROVE FALSE
      OBVIOUS
    <2>1. x <= p \/ e <= x
      BY <1>1
    <2> QED
      BY <1>0, <1>2, <1>3, <2>1
  <1>5. /\ NEXT_BLKP(n, p) = x /\ GET_SIZE(n, HDRP(p)) = x - p
        /\ GET_ALLOC(n, HDRP(p)) = 1 /\ WellTagged(n, p)
    BY <1>0, <1>2, <1>3, Tagged
  <1>6. /\ NEXT_BLKP(n, x) = e /\ GET_SIZE(n, HDRP(x)) = e - x
        /\ GET_ALLOC(n, HDRP(x)) = 0 /\ WellTagged(n, x)
    BY <1>0, <1>2, <1>3, Tagged
  <1>7. \A q \in S \ {brk, p} :
          /\ WellTagged(n, q) /\ NEXT_BLKP(n, q) \in S
          /\ n[q - 4] = m[q - 4] /\ NEXT_BLKP(n, q) = NEXT_BLKP(m, q)
          /\ q + 8 <= NEXT_BLKP(m, q)
          /\ NEXT_BLKP(m, q) \in Nat /\ (p <= q \/ NEXT_BLKP(m, q) <= p)
    <2> SUFFICES ASSUME NEW q \in S \ {brk, p}
                 PROVE  /\ WellTagged(n, q) /\ NEXT_BLKP(n, q) \in S
                        /\ n[q - 4] = m[q - 4] /\ NEXT_BLKP(n, q) = NEXT_BLKP(m, q)
                        /\ q + 8 <= NEXT_BLKP(m, q)
                        /\ NEXT_BLKP(m, q) \in Nat /\ (p <= q \/ NEXT_BLKP(m, q) <= p)
      OBVIOUS
    <2>1. NEXT_BLKP(m, q) \in S /\ NEXT_BLKP(m, q) \in Nat /\ NEXT_BLKP(m, q) >= q + 8
      BY TilingBlock
    <2>2. /\ q \in Nat /\ q - 4 \in WordAddr /\ NEXT_BLKP(m, q) - 8 \in WordAddr
          /\ p <= q \/ NEXT_BLKP(m, q) <= p
          /\ q <= p \/ e <= q
      BY <1>1, <2>1
    <2>3. /\ q - 4 < p - 4 \/ e - 4 <= q - 4
          /\ NEXT_BLKP(m, q) - 8 < p - 4 \/ e - 4 <= NEXT_BLKP(m, q) - 8
      BY <1>0, <1>2, <2>1, <2>2
    <2>4. /\ n[q - 4] = m[q - 4]
          /\ n[NEXT_BLKP(m, q) - 8] = m[NEXT_BLKP(m, q) - 8]
      BY <1>0, <2>2, <2>3
    <2>5. WellTagged(n, q) /\ NEXT_BLKP(n, q) = NEXT_BLKP(m, q)
      BY <2>4, Untouched
    <2> QED
      BY <2>1, <2>2, <2>4, <2>5
  <1> DEFINE T == S \cup {x}
  <1>8. \A q \in T \ {brk} : WellTagged(n, q) /\ NEXT_BLKP(n, q) \in T
    BY <1>2, <1>4, <1>5, <1>6, <1>7
  <1>9. \A q \in T \ {brk}, r \in T : r <= q \/ NEXT_BLKP(n, q) <= r
    <2> SUFFICES ASSUME NEW q \in T \ {brk}, NEW r \in T
                 PROVE  r <= q \/ NEXT_BLKP(n, q) <= r
      OBVIOUS
    <2>1. q \in Nat /\ r \in Nat
      BY <1>1, <1>3
    <2>2. r \in S => r <= p \/ e <= r
      BY <1>1
    <2>3. CASE q = p
      BY <1>0, <1>2, <1>3, <1>5, <2>1, <2>2, <2>3
    <2>4. CASE q = x
      BY <1>0, <1>2, <1>3, <1>6, <2>1, <2>2, <2>4
    <2>5. CASE q \in S \ {brk, p}
      <3>1. r \in S => r <= q \/ NEXT_BLKP(m, q) <= r
        BY <1>1, <2>5
      <3>2. /\ NEXT_BLKP(n, q) = NEXT_BLKP(m, q) /\ NEXT_BLKP(m, q) \in Nat
            /\ p <= q \/ NEXT_BLKP(m, q) <= p
            /\ q <= p \/ e <= q
        BY <1>1, <1>7, <2>5
      <3>3. CASE r = x
        <4>1. e <= q \/ NEXT_BLKP(m, q) <= p
          BY <1>2, <2>1, <2>5, <3>2
        <4> QED
          BY <1>0, <1>2, <1>3, <2>1, <3>2, <3>3, <4>1
      <3> QED
        BY <3>1, <3>2, <3>3
    <2> QED
      BY <2>3, <2>4, <2>5
  <1>10. \A q \in T \ {heap_listp} : \E r \in T \ {brk} : NEXT_BLKP(n, r) = q
    <2> SUFFICES ASSUME NEW q \in S \ {heap_listp}, q # e
                 PROVE  \E r \in T \ {brk} : NEXT_BLKP(n, r) = q
      <3>1. x # brk /\ x \in T /\ p \in T
        BY <1>1, <1>4
      <3> QED
        BY <1>5, <1>6, <3>1
    <2>1. PICK r \in S \ {brk} : NEXT_BLKP(m, r) = q
      BY <1>1
    <2> QED
      BY <1>7, <2>1
  <1>11. n[heap_listp - 4] = 9 /\ n[brk - 4] = 1
    <2>1. heap_listp - 4 \in WordAddr /\ brk - 4 \in WordAddr /\ brk \in Nat /\ e <= brk
      BY <1>1, <1>2
    <2>2. heap_listp - 4 < p - 4 /\ e - 4 <= brk - 4
      BY <1>2, <2>1
    <2> QED
      BY <1>0, <1>1, <2>1, <2>2
  <1>12. \A q \in T : q <= brk
    BY <1>0, <1>1, <1>2, <1>3
  <1>13. Tiling(n, brk, T)
    BY <1>1, <1>8, <1>9, <1>10, <1>11, <1>12 DEF Tiling, HDRP, PACK, WSIZE, DSIZE
  <1> QED
    BY <1>4, <1>5, <1>6, <1>7, <1>13 DEF CutInto

(* A free block in place of the epilogue, and a new epilogue behind it.    *)
LEMMA Grow ==
  ASSUME NEW m \in [WordAddr -> Nat], NEW n \in [WordAddr -> Nat],
         NEW brk, NEW S, Tiling(m, brk, S),
         NEW z \in BlockPtrs, brk + 16 <= z,
         n[brk - 4] = z - brk, n[z - 8] = z - brk, n[z - 4] = 1,
         \A w \in WordAddr : w < brk - 4 => n[w] = m[w]
  PROVE  /\ Tiling(n, z, S \cup {z}) /\ z \notin S
         /\ NEXT_BLKP(n, brk) = z /\ GET_SIZE(n, HDRP(brk)) = z - brk
         /\ GET_ALLOC(n, HDRP(brk)) = 0
         /\ \A q \in S \ {brk} : /\ n[q - 4] = m[q - 4]
                                 /\ NEXT_BLKP(n, q) = NEXT_BLKP(m, q)
  <1>1. /\ S \subseteq BlockPtrs /\ heap_listp \in S /\ brk \in S
        /\ heap_listp < brk
        /\ \A q \in S : /\ q \in Nat /\ q % 8 = 0 /\ q - 4 \in WordAddr
                        /\ q - 8 \in WordAddr /\ heap_listp <= q /\ q <= brk
                        /\ q <= mem_max_addr
        /\ \A q \in S \ {brk}, r \in S : r <= q \/ NEXT_BLKP(m, q) <= r
        /\ \A q \in S \ {heap_listp} : \E r \in S \ {brk} : NEXT_BLKP(m, r) = q
        /\ m[heap_listp - 4] = 9 /\ m[brk - 4] = 1
    BY TilingAddrs
  <1>2. /\ brk \in Nat /\ brk % 8 = 0 /\ heap_listp \in Nat
        /\ z \in Nat /\ z % 8 = 0 /\ z <= mem_max_addr
    BY <1>1, BlockPtrAddrs
  <1>3. z \notin S
    BY <1>1, <1>2
  <1>4. /\ NEXT_BLKP(n, brk) = z /\ GET_SIZE(n, HDRP(brk)) = z - brk
        /\ GET_ALLOC(n, HDRP(brk)) = 0 /\ WellTagged(n, brk)
    <2>1. n[brk - 4] = (z - brk) + 0 /\ n[z - 8] = (z - brk) + 0
      BY <1>2
    <2> QED
      BY <1>2, <2>1, Tagged
  <1>5. \A q \in S \ {brk} :
          /\ WellTagged(n, q) /\ NEXT_BLKP(n, q) \in S
          /\ n[q - 4] = m[q - 4] /\ NEXT_BLKP(n, q) = NEXT_BLKP(m, q)
          /\ NEXT_BLKP(m, q) \in Nat /\ NEXT_BLKP(m, q) <= brk
    <2> SUFFICES ASSUME NEW q \in S \ {brk}
                 PROVE  /\ WellTagged(n, q) /\ NEXT_BLKP(n, q) \in S
                        /\ n[q - 4] = m[q - 4] /\ NEXT_BLKP(n, q) = NEXT_BLKP(m, q)
                        /\ NEXT_BLKP(m, q) \in Nat /\ NEXT_BLKP(m, q) <= brk
      OBVIOUS
    <2>1. NEXT_BLKP(m, q) \in S /\ NEXT_BLKP(m, q) \in Nat /\ NEXT_BLKP(m, q) >= q + 8
      BY TilingBlock
    <2>2. /\ q \in Nat /\ q - 4 \in WordAddr /\ NEXT_BLKP(m, q) - 8 \in WordAddr
          /\ NEXT_BLKP(m, q) <= brk
      BY <1>1, <2>1
    <2>3. q - 4 < brk - 4 /\ NEXT_BLKP(m, q) - 8 < brk - 4
      BY <1>2, <2>1, <2>2
    <2>4. /\ n[q - 4] = m[q - 4]
          /\ n[NEXT_BLKP(m, q) - 8] = m[NEXT_BLKP(m, q) - 8]
      BY <2>2, <2>3
    <2>5. WellTagged(n, q) /\ NEXT_BLKP(n, q) = NEXT_BLKP(m, q)
      BY <2>4, Untouched
    <2> QED
      BY <2>1, <2>2, <2>4, <2>5
  <1> DEFINE T == S \cup {z}
  <1>6. \A q \in T \ {z} : WellTagged(n, q) /\ NEXT_BLKP(n, q) \in T
    BY <1>3, <1>4, <1>5
  <1>7. \A q \in T \ {z}, r \in T : r <= q \/ NEXT_BLKP(n, q) <= r
    <2> SUFFICES ASSUME NEW q \in S, NEW r \in T
                 PROVE  r <= q \/ NEXT_BLKP(n, q) <= r
      OBVIOUS
    <2>1. q \in Nat /\ r \in Nat /\ (r \in S => r <= brk)
      BY <1>1, <1>2
    <2>2. CASE q = brk
      BY <1>2, <1>4, <2>1, <2>2
    <2>3. CASE q # brk
      <3>1. r \in S => r <= q \/ NEXT_BLKP(m, q) <= r
        BY <1>1, <2>3
      <3>2. NEXT_BLKP(n, q) = NEXT_BLKP(m, q) /\ NEXT_BLKP(m, q) \in Nat /\ NEXT_BLKP(m, q) <= brk
        BY <1>5, <2>3
      <3> QED
        BY <1>2, <2>1, <3>1, <3>2
    <2> QED
      BY <2>2, <2>3
  <1>8. \A q \in T \ {heap_listp} : \E r \in T \ {z} : NEXT_BLKP(n, r) = q
    <2> SUFFICES ASSUME NEW q \in S \ {heap_listp}
                 PROVE  \E r \in T \ {z} : NEXT_BLKP(n, r) = q
      BY <1>1, <1>3, <1>4
    <2>1. PICK r \in S \ {brk} : NEXT_BLKP(m, r) = q
      BY <1>1
    <2> QED
      BY <1>3, <1>5, <2>1
  <1>9. n[heap_listp - 4] = 9
    <2>1. heap_listp - 4 \in WordAddr /\ heap_listp - 4 < brk - 4
      BY <1>1, <1>2
    <2> QED
      BY <1>1, <2>1
  <1>10. heap_listp < z /\ \A q \in T : q <= z
    BY <1>1, <1>2
  <1>11. Tiling(n, z, T)
    BY <1>1, <1>6, <1>7, <1>8, <1>9, <1>10 DEF Tiling, HDRP, PACK, WSIZE, DSIZE
  <1> QED
    BY <1>3, <1>4, <1>5, <1>11

(* Nothing but the tags matters: writing to payloads leaves a tiling.      *)
LEMMA Frame ==
  ASSUME NEW m \in [WordAddr -> Nat], NEW n \in [WordAddr -> Nat],
         NEW brk, NEW S, Tiling(m, brk, S),
         \A q \in S : n[q - 4] = m[q - 4],
         \A q \in S \ {brk} : n[NEXT_BLKP(m, q) - 8] = m[NEXT_BLKP(m, q) - 8]
  PROVE  /\ Tiling(n, brk, S)
         /\ \A q \in S \ {brk} : /\ NEXT_BLKP(n, q) = NEXT_BLKP(m, q)
                                 /\ GET_SIZE(n, HDRP(q)) = GET_SIZE(m, HDRP(q))
         /\ \A q \in S : GET_ALLOC(n, HDRP(q)) = GET_ALLOC(m, HDRP(q))
  <1>1. \A q \in S \ {brk} :
          /\ WellTagged(n, q) /\ NEXT_BLKP(n, q) = NEXT_BLKP(m, q)
          /\ GET_SIZE(n, HDRP(q)) = GET_SIZE(m, HDRP(q))
    BY Untouched
  <1>2. \A q \in S : GET_ALLOC(n, HDRP(q)) = GET_ALLOC(m, HDRP(q))
    BY DEF GET_ALLOC, HDRP, WSIZE
  <1>3. n[HDRP(heap_listp)] = m[HDRP(heap_listp)] /\ n[HDRP(brk)] = m[HDRP(brk)]
    BY DEF Tiling, HDRP, WSIZE
  <1> QED
    BY <1>1, <1>2, <1>3 DEF Tiling

-----------------------------------------------------------------------------
(* What the routines of the allocator write.                               *)

(* Two words written at different addresses can be read back.              *)
LEMMA PutTwo ==
  ASSUME NEW m \in [WordAddr -> Nat], NEW x \in WordAddr, NEW y \in WordAddr,
         NEW v \in Nat
  PROVE  /\ PUT(PUT(m, x, v), y, v) \in [WordAddr -> Nat]
         /\ PUT(PUT(m, x, v), y, v)[x] = v /\ PUT(PUT(m, x, v), y, v)[y] = v
         /\ \A w \in WordAddr : w # x /\ w # y => PUT(PUT(m, x, v), y, v)[w] = m[w]
  BY DEF PUT

(* PutTags writes the two words of a block that ends at e, no others.      *)
LEMMA PutTagsWords ==
  ASSUME NEW m \in [WordAddr -> Nat], NEW b \in Nat, NEW e \in Nat,
         b % 8 = 0, e % 8 = 0, b + 16 <= e, NEW a \in {0, 1},
         b - 4 \in WordAddr, e - 8 \in WordAddr
  PROVE  PutTags(m, b, (e - b) + a)
           = PUT(PUT(m, b - 4, (e - b) + a), e - 8, (e - b) + a)
  <1> DEFINE h == PUT(m, b - 4, (e - b) + a)
  <1>1. (e - b) \in Nat /\ (e - b) % 8 = 0
    BY Gap
  <1>2. ((e - b) + a) - (((e - b) + a) % 8) = e - b
    BY <1>1, TagArith
  <1>3. h[b - 4] = (e - b) + a
    BY DEF PUT
  <1>4. FTRP(h, b) = b + (h[b - 4] - (h[b - 4] % 8)) - 8
    BY DEF FTRP, GET_SIZE, HDRP, WSIZE, DSIZE
  <1>5. FTRP(h, b) = e - 8
    BY <1>1, <1>2, <1>3, <1>4
  <1> QED
    BY <1>5 DEF PutTags, HDRP, WSIZE

(* Header and footer of an area from p to z, in whichever order.           *)
LEMMA TwoTags ==
  ASSUME NEW m \in [WordAddr -> Nat], NEW n, NEW p \in Nat, NEW z \in Nat,
         p + 16 <= z, p - 4 \in WordAddr, z - 8 \in WordAddr,
         NEW v \in Nat, NEW x, NEW y,
         \/ x = p - 4 /\ y = z - 8
         \/ x = z - 8 /\ y = p - 4,
         n = PUT(PUT(m, x, v), y, v)
  PROVE  /\ n \in [WordAddr -> Nat] /\ n[p - 4] = v /\ n[z - 8] = v
         /\ \A w \in WordAddr : w < p - 4 \/ z - 4 <= w => n[w] = m[w]
  <1>1. x \in WordAddr /\ y \in WordAddr
    OBVIOUS
  <1>2. /\ n \in [WordAddr -> Nat] /\ n[x] = v /\ n[y] = v
        /\ \A w \in WordAddr : w # x /\ w # y => n[w] = m[w]
    BY ONLY <1>1, m \in [WordAddr -> Nat], v \in Nat, n = PUT(PUT(m, x, v), y, v), PutTwo
  <1>3. \A w \in WordAddr : w < p - 4 \/ z - 4 <= w => n[w] = m[w]
    <2> SUFFICES ASSUME NEW w \in WordAddr, w < p - 4 \/ z - 4 <= w
                 PROVE  n[w] = m[w]
      OBVIOUS
    <2>1. w \in Int
      BY Area DEF WordAddr
    <2>2. w # p - 4 /\ w # z - 8
      BY <2>1
    <2> QED
      BY <1>2, <2>2
  <1> QED
    BY <1>2, <1>3

(* The same tag in the first and the last word of a block, and nothing     *)
(* else changed.                                                           *)
LEMMA TagsOf ==
  ASSUME NEW m \in [WordAddr -> Nat], NEW n, NEW p \in Nat, NEW z \in Nat,
         p + 16 <= z, p - 4 \in WordAddr, z - 8 \in WordAddr, NEW v \in Nat,
         n = PUT(PUT(m, p - 4, v), z - 8, v)
  PROVE  /\ n \in [WordAddr -> Nat] /\ n[p - 4] = v /\ n[z - 8] = v
         /\ \A w \in WordAddr : w < p - 4 \/ z - 4 <= w => n[w] = m[w]
  BY TwoTags

(* The tag of a free block is its size.                                    *)
LEMMA FreeTag ==
  ASSUME NEW m \in [WordAddr -> Nat], NEW brk, NEW S, Tiling(m, brk, S),
         NEW p \in S \ {brk}, IsFree(m, p)
  PROVE  m[p - 4] = GET_SIZE(m, HDRP(p))
  <1>1. m[p - 4] % 8 = 0 /\ p - 4 \in WordAddr
    BY TilingBlock, TilingAddrs DEF IsFree
  <1>2. m[p - 4] \in Nat
    BY <1>1
  <1> QED
    BY <1>1, <1>2 DEF GET_SIZE, HDRP, WSIZE

(* The block before b, as its footer tells.                                *)
LEMMA Previous ==
  ASSUME NEW m \in [WordAddr -> Nat], NEW brk, NEW S, Tiling(m, brk, S),
         NEW b \in S \ {heap_listp}
  PROVE  \E r \in S \ {brk} :
           /\ NEXT_BLKP(m, r) = b /\ PREV_BLKP(m, b) = r /\ r + 8 <= b
           /\ PrevAlloc(m, b) = GET_ALLOC(m, HDRP(r))
           /\ \A q \in S \ {brk} : NEXT_BLKP(m, q) = b => q = r
  <1>1. PICK r \in S \ {brk} : NEXT_BLKP(m, r) = b
    BY TilingAddrs
  <1>2. /\ b \in Nat /\ r \in Nat /\ r + 8 <= b /\ b = r + GET_SIZE(m, HDRP(r))
        /\ GET_SIZE(m, HDRP(r)) \in Nat
        /\ m[b - 8] = m[r - 4] /\ FTRP(m, r) = b - 8
    BY <1>1, TilingBlock, TilingAddrs
  <1>3. GET_SIZE(m, b - 8) = GET_SIZE(m, HDRP(r))
        /\ GET_ALLOC(m, b - 8) = GET_ALLOC(m, HDRP(r))
    BY <1>2 DEF GET_SIZE, GET_ALLOC, HDRP, WSIZE
  <1>4. PREV_BLKP(m, b) = r
    BY <1>2, <1>3 DEF PREV_BLKP, DSIZE
  <1>5. PrevAlloc(m, b) = GET_ALLOC(m, HDRP(r))
    BY <1>2, <1>3, <1>4 DEF PrevAlloc
  <1>6. \A q \in S \ {brk} : NEXT_BLKP(m, q) = b => q = r
    <2> SUFFICES ASSUME NEW q \in S \ {brk}, NEXT_BLKP(m, q) = b
                 PROVE  q = r
      OBVIOUS
    <2>1. q \in Nat /\ q + 8 <= b
      BY TilingBlock, TilingAddrs
    <2>2. (q <= r \/ b <= q) /\ (r <= q \/ b <= r)
      BY <1>1, TilingAddrs
    <2> QED
      BY <1>2, <2>1, <2>2
  <1> QED
    BY <1>1, <1>2, <1>4, <1>5, <1>6

(* n marks the area from p to z, all of it free blocks of m, b among them, *)
(* as one block; its neighbours are allocated.                             *)
FusedArea(m, n, brk, S, b, p, z) ==
  /\ p \in S \ {heap_listp, brk} /\ z \in S
  /\ p <= b /\ NEXT_BLKP(m, b) <= z
  /\ n \in [WordAddr -> Nat]
  /\ n[p - 4] = z - p /\ n[z - 8] = z - p
  /\ \A w \in WordAddr : w < p - 4 \/ z - 4 <= w => n[w] = m[w]
  /\ \A q \in S : p <= q /\ q < z => IsFree(m, q)
  /\ ~IsFree(m, z)
  /\ \A q \in S \ {brk} : NEXT_BLKP(m, q) = p => ~IsFree(m, q)

(* The free block b and the block behind it, or that block and b.          *)
LEMMA FreeNext ==
  ASSUME NEW m \in [WordAddr -> Nat], NEW brk, NEW S, Tiling(m, brk, S),
         NEW b \in S \ {heap_listp, brk}, IsFree(m, b),
         CoalescedBut(m, brk, S, b), IsFree(m, NEXT_BLKP(m, b))
  PROVE  \E e \in S, f \in S :
            /\ e = NEXT_BLKP(m, b)
            /\ f \in Nat /\ f % 8 = 0 /\ f - 8 \in WordAddr /\ e + 16 <= f
            /\ GET_SIZE(m, HDRP(e)) = f - e /\ GET_SIZE(m, f - 8) = f - e
            /\ FTRP(m, e) = f - 8 /\ ~IsFree(m, f)
            /\ \A q \in S : e <= q /\ q < f => q = e
  <1> DEFINE e == NEXT_BLKP(m, b)
             f == NEXT_BLKP(m, e)
  <1>1. e \in S /\ e \in Nat /\ e >= b + 16 /\ b \in Nat /\ heap_listp \in Nat /\ heap_listp <= b
    BY TilingBlock, TilingAddrs
  <1>2. GET_ALLOC(m, HDRP(brk)) = 1
    BY DEF Tiling, GET_ALLOC, PACK
  <1>3. e # brk /\ e # heap_listp /\ e # b
    BY <1>1, <1>2 DEF IsFree
  <1>4. /\ f \in S /\ f \in Nat /\ f >= e + 16 /\ f = e + GET_SIZE(m, HDRP(e))
        /\ GET_SIZE(m, HDRP(e)) \in Nat
        /\ FTRP(m, e) = f - 8 /\ m[f - 8] = m[e - 4]
    BY <1>1, <1>3, TilingBlock
  <1>5. GET_SIZE(m, HDRP(e)) = f - e
    BY <1>1, <1>4
  <1>6. GET_SIZE(m, f - 8) = GET_SIZE(m, HDRP(e))
    BY <1>4 DEF GET_SIZE, HDRP, WSIZE
  <1>7. f % 8 = 0 /\ f - 8 \in WordAddr
    BY <1>4, TilingAddrs
  <1>8. f # b
    BY <1>1, <1>4
  <1>9. ~IsFree(m, f)
    BY <1>1, <1>3, <1>8 DEF CoalescedBut
  <1>10. \A q \in S : e <= q /\ q < f => q = e
    <2> SUFFICES ASSUME NEW q \in S, e <= q, q < f PROVE q = e
      OBVIOUS
    <2>1. q \in Nat
      BY TilingAddrs
    <2>2. q <= e \/ f <= q
      BY <1>1, <1>3, TilingAddrs
    <2> QED
      BY <1>1, <1>4, <2>1, <2>2
  <1> HIDE DEF f, e
  <1>11. e = NEXT_BLKP(m, b) /\ e + 16 <= f
    BY <1>1, <1>4 DEF e
  <1> QED
    BY <1>1, <1>4, <1>5, <1>6, <1>7, <1>9, <1>10, <1>11

(* A free block before a free block b is not the prologue, and no free     *)
(* block lies before it: coalescing has to look no further back.           *)
LEMMA FreePrevious ==
  ASSUME NEW m \in [WordAddr -> Nat], NEW brk, NEW S, Tiling(m, brk, S),
         NEW b \in S \ {heap_listp, brk}, IsFree(m, b),
         CoalescedBut(m, brk, S, b),
         NEW r \in S \ {brk}, NEXT_BLKP(m, r) = b, IsFree(m, r)
  PROVE  /\ r # heap_listp /\ r + 16 <= b
         /\ \A q \in S \ {brk} : NEXT_BLKP(m, q) = r => ~IsFree(m, q)
  <1>1. GET_ALLOC(m, HDRP(heap_listp)) = 1
    BY DEF Tiling, GET_ALLOC, PACK, DSIZE
  <1>2. r # heap_listp
    BY <1>1 DEF IsFree
  <1>3. r + 16 <= b /\ r \in Nat /\ b \in Nat
    BY <1>2, TilingBlock, TilingAddrs
  <1>4. \A q \in S \ {brk} : NEXT_BLKP(m, q) = r => ~IsFree(m, q)
    <2> SUFFICES ASSUME NEW q \in S \ {brk}, NEXT_BLKP(m, q) = r
                 PROVE  ~IsFree(m, q)
      OBVIOUS
    <2>1. q + 8 <= r /\ q \in Nat
      BY TilingBlock, TilingAddrs
    <2>2. q # b /\ r # b
      BY <1>3, <2>1
    <2> QED
      BY <2>2 DEF CoalescedBut
  <1> QED
    BY <1>2, <1>3, <1>4

(* Each of the four cases of coalesce marks such an area.                  *)
LEMMA CoalesceArea ==
  ASSUME NEW m \in [WordAddr -> Nat], NEW brk, NEW S, Tiling(m, brk, S),
         NEW b \in S \ {heap_listp, brk}, IsFree(m, b),
         CoalescedBut(m, brk, S, b)
  PROVE  \E z \in S :
           FusedArea(m, coalesce(m, b).mem, brk, S, b, coalesce(m, b).bp, z)
  <1> DEFINE n == coalesce(m, b).mem
  <1>1. PICK r \in S \ {brk} :
          /\ NEXT_BLKP(m, r) = b /\ PREV_BLKP(m, b) = r /\ r + 8 <= b
          /\ PrevAlloc(m, b) = GET_ALLOC(m, HDRP(r))
          /\ \A q \in S \ {brk} : NEXT_BLKP(m, q) = b => q = r
    BY Previous
  <1>2. PICK e \in S : e = NEXT_BLKP(m, b)
    BY TilingBlock
  <1>3. /\ e \in Nat /\ b + 16 <= e /\ e = b + GET_SIZE(m, HDRP(b))
        /\ GET_SIZE(m, HDRP(b)) \in Nat
        /\ FTRP(m, b) = e - 8 /\ m[e - 8] = m[b - 4]
        /\ m[b - 4] = GET_SIZE(m, HDRP(b)) + (m[b - 4] % 8)
        /\ m[b - 4] % 8 = GET_ALLOC(m, HDRP(b))
    BY <1>2, TilingBlock
  <1>4. /\ b \in Nat /\ b % 8 = 0 /\ b - 4 \in WordAddr
        /\ r \in Nat /\ r % 8 = 0 /\ r - 4 \in WordAddr
        /\ e \in Nat /\ e % 8 = 0 /\ e - 8 \in WordAddr /\ e - 4 \in WordAddr
    BY TilingAddrs
  <1>5. GET_SIZE(m, HDRP(b)) = e - b /\ b + 16 <= e /\ FTRP(m, b) = e - 8
    BY <1>3, <1>4
  <1>6. m[b - 4] = e - b /\ m[e - 8] = e - b
    <2>1. m[b - 4] = GET_SIZE(m, HDRP(b))
      BY FreeTag
    <2> QED
      BY <1>3, <1>5, <2>1
  <1>7. GET_SIZE(m, HDRP(r)) = b - r
    <2>1. b = r + GET_SIZE(m, HDRP(r)) /\ GET_SIZE(m, HDRP(r)) \in Nat
      BY <1>1, TilingBlock
    <2> QED
      BY <1>4, <2>1
  <1>8. /\ NextAlloc(m, b) = GET_ALLOC(m, HDRP(e))
        /\ GET_ALLOC(m, HDRP(e)) \in {0, 1} /\ GET_ALLOC(m, HDRP(r)) \in {0, 1}
    <2>1. m[e - 4] \in Nat /\ m[r - 4] \in Nat
      BY <1>4
    <2> QED
      BY <1>2, <2>1 DEF NextAlloc, GET_ALLOC, HDRP, WSIZE
  <1>9. \A q \in S : /\ r <= q /\ q < b => q = r
                     /\ b <= q /\ q < e => q = b
    <2> SUFFICES ASSUME NEW q \in S
                 PROVE  /\ r <= q /\ q < b => q = r
                        /\ b <= q /\ q < e => q = b
      OBVIOUS
    <2>1. q \in Nat
      BY TilingAddrs
    <2>2. (q <= r \/ b <= q) /\ (q <= b \/ e <= q)
      BY <1>1, <1>2, TilingAddrs
    <2> QED
      BY <1>4, <2>1, <2>2
  <1>10. CASE PrevAlloc(m, b) = 1 /\ NextAlloc(m, b) = 1
    <2>1. coalesce(m, b) = [mem |-> m, bp |-> b]
      BY <1>10 DEF coalesce
    <2>2. ~IsFree(m, e) /\ ~IsFree(m, r)
      BY <1>1, <1>8, <1>10 DEF IsFree
    <2>3. \A q \in S : b <= q /\ q < e => IsFree(m, q)
      <3> SUFFICES ASSUME NEW q \in S, b <= q, q < e PROVE IsFree(m, q)
        OBVIOUS
      <3>1. q = b
        BY <1>9
      <3> QED
        BY <3>1
    <2>4. b <= b /\ NEXT_BLKP(m, b) <= e
      BY <1>2, <1>4
    <2>5. \A q \in S \ {brk} : NEXT_BLKP(m, q) = b => ~IsFree(m, q)
      BY <1>1, <2>2
    <2>6. FusedArea(m, m, brk, S, b, b, e)
      BY <1>6, <2>2, <2>3, <2>4, <2>5 DEF FusedArea
    <2> QED
      BY <2>1, <2>6
  <1>11. CASE PrevAlloc(m, b) = 1 /\ NextAlloc(m, b) = 0
    <2>1. PICK f \in S :
            /\ f \in Nat /\ f % 8 = 0 /\ f - 8 \in WordAddr /\ e + 16 <= f
            /\ GET_SIZE(m, HDRP(e)) = f - e /\ GET_SIZE(m, f - 8) = f - e
            /\ FTRP(m, e) = f - 8 /\ ~IsFree(m, f)
            /\ \A q \in S : e <= q /\ q < f => q = e
      <3>1. IsFree(m, NEXT_BLKP(m, b))
        BY <1>2, <1>8, <1>11 DEF IsFree
      <3> QED
        BY <1>2, <3>1, FreeNext
    <2>2. coalesce(m, b) = [mem |-> PutTags(m, b, PACK((e - b) + (f - e), 0)), bp |-> b]
      BY <1>2, <1>5, <1>11, <2>1 DEF coalesce
    <2>3. /\ (e - b) + (f - e) + 0 = f - b /\ (f - b) + 0 = f - b
          /\ f - b \in Nat /\ b + 16 <= f
      BY <1>4, <1>5, <2>1
    <2>4. PutTags(m, b, (f - b) + 0)
            = PUT(PUT(m, b - 4, (f - b) + 0), f - 8, (f - b) + 0)
      BY <1>4, <2>1, <2>3, PutTagsWords
    <2>5. n = PUT(PUT(m, b - 4, f - b), f - 8, f - b) /\ coalesce(m, b).bp = b
      BY <2>2, <2>3, <2>4 DEF PACK
    <2> HIDE DEF n
    <2>6. /\ n \in [WordAddr -> Nat] /\ n[b - 4] = f - b /\ n[f - 8] = f - b
          /\ \A w \in WordAddr : w < b - 4 \/ f - 4 <= w => n[w] = m[w]
      <3>1. /\ b \in Nat /\ f \in Nat /\ b + 16 <= f /\ f - b \in Nat
            /\ b - 4 \in WordAddr /\ f - 8 \in WordAddr
        BY <1>4, <2>1, <2>3
      <3> QED
        <4>1. PICK v \in Nat : v = f - b
          BY <3>1
        <4>2. n = PUT(PUT(m, b - 4, v), f - 8, v)
          BY <2>5, <4>1
        <4> QED
          BY <3>1, <4>1, <4>2, TagsOf
    <2>7. \A q \in S : b <= q /\ q < f => IsFree(m, q)
      <3> SUFFICES ASSUME NEW q \in S, b <= q, q < f PROVE IsFree(m, q)
        OBVIOUS
      <3>1. q \in Nat /\ (q < e \/ e <= q)
        BY <1>4, TilingAddrs
      <3>2. q = b \/ q = e
        BY <1>9, <2>1, <3>1
      <3>3. IsFree(m, e)
        BY <1>8, <1>11 DEF IsFree
      <3> QED
        BY <3>2, <3>3
    <2>8. \A q \in S \ {brk} : NEXT_BLKP(m, q) = b => ~IsFree(m, q)
      <3>1. ~IsFree(m, r)
        BY <1>1, <1>11 DEF IsFree
      <3> QED
        BY <1>1, <3>1
    <2>9. b <= b /\ NEXT_BLKP(m, b) <= f
      BY <1>2, <1>4, <2>1
    <2>10. FusedArea(m, n, brk, S, b, b, f)
      BY <2>1, <2>6, <2>7, <2>8, <2>9 DEF FusedArea
    <2> QED
      BY <2>5, <2>10 DEF n
  <1>12. CASE PrevAlloc(m, b) = 0 /\ NextAlloc(m, b) = 1
    <2>1. /\ r # heap_listp /\ r + 16 <= b /\ IsFree(m, r)
          /\ \A q \in S \ {brk} : NEXT_BLKP(m, q) = r => ~IsFree(m, q)
      <3>1. IsFree(m, r)
        BY <1>1, <1>12 DEF IsFree
      <3> QED
        BY <1>1, <3>1, FreePrevious
    <2>2. coalesce(m, b) =
            [mem |-> PUT(PUT(m, e - 8, PACK((e - b) + (b - r), 0)),
                         HDRP(r), PACK((e - b) + (b - r), 0)),
             bp |-> r]
      BY <1>1, <1>5, <1>7, <1>12 DEF coalesce
    <2>3. (e - b) + (b - r) + 0 = e - r /\ e - r \in Nat /\ r + 16 <= e
      BY <1>4, <1>5, <2>1
    <2>4. n = PUT(PUT(m, e - 8, e - r), r - 4, e - r) /\ coalesce(m, b).bp = r
      BY <2>2, <2>3 DEF PACK, HDRP, WSIZE
    <2> HIDE DEF n
    <2>5. /\ n \in [WordAddr -> Nat] /\ n[r - 4] = e - r /\ n[e - 8] = e - r
          /\ \A w \in WordAddr : w < r - 4 \/ e - 4 <= w => n[w] = m[w]
      BY <1>4, <2>3, <2>4, TwoTags
    <2>6. \A q \in S : r <= q /\ q < e => IsFree(m, q)
      <3> SUFFICES ASSUME NEW q \in S, r <= q, q < e PROVE IsFree(m, q)
        OBVIOUS
      <3>1. q \in Nat /\ (q < b \/ b <= q)
        BY <1>4, TilingAddrs
      <3>2. q = b \/ q = r
        <4>1. (r <= q /\ q < b => q = r) /\ (b <= q /\ q < e => q = b)
          BY <1>9
        <4> QED
          BY <3>1, <4>1
      <3> QED
        BY <2>1, <3>2
    <2>7. r <= b /\ NEXT_BLKP(m, b) <= e
      BY <1>2, <1>4, <2>1
    <2>8. ~IsFree(m, e)
      BY <1>8, <1>12 DEF IsFree
    <2>9. FusedArea(m, n, brk, S, b, r, e)
      BY <2>1, <2>5, <2>6, <2>7, <2>8 DEF FusedArea
    <2> QED
      BY <2>4, <2>9 DEF n
  <1>13. CASE PrevAlloc(m, b) = 0 /\ NextAlloc(m, b) = 0
    <2>1. PICK f \in S :
            /\ f \in Nat /\ f % 8 = 0 /\ f - 8 \in WordAddr /\ e + 16 <= f
            /\ GET_SIZE(m, HDRP(e)) = f - e /\ GET_SIZE(m, f - 8) = f - e
            /\ FTRP(m, e) = f - 8 /\ ~IsFree(m, f)
            /\ \A q \in S : e <= q /\ q < f => q = e
      <3>1. IsFree(m, NEXT_BLKP(m, b))
        BY <1>2, <1>8, <1>13 DEF IsFree
      <3> QED
        BY <1>2, <3>1, FreeNext
    <2>2. /\ r # heap_listp /\ r + 16 <= b /\ IsFree(m, r)
          /\ \A q \in S \ {brk} : NEXT_BLKP(m, q) = r => ~IsFree(m, q)
      <3>1. IsFree(m, r)
        BY <1>1, <1>13 DEF IsFree
      <3> QED
        BY <1>1, <3>1, FreePrevious
    <2>3. coalesce(m, b) =
            [mem |-> PUT(PUT(m, HDRP(r), PACK(((e - b) + (b - r)) + (f - e), 0)),
                         f - 8, PACK(((e - b) + (b - r)) + (f - e), 0)),
             bp |-> r]
      BY <1>1, <1>2, <1>5, <1>7, <1>13, <2>1 DEF coalesce
    <2>4. ((e - b) + (b - r)) + (f - e) + 0 = f - r /\ f - r \in Nat /\ r + 16 <= f
      BY <1>4, <1>5, <2>1, <2>2
    <2>5. n = PUT(PUT(m, r - 4, f - r), f - 8, f - r) /\ coalesce(m, b).bp = r
      BY <2>3, <2>4 DEF PACK, HDRP, WSIZE
    <2> HIDE DEF n
    <2>6. /\ n \in [WordAddr -> Nat] /\ n[r - 4] = f - r /\ n[f - 8] = f - r
          /\ \A w \in WordAddr : w < r - 4 \/ f - 4 <= w => n[w] = m[w]
      BY <1>4, <2>1, <2>4, <2>5, TwoTags
    <2>7. \A q \in S : r <= q /\ q < f => IsFree(m, q)
      <3> SUFFICES ASSUME NEW q \in S, r <= q, q < f PROVE IsFree(m, q)
        OBVIOUS
      <3>1. q \in Nat /\ (q < b \/ b <= q) /\ (q < e \/ e <= q)
        BY <1>4, TilingAddrs
      <3>2. q = r \/ q = b \/ q = e
        <4>1. (r <= q /\ q < b => q = r) /\ (b <= q /\ q < e => q = b)
              /\ (e <= q /\ q < f => q = e)
          BY <1>9, <2>1
        <4> QED
          BY <3>1, <4>1
      <3>3. IsFree(m, e)
        BY <1>8, <1>13 DEF IsFree
      <3> QED
        BY <2>2, <3>2, <3>3
    <2>8. r <= b /\ NEXT_BLKP(m, b) <= f
      BY <1>2, <1>4, <2>1, <2>2
    <2>9. FusedArea(m, n, brk, S, b, r, f)
      BY <2>1, <2>2, <2>6, <2>7, <2>8 DEF FusedArea
    <2> QED
      BY <2>5, <2>9 DEF n
  <1> QED
    BY <1>1, <1>8, <1>10, <1>11, <1>12, <1>13

(* coalesce leaves no two free blocks side by side, loses no byte of b and *)
(* touches no allocated block.                                             *)
LEMMA Coalesce ==
  ASSUME NEW m \in [WordAddr -> Nat], NEW brk, NEW S, Tiling(m, brk, S),
         NEW b \in S \ {heap_listp, brk}, IsFree(m, b),
         CoalescedBut(m, brk, S, b)
  PROVE  LET n == coalesce(m, b).mem
             p == coalesce(m, b).bp
         IN  /\ n \in [WordAddr -> Nat]
             /\ \E T \in SUBSET S :
                  /\ Tiling(n, brk, T) /\ Coalesced(n, brk, T)
                  /\ p \in T \ {heap_listp, brk} /\ IsFree(n, p)
                  /\ GET_SIZE(m, HDRP(b)) <= GET_SIZE(n, HDRP(p))
                  /\ \A q \in S : ~IsFree(m, q) => q \in T /\ n[q - 4] = m[q - 4]
                  /\ \A w \in WordAddr :
                       w < p - 4 \/ NEXT_BLKP(n, p) - 4 <= w => n[w] = m[w]
                  /\ p <= b
                  /\ \A q \in T : q # p =>
                       n[q - 4] = m[q - 4] /\ (q < p \/ NEXT_BLKP(m, b) <= q)
  <1> DEFINE n == coalesce(m, b).mem
             p == coalesce(m, b).bp
  <1>1. PICK z \in S : FusedArea(m, n, brk, S, b, p, z)
    BY CoalesceArea
  <1> HIDE DEF n, p
  <1>2. /\ p \in S \ {heap_listp, brk} /\ p <= b /\ NEXT_BLKP(m, b) <= z
        /\ n \in [WordAddr -> Nat]
        /\ n[p - 4] = z - p /\ n[z - 8] = z - p
        /\ \A w \in WordAddr : w < p - 4 \/ z - 4 <= w => n[w] = m[w]
        /\ \A q \in S : p <= q /\ q < z => IsFree(m, q)
        /\ ~IsFree(m, z)
        /\ \A q \in S \ {brk} : NEXT_BLKP(m, q) = p => ~IsFree(m, q)
    BY <1>1 DEF FusedArea
  <1>3. /\ p \in Nat /\ b \in Nat /\ z \in Nat /\ NEXT_BLKP(m, b) \in Nat
        /\ NEXT_BLKP(m, b) >= b + 8
        /\ NEXT_BLKP(m, b) = b + GET_SIZE(m, HDRP(b)) /\ GET_SIZE(m, HDRP(b)) \in Nat
    BY <1>2, TilingAddrs, TilingBlock
  <1>4. p < z /\ n[p - 4] = (z - p) + 0 /\ n[z - 8] = (z - p) + 0
    BY <1>2, <1>3
  <1> DEFINE T == Outside(S, p, z)
  <1>5. /\ Tiling(n, brk, T) /\ NEXT_BLKP(n, p) = z
        /\ GET_SIZE(n, HDRP(p)) = z - p /\ GET_ALLOC(n, HDRP(p)) = 0
        /\ \A q \in S \ {brk} : q < p \/ z <= q =>
             n[q - 4] = m[q - 4] /\ NEXT_BLKP(n, q) = NEXT_BLKP(m, q)
    BY <1>2, <1>4, Fuse
  <1>6. \A q \in S : q < p \/ z <= q => n[q - 4] = m[q - 4]
    <2> SUFFICES ASSUME NEW q \in S, q < p \/ z <= q PROVE n[q - 4] = m[q - 4]
      OBVIOUS
    <2>1. q \in Nat /\ q - 4 \in WordAddr
      BY TilingAddrs
    <2>2. q - 4 < p - 4 \/ z - 4 <= q - 4
      BY <1>3, <2>1
    <2> QED
      BY <1>2, <2>1, <2>2
  <1>7. \A q \in S : q < p \/ z <= q => (IsFree(n, q) <=> IsFree(m, q))
    BY <1>6 DEF IsFree, GET_ALLOC, HDRP, WSIZE
  <1>8. \A q \in S : ~IsFree(m, q) => (q < p \/ z <= q)
    <2> SUFFICES ASSUME NEW q \in S, ~IsFree(m, q) PROVE q < p \/ z <= q
      OBVIOUS
    <2>1. q \in Nat /\ ~(p <= q /\ q < z)
      BY <1>2, TilingAddrs
    <2> QED
      BY <1>3, <2>1
  <1>9. \A q \in S : ~IsFree(m, q) => q \in T /\ n[q - 4] = m[q - 4]
    <2> SUFFICES ASSUME NEW q \in S, ~IsFree(m, q)
                 PROVE  q \in T /\ n[q - 4] = m[q - 4]
      OBVIOUS
    <2>1. (q < p \/ z <= q) /\ q \in Nat
      BY <1>8, TilingAddrs
    <2> QED
      BY <1>3, <1>6, <2>1 DEF Outside
  <1>10. Coalesced(n, brk, T)
    <2> SUFFICES ASSUME NEW q \in S \ {brk}, q <= p \/ z <= q
                 PROVE  ~IsFree(n, q) \/ ~IsFree(n, NEXT_BLKP(n, q))
      BY DEF Coalesced, CoalescedBut, Outside
    <2>1. CASE q = p
      <3>1. ~IsFree(n, z)
        BY <1>2, <1>3, <1>7
      <3> QED
        BY <1>5, <2>1, <3>1
    <2>2. CASE q # p
      <3> DEFINE t == NEXT_BLKP(m, q)
      <3>1. /\ q \in Nat /\ t \in S /\ t \in Nat /\ q + 8 <= t
            /\ p <= q \/ t <= p
        BY <1>2, TilingAddrs, TilingBlock
      <3>2. q < p \/ z <= q
        BY <1>3, <2>2, <3>1
      <3>3. NEXT_BLKP(n, q) = t /\ (IsFree(n, q) <=> IsFree(m, q))
        BY <1>5, <1>7, <3>2
      <3>4. CASE t = p
        BY <1>2, <3>3, <3>4
      <3>5. CASE t # p
        <4>1. t < p \/ z <= t
          BY <1>3, <3>1, <3>2, <3>5
        <4>2. q # b /\ t # b
          BY <1>2, <1>3, <3>1, <3>2, <4>1
        <4>3. ~IsFree(m, q) \/ ~IsFree(m, t)
          BY <4>2 DEF CoalescedBut
        <4> QED
          BY <1>7, <3>1, <3>3, <4>1, <4>3
      <3> QED
        BY <3>4, <3>5
    <2> QED
      BY <2>1, <2>2
  <1>11. p \in T \ {heap_listp, brk} /\ IsFree(n, p)
    BY <1>2, <1>3, <1>5 DEF IsFree, Outside
  <1>12. GET_SIZE(m, HDRP(b)) <= GET_SIZE(n, HDRP(p))
    BY <1>2, <1>3, <1>5
  <1>13. \A w \in WordAddr :
           w < p - 4 \/ NEXT_BLKP(n, p) - 4 <= w => n[w] = m[w]
    BY <1>2, <1>5
  <1>14. T \in SUBSET S
    BY DEF Outside
  <1>141. ASSUME NEW q \in T, q # p
          PROVE  n[q - 4] = m[q - 4] /\ (q < p \/ NEXT_BLKP(m, b) <= q)
    <2>1. q \in S /\ (q <= p \/ z <= q) /\ q \in Nat
      BY TilingAddrs DEF Outside
    <2>2. q < p \/ z <= q
      BY <1>3, <1>141, <2>1
    <2> QED
      BY <1>2, <1>3, <1>6, <2>1, <2>2
  <1> HIDE DEF T
  <1>15. \E R \in SUBSET S :
           /\ Tiling(n, brk, R) /\ Coalesced(n, brk, R)
           /\ p \in R \ {heap_listp, brk} /\ IsFree(n, p)
           /\ GET_SIZE(m, HDRP(b)) <= GET_SIZE(n, HDRP(p))
           /\ \A q \in S : ~IsFree(m, q) => q \in R /\ n[q - 4] = m[q - 4]
           /\ \A w \in WordAddr :
                w < p - 4 \/ NEXT_BLKP(n, p) - 4 <= w => n[w] = m[w]
           /\ p <= b
           /\ \A q \in R : q # p =>
                n[q - 4] = m[q - 4] /\ (q < p \/ NEXT_BLKP(m, b) <= q)
    BY <1>2, <1>5, <1>9, <1>10, <1>11, <1>12, <1>13, <1>14, <1>141
  <1> QED
    BY <1>2, <1>15 DEF n, p

(* n has in it what was in the allocated blocks of m, but for block b.     *)
Keeps(m, n, brk, S, b) ==
  \A q \in S \ {brk, b} : ~IsFree(m, q) =>
    \A w \in WordAddr : q <= w /\ w < NEXT_BLKP(m, q) - 8 => n[w] = m[w]

(* A step that writes to the words of one block of the tiling, tags        *)
(* included, leaves what is in the others.                                 *)
LEMMA KeepsOthers ==
  ASSUME NEW m \in [WordAddr -> Nat], NEW brk, NEW S, Tiling(m, brk, S),
         NEW b \in S \ {brk}, NEW n,
         \A w \in WordAddr : w < b - 4 \/ NEXT_BLKP(m, b) - 4 <= w => n[w] = m[w]
  PROVE  Keeps(m, n, brk, S, b)
  <1> SUFFICES ASSUME NEW q \in S \ {brk}, q # b, NEW w \in WordAddr,
                      q <= w, w < NEXT_BLKP(m, q) - 8
               PROVE  n[w] = m[w]
    BY DEF Keeps
  <1>1. /\ q \in Nat /\ b \in Nat /\ w \in Int
        /\ NEXT_BLKP(m, q) \in Nat /\ NEXT_BLKP(m, b) \in Nat
        /\ b <= q \/ NEXT_BLKP(m, q) <= b
        /\ q <= b \/ NEXT_BLKP(m, b) <= q
    <2>1. w \in Int
      BY Area DEF WordAddr
    <2>2. NEXT_BLKP(m, q) \in Nat /\ NEXT_BLKP(m, b) \in Nat
      BY TilingBlock
    <2> QED
      BY <2>1, <2>2, TilingAddrs
  <1>2. w < b - 4 \/ NEXT_BLKP(m, b) - 4 <= w
    BY <1>1
  <1> QED
    BY <1>2

(* coalesce leaves what is in allocated blocks.                            *)
LEMMA CoalesceKeeps ==
  ASSUME NEW m \in [WordAddr -> Nat], NEW brk, NEW S, Tiling(m, brk, S),
         NEW b \in S \ {heap_listp, brk}, IsFree(m, b),
         CoalescedBut(m, brk, S, b)
  PROVE  Keeps(m, coalesce(m, b).mem, brk, S, b)
  <1> DEFINE n == coalesce(m, b).mem
             p == coalesce(m, b).bp
  <1>1. PICK z \in S : FusedArea(m, n, brk, S, b, p, z)
    BY CoalesceArea
  <1> HIDE DEF n, p
  <1>2. /\ p \in S \ {heap_listp, brk}
        /\ \A w \in WordAddr : w < p - 4 \/ z - 4 <= w => n[w] = m[w]
        /\ \A q \in S : p <= q /\ q < z => IsFree(m, q)
    BY <1>1 DEF FusedArea
  <1>3. ASSUME NEW q \in S \ {brk, b}, ~IsFree(m, q), NEW w \in WordAddr,
               q <= w, w < NEXT_BLKP(m, q) - 8
        PROVE  n[w] = m[w]
    <2>1. /\ p \in Nat /\ z \in Nat /\ q \in Nat /\ w \in Int
          /\ NEXT_BLKP(m, q) \in Nat
          /\ p <= q \/ NEXT_BLKP(m, q) <= p
      <3>1. w \in Int
        BY Area DEF WordAddr
      <3>2. NEXT_BLKP(m, q) \in Nat
        BY TilingBlock
      <3> QED
        BY <1>2, <3>1, <3>2, TilingAddrs
    <2>2. q < p \/ z <= q
      BY <1>2, <1>3, <2>1
    <2>3. w < p - 4 \/ z - 4 <= w
      BY <1>3, <2>1, <2>2
    <2> QED
      BY <1>2, <2>3
  <1> QED
    BY <1>3 DEF Keeps, n

(* Retagging block b, allocated or free, and nothing else.                 *)
LEMMA Retag ==
  ASSUME NEW m \in [WordAddr -> Nat], NEW brk, NEW S, Tiling(m, brk, S),
         NEW b \in S \ {heap_listp, brk}, NEW a \in {0, 1}, NEW n,
         n = PutTags(m, b, PACK(GET_SIZE(m, HDRP(b)), a))
  PROVE  /\ n \in [WordAddr -> Nat] /\ Tiling(n, brk, S)
         /\ GET_ALLOC(n, HDRP(b)) = a
         /\ GET_SIZE(n, HDRP(b)) = GET_SIZE(m, HDRP(b))
         /\ NEXT_BLKP(n, b) = NEXT_BLKP(m, b)
         /\ \A q \in S : q # b => n[q - 4] = m[q - 4]
         /\ \A q \in S \ {brk} : NEXT_BLKP(n, q) = NEXT_BLKP(m, q)
         /\ \A w \in WordAddr :
              w < b - 4 \/ NEXT_BLKP(m, b) - 4 <= w => n[w] = m[w]
  <1>1. PICK e \in S : e = NEXT_BLKP(m, b)
    BY TilingBlock
  <1>2. /\ e \in Nat /\ e % 8 = 0 /\ b + 16 <= e /\ e - 8 \in WordAddr
        /\ b \in Nat /\ b % 8 = 0 /\ b - 4 \in WordAddr
    BY <1>1, TilingBlock, TilingAddrs
  <1>3. GET_SIZE(m, HDRP(b)) = e - b
    <2>1. e = b + GET_SIZE(m, HDRP(b)) /\ GET_SIZE(m, HDRP(b)) \in Nat
      BY <1>1, TilingBlock
    <2> QED
      BY <1>2, <2>1
  <1>4. PICK v \in Nat : v = (e - b) + a
    <2>1. e - b \in Nat
      BY <1>2
    <2> QED
      BY <2>1
  <1>5. n = PUT(PUT(m, b - 4, v), e - 8, v)
    <2>1. PutTags(m, b, (e - b) + a) = PUT(PUT(m, b - 4, (e - b) + a), e - 8, (e - b) + a)
      BY <1>2, PutTagsWords
    <2> QED
      BY <1>3, <1>4, <2>1 DEF PACK
  <1>6. /\ n \in [WordAddr -> Nat] /\ n[b - 4] = v /\ n[e - 8] = v
        /\ \A w \in WordAddr : w < b - 4 \/ e - 4 <= w => n[w] = m[w]
    BY <1>2, <1>5, TagsOf
  <1>7. n[b - 4] = (e - b) + a /\ n[e - 8] = (e - b) + a /\ b < e
    BY <1>2, <1>4, <1>6
  <1>8. \A q \in S : q <= b \/ e <= q
    BY <1>1, TilingAddrs
  <1>9. Outside(S, b, e) = S
    BY <1>8 DEF Outside
  <1>10. /\ Tiling(n, brk, S) /\ NEXT_BLKP(n, b) = e
         /\ GET_SIZE(n, HDRP(b)) = e - b /\ GET_ALLOC(n, HDRP(b)) = a
         /\ \A q \in S \ {brk} : q < b \/ e <= q =>
              n[q - 4] = m[q - 4] /\ NEXT_BLKP(n, q) = NEXT_BLKP(m, q)
    BY <1>6, <1>7, <1>9, Fuse
  <1>11. \A q \in S : q # b => q < b \/ e <= q
    <2> SUFFICES ASSUME NEW q \in S, q # b PROVE q < b \/ e <= q
      OBVIOUS
    <2>1. q \in Nat /\ (q <= b \/ e <= q)
      BY <1>8, TilingAddrs
    <2> QED
      BY <1>2, <2>1
  <1>12. \A q \in S : q # b => n[q - 4] = m[q - 4]
    <2> SUFFICES ASSUME NEW q \in S, q # b PROVE n[q - 4] = m[q - 4]
      OBVIOUS
    <2>1. q \in Nat /\ q - 4 \in WordAddr /\ (q < b \/ e <= q)
      BY <1>11, TilingAddrs
    <2>2. q - 4 < b - 4 \/ e - 4 <= q - 4
      BY <1>2, <2>1
    <2> QED
      BY <1>6, <2>1, <2>2
  <1>13. \A q \in S \ {brk} : NEXT_BLKP(n, q) = NEXT_BLKP(m, q)
    BY <1>1, <1>10, <1>11
  <1> QED
    BY <1>1, <1>3, <1>6, <1>10, <1>12, <1>13

(* mm_free(b): the other allocated blocks stay as they are.                *)
Freed(m, brk, S, b, n) ==
  /\ n \in [WordAddr -> Nat] /\ Keeps(m, n, brk, S, b)
  /\ \E T \in SUBSET S :
       /\ Tiling(n, brk, T) /\ Coalesced(n, brk, T)
       /\ \A q \in S : q # b /\ ~IsFree(m, q) => q \in T /\ n[q - 4] = m[q - 4]
       /\ \A q \in T : ~IsFree(n, q) => q # b /\ ~IsFree(m, q)

(* mm_free: tagging a block free and coalescing it leaves a tiling without *)
(* free neighbours, in which every other allocated block is where it was.  *)
LEMMA Free ==
  ASSUME NEW m \in [WordAddr -> Nat], NEW brk, NEW S, Tiling(m, brk, S),
         Coalesced(m, brk, S), NEW b \in S \ {heap_listp, brk}
  PROVE  Freed(m, brk, S, b, mm_free(m, b))
  <1> DEFINE h == PutTags(m, b, PACK(GET_SIZE(m, HDRP(b)), 0))
  <1>1. /\ h \in [WordAddr -> Nat] /\ Tiling(h, brk, S)
        /\ GET_ALLOC(h, HDRP(b)) = 0
        /\ \A q \in S : q # b => h[q - 4] = m[q - 4]
        /\ \A q \in S \ {brk} : NEXT_BLKP(h, q) = NEXT_BLKP(m, q)
        /\ \A w \in WordAddr :
             w < b - 4 \/ NEXT_BLKP(m, b) - 4 <= w => h[w] = m[w]
    BY Retag
  <1>2. mm_free(m, b) = coalesce(h, b).mem
    BY DEF mm_free
  <1> HIDE DEF h
  <1>3. \A q \in S : q # b => (IsFree(h, q) <=> IsFree(m, q))
    BY <1>1 DEF IsFree, GET_ALLOC, HDRP, WSIZE
  <1>4. CoalescedBut(h, brk, S, b)
    <2> SUFFICES ASSUME NEW q \in S \ {brk}, q # b, NEXT_BLKP(h, q) # b
                 PROVE  ~IsFree(h, q) \/ ~IsFree(h, NEXT_BLKP(h, q))
      BY DEF CoalescedBut
    <2>1. NEXT_BLKP(m, q) \in S /\ NEXT_BLKP(h, q) = NEXT_BLKP(m, q)
      BY <1>1, TilingBlock
    <2>2. q # NULL /\ NEXT_BLKP(m, q) # NULL
      BY <2>1, TilingAddrs, BlockPtrAddrs
    <2>3. ~IsFree(m, q) \/ ~IsFree(m, NEXT_BLKP(m, q))
      BY <2>2 DEF Coalesced, CoalescedBut
    <2> QED
      BY <1>3, <2>1, <2>3
  <1>5. IsFree(h, b)
    BY <1>1 DEF IsFree
  <1> DEFINE n == coalesce(h, b).mem
             p == coalesce(h, b).bp
  <1>6. /\ n \in [WordAddr -> Nat]
        /\ \E T \in SUBSET S :
             /\ Tiling(n, brk, T) /\ Coalesced(n, brk, T) /\ IsFree(n, p)
             /\ \A q \in S : ~IsFree(h, q) => q \in T /\ n[q - 4] = h[q - 4]
             /\ \A q \in T : q # p => n[q - 4] = h[q - 4]
    BY <1>1, <1>4, <1>5, Coalesce
  <1> HIDE DEF n, p
  <1>7. PICK T \in SUBSET S :
             /\ Tiling(n, brk, T) /\ Coalesced(n, brk, T) /\ IsFree(n, p)
             /\ \A q \in S : ~IsFree(h, q) => q \in T /\ n[q - 4] = h[q - 4]
             /\ \A q \in T : q # p => n[q - 4] = h[q - 4]
    BY <1>6
  <1>8. \A q \in S : q # b /\ ~IsFree(m, q) => q \in T /\ n[q - 4] = m[q - 4]
    BY <1>1, <1>3, <1>7
  <1>81. ASSUME NEW q \in T, ~IsFree(n, q) PROVE q # b /\ ~IsFree(m, q)
    <2>1. n[q - 4] = h[q - 4]
      BY <1>7, <1>81
    <2>2. ~IsFree(h, q)
      BY <1>81, <2>1 DEF IsFree, GET_ALLOC, HDRP, WSIZE
    <2> QED
      BY <1>3, <1>5, <2>2
  <1>9. Keeps(m, n, brk, S, b)
    <2>1. Keeps(m, h, brk, S, b)
      BY <1>1, KeepsOthers
    <2>2. Keeps(h, n, brk, S, b)
      BY <1>1, <1>4, <1>5, CoalesceKeeps DEF n
    <2> QED
      BY <1>1, <1>3, <2>1, <2>2 DEF Keeps
  <1> QED
    BY <1>2, <1>6, <1>7, <1>8, <1>81, <1>9 DEF n, Freed

(* place: b becomes allocated and keeps at least asize bytes; what is left *)
(* of it becomes a free block whose neighbours are allocated.              *)
Allotted(m, brk, S, b, asize, n) ==
  /\ n \in [WordAddr -> Nat] /\ Keeps(m, n, brk, S, b)
  /\ \E T \in SUBSET BlockPtrs :
       /\ Tiling(n, brk, T) /\ Coalesced(n, brk, T)
       /\ S \subseteq T /\ ~IsFree(n, b)
       /\ asize <= GET_SIZE(n, HDRP(b))
       /\ \A q \in S : q # b => n[q - 4] = m[q - 4]
       /\ \A q \in T \ S : IsFree(n, q)

(* place, on a free block that is big enough: the block is allocated, with *)
(* asize bytes or more, and the remainder is a free block of its own.      *)
LEMMA Place ==
  ASSUME NEW m \in [WordAddr -> Nat], NEW brk, NEW S, Tiling(m, brk, S),
         Coalesced(m, brk, S), NEW b \in S \ {heap_listp, brk}, IsFree(m, b),
         NEW asize \in Nat, asize % 8 = 0, asize >= 16,
         asize <= GET_SIZE(m, HDRP(b)),
         NEW n, n = place(m, b, asize)
  PROVE  Allotted(m, brk, S, b, asize, n)
  <1>1. PICK e \in Nat : e \in S /\ e = NEXT_BLKP(m, b)
    BY TilingBlock
  <1>2. /\ e \in Nat /\ e % 8 = 0 /\ b + 16 <= e /\ e - 8 \in WordAddr
        /\ e <= mem_max_addr
        /\ b \in Nat /\ b % 8 = 0 /\ b - 4 \in WordAddr /\ heap_listp \in Nat
        /\ heap_listp <= b
    BY <1>1, TilingBlock, TilingAddrs
  <1>3. GET_SIZE(m, HDRP(b)) = e - b
    <2>1. e = b + GET_SIZE(m, HDRP(b)) /\ GET_SIZE(m, HDRP(b)) \in Nat
      BY <1>1, TilingBlock
    <2> QED
      BY <1>2, <2>1
  <1>4. S \subseteq BlockPtrs
    BY TilingAddrs
  <1>5. \A q \in S \ {brk} : ~IsFree(m, q) \/ ~IsFree(m, NEXT_BLKP(m, q))
    <2> SUFFICES ASSUME NEW q \in S \ {brk}
                 PROVE  ~IsFree(m, q) \/ ~IsFree(m, NEXT_BLKP(m, q))
      OBVIOUS
    <2>1. q # NULL /\ NEXT_BLKP(m, q) # NULL
      BY <1>4, TilingBlock, BlockPtrAddrs
    <2> QED
      BY <2>1 DEF Coalesced, CoalescedBut
  <1>6. CASE (e - b) - asize < 16
    <2>1. n = PutTags(m, b, PACK(GET_SIZE(m, HDRP(b)), 1))
      <3>1. ~((e - b) - asize >= 16)
        BY <1>2, <1>6
      <3> QED
        BY <1>3, <3>1 DEF place, DSIZE, OVERHEAD
    <2>2. /\ n \in [WordAddr -> Nat] /\ Tiling(n, brk, S)
          /\ GET_ALLOC(n, HDRP(b)) = 1
          /\ GET_SIZE(n, HDRP(b)) = GET_SIZE(m, HDRP(b))
          /\ \A q \in S : q # b => n[q - 4] = m[q - 4]
          /\ \A q \in S \ {brk} : NEXT_BLKP(n, q) = NEXT_BLKP(m, q)
          /\ \A w \in WordAddr :
               w < b - 4 \/ NEXT_BLKP(m, b) - 4 <= w => n[w] = m[w]
      BY <2>1, Retag
    <2>21. Keeps(m, n, brk, S, b)
      BY <2>2, KeepsOthers
    <2>3. ~IsFree(n, b)
      BY <2>2 DEF IsFree
    <2>4. \A q \in S : ~IsFree(m, q) => ~IsFree(n, q)
      BY <2>2, <2>3 DEF IsFree, GET_ALLOC, HDRP, WSIZE
    <2>5. Coalesced(n, brk, S)
      <3> SUFFICES ASSUME NEW q \in S \ {brk}
                   PROVE  ~IsFree(n, q) \/ ~IsFree(n, NEXT_BLKP(n, q))
        BY DEF Coalesced, CoalescedBut
      <3>1. NEXT_BLKP(m, q) \in S
        BY TilingBlock
      <3> QED
        BY <1>5, <2>2, <2>4, <3>1
    <2> QED
      BY <1>4, <2>2, <2>21, <2>3, <2>5 DEF Allotted
  <1>7. CASE (e - b) - asize >= 16
    <2> DEFINE front == PutTags(m, b, PACK(asize, 1))
    <2>0. PICK x \in Nat : x = b + asize
      BY <1>2
    <2>1. /\ x \in Nat /\ x % 8 = 0 /\ b + 16 <= x /\ x + 16 <= e
          /\ asize = x - b /\ (e - b) - asize = e - x
          /\ e - x \in Nat /\ x - b \in Nat
      <3>1. x % 8 = 0
        BY <1>2, <2>0, SumArith
      <3> QED
        BY <1>2, <1>7, <2>0, <3>1
    <2>2. x \in BlockPtrs
      BY <1>2, <2>1, Area DEF BlockPtrs, DSIZE
    <2>3. x - 4 \in WordAddr /\ x - 8 \in WordAddr
      BY <2>2, BlockPtrAddrs
    <2>4. PICK v \in Nat : v = (x - b) + 1
      BY <2>1
    <2>5. front = PUT(PUT(m, b - 4, v), x - 8, v)
      <3>1. PutTags(m, b, (x - b) + 1) = PUT(PUT(m, b - 4, (x - b) + 1), x - 8, (x - b) + 1)
        BY <1>2, <2>1, <2>3, PutTagsWords
      <3> QED
        BY <2>1, <2>4, <3>1 DEF PACK
    <2> HIDE DEF front
    <2>6. /\ front \in [WordAddr -> Nat] /\ front[b - 4] = v /\ front[x - 8] = v
          /\ \A w \in WordAddr : w < b - 4 \/ x - 4 <= w => front[w] = m[w]
      BY <1>2, <2>1, <2>3, <2>5, TagsOf
    <2>7. NEXT_BLKP(front, b) = x
      <3>1. front[b - 4] = (x - b) + 1 /\ front[x - 8] = (x - b) + 1 /\ x <= mem_max_addr
        BY <2>2, <2>4, <2>6, BlockPtrAddrs
      <3>2. PICK a \in {0, 1} : a = 1
        OBVIOUS
      <3>3. b \in Nat /\ b % 8 = 0 /\ x \in Nat /\ x % 8 = 0 /\ b + 16 <= x
        BY <1>2, <2>1
      <3>4. front[b - 4] = (x - b) + a /\ front[x - 8] = (x - b) + a
        BY <3>1, <3>2
      <3> QED
        BY <2>6, <3>1, <3>3, <3>4, Tagged
    <2>8. n = PutTags(front, x, PACK(e - x, 0))
      BY <1>3, <1>7, <2>1, <2>7 DEF place, DSIZE, OVERHEAD, front
    <2>81. PICK f \in [WordAddr -> Nat] : f = front
      BY <2>6
    <2>82. /\ n = PutTags(f, x, PACK(e - x, 0))
           /\ f[b - 4] = v /\ f[x - 8] = v
           /\ \A w \in WordAddr : w < b - 4 \/ x - 4 <= w => f[w] = m[w]
      BY <2>6, <2>8, <2>81
    <2>9. PICK u \in Nat : u = (e - x) + 0
      BY <2>1
    <2>10. n = PUT(PUT(f, x - 4, u), e - 8, u)
      <3>1. PutTags(f, x, (e - x) + 0)
              = PUT(PUT(f, x - 4, (e - x) + 0), e - 8, (e - x) + 0)
        BY <1>2, <2>1, <2>3, PutTagsWords
      <3> QED
        BY <2>82, <2>9, <3>1 DEF PACK
    <2>11. /\ n \in [WordAddr -> Nat] /\ n[x - 4] = u /\ n[e - 8] = u
           /\ \A w \in WordAddr : w < x - 4 \/ e - 4 <= w => n[w] = f[w]
      <3>1. /\ f \in [WordAddr -> Nat] /\ x \in Nat /\ e \in Nat /\ x + 16 <= e
            /\ x - 4 \in WordAddr /\ e - 8 \in WordAddr /\ u \in Nat
            /\ n = PUT(PUT(f, x - 4, u), e - 8, u)
        BY <1>2, <2>1, <2>3, <2>10
      <3> QED
        BY <3>1, TagsOf
    <2>12. n[b - 4] = v /\ n[x - 8] = v
      <3>1. b - 4 < x - 4 /\ x - 8 < x - 4
        BY <1>2, <2>1
      <3> QED
        BY <1>2, <2>3, <2>82, <2>11, <3>1
    <2>13. \A w \in WordAddr : w < b - 4 \/ e - 4 <= w => n[w] = m[w]
      <3> SUFFICES ASSUME NEW w \in WordAddr, w < b - 4 \/ e - 4 <= w
                   PROVE  n[w] = m[w]
        OBVIOUS
      <3>1. w \in Int
        BY Area DEF WordAddr
      <3>2. (w < x - 4 \/ e - 4 <= w) /\ (w < b - 4 \/ x - 4 <= w)
        BY <1>2, <2>1, <3>1
      <3> QED
        BY <2>82, <2>11, <3>2
    <2>14. /\ n[b - 4] = (x - b) + 1 /\ n[x - 8] = (x - b) + 1
           /\ n[x - 4] = (e - x) + 0 /\ n[e - 8] = (e - x) + 0
      BY <2>4, <2>9, <2>11, <2>12
    <2>15. /\ Tiling(n, brk, S \cup {x})
           /\ NEXT_BLKP(n, b) = x /\ NEXT_BLKP(n, x) = e
           /\ GET_SIZE(n, HDRP(b)) = x - b
           /\ GET_ALLOC(n, HDRP(b)) = 1 /\ x \notin S
           /\ \A q \in S \ {brk, b} : /\ n[q - 4] = m[q - 4]
                                     /\ NEXT_BLKP(n, q) = NEXT_BLKP(m, q)
      <3>1. PICK g \in [WordAddr -> Nat] : g = n
        BY <2>11
      <3>2. PICK y \in BlockPtrs : y = x
        BY <2>2
      <3>21. PICK d \in S : d = e /\ NEXT_BLKP(m, b) = d
        BY <1>1
      <3>3. CutAt(m, g, b, y, d)
        BY <2>1, <3>21, <2>2, <2>4, <2>9, <2>11, <2>12, <2>13, <3>1, <3>2 DEF CutAt
      <3>31. NEXT_BLKP(m, b) = d
        BY <3>21
      <3>4. CutInto(m, g, brk, S, b, y, d)
        BY <3>3, <3>31, Split
      <3> QED
        BY <3>1, <3>2, <3>21, <3>4 DEF CutInto
    <2> DEFINE T == S \cup {x}
    <2>151. Tiling(n, brk, T)
      BY <2>15
    <2>16. n[brk - 4] = m[brk - 4]
      <3>1. brk \in Nat /\ brk - 4 \in WordAddr /\ e <= brk
        BY <1>1, TilingAddrs
      <3>2. e - 4 <= brk - 4
        BY <1>2, <3>1
      <3> QED
        BY <2>13, <3>1, <3>2
    <2>17. \A q \in S : q # b => n[q - 4] = m[q - 4]
      BY <2>15, <2>16
    <2>18. ~IsFree(n, b)
      BY <2>15 DEF IsFree
    <2>19. \A q \in S : ~IsFree(m, q) => ~IsFree(n, q)
      BY <2>17, <2>18 DEF IsFree, GET_ALLOC, HDRP, WSIZE
    <2>20. Coalesced(n, brk, T)
      <3> SUFFICES ASSUME NEW q \in T \ {brk}
                   PROVE  ~IsFree(n, q) \/ ~IsFree(n, NEXT_BLKP(n, q))
        BY DEF Coalesced, CoalescedBut
      <3>1. CASE q = x
        <4>1. ~IsFree(n, e)
          BY <1>1, <1>5, <2>19
        <4> QED
          BY <2>15, <3>1, <4>1
      <3>2. CASE q = b
        BY <2>18, <3>2
      <3>3. CASE q \in S \ {brk, b}
        <4>1. NEXT_BLKP(m, q) \in S
          BY <3>3, TilingBlock
        <4> QED
          BY <1>5, <2>15, <2>19, <3>3, <4>1
      <3> QED
        BY <3>1, <3>2, <3>3
    <2>21. asize <= GET_SIZE(n, HDRP(b))
      BY <2>1, <2>15
    <2>22. T \in SUBSET BlockPtrs /\ S \subseteq T
      BY <1>4, <2>2
    <2>23. Keeps(m, n, brk, S, b)
      BY <1>1, <2>13, KeepsOthers
    <2>24. IsFree(n, x)
      <3>1. n[x - 4] = e - x /\ (e - x) % 8 = 0 /\ x \in Nat
        BY <1>2, <2>1, <2>14, SumArith
      <3> QED
        BY <3>1 DEF IsFree, GET_ALLOC, HDRP, WSIZE
    <2>25. \A q \in T \ S : IsFree(n, q)
      BY <2>24
    <2> HIDE DEF T
    <2> QED
      BY <2>11, <2>151, <2>17, <2>18, <2>20, <2>21, <2>22, <2>23, <2>25 DEF Allotted
  <1> QED
    BY <1>2, <1>6, <1>7

(* extend_heap asks for no more than a size that is doubleword aligned.    *)
LEMMA EvenWords ==
  \A s \in Nat : s % 8 = 0 => ExtendSize(s \div WSIZE) = s
  BY DEF ExtendSize, WSIZE

(* extend_heap: the new epilogue lies at the new break, and the block      *)
(* returned has at least the bytes asked for.                              *)
Extended(m, brk, S, size, n, p) ==
  /\ n \in [WordAddr -> Nat] /\ Keeps(m, n, brk, S, brk)
  /\ \E T \in SUBSET BlockPtrs :
       /\ Tiling(n, brk + size, T) /\ Coalesced(n, brk + size, T)
       /\ p \in T \ {heap_listp, brk + size} /\ IsFree(n, p)
       /\ size <= GET_SIZE(n, HDRP(p))
       /\ \A q \in S \ {brk} : ~IsFree(m, q) => q \in T /\ n[q - 4] = m[q - 4]
       /\ brk + size \notin S
       /\ \A q \in T \ {brk + size, p} :
            q \in S \ {brk} /\ q < p /\ n[q - 4] = m[q - 4]

(* extend_heap does what Extended says, when mem_sbrk has granted the area. *)
LEMMA Extend ==
  ASSUME NEW m \in [WordAddr -> Nat], NEW brk, NEW S, Tiling(m, brk, S),
         Coalesced(m, brk, S), NEW size \in Nat, size % 8 = 0, size >= 16,
         brk + size <= mem_max_addr,
         NEW n, NEW p, n = extend_heap(m, brk, size \div WSIZE).mem,
         p = extend_heap(m, brk, size \div WSIZE).bp
  PROVE  Extended(m, brk, S, size, n, p)
  <1> DEFINE z == brk + size
             freed == PutTags(m, brk, PACK(size, 0))
             h == PUT(freed, HDRP(NEXT_BLKP(freed, brk)), PACK(0, 1))
  <1>1. /\ S \subseteq BlockPtrs /\ brk \in S /\ heap_listp \in Nat /\ heap_listp < brk
        /\ brk \in Nat /\ brk % 8 = 0 /\ brk - 4 \in WordAddr
    BY TilingAddrs
  <1>2. /\ z \in Nat /\ z % 8 = 0 /\ brk + 16 <= z /\ z <= mem_max_addr
        /\ size = z - brk /\ z - brk \in Nat
    <2>1. z % 8 = 0
      BY <1>1, SumArith
    <2> QED
      BY <1>1, <2>1
  <1>3. z \in BlockPtrs
    BY <1>1, <1>2, Area DEF BlockPtrs, DSIZE
  <1>4. z - 4 \in WordAddr /\ z - 8 \in WordAddr
    BY <1>3, BlockPtrAddrs
  <1>5. n = coalesce(h, brk).mem /\ p = coalesce(h, brk).bp
    BY EvenWords DEF extend_heap
  <1> HIDE DEF z
  <1>6. PICK v \in Nat : v = z - brk /\ v = (z - brk) + 0
    BY <1>1, <1>2
  <1>7. freed = PUT(PUT(m, brk - 4, v), z - 8, v)
    <2>1. PutTags(m, brk, (z - brk) + 0)
            = PUT(PUT(m, brk - 4, (z - brk) + 0), z - 8, (z - brk) + 0)
      BY <1>1, <1>2, <1>4, PutTagsWords
    <2> QED
      BY <1>2, <1>6, <2>1 DEF PACK
  <1> HIDE DEF freed
  <1>8. /\ freed \in [WordAddr -> Nat] /\ freed[brk - 4] = v /\ freed[z - 8] = v
        /\ \A w \in WordAddr : w < brk - 4 \/ z - 4 <= w => freed[w] = m[w]
    BY <1>1, <1>2, <1>4, <1>7, TagsOf
  <1>9. NEXT_BLKP(freed, brk) = z
    <2>1. freed[brk - 4] = (z - brk) + 0 /\ freed[z - 8] = (z - brk) + 0
      BY <1>6, <1>8
    <2> QED
      BY <1>1, <1>2, <1>8, <2>1, Tagged
  <1>10. h = [freed EXCEPT ![z - 4] = 1]
    BY <1>9 DEF PUT, PACK, HDRP, WSIZE
  <1> HIDE DEF h
  <1>11. /\ h \in [WordAddr -> Nat] /\ h[z - 4] = 1
         /\ \A w \in WordAddr : w # z - 4 => h[w] = freed[w]
    BY <1>4, <1>8, <1>10
  <1>12. h[brk - 4] = z - brk /\ h[z - 8] = z - brk
    <2>1. brk - 4 # z - 4 /\ z - 8 # z - 4
      BY <1>1, <1>2
    <2> QED
      BY <1>1, <1>4, <1>6, <1>8, <1>11, <2>1
  <1>13. \A w \in WordAddr : w < brk - 4 => h[w] = m[w]
    <2> SUFFICES ASSUME NEW w \in WordAddr, w < brk - 4 PROVE h[w] = m[w]
      OBVIOUS
    <2>1. w \in Int
      BY Area DEF WordAddr
    <2>2. w # z - 4
      BY <1>1, <1>2, <2>1
    <2> QED
      BY <1>8, <1>11, <2>2
  <1>14. /\ Tiling(h, z, S \cup {z}) /\ z \notin S
         /\ GET_SIZE(h, HDRP(brk)) = z - brk /\ NEXT_BLKP(h, brk) = z
         /\ GET_ALLOC(h, HDRP(brk)) = 0
         /\ \A q \in S \ {brk} : /\ h[q - 4] = m[q - 4]
                                 /\ NEXT_BLKP(h, q) = NEXT_BLKP(m, q)
    <2>1. PICK g \in [WordAddr -> Nat] : g = h
      BY <1>11
    <2>11. PICK k \in BlockPtrs : k = z
      BY <1>3
    <2>2. /\ brk + 16 <= k
          /\ g[brk - 4] = k - brk /\ g[k - 8] = k - brk /\ g[k - 4] = 1
      BY <1>2, <1>3, <1>11, <1>12, <2>1, <2>11
    <2>3. \A w \in WordAddr : w < brk - 4 => g[w] = m[w]
      BY <1>13, <2>1
    <2>4. /\ Tiling(g, k, S \cup {k}) /\ k \notin S
          /\ NEXT_BLKP(g, brk) = k /\ GET_SIZE(g, HDRP(brk)) = k - brk
          /\ GET_ALLOC(g, HDRP(brk)) = 0
          /\ \A q \in S \ {brk} : /\ g[q - 4] = m[q - 4]
                                  /\ NEXT_BLKP(g, q) = NEXT_BLKP(m, q)
      BY <2>2, <2>3, Grow
    <2> QED
      BY <2>1, <2>11, <2>4
  <1> DEFINE R == S \cup {z}
  <1>141. Tiling(h, z, R)
    BY <1>14
  <1>15. \A q \in S \ {brk} : IsFree(h, q) <=> IsFree(m, q)
    BY <1>14 DEF IsFree, GET_ALLOC, HDRP, WSIZE
  <1>16. CoalescedBut(h, z, R, brk)
    <2> SUFFICES ASSUME NEW q \in S \ {brk}, NEXT_BLKP(h, q) # brk
                 PROVE  ~IsFree(h, q) \/ ~IsFree(h, NEXT_BLKP(h, q))
      BY DEF CoalescedBut
    <2>1. NEXT_BLKP(m, q) \in S \ {brk}
      BY <1>14, TilingBlock
    <2>2. q \in BlockPtrs /\ NEXT_BLKP(m, q) \in BlockPtrs
      BY <1>1, <2>1
    <2>21. q > NULL /\ NEXT_BLKP(m, q) > NULL /\ NULL \in Int
      BY <2>2, BlockPtrAddrs DEF NULL
    <2>22. q # NULL /\ NEXT_BLKP(m, q) # NULL
      BY <2>21 DEF NULL
    <2>3. ~IsFree(m, q) \/ ~IsFree(m, NEXT_BLKP(m, q))
      BY <2>22 DEF Coalesced, CoalescedBut
    <2> QED
      BY <1>14, <1>15, <2>1, <2>3
  <1>17. brk \in R \ {heap_listp, z} /\ IsFree(h, brk)
    BY <1>1, <1>14 DEF IsFree
  <1> HIDE DEF R
  <1> DEFINE nn == coalesce(h, brk).mem
             pp == coalesce(h, brk).bp
  <1>18. /\ nn \in [WordAddr -> Nat]
         /\ \E T \in SUBSET R :
             /\ Tiling(nn, z, T) /\ Coalesced(nn, z, T)
             /\ pp \in T \ {heap_listp, z} /\ IsFree(nn, pp)
             /\ GET_SIZE(h, HDRP(brk)) <= GET_SIZE(nn, HDRP(pp))
             /\ \A q \in R : ~IsFree(h, q) => q \in T /\ nn[q - 4] = h[q - 4]
             /\ pp <= brk
             /\ \A q \in T : q # pp =>
                  nn[q - 4] = h[q - 4] /\ (q < pp \/ NEXT_BLKP(h, brk) <= q)
    BY <1>11, <1>141, <1>16, <1>17, Coalesce
  <1>19. n = nn /\ p = pp
    BY <1>5
  <1> HIDE DEF nn, pp
  <1>20. PICK T \in SUBSET R :
             /\ Tiling(nn, z, T) /\ Coalesced(nn, z, T)
             /\ pp \in T \ {heap_listp, z} /\ IsFree(nn, pp)
             /\ GET_SIZE(h, HDRP(brk)) <= GET_SIZE(nn, HDRP(pp))
             /\ \A q \in R : ~IsFree(h, q) => q \in T /\ nn[q - 4] = h[q - 4]
             /\ pp <= brk
             /\ \A q \in T : q # pp =>
                  nn[q - 4] = h[q - 4] /\ (q < pp \/ NEXT_BLKP(h, brk) <= q)
    BY <1>18
  <1>21. \A q \in S \ {brk} : ~IsFree(m, q) => q \in T /\ n[q - 4] = m[q - 4]
    BY <1>14, <1>15, <1>19, <1>20 DEF R
  <1>22. T \in SUBSET BlockPtrs
    BY <1>1, <1>3 DEF R
  <1>23. Keeps(m, n, brk, S, brk)
    <2>1. Keeps(h, nn, z, R, brk)
      BY <1>11, <1>141, <1>16, <1>17, CoalesceKeeps DEF nn
    <2> SUFFICES ASSUME NEW q \in S \ {brk}, ~IsFree(m, q), NEW w \in WordAddr,
                        q <= w, w < NEXT_BLKP(m, q) - 8
                 PROVE  n[w] = m[w]
      BY DEF Keeps
    <2>2. q \in R \ {z, brk} /\ ~IsFree(h, q) /\ NEXT_BLKP(h, q) = NEXT_BLKP(m, q)
      BY <1>14, <1>15 DEF R
    <2>3. nn[w] = h[w]
      BY <2>1, <2>2 DEF Keeps
    <2>4. NEXT_BLKP(m, q) \in Nat /\ NEXT_BLKP(m, q) <= brk /\ w \in Int
      <3>1. w \in Int
        BY Area DEF WordAddr
      <3>2. NEXT_BLKP(m, q) \in S /\ NEXT_BLKP(m, q) \in Nat
        BY TilingBlock
      <3> QED
        BY <3>1, <3>2, TilingAddrs
    <2>5. w < brk - 4
      BY <1>1, <2>4
    <2> QED
      BY <1>13, <1>19, <2>3, <2>5
  <1>24. ASSUME NEW q \in T \ {z, p}
         PROVE  q \in S \ {brk} /\ q < p /\ n[q - 4] = m[q - 4]
    <2>1. q \in S /\ q \in Nat /\ q <= brk
      BY TilingAddrs DEF R
    <2>2. nn[q - 4] = h[q - 4] /\ (q < pp \/ z <= q) /\ pp <= brk
      BY <1>14, <1>19, <1>20
    <2>3. pp \in Nat
      BY <1>3, <1>20, BlockPtrAddrs, TilingAddrs DEF R
    <2>4. q < pp /\ q # brk
      BY <1>1, <1>2, <2>1, <2>2, <2>3
    <2> QED
      BY <1>14, <1>19, <2>1, <2>2, <2>4
  <1> QED
    BY <1>2, <1>14, <1>18, <1>19, <1>20, <1>21, <1>22, <1>23, <1>24 DEF z, Extended

(* The four words mm_init writes: a prologue and an epilogue.              *)
FirstWords(m) ==
  PUT(PUT(PUT(PUT(m, mem_start_brk, 0),
              mem_start_brk + WSIZE, PACK(OVERHEAD, 1)),
          mem_start_brk + DSIZE, PACK(OVERHEAD, 1)),
      mem_start_brk + WSIZE + DSIZE, PACK(0, 1))

(* The first four words mm_init writes: prologue and epilogue, no block.   *)
LEMMA EmptyHeap ==
  ASSUME NEW m \in [WordAddr -> Nat], NEW n, n = FirstWords(m),
         NEW a \in Nat, a = mem_start_brk
  PROVE  /\ n \in [WordAddr -> Nat]
         /\ Tiling(n, a + 16, {a + 8, a + 16})
         /\ Coalesced(n, a + 16, {a + 8, a + 16})
  <1>1. /\ a % 8 = 0 /\ a > 0 /\ a + 16 <= mem_max_addr /\ mem_max_addr \in Nat
        /\ heap_listp = a + 8
    BY Area DEF heap_listp, DSIZE
  <1>2. (a + 8) % 8 = 0 /\ (a + 16) % 8 = 0 /\ a % 4 = 0 /\ (a + 4) % 4 = 0
        /\ (a + 8) % 4 = 0 /\ (a + 12) % 4 = 0
    BY <1>1
  <1>3. a + 8 \in BlockPtrs /\ a + 16 \in BlockPtrs
    BY <1>1, <1>2 DEF BlockPtrs, DSIZE
  <1>4. a \in WordAddr /\ a + 4 \in WordAddr /\ a + 8 \in WordAddr /\ a + 12 \in WordAddr
    BY <1>1, <1>2 DEF WordAddr, WSIZE
  <1>5. n = [[[[m EXCEPT ![a] = 0] EXCEPT ![a + 4] = 9]
                 EXCEPT ![a + 8] = 9] EXCEPT ![a + 12] = 1]
    <2>1. a + WSIZE = a + 4 /\ a + DSIZE = a + 8 /\ a + WSIZE + DSIZE = a + 12
      BY DEF WSIZE, DSIZE
    <2>2. PACK(OVERHEAD, 1) = 9 /\ PACK(0, 1) = 1
      BY DEF PACK, OVERHEAD
    <2> QED
      BY <2>1, <2>2 DEF FirstWords, PUT
  <1>6. n \in [WordAddr -> Nat] /\ n[a + 4] = 9 /\ n[a + 8] = 9 /\ n[a + 12] = 1
    <2>1. a # a + 4 /\ a + 4 # a + 8 /\ a + 4 # a + 12 /\ a + 8 # a + 12
      OBVIOUS
    <2> QED
      BY <1>4, <1>5, <2>1
  <1>7. HDRP(a + 8) = a + 4 /\ HDRP(a + 16) = a + 12
    BY DEF HDRP, WSIZE
  <1>8. /\ NEXT_BLKP(n, a + 8) = a + 16 /\ FTRP(n, a + 8) = a + 8
        /\ GET_SIZE(n, HDRP(a + 8)) = 8 /\ GET_ALLOC(n, HDRP(a + 8)) = 1
    BY <1>6, <1>7 DEF NEXT_BLKP, FTRP, GET_SIZE, GET_ALLOC, DSIZE
  <1>9. WellTagged(n, a + 8)
    BY <1>1, <1>6, <1>7, <1>8 DEF WellTagged, DSIZE
  <1>10. n[HDRP(heap_listp)] = PACK(DSIZE, 1) /\ n[HDRP(a + 16)] = PACK(0, 1)
    BY <1>1, <1>6, <1>7 DEF PACK, DSIZE
  <1> DEFINE S == {a + 8, a + 16}
  <1>11. S \ {a + 16} = {a + 8} /\ S \ {heap_listp} = {a + 16}
    BY <1>1
  <1>12. Tiling(n, a + 16, S)
    <2>1. S \subseteq BlockPtrs /\ \A p \in S : p <= a + 16
      BY <1>3
    <2>2. heap_listp \in S /\ a + 16 \in S /\ heap_listp < a + 16
      BY <1>1
    <2>3. \A p \in S \ {a + 16} : WellTagged(n, p) /\ NEXT_BLKP(n, p) \in S
      BY <1>8, <1>9, <1>11
    <2>4. \A p \in S \ {a + 16}, q \in S : q <= p \/ NEXT_BLKP(n, p) <= q
      BY <1>8, <1>11
    <2>5. \A q \in S \ {heap_listp} : \E p \in S \ {a + 16} : NEXT_BLKP(n, p) = q
      BY <1>8, <1>11
    <2> HIDE DEF S
    <2> QED
      BY <1>10, <2>1, <2>2, <2>3, <2>4, <2>5 DEF Tiling
  <1>13. Coalesced(n, a + 16, S)
    BY <1>8, <1>11 DEF Coalesced, CoalescedBut, IsFree
  <1> QED
    BY <1>6, <1>12, <1>13

-----------------------------------------------------------------------------
(* The order of the numbers is well-founded: each set of them has a least.  *)
LEMMA Least ==
  ASSUME NEW T \in SUBSET Nat, T # {}
  PROVE  \E x \in T : \A y \in T : x <= y
  <1> DEFINE R == OpToRel(<, Nat)
  <1>1. IsWellFoundedOn(R, Nat)
    BY NatLessThanWellFounded
  <1>2. \A x, y \in Nat : x < y => <<x, y>> \in R
    BY DEF OpToRel
  <1> HIDE DEF R
  <1>3. PICK x \in T : \A y \in T : ~(<<y, x>> \in R)
    BY <1>1, WFMin
  <1>4. \A y \in T : ~(y < x)
    BY <1>2, <1>3
  <1> QED
    BY <1>3, <1>4

-----------------------------------------------------------------------------
(* The list of blocks, in memory m below the break brk.                    *)

(* The walk goes on from p to the next block, below the break.             *)
Onward(m, brk, p) ==
  /\ p < mem_max_addr
  /\ GET_SIZE(m, HDRP(p)) > 0
  /\ NEXT_BLKP(m, p) \in BlockPtrs
  /\ NEXT_BLKP(m, p) <= brk

(* f gives the blocks the walk meets from each block on.                   *)
Walks(m, brk, f) ==
  f = [p \in BlockPtrs |->
         {p} \cup (IF Onward(m, brk, p) THEN f[NEXT_BLKP(m, p)] ELSE {})]

WalkOf(m, brk) == (CHOOSE f : Walks(m, brk, f))[heap_listp]

(* The recursion has a solution: to each block those that no set closed    *)
(* under the links can leave out.                                          *)
Closed(m, brk, T) == \A p \in T : Onward(m, brk, p) => NEXT_BLKP(m, p) \in T

Reached(m, brk, p) ==
  {q \in BlockPtrs :
     \A T \in SUBSET BlockPtrs : p \in T /\ Closed(m, brk, T) => q \in T}

(* What is reached from a block is the block and what its successor reaches. *)
LEMMA ReachedOn ==
  ASSUME NEW m, NEW brk, NEW p \in BlockPtrs
  PROVE  Reached(m, brk, p) =
           {p} \cup (IF Onward(m, brk, p) THEN Reached(m, brk, NEXT_BLKP(m, p)) ELSE {})
  <1>1. p \in Reached(m, brk, p)
    BY DEF Reached
  <1>2. ASSUME Onward(m, brk, p), NEW q \in Reached(m, brk, NEXT_BLKP(m, p))
        PROVE  q \in Reached(m, brk, p)
    BY <1>2 DEF Reached, Closed
  <1>3. ASSUME ~Onward(m, brk, p), NEW q \in Reached(m, brk, p) PROVE q = p
    <2>1. Closed(m, brk, {p}) /\ {p} \in SUBSET BlockPtrs
      BY <1>3 DEF Closed
    <2> QED
      BY <2>1, <1>3 DEF Reached
  <1>4. ASSUME Onward(m, brk, p), NEW q \in Reached(m, brk, p), q # p
        PROVE  q \in Reached(m, brk, NEXT_BLKP(m, p))
    <2>1. PICK r \in BlockPtrs : r = NEXT_BLKP(m, p)
      BY <1>4 DEF Onward
    <2>2. SUFFICES ASSUME NEW T \in SUBSET BlockPtrs, r \in T, Closed(m, brk, T)
                   PROVE  q \in T
      BY <1>4, <2>1 DEF Reached
    <2>3. Closed(m, brk, T \cup {p}) /\ T \cup {p} \in SUBSET BlockPtrs
      BY <2>1, <2>2 DEF Closed
    <2>4. q \in T \cup {p}
      BY <1>4, <2>3 DEF Reached
    <2> QED
      BY <1>4, <2>4
  <1> QED
    BY <1>1, <1>2, <1>3, <1>4

(* So the recursion of Walk has a solution.                                *)
LEMMA WalkExists ==
  ASSUME NEW m, NEW brk
  PROVE  \E f : Walks(m, brk, f)
  <1> DEFINE f == [p \in BlockPtrs |-> Reached(m, brk, p)]
  <1>1. \A p \in BlockPtrs : Onward(m, brk, p) => NEXT_BLKP(m, p) \in BlockPtrs
    BY DEF Onward
  <1>2. Walks(m, brk, f)
    BY <1>1, ReachedOn DEF Walks
  <1> QED
    BY <1>2

(* Every solution leads from a block of the tiling through all the blocks  *)
(* behind it: by induction, from the epilogue down.                        *)
LEMMA WalksOn ==
  ASSUME NEW m \in [WordAddr -> Nat], NEW brk, NEW S, Tiling(m, brk, S),
         NEW f, Walks(m, brk, f)
  PROVE  \A p \in S : f[p] = {q \in S : p <= q}
  <1> DEFINE Good(p) == f[p] = {q \in S : p <= q}
             Bad == {brk - p : p \in {q \in S : ~Good(q)}}
  <1>1. /\ S \subseteq BlockPtrs /\ brk \in S /\ brk \in Nat /\ brk <= mem_max_addr
        /\ \A q \in S : q \in Nat /\ q <= brk
        /\ \A q \in S \ {brk}, r \in S : r <= q \/ NEXT_BLKP(m, q) <= r
        /\ m[brk - 4] = 1
    BY TilingAddrs
  <1>2. \A p \in S \ {brk} : /\ NEXT_BLKP(m, p) \in S /\ NEXT_BLKP(m, p) >= p + 8
                             /\ NEXT_BLKP(m, p) = p + GET_SIZE(m, HDRP(p))
                             /\ GET_SIZE(m, HDRP(p)) \in Nat
    BY TilingBlock
  <1>3. Good(brk)
    <2>1. GET_SIZE(m, HDRP(brk)) = 0
      BY <1>1 DEF GET_SIZE, HDRP, WSIZE, DSIZE
    <2>2. ~Onward(m, brk, brk) /\ brk \in BlockPtrs
      BY <1>1, <2>1 DEF Onward
    <2>3. f[brk] = {brk}
      BY <2>2 DEF Walks
    <2>4. brk \in S /\ \A q \in S : brk <= q <=> q = brk
      BY <1>1
    <2>5. {q \in S : brk <= q} = {brk}
      BY <2>4
    <2> QED
      BY <2>3, <2>5
  <1>4. ASSUME NEW p \in S \ {brk}, Good(NEXT_BLKP(m, p)) PROVE Good(p)
    <2>1. PICK e \in S : e = NEXT_BLKP(m, p)
      BY <1>2
    <2>2. Onward(m, brk, p)
      <3>1. p \in Nat /\ e \in Nat /\ p < e /\ e <= brk /\ e \in BlockPtrs
        BY <1>1, <1>2, <2>1
      <3>2. GET_SIZE(m, HDRP(p)) > 0 /\ p < mem_max_addr
        BY <1>1, <1>2, <2>1, <3>1, Area
      <3> QED
        BY <2>1, <3>1, <3>2 DEF Onward
    <2>3. f[p] = {p} \cup f[e]
      <3>1. p \in BlockPtrs
        BY <1>1
      <3> QED
        BY <2>1, <2>2, <3>1 DEF Walks
    <2>4. \A q \in S : p <= q <=> q = p \/ e <= q
      BY <1>1, <1>2, <2>1
    <2> QED
      BY <1>4, <2>1, <2>3, <2>4
  <1> HIDE DEF Good
  <1>5. SUFFICES ASSUME NEW r \in S, ~Good(r) PROVE FALSE
    BY DEF Good
  <1>6. PICK x \in Bad : \A y \in Bad : x <= y
    <2>1. Bad \in SUBSET Nat /\ Bad # {}
      BY <1>1, <1>5
    <2> QED
      BY <2>1, Least
  <1>7. PICK p \in S : x = brk - p /\ ~Good(p)
    BY <1>6
  <1>8. p # brk
    BY <1>3, <1>7
  <1>9. PICK e \in S : e = NEXT_BLKP(m, p) /\ p < e /\ e \in Nat
    BY <1>1, <1>2, <1>8
  <1>10. ~Good(e)
    BY <1>4, <1>7, <1>8, <1>9
  <1>11. brk - e \in Bad
    BY <1>10
  <1>12. brk - p <= brk - e
    BY <1>6, <1>7, <1>11
  <1> QED
    BY <1>1, <1>9, <1>12

(* So walking the list finds the tiling, and there is no other one.        *)
LEMMA WalkTiles ==
  ASSUME NEW m \in [WordAddr -> Nat], NEW brk, NEW S, Tiling(m, brk, S)
  PROVE  WalkOf(m, brk) = S
  <1>1. (CHOOSE f : Walks(m, brk, f))[heap_listp] = {q \in S : heap_listp <= q}
    <2>1. heap_listp \in S
      BY DEF Tiling
    <2>2. Walks(m, brk, CHOOSE f : Walks(m, brk, f))
      BY WalkExists
    <2> QED
      BY <2>1, <2>2, WalksOn
  <1>2. \A q \in S : heap_listp <= q
    BY TilingAddrs
  <1> QED
    BY <1>1, <1>2 DEF WalkOf
=============================================================================
