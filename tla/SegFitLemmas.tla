---------------------------- MODULE SegFitLemmas ----------------------------
(***************************************************************************)
(* What the routines of mm.c do to a heap.  That the blocks tile it is     *)
(* shown with the lemmas about mm-firstfit.c: but for the reallocation tag *)
(* the boundary tags of the two are the same.  New are the lists, whose    *)
(* links lie in the payloads of free blocks, and the tags.  Most lemmas    *)
(* are about a heap that is Loose: some of its free blocks are on no list, *)
(* as between two calls of delete_block and insert_block.                  *)
(***************************************************************************)
EXTENDS SegFitInv, FiniteSetTheorems, TLAPS

(* The constants as numbers.                                               *)
LEMMA Numbers ==
  /\ mem_start_brk \in Nat /\ mem_start_brk > 0 /\ mem_start_brk % 8 = 0
  /\ MAX_HEAP \in Nat /\ MAX_HEAP % 8 = 0 /\ MAX_HEAP >= 32
  /\ mem_max_addr \in Nat /\ mem_max_addr = mem_start_brk + MAX_HEAP
  /\ mem_max_addr % 8 = 0
  /\ heap_listp = mem_start_brk + 8 /\ heap_listp \in Nat /\ heap_listp % 8 = 0
  /\ CHUNKSIZE \in Nat /\ CHUNKSIZE % 8 = 0 /\ CHUNKSIZE >= 16
  /\ MAX_HEAP >= 16 + CHUNKSIZE
  /\ LISTS \in Nat \ {0} /\ LISTS - 1 \in Nat
  /\ BUFFER \in Nat /\ BUFFER % 8 = 0
  /\ WORD_MOD \in Nat /\ WORD_MOD % 16 = 0 /\ mem_max_addr < WORD_MOD
  BY MemlibAssumption, SegFitAssumption
     DEF MemlibAssumption, SegFitAssumption, mem_max_addr, heap_listp, WSIZE, DSIZE,
         MIN_BSIZE

(* Lemmas about the boundary tags, proved with mm-firstfit.c.              *)
Tags == INSTANCE FirstFitLemmas WITH Passes <- 0, pass <- 0, Sizes <- {}

(* The area and the constants of mm.c are such as mm-firstfit.c assumes.   *)
LEMMA TagsArea ==
  Tags!MemlibAssumption /\ Tags!FirstFitAssumption /\ Tags!RequestAssumption
  <1>1. Tags!WordAddr = WordAddr
    BY DEF Tags!WordAddr, WordAddr, Tags!mem_max_addr, mem_max_addr, Tags!WSIZE, WSIZE
  <1>2. /\ CHUNKSIZE \in Nat /\ CHUNKSIZE % 8 = 0 /\ CHUNKSIZE >= 16
        /\ MAX_HEAP >= 16 + CHUNKSIZE
    BY Numbers
  <1>3. Ids \subseteq Nat /\ RawMem \subseteq [WordAddr -> Nat]
    BY SegFitAssumption DEF SegFitAssumption
  <1>4. Tags!mem_max_addr + CHUNKSIZE < WORD_MOD
    BY Numbers, RequestAssumption DEF RequestAssumption, Tags!mem_max_addr, mem_max_addr
  <1>5. Tags!FirstFitAssumption
    BY <1>1, <1>2, <1>3, <1>4 DEF Tags!FirstFitAssumption, Tags!DSIZE, Tags!WSIZE
  <1>6. Tags!MemlibAssumption
    BY MemlibAssumption DEF MemlibAssumption, Tags!MemlibAssumption
  <1>7. Tags!RequestAssumption
    BY DEF Tags!RequestAssumption
  <1> QED
    BY <1>5, <1>6, <1>7

(* A set of natural numbers has a least element.                           *)
LEMMA Least ==
  ASSUME NEW T \in SUBSET Nat, T # {}
  PROVE  \E x \in T : \A y \in T : x <= y
  BY TagsArea, Tags!Least

(* A block with room for its tags and two links, and where its words are.  *)
Roomy(p) == p \in BlockPtrs /\ p + 16 <= mem_max_addr

(* Its tags and links are words of the area.                               *)
LEMMA RoomyAddrs ==
  ASSUME NEW p, Roomy(p)
  PROVE  /\ p \in Nat /\ p % 8 = 0 /\ p > 0 /\ p # NULL
         /\ heap_listp <= p /\ p + 16 <= mem_max_addr
         /\ p \in WordAddr /\ p + 4 \in WordAddr /\ p - 4 \in WordAddr /\ p - 8 \in WordAddr
  <1>1. p \in heap_listp .. mem_max_addr /\ p % 8 = 0 /\ p + 16 <= mem_max_addr
    BY DEF Roomy, BlockPtrs, DSIZE
  <1>2. p \in Nat /\ heap_listp <= p
    BY <1>1, Numbers
  <1>3. \A w \in {p, p + 4, p - 4, p - 8} :
          w \in mem_start_brk .. mem_max_addr - 1 /\ w % 4 = 0
    BY <1>1, <1>2, Numbers
  <1> QED
    BY <1>1, <1>2, <1>3, Numbers DEF WordAddr, WSIZE, NULL

(* A block that is not on the last list has been halved down to 1.         *)
LEMMA ListOfIs ==
  ASSUME NEW n
  PROVE  /\ ListOf(n) \in 0 .. LISTS - 1
         /\ ListOf(n) = LISTS - 1 \/ Halved(n, ListOf(n)) <= 1
  <1> DEFINE Stop(l) == l = LISTS - 1 \/ Halved(n, l) <= 1
             T == {l \in 0 .. LISTS - 1 : Stop(l)}
  <1>1. T \in SUBSET Nat /\ LISTS - 1 \in T
    BY Numbers
  <1>2. PICK l \in T : \A k \in T : l <= k
    BY <1>1, Least
  <1>3. l > 0 => ~(Halved(n, l - 1) <= 1)
    <2>1. SUFFICES ASSUME l > 0, Halved(n, l - 1) <= 1 PROVE FALSE
      OBVIOUS
    <2>2. l \in 0 .. LISTS - 1 /\ l \in Nat /\ LISTS \in Nat
      BY <1>1, Numbers
    <2>3. l - 1 \in 0 .. LISTS - 1
      BY <2>1, <2>2
    <2>4. l - 1 \in T
      BY <2>1, <2>3
    <2>5. l <= l - 1
      BY <1>2, <2>4
    <2> QED
      BY <2>2, <2>5
  <1> QED
    BY <1>2, <1>3 DEF ListOf

-----------------------------------------------------------------------------
(* The links of one list.                                                  *)

(* A list depends only on the links of its blocks.                         *)
LEMMA ChainFrame ==
  ASSUME NEW m, NEW n, NEW head, NEW s, NEW c \in Nat, Chain(m, head, s, c),
         \A k \in 0 .. c - 1 : n[s[k]] = m[s[k]] /\ n[s[k] + 4] = m[s[k] + 4]
  PROVE  Chain(n, head, s, c)
  BY DEF Chain, NEXT_FREEP, PREV_FREEP, NEXT_BP, PREV_BP, WSIZE

(* So does the set of blocks on it.                                        *)
LEMMA HoldsFrame ==
  ASSUME NEW m, NEW n, NEW head, NEW P, Holds(m, head, P),
         \A p \in P : n[p] = m[p] /\ n[p + 4] = m[p + 4]
  PROVE  Holds(n, head, P)
  <1>1. PICK c \in Nat, s \in [Nat -> {NULL} \cup BlockPtrs] :
          Chain(m, head, s, c) /\ P = {s[k] : k \in 0 .. c - 1}
    BY DEF Holds
  <1>2. Chain(n, head, s, c)
    BY <1>1, ChainFrame
  <1> QED
    BY <1>1, <1>2 DEF Holds

(* Taking the block at place i off a list.                                 *)
Unlinked(m, n, head, s, i) ==
  /\ s[i + 1] # NULL => n[s[i + 1] + 4] = m[s[i] + 4]
  /\ i # 0 => n[s[i - 1]] = m[s[i]]
  /\ head = IF i = 0 THEN m[s[i]] ELSE s[0]

Without(s, i) == [k \in Nat |-> IF k < i THEN s[k] ELSE s[k + 1]]

(* From m to n, no links of the list have changed but those of its places  *)
(* i, to the successor, and j, to the predecessor.                         *)
KeptBut(m, n, s, c, i, j) ==
  \A k \in 0 .. c - 1 : /\ k # i => n[s[k]] = m[s[k]]
                        /\ k # j => n[s[k] + 4] = m[s[k] + 4]

(* Taking the ith block off a list, the links of its neighbours being      *)
(* joined.                                                                 *)
LEMMA ChainDelete ==
  ASSUME NEW m, NEW n, NEW head, NEW new, NEW c \in Nat,
         NEW s \in [Nat -> {NULL} \cup BlockPtrs], Chain(m, head, s, c),
         NEW i \in 0 .. c - 1, Unlinked(m, n, new, s, i),
         KeptBut(m, n, s, c, i - 1, i + 1)
  PROVE  Chain(n, new, Without(s, i), c - 1)
  <1> DEFINE t == [k \in Nat |-> IF k < i THEN s[k] ELSE s[k + 1]]
  <1> SUFFICES Chain(n, new, t, c - 1)
    BY DEF Without
  <1>0. \A k \in 0 .. c - 1 : /\ k # i - 1 => n[s[k]] = m[s[k]]
                              /\ k # i + 1 => n[s[k] + 4] = m[s[k] + 4]
    BY DEF KeptBut
  <1>1. /\ \A k \in Nat : s[k] = NULL <=> c <= k
        /\ \A k \in 0 .. c - 1 : m[s[k]] = s[k + 1]
        /\ \A k \in 0 .. c - 1 : m[s[k] + 4] = IF k = 0 THEN NULL ELSE s[k - 1]
        /\ \A j, k \in 0 .. c - 1 : s[j] = s[k] => j = k
    BY DEF Chain, NEXT_FREEP, PREV_FREEP, NEXT_BP, PREV_BP, WSIZE
  <1>2. \A k \in Nat : t[k] = IF k < i THEN s[k] ELSE s[k + 1]
    OBVIOUS
  <1>3. c - 1 \in Nat /\ i \in Nat /\ c >= 1 /\ i <= c - 1
    OBVIOUS
  <1>4. new = t[0]
    BY <1>1, <1>2, <1>3 DEF Unlinked
  <1>5. \A k \in Nat : t[k] = NULL <=> c - 1 <= k
    BY <1>1, <1>2, <1>3
  <1>6. ASSUME NEW k \in 0 .. c - 2 PROVE n[t[k]] = t[k + 1]
    <2>1. CASE k < i - 1
      BY <1>0, <1>1, <1>2, <1>3, <2>1
    <2>2. CASE k = i - 1
      <3>1. t[k] = s[i - 1] /\ t[k + 1] = s[i + 1] /\ i # 0
        BY <1>2, <1>3, <2>2
      <3> QED
        BY <1>1, <1>3, <3>1 DEF Unlinked
    <2>3. CASE k >= i
      <3>1. t[k] = s[k + 1] /\ t[k + 1] = s[k + 2] /\ k + 1 \in 0 .. c - 1
        BY <1>2, <1>3, <2>3
      <3>2. n[s[k + 1]] = m[s[k + 1]] /\ m[s[k + 1]] = s[(k + 1) + 1]
        BY <1>0, <1>1, <1>3, <2>3, <3>1
      <3> QED
        BY <3>1, <3>2
    <2> QED
      BY <1>3, <2>1, <2>2, <2>3
  <1>7. ASSUME NEW k \in 0 .. c - 2
        PROVE  n[t[k] + 4] = IF k = 0 THEN NULL ELSE t[k - 1]
    <2>1. CASE k < i
      <3>1. t[k] = s[k] /\ k \in 0 .. c - 1 /\ (k # 0 => t[k - 1] = s[k - 1])
        BY <1>2, <1>3, <2>1
      <3> QED
        BY <1>0, <1>1, <1>3, <2>1, <3>1
    <2>2. CASE k = i
      <3>1. t[k] = s[i + 1] /\ i + 1 \in Nat /\ s[i + 1] # NULL
            /\ (k # 0 => t[k - 1] = s[i - 1])
        BY <1>1, <1>2, <1>3, <2>2
      <3> QED
        BY <1>1, <1>3, <2>2, <3>1 DEF Unlinked
    <2>3. CASE k > i
      <3>1. t[k] = s[k + 1] /\ t[k - 1] = s[k] /\ k + 1 \in 0 .. c - 1 /\ k # 0
        BY <1>2, <1>3, <2>3
      <3>2. n[s[k + 1] + 4] = m[s[k + 1] + 4] /\ m[s[k + 1] + 4] = s[(k + 1) - 1]
        BY <1>0, <1>1, <1>3, <2>3, <3>1
      <3> QED
        BY <3>1, <3>2
    <2> QED
      BY <1>3, <2>1, <2>2, <2>3
  <1>8. ASSUME NEW j \in 0 .. c - 2, NEW k \in 0 .. c - 2, t[j] = t[k] PROVE j = k
    <2>1. PICK a \in 0 .. c - 1 : t[j] = s[a] /\ a = (IF j < i THEN j ELSE j + 1)
      BY <1>2, <1>3
    <2>2. PICK b \in 0 .. c - 1 : t[k] = s[b] /\ b = (IF k < i THEN k ELSE k + 1)
      BY <1>2, <1>3
    <2>3. a = b
      BY <1>1, <1>8, <2>1, <2>2
    <2> QED
      BY <2>1, <2>2, <2>3
  <1> HIDE DEF t
  <1>9. (c - 1) - 1 = c - 2
    OBVIOUS
  <1> QED
    BY <1>4, <1>5, <1>6, <1>7, <1>8, <1>9
       DEF Chain, NEXT_FREEP, PREV_FREEP, NEXT_BP, PREV_BP, WSIZE

(* Putting block b at place i of a list.                                   *)
Linked(n, head, s, i, b) ==
  /\ n[b] = s[i] /\ n[b + 4] = (IF i = 0 THEN NULL ELSE s[i - 1])
  /\ s[i] # NULL => n[s[i] + 4] = b
  /\ i # 0 => n[s[i - 1]] = b
  /\ head = IF i = 0 THEN b ELSE s[0]

With(s, i, b) ==
  [k \in Nat |-> IF k < i THEN s[k] ELSE IF k = i THEN b ELSE s[k - 1]]

(* Putting a block before the ith one of a list.                           *)
LEMMA ChainInsert ==
  ASSUME NEW m, NEW n, NEW head, NEW new, NEW c \in Nat,
         NEW s \in [Nat -> {NULL} \cup BlockPtrs], Chain(m, head, s, c),
         NEW i \in 0 .. c, NEW b, b # NULL, \A k \in 0 .. c - 1 : s[k] # b,
         Linked(n, new, s, i, b), KeptBut(m, n, s, c, i - 1, i)
  PROVE  Chain(n, new, With(s, i, b), c + 1)
  <1> DEFINE t == [k \in Nat |-> IF k < i THEN s[k] ELSE IF k = i THEN b ELSE s[k - 1]]
  <1> SUFFICES Chain(n, new, t, c + 1)
    BY DEF With
  <1>0. \A k \in 0 .. c - 1 : /\ k # i - 1 => n[s[k]] = m[s[k]]
                              /\ k # i => n[s[k] + 4] = m[s[k] + 4]
    BY DEF KeptBut
  <1>1. /\ \A k \in Nat : s[k] = NULL <=> c <= k
        /\ \A k \in 0 .. c - 1 : m[s[k]] = s[k + 1]
        /\ \A k \in 0 .. c - 1 : m[s[k] + 4] = IF k = 0 THEN NULL ELSE s[k - 1]
        /\ \A j, k \in 0 .. c - 1 : s[j] = s[k] => j = k
    BY DEF Chain, NEXT_FREEP, PREV_FREEP, NEXT_BP, PREV_BP, WSIZE
  <1>2. \A k \in Nat : t[k] = IF k < i THEN s[k] ELSE IF k = i THEN b ELSE s[k - 1]
    OBVIOUS
  <1>3. i \in Nat /\ i <= c
    OBVIOUS
  <1>4. new = t[0]
    BY <1>1, <1>2, <1>3 DEF Linked
  <1>5. \A k \in Nat : t[k] = NULL <=> c + 1 <= k
    BY <1>1, <1>2, <1>3
  <1>6. ASSUME NEW k \in 0 .. c PROVE n[t[k]] = t[k + 1]
    <2>1. CASE k < i - 1
      BY <1>0, <1>1, <1>2, <1>3, <2>1
    <2>2. CASE k = i - 1
      <3>1. t[k] = s[i - 1] /\ t[k + 1] = b /\ i # 0
        BY <1>2, <1>3, <2>2
      <3> QED
        BY <1>1, <1>3, <3>1 DEF Linked
    <2>3. CASE k = i
      <3>1. t[k] = b /\ t[k + 1] = s[i]
        BY <1>2, <1>3, <2>3
      <3> QED
        BY <3>1 DEF Linked
    <2>4. CASE k > i
      <3>1. t[k] = s[k - 1] /\ t[k + 1] = s[k] /\ k - 1 \in 0 .. c - 1
        BY <1>2, <1>3, <2>4
      <3>2. n[s[k - 1]] = m[s[k - 1]] /\ m[s[k - 1]] = s[(k - 1) + 1]
        BY <1>0, <1>1, <1>3, <2>4, <3>1
      <3> QED
        BY <3>1, <3>2
    <2> QED
      BY <1>3, <2>1, <2>2, <2>3, <2>4
  <1>7. ASSUME NEW k \in 0 .. c
        PROVE  n[t[k] + 4] = IF k = 0 THEN NULL ELSE t[k - 1]
    <2>1. CASE k < i
      <3>1. t[k] = s[k] /\ k \in 0 .. c - 1 /\ (k # 0 => t[k - 1] = s[k - 1])
        BY <1>2, <1>3, <2>1
      <3> QED
        BY <1>0, <1>1, <1>3, <2>1, <3>1
    <2>2. CASE k = i
      <3>1. t[k] = b /\ (k # 0 => t[k - 1] = s[i - 1])
        BY <1>2, <1>3, <2>2
      <3> QED
        BY <2>2, <3>1 DEF Linked
    <2>3. CASE k = i + 1
      <3>1. t[k] = s[i] /\ t[k - 1] = b /\ k # 0 /\ i \in 0 .. c - 1
        BY <1>2, <1>3, <2>3
      <3>2. s[i] # NULL
        BY <1>1, <3>1
      <3> QED
        BY <3>1, <3>2 DEF Linked
    <2>4. CASE k > i + 1
      <3>1. t[k] = s[k - 1] /\ t[k - 1] = s[k - 2] /\ k - 1 \in 0 .. c - 1 /\ k # 0
            /\ k - 1 # 0
        BY <1>2, <1>3, <2>4
      <3>2. n[s[k - 1] + 4] = m[s[k - 1] + 4] /\ m[s[k - 1] + 4] = s[(k - 1) - 1]
        BY <1>0, <1>1, <1>3, <2>4, <3>1
      <3> QED
        BY <3>1, <3>2
    <2> QED
      BY <1>3, <2>1, <2>2, <2>3, <2>4
  <1>8. ASSUME NEW j \in 0 .. c, NEW k \in 0 .. c, t[j] = t[k] PROVE j = k
    <2>1. CASE j = i \/ k = i
      BY <1>2, <1>3, <1>8, <2>1
    <2>2. CASE j # i /\ k # i
      <3>1. PICK a \in 0 .. c - 1 : t[j] = s[a] /\ a = (IF j < i THEN j ELSE j - 1)
        BY <1>2, <1>3, <2>2
      <3>2. PICK d \in 0 .. c - 1 : t[k] = s[d] /\ d = (IF k < i THEN k ELSE k - 1)
        BY <1>2, <1>3, <2>2
      <3>3. a = d
        BY <1>1, <1>8, <3>1, <3>2
      <3> QED
        BY <2>2, <3>1, <3>2, <3>3
    <2> QED
      BY <2>1, <2>2
  <1> HIDE DEF t
  <1>9. (c + 1) - 1 = c
    OBVIOUS
  <1> QED
    BY <1>4, <1>5, <1>6, <1>7, <1>8, <1>9
       DEF Chain, NEXT_FREEP, PREV_FREEP, NEXT_BP, PREV_BP, WSIZE

-----------------------------------------------------------------------------
(* The lists of a heap.                                                    *)

(* Blocks with room for tags and links, apart from one another.            *)
Spaced(F) ==
  /\ \A p \in F : Roomy(p)
  /\ \A p, r \in F : p # r => p + 16 <= r \/ r + 16 <= p

(* From m to n, only links of the blocks of F have changed.                *)
OnlyLinks(m, n, F) ==
  \A w \in WordAddr : (\A p \in F : w # p /\ w # p + 4) => n[w] = m[w]

(* A link is never the word of a header or footer of a multiple of 8.      *)
LEMMA OddWord == \A x, y \in Int : x % 8 = 0 /\ y % 8 = 0 => x # y + 4 /\ x - 4 # y
  BY SMT

(* A list is no longer than there is room for blocks.                      *)
LEMMA ChainBound ==
  ASSUME NEW m, NEW head, NEW s \in [Nat -> {NULL} \cup BlockPtrs], NEW c \in Nat,
         Chain(m, head, s, c), NEW F, Spaced(F), \A k \in 0 .. c - 1 : s[k] \in F
  PROVE  c <= MAX_HEAP \div MIN_BSIZE
  <1> DEFINE K == MAX_HEAP \div 16
             v == [k \in 1 .. c |-> (s[k - 1] - mem_start_brk) \div 16]
  <1>1. K \in Nat
    BY Numbers
  <1>2. ASSUME NEW k \in 1 .. c PROVE v[k] \in 0 .. K - 1
    <2>1. k - 1 \in 0 .. c - 1 /\ Roomy(s[k - 1])
      BY DEF Spaced
    <2>2. PICK x \in Nat : x = s[k - 1] - mem_start_brk /\ x + 16 <= MAX_HEAP
      BY <2>1, RoomyAddrs, Numbers
    <2>3. \A y, z \in Nat : y + 16 <= z => y \div 16 \in 0 .. (z \div 16) - 1
      OBVIOUS
    <2>4. x \div 16 \in 0 .. (MAX_HEAP \div 16) - 1
      BY <2>2, <2>3, Numbers
    <2> QED
      BY <2>2, <2>4
  <1>3. ASSUME NEW j \in 1 .. c, NEW k \in 1 .. c, v[j] = v[k] PROVE j = k
    <2>1. j - 1 \in 0 .. c - 1 /\ k - 1 \in 0 .. c - 1
      OBVIOUS
    <2>2. PICK x \in Nat, y \in Nat : x = s[j - 1] /\ y = s[k - 1]
      BY <2>1, RoomyAddrs DEF Spaced
    <2>3. (x - mem_start_brk) \div 16 = (y - mem_start_brk) \div 16
      BY <1>3, <2>2
    <2>4. x \in F /\ y \in F /\ x >= mem_start_brk /\ y >= mem_start_brk
      BY <2>1, <2>2, RoomyAddrs, Numbers DEF Spaced
    <2>5. x = y
      <3>1. x = y \/ x + 16 <= y \/ y + 16 <= x
        BY <2>4 DEF Spaced
      <3>2. \A a, b \in Nat : a + 16 <= b => a \div 16 # b \div 16
        OBVIOUS
      <3>3. PICK a \in Nat, b \in Nat : a = x - mem_start_brk /\ b = y - mem_start_brk
        BY <2>2, <2>4, Numbers
      <3> QED
        BY <2>3, <3>1, <3>2, <3>3, Numbers
    <2>6. \A a, b \in 0 .. c - 1 : s[a] = s[b] => a = b
      BY DEF Chain
    <2>7. j - 1 = k - 1
      BY <2>1, <2>2, <2>5, <2>6
    <2> QED
      BY <2>7
  <1>4. v \in Injection(1 .. c, 0 .. K - 1)
    <2>1. v \in [1 .. c -> 0 .. K - 1]
      BY <1>2
    <2>2. \A j, k \in 1 .. c : v[j] = v[k] => j = k
      BY <1>3
    <2> HIDE DEF v
    <2> QED
      BY <2>1, <2>2 DEF Injection, IsInjective
  <1> HIDE DEF v, K
  <1>5. IsFiniteSet(0 .. K - 1) /\ Cardinality(0 .. K - 1) = K
    <2>1. 0 \in Int /\ K - 1 \in Int
      BY <1>1
    <2>2. /\ IsFiniteSet(0 .. K - 1)
          /\ Cardinality(0 .. K - 1) = IF 0 > K - 1 THEN 0 ELSE (K - 1) - 0 + 1
      BY <2>1, FS_Interval
    <2> QED
      BY <1>1, <2>2
  <1>6. Cardinality(1 .. c) = c
    <2>1. Cardinality(1 .. c) = IF 1 > c THEN 0 ELSE c - 1 + 1
      BY FS_Interval
    <2> QED
      BY <2>1
  <1>7. Cardinality(1 .. c) <= Cardinality(0 .. K - 1)
    BY <1>4, <1>5, FS_Injection
  <1> QED
    BY <1>5, <1>6, <1>7 DEF K, MIN_BSIZE

(* Walking along a list finds its blocks, in their order.                  *)
LEMMA NthIs ==
  ASSUME NEW h, NEW l, NEW c \in Nat, NEW s \in [Nat -> {NULL} \cup BlockPtrs],
         Chain(h.mem, h.lists[l], s, c)
  PROVE  /\ DOMAIN Nth(h, l) = 0 .. MAX_HEAP \div MIN_BSIZE
         /\ \A k \in 0 .. MAX_HEAP \div MIN_BSIZE : Nth(h, l)[k] = s[k]
  <1> DEFINE D == 0 .. MAX_HEAP \div MIN_BSIZE
             After(p) == IF p = NULL THEN NULL ELSE NEXT_FREEP(h.mem, p)
             Eq(g) == g = [n \in D |-> IF n = 0 THEN h.lists[l] ELSE After(g[n - 1])]
             f == [n \in D |-> s[n]]
             N == Nth(h, l)
  <1>1. N = CHOOSE g : Eq(g)
    BY DEF Nth
  <1>2. /\ h.lists[l] = s[0]
        /\ \A k \in Nat : s[k + 1] = After(s[k])
    BY DEF Chain
  <1>3. D \subseteq Nat /\ \A n \in D : n # 0 => n - 1 \in D
    BY Numbers DEF MIN_BSIZE
  <1> HIDE DEF D, After
  <1>4. Eq(f)
    <2>1. \A n \in D : f[n] = IF n = 0 THEN h.lists[l] ELSE After(f[n - 1])
      <3> SUFFICES ASSUME NEW n \in D, n # 0 PROVE s[n] = After(s[n - 1])
        BY <1>2, <1>3
      <3>1. n - 1 \in Nat /\ (n - 1) + 1 = n
        BY <1>3
      <3> QED
        BY <1>2, <3>1
    <2> QED
      BY <2>1
  <1>5. Eq(N)
    BY <1>1, <1>4
  <1> HIDE DEF N, f
  <1>6. /\ DOMAIN N = D
        /\ \A n \in D : N[n] = IF n = 0 THEN h.lists[l] ELSE After(N[n - 1])
    BY <1>5
  <1>7. ASSUME NEW k \in D, N[k] # s[k] PROVE FALSE
    <2> DEFINE Bad == {n \in D : N[n] # s[n]}
    <2>1. Bad \in SUBSET Nat /\ k \in Bad
      BY <1>3, <1>7
    <2>2. PICK n \in Bad : \A j \in Bad : n <= j
      BY <2>1, Least
    <2>3. n # 0
      BY <1>2, <1>6, <2>2
    <2>4. n - 1 \in D /\ n - 1 \in Nat /\ ~(n <= n - 1)
      BY <1>3, <2>2, <2>3
    <2>5. N[n - 1] = s[n - 1]
      BY <2>2, <2>4
    <2>6. N[n] = After(s[n - 1]) /\ s[(n - 1) + 1] = After(s[n - 1]) /\ (n - 1) + 1 = n
      BY <1>2, <1>3, <1>6, <2>2, <2>3, <2>4, <2>5
    <2> QED
      BY <2>2, <2>6
  <1> QED
    BY <1>6, <1>7 DEF N, D

(* Writing links leaves the headers, and so the sizes.                     *)
LEMMA HeaderKept ==
  ASSUME NEW m, NEW n, NEW F, Spaced(F), OnlyLinks(m, n, F), NEW p \in F
  PROVE  n[p - 4] = m[p - 4] /\ GET_SIZE(n, HDRP(p)) = GET_SIZE(m, HDRP(p))
  <1>1. p - 4 \in WordAddr /\ p \in Nat /\ p % 8 = 0
    BY RoomyAddrs DEF Spaced
  <1>2. ASSUME NEW q \in F PROVE p - 4 # q /\ p - 4 # q + 4
    <2>1. q \in Nat /\ q % 8 = 0 /\ (p # q => p + 16 <= q \/ q + 16 <= p)
      BY RoomyAddrs DEF Spaced
    <2> QED
      BY <1>1, <2>1, OddWord
  <1>3. n[p - 4] = m[p - 4]
    BY <1>1, <1>2 DEF OnlyLinks
  <1> QED
    BY <1>3 DEF GET_SIZE, HDRP, WSIZE

(* Which list a block belongs on depends on its header.                    *)
LEMMA SortedKept ==
  ASSUME NEW m, NEW n, NEW F, NEW G \in SUBSET F,
         \A p \in G : n[p - 4] = m[p - 4], NEW l
  PROVE  Sorted(n, G, l) = Sorted(m, F, l) \cap G
  BY DEF Sorted, GET_SIZE, HDRP, WSIZE

(* The lists depend only on the headers and links of their blocks.         *)
LEMMA ListsFrame ==
  ASSUME NEW m, NEW n, NEW lists, NEW F, ListsHold(m, lists, F),
         \A p \in F : /\ GET_SIZE(n, HDRP(p)) = GET_SIZE(m, HDRP(p))
                     /\ n[p] = m[p] /\ n[p + 4] = m[p + 4]
  PROVE  ListsHold(n, lists, F)
  <1>1. ASSUME NEW l \in 0 .. LISTS - 1 PROVE Holds(n, lists[l], Sorted(n, F, l))
    <2>1. Sorted(n, F, l) = Sorted(m, F, l)
      BY DEF Sorted
    <2>2. Sorted(m, F, l) \subseteq F
      BY DEF Sorted
    <2>3. Holds(m, lists[l], Sorted(m, F, l))
      BY DEF ListsHold
    <2> QED
      BY <2>1, <2>2, <2>3, HoldsFrame
  <1> QED
    BY <1>1 DEF ListsHold

(* delete_block takes block b off its list.                                *)
LEMMA Delete ==
  ASSUME NEW h \in Heaps, NEW F, Spaced(F), ListsHold(h.mem, h.lists, F),
         NEW b \in F, NEW r, r = delete_block(h, b)
  PROVE  /\ r \in Heaps /\ r.ruined = h.ruined
         /\ ListsHold(r.mem, r.lists, F \ {b})
         /\ OnlyLinks(h.mem, r.mem, F)
  <1>1. PICK m \in [WordAddr -> Nat] : m = h.mem
    BY DEF Heaps
  <1>2. PICK lists \in [0 .. LISTS - 1 -> {NULL} \cup BlockPtrs] : lists = h.lists
    BY DEF Heaps
  <1>3. PICK l \in 0 .. LISTS - 1 : l = ListOf(GET_SIZE(m, HDRP(b)))
    BY ListOfIs
  <1>4. PICK c \in Nat, s \in [Nat -> {NULL} \cup BlockPtrs] :
          Chain(m, lists[l], s, c) /\ Sorted(m, F, l) = {s[k] : k \in 0 .. c - 1}
    BY <1>1, <1>2 DEF ListsHold, Holds
  <1>5. PICK i \in 0 .. c - 1 : s[i] = b
    BY <1>3, <1>4 DEF Sorted
  <1>6. \A k \in 0 .. c - 1 : s[k] \in F /\ s[k] \in Sorted(m, F, l)
    BY <1>4 DEF Sorted
  <1>7. /\ \A k \in Nat : s[k] = NULL <=> c <= k
        /\ \A k \in 0 .. c - 1 : m[s[k]] = s[k + 1]
        /\ \A k \in 0 .. c - 1 : m[s[k] + 4] = IF k = 0 THEN NULL ELSE s[k - 1]
        /\ \A j, k \in 0 .. c - 1 : s[j] = s[k] => j = k
        /\ lists[l] = s[0]
    BY <1>4 DEF Chain, NEXT_FREEP, PREV_FREEP, NEXT_BP, PREV_BP, WSIZE
  <1>8. PICK next : next = m[b] /\ next = s[i + 1]
    BY <1>5, <1>7
  <1>9. PICK prev : prev = m[b + 4] /\ prev = IF i = 0 THEN NULL ELSE s[i - 1]
    BY <1>5, <1>7
  <1>10. next # NULL => i + 1 \in 0 .. c - 1 /\ next \in F
    BY <1>6, <1>7, <1>8
  <1>11. (prev = NULL <=> i = 0) /\ (prev # NULL => i - 1 \in 0 .. c - 1 /\ prev \in F)
    BY <1>6, <1>7, <1>9
  <1>12. /\ next # NULL => next \in Nat /\ next % 8 = 0 /\ next + 4 \in WordAddr
         /\ prev # NULL => prev \in Nat /\ prev % 8 = 0 /\ prev \in WordAddr
         /\ next \in {NULL} \cup BlockPtrs /\ next \in Nat /\ prev \in Nat
    <2>1. \A p \in F : /\ p \in Nat /\ p % 8 = 0 /\ p \in WordAddr /\ p + 4 \in WordAddr
                       /\ p \in BlockPtrs
      BY RoomyAddrs DEF Spaced, Roomy
    <2> QED
      BY <1>10, <1>11, <2>1 DEF NULL
  <1>13. PICK n : n = r.mem /\
           n = LET u == IF next = NULL THEN m ELSE [m EXCEPT ![next + 4] = prev]
               IN IF prev = NULL THEN u ELSE [u EXCEPT ![prev] = next]
    BY <1>1, <1>8, <1>9
       DEF delete_block, NEXT_FREEP, PREV_FREEP, NEXT_BP, PREV_BP, WSIZE, Heaps
  <1>14. PICK new : new = r.lists /\
           new = IF prev = NULL THEN [lists EXCEPT ![l] = next] ELSE lists
    BY <1>1, <1>2, <1>3, <1>8, <1>9
       DEF delete_block, NEXT_FREEP, PREV_FREEP, NEXT_BP, PREV_BP, WSIZE, Heaps
  <1>15. /\ n \in [WordAddr -> Nat]
         /\ new \in [0 .. LISTS - 1 -> {NULL} \cup BlockPtrs]
    BY <1>12, <1>13, <1>14
  <1>16. r \in Heaps /\ r.ruined = h.ruined
    <2>1. r.ruined = h.ruined /\ r = [mem |-> n, lists |-> new, ruined |-> h.ruined]
      BY <1>13, <1>14 DEF delete_block, Heaps
    <2> QED
      BY <1>15, <2>1 DEF Heaps
  <1>17. /\ next # NULL => n[next + 4] = prev
         /\ prev # NULL => n[prev] = next
         /\ \A w \in WordAddr :
              (next = NULL \/ w # next + 4) /\ (prev = NULL \/ w # prev) => n[w] = m[w]
    BY <1>12, <1>13, OddWord
  <1>18. OnlyLinks(m, n, F)
    BY <1>10, <1>11, <1>17 DEF OnlyLinks
  <1>19. \A p \in F : /\ p \in Nat /\ p % 8 = 0 /\ p \in WordAddr /\ p + 4 \in WordAddr
                      /\ (p # prev => n[p] = m[p]) /\ (p # next => n[p + 4] = m[p + 4])
    <2> SUFFICES ASSUME NEW p \in F
                 PROVE  /\ p \in Nat /\ p % 8 = 0 /\ p \in WordAddr /\ p + 4 \in WordAddr
                        /\ (p # prev => n[p] = m[p]) /\ (p # next => n[p + 4] = m[p + 4])
      OBVIOUS
    <2>1. p \in Nat /\ p % 8 = 0 /\ p \in WordAddr /\ p + 4 \in WordAddr
      BY RoomyAddrs DEF Spaced
    <2>2. p # next + 4 \/ next = NULL
      BY <1>12, <2>1, OddWord
    <2>3. p + 4 # prev \/ prev = NULL
      BY <1>12, <2>1, OddWord
    <2>4. p # next => p + 4 # next + 4
      BY <1>12, <2>1
    <2> QED
      BY <1>17, <2>1, <2>2, <2>3, <2>4
  <1>20. \A k \in 0 .. c - 1 : /\ k # i - 1 => s[k] # prev
                               /\ k # i + 1 => s[k] # next
    BY <1>7, <1>8, <1>9
  <1>21. Chain(n, new[l], Without(s, i), c - 1)
    <2>1. KeptBut(m, n, s, c, i - 1, i + 1)
      BY <1>6, <1>19, <1>20 DEF KeptBut
    <2>2. Unlinked(m, n, new[l], s, i)
      BY <1>5, <1>7, <1>8, <1>9, <1>11, <1>14, <1>17 DEF Unlinked
    <2> QED
      BY <1>4, <2>1, <2>2, ChainDelete
  <1>22. \A p \in F : n[p - 4] = m[p - 4]
    BY <1>18, HeaderKept
  <1>23. ASSUME NEW k \in 0 .. LISTS - 1
         PROVE  Holds(n, new[k], Sorted(n, F \ {b}, k))
    <2>1. Sorted(n, F \ {b}, k) = Sorted(m, F, k) \cap (F \ {b})
      <3>1. PICK G : G = F \ {b} /\ G \in SUBSET F
        OBVIOUS
      <3>2. \A p \in G : n[p - 4] = m[p - 4]
        BY <1>22, <3>1
      <3>3. Sorted(n, G, k) = Sorted(m, F, k) \cap G
        BY <3>1, <3>2, SortedKept
      <3> QED
        BY <3>1, <3>3
    <2>2. CASE k = l
      <3> DEFINE t == Without(s, i)
      <3>0. \A j \in Nat : t[j] = IF j < i THEN s[j] ELSE s[j + 1]
        BY DEF Without
      <3>2. t = Without(s, i) /\ t \in [Nat -> {NULL} \cup BlockPtrs] /\ c - 1 \in Nat
        BY DEF Without
      <3> HIDE DEF t
      <3>3. Sorted(n, F \ {b}, l) = {t[j] : j \in 0 .. (c - 1) - 1}
        <4>1. Sorted(n, F \ {b}, l) = {s[j] : j \in 0 .. c - 1} \ {s[i]}
          BY <1>4, <1>5, <2>1, <2>2 DEF Sorted
        <4>2. ASSUME NEW j \in 0 .. c - 1, s[j] # s[i]
              PROVE  \E k2 \in 0 .. (c - 1) - 1 : s[j] = t[k2]
          <5>1. CASE j < i
            <6>1. j \in 0 .. (c - 1) - 1 /\ t[j] = s[j]
              BY <3>0, <5>1
            <6> QED
              BY <6>1
          <5>2. CASE j > i
            <6>1. j - 1 \in 0 .. (c - 1) - 1 /\ t[j - 1] = s[j]
              BY <3>0, <5>2
            <6> QED
              BY <6>1
          <5> QED
            BY <4>2, <5>1, <5>2
        <4>3. ASSUME NEW j \in 0 .. (c - 1) - 1
              PROVE  t[j] \in {s[a] : a \in 0 .. c - 1} \ {s[i]}
          <5>1. CASE j < i
            BY <1>7, <3>0, <5>1
          <5>2. CASE j >= i
            <6>1. t[j] = s[j + 1] /\ j + 1 \in 0 .. c - 1 /\ j + 1 # i
              BY <3>0, <5>2
            <6> QED
              BY <1>7, <6>1
          <5> QED
            BY <5>1, <5>2
        <4> QED
          BY <4>1, <4>2, <4>3
      <3> QED
        BY <1>21, <2>2, <3>2, <3>3 DEF Holds
    <2>3. CASE k # l
      <3>1. Holds(m, lists[k], Sorted(m, F, k))
        BY <1>1, <1>2 DEF ListsHold
      <3>2. new[k] = lists[k]
        BY <1>14, <2>3
      <3>3. Sorted(n, F \ {b}, k) = Sorted(m, F, k)
        BY <1>3, <2>1, <2>3 DEF Sorted
      <3>4. \A p \in Sorted(m, F, k) : p \in F /\ p \notin Sorted(m, F, l)
        BY <2>3 DEF Sorted
      <3>5. \A p \in Sorted(m, F, k) : n[p] = m[p] /\ n[p + 4] = m[p + 4]
        <4>1. next # NULL => next \in Sorted(m, F, l)
          BY <1>6, <1>8, <1>10
        <4>2. prev # NULL => prev \in Sorted(m, F, l)
          BY <1>6, <1>9, <1>11
        <4>3. \A p \in F : p # NULL
          BY RoomyAddrs DEF Spaced
        <4> QED
          BY <1>19, <3>4, <4>1, <4>2, <4>3
      <3> QED
        BY <3>1, <3>2, <3>3, <3>5, HoldsFrame
    <2> QED
      BY <2>2, <2>3
  <1> QED
    BY <1>1, <1>13, <1>14, <1>15, <1>16, <1>18, <1>23 DEF ListsHold

(* insert_block stops on the list, or at its end.                          *)
LEMMA FirstStopIn ==
  ASSUME NEW h, NEW l, NEW z, NEW c \in Nat,
         NEW s \in [Nat -> {NULL} \cup BlockPtrs],
         Chain(h.mem, h.lists[l], s, c), c <= MAX_HEAP \div MIN_BSIZE
  PROVE  /\ FirstStop(h, l, z) \in 0 .. c
         /\ \A k \in 0 .. c : Nth(h, l)[k] = s[k]
  <1> DEFINE D == DOMAIN Nth(h, l)
             Stop(k) == StopsAt(h, l, z, k)
             T == {k \in D : Stop(k)}
  <1>1. D = 0 .. MAX_HEAP \div MIN_BSIZE /\ \A k \in D : Nth(h, l)[k] = s[k]
    <2>1. /\ DOMAIN Nth(h, l) = 0 .. MAX_HEAP \div MIN_BSIZE
          /\ \A k \in 0 .. MAX_HEAP \div MIN_BSIZE : Nth(h, l)[k] = s[k]
      BY NthIs
    <2> QED
      BY <2>1
  <1>2. MAX_HEAP \div MIN_BSIZE \in Nat
    BY Numbers DEF MIN_BSIZE
  <1>3. c \in D /\ Stop(c)
    <2>1. s[c] = NULL
      BY DEF Chain
    <2>2. c \in D
      BY <1>1, <1>2
    <2> QED
      BY <1>1, <2>1, <2>2 DEF StopsAt
  <1> HIDE DEF D, Stop
  <1>4. PICK i \in T : \A k \in T : i <= k
    <2>1. T \in SUBSET Nat /\ T # {}
      BY <1>1, <1>2, <1>3
    <2> QED
      BY <2>1, Least
  <1>5. Stop(i) /\ i \in D /\ \A j \in 0 .. i - 1 : ~Stop(j)
    <2>1. ASSUME NEW j \in 0 .. i - 1, Stop(j) PROVE FALSE
      <3>1. i \in Nat /\ j \in D /\ j < i
        BY <1>1, <1>2, <1>4
      <3>2. i <= j
        BY <1>4, <2>1, <3>1
      <3> QED
        BY <1>1, <3>1, <3>2
    <2> QED
      BY <1>4, <2>1
  <1>6. PICK at : at = FirstStop(h, l, z) /\ at \in D /\ Stop(at)
                  /\ \A j \in 0 .. at - 1 : ~Stop(j)
    BY <1>5 DEF FirstStop, D, Stop
  <1>7. at \in 0 .. c
    <2>1. at \in Nat
      BY <1>1, <1>2, <1>6
    <2>2. ~(c \in 0 .. at - 1)
      BY <1>3, <1>6
    <2> QED
      BY <2>1, <2>2
  <1> QED
    BY <1>1, <1>2, <1>3, <1>6, <1>7 DEF D

(* insert_block puts block b on the list for its size.                     *)
LEMMA Insert ==
  ASSUME NEW h \in Heaps, NEW F, ListsHold(h.mem, h.lists, F),
         NEW b, b \notin F, NEW G, G = F \cup {b}, Spaced(G),
         NEW z, z = GET_SIZE(h.mem, HDRP(b)), NEW r, r = insert_block(h, b, z)
  PROVE  /\ r \in Heaps /\ r.ruined = h.ruined
         /\ ListsHold(r.mem, r.lists, G) /\ OnlyLinks(h.mem, r.mem, G)
  <1>0. Spaced(F \cup {b})
    OBVIOUS
  <1>1. PICK m \in [WordAddr -> Nat] : m = h.mem
    BY DEF Heaps
  <1>2. PICK lists \in [0 .. LISTS - 1 -> {NULL} \cup BlockPtrs] : lists = h.lists
    BY DEF Heaps
  <1>3. PICK l \in 0 .. LISTS - 1 : l = ListOf(z)
    BY ListOfIs
  <1>4. PICK c \in Nat, s \in [Nat -> {NULL} \cup BlockPtrs] :
          Chain(m, lists[l], s, c) /\ Sorted(m, F, l) = {s[k] : k \in 0 .. c - 1}
    BY <1>1, <1>2 DEF ListsHold, Holds
  <1>5. \A k \in 0 .. c - 1 : s[k] \in F /\ s[k] \in Sorted(m, F, l) /\ s[k] # b
    BY <1>4 DEF Sorted
  <1>6. c <= MAX_HEAP \div MIN_BSIZE
    <2>1. Spaced(F)
      BY DEF Spaced
    <2> QED
      BY <1>4, <1>5, <2>1, ChainBound
  <1>7. /\ \A k \in Nat : s[k] = NULL <=> c <= k
        /\ \A j, k \in 0 .. c - 1 : s[j] = s[k] => j = k
        /\ lists[l] = s[0]
    BY <1>4 DEF Chain
  <1>8. Chain(h.mem, h.lists[l], s, c)
    BY <1>1, <1>2, <1>4
  <1>9. PICK i \in 0 .. c : i = FirstStop(h, l, z) /\ \A k \in 0 .. c : Nth(h, l)[k] = s[k]
    <2>1. FirstStop(h, l, z) \in 0 .. c /\ \A k \in 0 .. c : Nth(h, l)[k] = s[k]
      <3>1. PICK g, hd : g = h /\ hd = l
        OBVIOUS
      <3>2. Chain(g.mem, g.lists[hd], s, c)
        BY <1>8, <3>1
      <3>3. FirstStop(g, hd, z) \in 0 .. c /\ \A k \in 0 .. c : Nth(g, hd)[k] = s[k]
        BY <1>6, <3>2, FirstStopIn
      <3> QED
        BY <3>1, <3>3
    <2> QED
      BY <2>1
  <1>10. PICK next : next = s[i] /\ next = Nth(h, l)[i]
    BY <1>9
  <1>11. PICK prev : /\ prev = IF i = 0 THEN NULL ELSE s[i - 1]
                     /\ prev = IF i = 0 THEN NULL ELSE Nth(h, l)[i - 1]
    <2>1. i = 0 \/ Nth(h, l)[i - 1] = s[i - 1]
      <3>1. i = 0 \/ i - 1 \in 0 .. c
        OBVIOUS
      <3> QED
        BY <1>9, <3>1
    <2>2. (IF i = 0 THEN NULL ELSE s[i - 1]) = (IF i = 0 THEN NULL ELSE Nth(h, l)[i - 1])
      BY <2>1
    <2> QED
      BY <2>2
  <1>12. next # NULL => i \in 0 .. c - 1 /\ next \in F
    <2>1. i \in Nat /\ (s[i] # NULL => i \in 0 .. c - 1)
      BY <1>7
    <2> QED
      BY <1>5, <1>10, <2>1
  <1>13. (prev = NULL <=> i = 0) /\ (prev # NULL => i - 1 \in 0 .. c - 1 /\ prev \in F)
    BY <1>5, <1>7, <1>11
  <1>14. /\ next # NULL => next \in Nat /\ next % 8 = 0 /\ next + 4 \in WordAddr
         /\ prev # NULL => prev \in Nat /\ prev % 8 = 0 /\ prev \in WordAddr
         /\ next \in Nat /\ prev \in Nat
         /\ b \in Nat /\ b % 8 = 0 /\ b \in WordAddr /\ b + 4 \in WordAddr
         /\ b \in BlockPtrs /\ b # NULL
    <2>1. \A p \in F \cup {b} :
            /\ p \in Nat /\ p % 8 = 0 /\ p \in WordAddr /\ p + 4 \in WordAddr
            /\ p \in BlockPtrs /\ p # NULL
      BY RoomyAddrs DEF Spaced, Roomy
    <2>2. next # NULL => next \in Nat /\ next % 8 = 0 /\ next + 4 \in WordAddr
      BY <1>12, <2>1
    <2>3. prev # NULL => prev \in Nat /\ prev % 8 = 0 /\ prev \in WordAddr
      BY <1>13, <2>1
    <2>4. NULL \in Nat
      BY DEF NULL
    <2>5. next \in Nat /\ prev \in Nat
      BY <2>2, <2>3, <2>4
    <2>6. /\ b \in Nat /\ b % 8 = 0 /\ b \in WordAddr /\ b + 4 \in WordAddr
          /\ b \in BlockPtrs /\ b # NULL
      BY <2>1
    <2> QED
      BY <2>2, <2>3, <2>5, <2>6
  <1> DEFINE own == [m EXCEPT ![b] = next, ![b + 4] = prev]
             after == IF next = NULL THEN own ELSE [own EXCEPT ![next + 4] = b]
             full == IF prev = NULL THEN after ELSE [after EXCEPT ![prev] = b]
             to == IF prev = NULL THEN [lists EXCEPT ![l] = b] ELSE lists
  <1>15. r = IF prev = NULL THEN [h EXCEPT !.mem = after, !.lists[l] = b]
             ELSE [h EXCEPT !.mem = [after EXCEPT ![prev] = b]]
    <2>1. next = Nth(h, l)[i] /\ prev = IF i = 0 THEN NULL ELSE Nth(h, l)[i - 1]
      BY <1>10, <1>11
    <2>2. l = ListOf(z) /\ i = FirstStop(h, l, z) /\ m = h.mem
      BY <1>1, <1>3, <1>9
    <2> QED
      BY <2>1, <2>2 DEF insert_block, NEXT_BP, PREV_BP, WSIZE
  <1>16. PICK n : n = full
    OBVIOUS
  <1>17. PICK new : new = to
    OBVIOUS
  <1>18. r = [mem |-> n, lists |-> new, ruined |-> h.ruined]
    <2>1. h = [mem |-> m, lists |-> lists, ruined |-> h.ruined]
      BY <1>1, <1>2 DEF Heaps
    <2> HIDE DEF after
    <2>2. CASE prev = NULL
      <3>1. r = [h EXCEPT !.mem = n, !.lists = [@ EXCEPT ![l] = b]]
            /\ new = [lists EXCEPT ![l] = b]
        BY <1>15, <1>16, <1>17, <2>2
      <3>2. r = [h EXCEPT !.mem = n, !.lists = new]
        BY <1>2, <3>1
      <3> QED
        BY <2>1, <3>2
    <2>3. CASE prev # NULL
      <3>1. r = [h EXCEPT !.mem = n] /\ new = lists
        BY <1>15, <1>16, <1>17, <2>3
      <3> QED
        BY <2>1, <3>1
    <2> QED
      BY <2>2, <2>3
  <1>19. own \in [WordAddr -> Nat] /\ after \in [WordAddr -> Nat]
    BY <1>14
  <1>20. /\ n \in [WordAddr -> Nat]
         /\ new \in [0 .. LISTS - 1 -> {NULL} \cup BlockPtrs]
    <2> HIDE DEF after
    <2> QED
      BY <1>14, <1>16, <1>17, <1>19
  <1>21. r \in Heaps /\ r.ruined = h.ruined /\ r.mem = n /\ r.lists = new
    BY <1>18, <1>20 DEF Heaps
  <1>22. /\ n[b] = next /\ n[b + 4] = prev
         /\ next # NULL => n[next + 4] = b
         /\ prev # NULL => n[prev] = b
         /\ \A w \in WordAddr :
              /\ w # b /\ w # b + 4 /\ (next = NULL \/ w # next + 4)
              /\ (prev = NULL \/ w # prev)
              => n[w] = m[w]
    <2>1. b # b + 4 /\ (prev # NULL => prev # b /\ prev # b + 4)
          /\ (next # NULL => next + 4 # b /\ next + 4 # b + 4)
          /\ (next # NULL /\ prev # NULL => next + 4 # prev)
      <3>1. (next # NULL => next # b) /\ (prev # NULL => prev # b)
        BY <1>12, <1>13
      <3>2. prev # NULL => prev # b + 4
        BY <1>14, OddWord
      <3>3. next # NULL => next + 4 # b
        BY <1>14, OddWord
      <3>4. next # NULL => next + 4 # b + 4
        BY <1>14, <3>1
      <3>5. next # NULL /\ prev # NULL => next + 4 # prev
        BY <1>14, OddWord
      <3>6. b # b + 4
        BY <1>14
      <3> QED
        BY <3>1, <3>2, <3>3, <3>4, <3>5, <3>6
    <2>2. own[b] = next /\ own[b + 4] = prev
          /\ \A w \in WordAddr : w # b /\ w # b + 4 => own[w] = m[w]
      BY <1>14, <2>1
    <2>3. after = IF next = NULL THEN own ELSE [own EXCEPT ![next + 4] = b]
      OBVIOUS
    <2> HIDE DEF own, after
    <2>4. /\ after[b] = next /\ after[b + 4] = prev
          /\ next # NULL => after[next + 4] = b
          /\ \A w \in WordAddr :
               w # b /\ w # b + 4 /\ (next = NULL \/ w # next + 4) => after[w] = m[w]
      BY <1>14, <1>19, <2>1, <2>2, <2>3
    <2> QED
      BY <1>14, <1>16, <1>19, <2>1, <2>4
  <1> HIDE DEF own, after, full
  <1>23. OnlyLinks(m, n, F \cup {b})
    BY <1>12, <1>13, <1>22 DEF OnlyLinks
  <1>24. \A p \in F : /\ (p # prev => n[p] = m[p]) /\ (p # next => n[p + 4] = m[p + 4])
    <2> SUFFICES ASSUME NEW p \in F
                 PROVE  /\ (p # prev => n[p] = m[p]) /\ (p # next => n[p + 4] = m[p + 4])
      OBVIOUS
    <2>1. p \in Nat /\ p % 8 = 0 /\ p \in WordAddr /\ p + 4 \in WordAddr /\ p # b
      BY RoomyAddrs DEF Spaced
    <2>2. p # next + 4 \/ next = NULL
      BY <1>14, <2>1, OddWord
    <2>3. p + 4 # prev \/ prev = NULL
      BY <1>14, <2>1, OddWord
    <2>4. (p # next => p + 4 # next + 4) /\ p + 4 # b /\ p # b + 4 /\ p + 4 # b + 4
      BY <1>14, <2>1, OddWord
    <2> QED
      BY <1>22, <2>1, <2>2, <2>3, <2>4
  <1>25. Chain(n, new[l], With(s, i, b), c + 1)
    <2>1. KeptBut(m, n, s, c, i - 1, i)
      <3>1. \A k \in 0 .. c - 1 : (k # i - 1 => s[k] # prev) /\ (k # i => s[k] # next)
        <4> SUFFICES ASSUME NEW k \in 0 .. c - 1
                     PROVE  (k # i - 1 => s[k] # prev) /\ (k # i => s[k] # next)
          OBVIOUS
        <4>1. s[k] # NULL
          BY <1>7
        <4>2. k # i - 1 => s[k] # prev
          BY <1>7, <1>11, <1>13, <4>1
        <4>3. k # i => s[k] # next
          BY <1>7, <1>10, <1>12, <4>1
        <4> QED
          BY <4>2, <4>3
      <3> QED
        BY <1>5, <1>24, <3>1 DEF KeptBut
    <2>2. Linked(n, new[l], s, i, b)
      BY <1>7, <1>10, <1>11, <1>13, <1>17, <1>22 DEF Linked
    <2> QED
      BY <1>4, <1>5, <1>14, <2>1, <2>2, ChainInsert
  <1>26. \A p \in F \cup {b} : n[p - 4] = m[p - 4]
    BY <1>23, HeaderKept
  <1>27. ASSUME NEW k \in 0 .. LISTS - 1
         PROVE  Holds(n, new[k], Sorted(n, F \cup {b}, k))
    <2>1. Sorted(n, F \cup {b}, k) = Sorted(m, F \cup {b}, k)
      BY <1>26 DEF Sorted, GET_SIZE, HDRP, WSIZE
    <2>2. CASE k = l
      <3> DEFINE t == With(s, i, b)
      <3>1. \A j \in Nat : t[j] = IF j < i THEN s[j] ELSE IF j = i THEN b ELSE s[j - 1]
        BY DEF With
      <3>2. t = With(s, i, b) /\ t \in [Nat -> {NULL} \cup BlockPtrs] /\ c + 1 \in Nat
        <4>1. \A j \in Nat : t[j] \in {NULL} \cup BlockPtrs
          <5> SUFFICES ASSUME NEW j \in Nat PROVE t[j] \in {NULL} \cup BlockPtrs
            OBVIOUS
          <5>1. j < i \/ j = i \/ j - 1 \in Nat
            OBVIOUS
          <5> QED
            BY <1>14, <3>1, <5>1
        <4> QED
          BY <4>1 DEF With
      <3> HIDE DEF t
      <3>3. Sorted(n, F \cup {b}, l) = {t[j] : j \in 0 .. (c + 1) - 1}
        <4>1. Sorted(n, F \cup {b}, l) = {s[j] : j \in 0 .. c - 1} \cup {b}
          BY <1>1, <1>3, <1>4, <2>1, <2>2 DEF Sorted
        <4>2. ASSUME NEW j \in 0 .. c - 1
              PROVE  \E a \in 0 .. (c + 1) - 1 : s[j] = t[a]
          <5>1. CASE j < i
            <6>1. j \in 0 .. (c + 1) - 1 /\ t[j] = s[j]
              BY <3>1, <5>1
            <6> QED
              BY <6>1
          <5>2. CASE j >= i
            <6>1. j + 1 \in 0 .. (c + 1) - 1 /\ t[j + 1] = s[j]
              BY <3>1, <5>2
            <6> QED
              BY <6>1
          <5> QED
            BY <5>1, <5>2
        <4>3. ASSUME NEW j \in 0 .. (c + 1) - 1
              PROVE  t[j] \in {s[a] : a \in 0 .. c - 1} \cup {b}
          <5>1. CASE j < i
            <6>1. t[j] = s[j] /\ j \in 0 .. c - 1
              BY <3>1, <5>1
            <6> QED
              BY <6>1
          <5>2. CASE j = i
            BY <3>1, <5>2
          <5>3. CASE j > i
            <6>1. t[j] = s[j - 1] /\ j - 1 \in 0 .. c - 1
              BY <3>1, <5>3
            <6> QED
              BY <6>1
          <5> QED
            BY <5>1, <5>2, <5>3
        <4>4. \E a \in 0 .. (c + 1) - 1 : b = t[a]
          <5>1. i \in 0 .. (c + 1) - 1 /\ t[i] = b
            BY <3>1
          <5> QED
            BY <5>1
        <4>5. {s[j] : j \in 0 .. c - 1} \cup {b} = {t[j] : j \in 0 .. (c + 1) - 1}
          <5>1. {s[j] : j \in 0 .. c - 1} \subseteq {t[j] : j \in 0 .. (c + 1) - 1}
            BY <4>2
          <5>2. b \in {t[j] : j \in 0 .. (c + 1) - 1}
            BY <4>4
          <5>3. {t[j] : j \in 0 .. (c + 1) - 1} \subseteq {s[j] : j \in 0 .. c - 1} \cup {b}
            BY <4>3
          <5> QED
            BY <5>1, <5>2, <5>3
        <4> QED
          BY <4>1, <4>5
      <3> QED
        BY <1>25, <2>2, <3>2, <3>3 DEF Holds
    <2>3. CASE k # l
      <3>1. Holds(m, lists[k], Sorted(m, F, k))
        BY <1>1, <1>2 DEF ListsHold
      <3>2. new[k] = lists[k]
        BY <1>17, <2>3
      <3>3. Sorted(n, F \cup {b}, k) = Sorted(m, F, k)
        BY <1>1, <1>3, <2>1, <2>3 DEF Sorted
      <3>4. \A p \in Sorted(m, F, k) : p \in F /\ p \notin Sorted(m, F, l)
        BY <2>3 DEF Sorted
      <3>5. \A p \in Sorted(m, F, k) : n[p] = m[p] /\ n[p + 4] = m[p + 4]
        <4>1. next # NULL => next \in Sorted(m, F, l)
          BY <1>5, <1>10, <1>12
        <4>2. prev # NULL => prev \in Sorted(m, F, l)
          BY <1>5, <1>11, <1>13
        <4>3. \A p \in F : p # NULL
          BY RoomyAddrs DEF Spaced
        <4> QED
          BY <1>24, <3>4, <4>1, <4>2, <4>3
      <3> QED
        BY <3>1, <3>2, <3>3, <3>5, HoldsFrame
    <2> QED
      BY <2>2, <2>3
  <1> QED
    BY <1>1, <1>20, <1>21, <1>23, <1>27 DEF ListsHold

-----------------------------------------------------------------------------
(* Tilings.                                                                *)

(* The tiling of mm.c, without the tags, is one of mm-firstfit.c.          *)
LEMMA TilesMeans ==
  ASSUME NEW m, NEW brk, NEW S
  PROVE  Tiles(m, brk, S) <=> Tags!Tiling(Untagged(m), brk, S)
  BY DEF Tiles, Boundary!Tiling, Tags!Tiling, Boundary!WellTagged, Tags!WellTagged,
         Boundary!BlockPtrs, Tags!BlockPtrs, Boundary!HDRP, Tags!HDRP,
         Boundary!FTRP, Tags!FTRP, Boundary!NEXT_BLKP, Tags!NEXT_BLKP,
         Boundary!GET_SIZE, Tags!GET_SIZE, Boundary!heap_listp, Tags!heap_listp,
         Boundary!mem_max_addr, Tags!mem_max_addr, Boundary!DSIZE, Tags!DSIZE,
         Boundary!WSIZE, Tags!WSIZE, Boundary!OVERHEAD, Tags!OVERHEAD,
         Boundary!PACK, Tags!PACK

(* Both allocators have the same addresses.                                *)
LEMMA TagsNames ==
  /\ Tags!WordAddr = WordAddr /\ Tags!BlockPtrs = BlockPtrs
  /\ Tags!heap_listp = heap_listp /\ Tags!mem_max_addr = mem_max_addr
  BY DEF Tags!WordAddr, WordAddr, Tags!BlockPtrs, BlockPtrs, Tags!heap_listp, heap_listp,
         Tags!mem_max_addr, mem_max_addr, Tags!WSIZE, WSIZE, Tags!DSIZE, DSIZE

(* A word has a size, an allocation bit and a tag.                         *)
LEMMA Words ==
  \A x \in Nat : /\ x - (x % 8) \in Nat /\ (x - (x % 8)) % 8 = 0 /\ x % 2 \in {0, 1}
                 /\ 2 * ((x \div 2) % 2) \in {0, 2}
                 /\ x - (x % 8) + (x % 2) \in Nat
                 /\ (x - (x % 8) + (x % 2)) % 8 = x % 2
                 /\ (x - (x % 8) + (x % 2)) % 2 = x % 2
  BY SMT

(* What a word says, and the word without its tag.                         *)
LEMMA UntaggedWord ==
  ASSUME NEW m \in [WordAddr -> Nat], NEW a \in WordAddr
  PROVE  /\ Untagged(m) \in [WordAddr -> Nat]
         /\ Untagged(m)[a] = GET_SIZE(m, a) + GET_ALLOC(m, a)
         /\ Tags!GET_SIZE(Untagged(m), a) = GET_SIZE(m, a)
         /\ Tags!GET_ALLOC(Untagged(m), a) = GET_ALLOC(m, a)
         /\ GET_SIZE(m, a) \in Nat /\ GET_SIZE(m, a) % 8 = 0 /\ GET_ALLOC(m, a) \in {0, 1}
         /\ GET_TAG(m, a) \in {0, 2}
  <1>1. PICK x \in Nat : x = m[a]
    OBVIOUS
  <1>2. GET_SIZE(m, a) = x - (x % 8) /\ GET_ALLOC(m, a) = x % 2
        /\ GET_TAG(m, a) = 2 * ((x \div 2) % 2)
    BY <1>1 DEF GET_SIZE, GET_ALLOC, GET_TAG
  <1>3. Untagged(m)[a] = x - (x % 8) + (x % 2)
    BY <1>2 DEF Untagged
  <1>4. \A b \in WordAddr : GET_SIZE(m, b) + GET_ALLOC(m, b) \in Nat
    BY Words DEF GET_SIZE, GET_ALLOC
  <1>5. Untagged(m) \in [WordAddr -> Nat]
    BY <1>4 DEF Untagged
  <1>6. PICK y \in Nat : y = Untagged(m)[a] /\ y % 8 = x % 2 /\ y % 2 = x % 2
                         /\ y - (y % 8) = x - (x % 8)
    BY <1>3, Words
  <1>7. /\ Tags!GET_SIZE(Untagged(m), a) = y - (y % 8)
        /\ Tags!GET_ALLOC(Untagged(m), a) = y % 2
    BY <1>6 DEF Tags!GET_SIZE, Tags!GET_ALLOC
  <1>8. Untagged(m)[a] = GET_SIZE(m, a) + GET_ALLOC(m, a)
    BY DEF Untagged
  <1>9. /\ x - (x % 8) \in Nat /\ (x - (x % 8)) % 8 = 0 /\ x % 2 \in {0, 1}
        /\ 2 * ((x \div 2) % 2) \in {0, 2}
    BY Words
  <1>10. y % 2 = x % 2 /\ y - (y % 8) = x - (x % 8)
    BY <1>6
  <1> QED
    BY <1>2, <1>5, <1>7, <1>8, <1>9, <1>10

(* The macros of the two allocators, on the same block.                    *)
LEMMA TagsMacros ==
  ASSUME NEW m \in [WordAddr -> Nat], NEW p \in Nat, p - 4 \in WordAddr
  PROVE  /\ Tags!GET_SIZE(Untagged(m), Tags!HDRP(p)) = SizeOf(m, p)
         /\ Tags!GET_ALLOC(Untagged(m), Tags!HDRP(p)) = AllocOf(m, p)
         /\ Tags!NEXT_BLKP(Untagged(m), p) = EndOf(m, p)
         /\ SizeOf(m, p) \in Nat /\ SizeOf(m, p) % 8 = 0 /\ AllocOf(m, p) \in {0, 1}
         /\ TagOf(m, p) \in {0, 2} /\ EndOf(m, p) \in Nat
  BY UntaggedWord
     DEF SizeOf, AllocOf, TagOf, EndOf, Tags!HDRP, Tags!WSIZE, Tags!NEXT_BLKP

(* Where the blocks of a tiling are, and what its first and last one say.  *)
LEMMA TilesAddrs ==
  ASSUME NEW m \in [WordAddr -> Nat], NEW brk, NEW S, Tiles(m, brk, S)
  PROVE  /\ S \subseteq BlockPtrs /\ heap_listp \in S /\ brk \in S
         /\ heap_listp < brk
         /\ \A q \in S : /\ q \in Nat /\ q % 8 = 0 /\ q - 4 \in WordAddr
                         /\ q - 8 \in WordAddr /\ heap_listp <= q /\ q <= brk
                         /\ q <= mem_max_addr
         /\ \A q \in S \ {brk}, r \in S : r <= q \/ EndOf(m, q) <= r
         /\ \A q \in S \ {heap_listp} : \E r \in S \ {brk} : EndOf(m, r) = q
         /\ SizeOf(m, heap_listp) = 8 /\ AllocOf(m, heap_listp) = 1
         /\ SizeOf(m, brk) = 0 /\ AllocOf(m, brk) = 1
  <1>1. PICK u : u = Untagged(m)
    OBVIOUS
  <1>2. u \in [Tags!WordAddr -> Nat] /\ Tags!Tiling(u, brk, S)
    <2>1. heap_listp - 4 \in WordAddr
      BY Numbers DEF WordAddr, WSIZE
    <2> QED
      BY <1>1, <2>1, TilesMeans, TagsNames, UntaggedWord
  <1>3. /\ S \subseteq Tags!BlockPtrs /\ Tags!heap_listp \in S /\ brk \in S
        /\ Tags!heap_listp < brk
        /\ \A q \in S : /\ q \in Nat /\ q % 8 = 0 /\ q - 4 \in Tags!WordAddr
                        /\ q - 8 \in Tags!WordAddr /\ Tags!heap_listp <= q /\ q <= brk
                        /\ q <= Tags!mem_max_addr
        /\ \A q \in S \ {brk}, r \in S : r <= q \/ Tags!NEXT_BLKP(u, q) <= r
        /\ \A q \in S \ {Tags!heap_listp} : \E r \in S \ {brk} : Tags!NEXT_BLKP(u, r) = q
        /\ u[Tags!heap_listp - 4] = 9 /\ u[brk - 4] = 1
    BY <1>2, TagsArea, Tags!TilingAddrs
  <1>4. \A q \in S : Tags!NEXT_BLKP(u, q) = EndOf(m, q)
    BY <1>1, <1>3, TagsNames, TagsMacros
  <1>5. \A p \in S : /\ u[p - 4] = SizeOf(m, p) + AllocOf(m, p) /\ SizeOf(m, p) \in Nat
                     /\ SizeOf(m, p) % 8 = 0 /\ AllocOf(m, p) \in {0, 1}
    BY <1>1, <1>3, TagsNames, UntaggedWord DEF SizeOf, AllocOf
  <1>6. SizeOf(m, heap_listp) = 8 /\ AllocOf(m, heap_listp) = 1
    <2>1. PICK x \in Nat, y \in {0, 1} :
            x = SizeOf(m, heap_listp) /\ y = AllocOf(m, heap_listp) /\ x % 8 = 0 /\ x + y = 9
      BY <1>3, <1>5, TagsNames
    <2>2. \A i \in Nat, j \in {0, 1} : i % 8 = 0 /\ i + j = 9 => i = 8 /\ j = 1
      OBVIOUS
    <2> QED
      BY <2>1, <2>2
  <1>7. SizeOf(m, brk) = 0 /\ AllocOf(m, brk) = 1
    <2>1. PICK x \in Nat, y \in {0, 1} :
            x = SizeOf(m, brk) /\ y = AllocOf(m, brk) /\ x % 8 = 0 /\ x + y = 1
      BY <1>3, <1>5
    <2>2. \A i \in Nat, j \in {0, 1} : i % 8 = 0 /\ i + j = 1 => i = 0 /\ j = 1
      OBVIOUS
    <2> QED
      BY <2>1, <2>2
  <1> QED
    BY <1>3, <1>4, <1>6, <1>7, TagsNames

(* Where the tags of a tiling are.                                         *)
Places(m, brk, S) ==
  /\ \A q \in S : /\ q \in Nat /\ q % 8 = 0 /\ q - 4 \in WordAddr /\ q <= brk
                  /\ q - 8 \in WordAddr /\ heap_listp <= q
  /\ \A q \in S \ {brk}, r \in S : r <= q \/ EndOf(m, q) <= r
  /\ brk \in S /\ heap_listp \in S

(* Every tiling has them.                                                  *)
LEMMA TilesPlaces ==
  ASSUME NEW m \in [WordAddr -> Nat], NEW brk, NEW S, Tiles(m, brk, S)
  PROVE  Places(m, brk, S)
  BY TilesAddrs DEF Places

(* A block of a tiling, its end and its footer.                            *)
LEMMA TilesBlock ==
  ASSUME NEW m \in [WordAddr -> Nat], NEW brk, NEW S, Tiles(m, brk, S),
         NEW p \in S \ {brk}
  PROVE  /\ EndOf(m, p) \in S /\ EndOf(m, p) \in Nat /\ EndOf(m, p) = p + SizeOf(m, p)
         /\ SizeOf(m, p) \in Nat /\ SizeOf(m, p) % 8 = 0 /\ AllocOf(m, p) \in {0, 1}
         /\ EndOf(m, p) >= p + 8 /\ (p # heap_listp => EndOf(m, p) >= p + 16)
         /\ EndOf(m, p) <= brk
         /\ GET_SIZE(m, EndOf(m, p) - 8) = SizeOf(m, p)
         /\ GET_ALLOC(m, EndOf(m, p) - 8) = AllocOf(m, p)
  <1>1. PICK u : u = Untagged(m)
    OBVIOUS
  <1>2. p \in Nat /\ p - 4 \in WordAddr
    BY TilesAddrs
  <1>3. u \in [Tags!WordAddr -> Nat] /\ Tags!Tiling(u, brk, S)
    BY <1>1, <1>2, TilesMeans, TagsNames, UntaggedWord
  <1>4. /\ Tags!NEXT_BLKP(u, p) \in S /\ Tags!NEXT_BLKP(u, p) \in Nat
        /\ Tags!NEXT_BLKP(u, p) >= p + 8
        /\ p # Tags!heap_listp => Tags!NEXT_BLKP(u, p) >= p + 16
        /\ u[Tags!NEXT_BLKP(u, p) - 8] = u[p - 4]
    BY <1>3, TagsArea, Tags!TilingBlock
  <1>5. Tags!NEXT_BLKP(u, p) = EndOf(m, p) /\ SizeOf(m, p) \in Nat /\ SizeOf(m, p) % 8 = 0
        /\ AllocOf(m, p) \in {0, 1}
    BY <1>1, <1>2, TagsMacros
  <1>6. EndOf(m, p) \in S /\ EndOf(m, p) - 8 \in WordAddr /\ EndOf(m, p) <= brk
    BY <1>4, <1>5, TilesAddrs
  <1>7. PICK e \in WordAddr : e = EndOf(m, p) - 8
    BY <1>6
  <1>8. Tags!GET_SIZE(u, e) = Tags!GET_SIZE(u, p - 4)
        /\ Tags!GET_ALLOC(u, e) = Tags!GET_ALLOC(u, p - 4)
    BY <1>4, <1>5, <1>7 DEF Tags!GET_SIZE, Tags!GET_ALLOC
  <1>9. GET_SIZE(m, e) = GET_SIZE(m, p - 4) /\ GET_ALLOC(m, e) = GET_ALLOC(m, p - 4)
    BY <1>1, <1>2, <1>8, UntaggedWord
  <1> QED
    BY <1>4, <1>5, <1>6, <1>7, <1>9, TagsNames DEF EndOf, SizeOf, AllocOf

(* A word that says size and allocation bit, whatever its tag.             *)
Marks(m, a, z, bit) == GET_SIZE(m, a) = z /\ GET_ALLOC(m, a) = bit

SameMark(m, n, a) == GET_SIZE(n, a) = GET_SIZE(m, a) /\ GET_ALLOC(n, a) = GET_ALLOC(m, a)

(* A word that is marked, without its tag.                                 *)
LEMMA UntaggedMarks ==
  ASSUME NEW n \in [WordAddr -> Nat], NEW a \in WordAddr, NEW z, NEW bit, Marks(n, a, z, bit)
  PROVE  Untagged(n)[a] = z + bit
  BY UntaggedWord DEF Marks

(* Two words that differ in their tags only.                               *)
LEMMA UntaggedSame ==
  ASSUME NEW m, NEW n, NEW a \in WordAddr, n[a] = m[a] \/ SameMark(m, n, a)
  PROVE  Untagged(n)[a] = Untagged(m)[a]
  BY DEF Untagged, SameMark, GET_SIZE, GET_ALLOC

(* A tiling as the lemmas of mm-firstfit.c want it.                        *)
LEMMA TilesUntagged ==
  ASSUME NEW m \in [WordAddr -> Nat], NEW brk, NEW S, Tiles(m, brk, S)
  PROVE  Untagged(m) \in [Tags!WordAddr -> Nat] /\ Tags!Tiling(Untagged(m), brk, S)
  <1>1. heap_listp - 4 \in WordAddr
    BY Numbers DEF WordAddr, WSIZE
  <1> QED
    BY <1>1, TilesMeans, TagsNames, UntaggedWord

(* Writing elsewhere leaves the tiling.                                    *)
LEMMA TilesFrame ==
  ASSUME NEW m \in [WordAddr -> Nat], NEW n \in [WordAddr -> Nat],
         NEW brk, NEW S, Tiles(m, brk, S),
         \A q \in S : SameMark(m, n, q - 4),
         \A q \in S \ {brk} : SameMark(m, n, EndOf(m, q) - 8)
  PROVE  /\ Tiles(n, brk, S)
         /\ \A q \in S : /\ SizeOf(n, q) = SizeOf(m, q) /\ AllocOf(n, q) = AllocOf(m, q)
                         /\ EndOf(n, q) = EndOf(m, q)
  <1>1. PICK u \in [Tags!WordAddr -> Nat] : u = Untagged(m) /\ Tags!Tiling(u, brk, S)
    BY TilesUntagged
  <1>2. \A q \in S : q \in Nat /\ q - 4 \in WordAddr
    BY TilesAddrs
  <1>3. PICK v \in [Tags!WordAddr -> Nat] : v = Untagged(n)
    <2>1. brk \in S
      BY TilesAddrs
    <2> QED
      BY <1>2, <2>1, TagsNames, UntaggedWord
  <1>4. \A q \in S : v[q - 4] = u[q - 4]
    BY <1>1, <1>2, <1>3, UntaggedSame
  <1>5. ASSUME NEW q \in S \ {brk}
        PROVE  v[Tags!NEXT_BLKP(u, q) - 8] = u[Tags!NEXT_BLKP(u, q) - 8]
    <2>1. Tags!NEXT_BLKP(u, q) = EndOf(m, q)
      BY <1>1, <1>2, TagsMacros
    <2>2. EndOf(m, q) - 8 \in WordAddr
      BY TilesBlock, TilesAddrs
    <2> QED
      BY <1>1, <1>3, <2>1, <2>2, UntaggedSame
  <1>6. Tags!Tiling(v, brk, S)
    BY <1>1, <1>4, <1>5, TagsArea, Tags!Frame
  <1> QED
    BY <1>3, <1>6, TilesMeans DEF SameMark, SizeOf, AllocOf, EndOf

(* The blocks of S that do not begin between p and e.                      *)
Outside(S, p, e) == {q \in S : q <= p \/ e <= q}

(* Retagging the area from p to e as one block.                            *)
LEMMA TilesFuse ==
  ASSUME NEW m \in [WordAddr -> Nat], NEW n \in [WordAddr -> Nat],
         NEW brk, NEW S, Tiles(m, brk, S),
         NEW p \in S \ {heap_listp}, NEW e \in S, p < e, NEW a \in {0, 1},
         Marks(n, p - 4, e - p, a), Marks(n, e - 8, e - p, a),
         \A w \in WordAddr : w < p - 4 \/ e - 4 <= w => n[w] = m[w]
  PROVE  /\ Tiles(n, brk, Outside(S, p, e))
         /\ SizeOf(n, p) = e - p /\ AllocOf(n, p) = a /\ EndOf(n, p) = e
         /\ \A q \in S : q < p \/ e <= q => n[q - 4] = m[q - 4]
  <1>1. PICK u \in [Tags!WordAddr -> Nat] : u = Untagged(m) /\ Tags!Tiling(u, brk, S)
    BY TilesUntagged
  <1>2. \A q \in S : q \in Nat /\ q - 4 \in WordAddr /\ q - 8 \in WordAddr
    BY TilesAddrs
  <1>3. PICK v \in [Tags!WordAddr -> Nat] : v = Untagged(n)
    BY <1>2, TagsNames, UntaggedWord
  <1>4. v[p - 4] = (e - p) + a /\ v[e - 8] = (e - p) + a
    BY <1>2, <1>3, UntaggedMarks
  <1>5. \A w \in Tags!WordAddr : w < p - 4 \/ e - 4 <= w => v[w] = u[w]
    BY <1>1, <1>3, TagsNames, UntaggedSame
  <1>6. Tags!Tiling(v, brk, Tags!Outside(S, p, e))
    BY <1>1, <1>4, <1>5, TagsArea, TagsNames, Tags!Fuse
  <1>7. Tags!Outside(S, p, e) = Outside(S, p, e)
    BY DEF Tags!Outside, Outside
  <1> QED
    BY <1>2, <1>3, <1>6, <1>7, TilesMeans DEF Marks, SizeOf, AllocOf, EndOf

(* Cutting the block p in two at x.                                        *)
SplitAt(m, n, brk, S, T, p, x, e) ==
  /\ Tiles(n, brk, T) /\ x \notin S
  /\ SizeOf(n, p) = x - p /\ AllocOf(n, p) = 1 /\ EndOf(n, p) = x
  /\ SizeOf(n, x) = e - x /\ AllocOf(n, x) = 0 /\ EndOf(n, x) = e
  /\ \A q \in S \ {p} : n[q - 4] = m[q - 4]

(* The two halves are blocks of a tiling with one more.                    *)
LEMMA TilesSplit ==
  ASSUME NEW m \in [WordAddr -> Nat], NEW n \in [WordAddr -> Nat],
         NEW brk, NEW S, Tiles(m, brk, S), NEW x, NEW T, T = S \cup {x},
         NEW p \in S \ {heap_listp, brk}, NEW e \in S, EndOf(m, p) = e,
         x \in BlockPtrs, p + 16 <= x, x + 16 <= e,
         Marks(n, p - 4, x - p, 1), Marks(n, x - 8, x - p, 1),
         Marks(n, x - 4, e - x, 0), Marks(n, e - 8, e - x, 0),
         \A w \in WordAddr : w < p - 4 \/ e - 4 <= w => n[w] = m[w]
  PROVE  SplitAt(m, n, brk, S, T, p, x, e)
  <1>1. PICK u \in [Tags!WordAddr -> Nat] : u = Untagged(m) /\ Tags!Tiling(u, brk, S)
    BY TilesUntagged
  <1>2. \A q \in S : q \in Nat /\ q - 4 \in WordAddr /\ q - 8 \in WordAddr
    BY TilesAddrs
  <1>3. PICK v \in [Tags!WordAddr -> Nat] : v = Untagged(n)
    BY <1>2, TagsNames, UntaggedWord
  <1>4. x \in Nat /\ x - 4 \in WordAddr /\ x - 8 \in WordAddr
    BY Numbers DEF BlockPtrs, WordAddr, WSIZE, DSIZE
  <1>5. /\ v[p - 4] = (x - p) + 1 /\ v[x - 8] = (x - p) + 1
        /\ v[x - 4] = (e - x) + 0 /\ v[e - 8] = (e - x) + 0
    BY <1>2, <1>3, <1>4, UntaggedMarks
  <1>6. \A w \in Tags!WordAddr : w < p - 4 \/ e - 4 <= w => v[w] = u[w]
    BY <1>1, <1>3, TagsNames, UntaggedSame
  <1>7. Tags!NEXT_BLKP(u, p) = e
    BY <1>1, <1>2, TagsMacros
  <1>8. Tags!CutAt(u, v, p, x, e)
    BY <1>5, <1>6, TagsNames DEF Tags!CutAt
  <1>9. Tags!CutInto(u, v, brk, S, p, x, e)
    BY <1>1, <1>7, <1>8, TagsArea, TagsNames, Tags!Split
  <1>10. Tags!Tiling(v, brk, S \cup {x}) /\ x \notin S
    BY <1>9 DEF Tags!CutInto
  <1>11. ASSUME NEW q \in S \ {p} PROVE n[q - 4] = m[q - 4]
    <2>1. q <= p \/ e <= q
      BY TilesAddrs
    <2> QED
      BY <1>2, <2>1
  <1>12. /\ SizeOf(n, p) = x - p /\ AllocOf(n, p) = 1 /\ EndOf(n, p) = x
         /\ SizeOf(n, x) = e - x /\ AllocOf(n, x) = 0 /\ EndOf(n, x) = e
    BY <1>2, <1>4 DEF Marks, SizeOf, AllocOf, EndOf
  <1> QED
    BY <1>3, <1>10, <1>11, <1>12, TilesMeans DEF SplitAt

(* A free block at the break, and an epilogue behind it.                   *)
GrownTo(m, n, brk, S, z, T) ==
  /\ Tiles(n, z, T) /\ z \notin S
  /\ SizeOf(n, brk) = z - brk /\ AllocOf(n, brk) = 0 /\ EndOf(n, brk) = z
  /\ \A q \in S \ {brk} : n[q - 4] = m[q - 4]

(* They make a tiling of the larger heap.                                  *)
LEMMA TilesGrow ==
  ASSUME NEW m \in [WordAddr -> Nat], NEW n \in [WordAddr -> Nat],
         NEW brk, NEW S, Tiles(m, brk, S), NEW z, NEW T, T = S \cup {z},
         z \in BlockPtrs, brk + 16 <= z,
         Marks(n, brk - 4, z - brk, 0), Marks(n, z - 8, z - brk, 0), Marks(n, z - 4, 0, 1),
         \A w \in WordAddr : w < brk - 4 => n[w] = m[w]
  PROVE  GrownTo(m, n, brk, S, z, T)
  <1>1. PICK u \in [Tags!WordAddr -> Nat] : u = Untagged(m) /\ Tags!Tiling(u, brk, S)
    BY TilesUntagged
  <1>2. /\ \A q \in S : q \in Nat /\ q - 4 \in WordAddr /\ q - 8 \in WordAddr /\ q <= brk
        /\ brk \in S
    BY TilesAddrs
  <1>3. PICK v \in [Tags!WordAddr -> Nat] : v = Untagged(n)
    BY <1>2, TagsNames, UntaggedWord
  <1>4. z \in Nat /\ z - 4 \in WordAddr /\ z - 8 \in WordAddr
    BY Numbers DEF BlockPtrs, WordAddr, WSIZE, DSIZE
  <1>5. v[brk - 4] = z - brk /\ v[z - 8] = z - brk /\ v[z - 4] = 1
    <2>1. v[brk - 4] = (z - brk) + 0 /\ v[z - 8] = (z - brk) + 0 /\ v[z - 4] = 0 + 1
      BY <1>2, <1>3, <1>4, UntaggedMarks
    <2> QED
      BY <1>2, <1>4, <2>1
  <1>6. \A w \in Tags!WordAddr : w < brk - 4 => v[w] = u[w]
    BY <1>1, <1>3, TagsNames, UntaggedSame
  <1>7. Tags!Tiling(v, z, S \cup {z}) /\ z \notin S
    BY <1>1, <1>5, <1>6, TagsArea, TagsNames, Tags!Grow
  <1>8. \A q \in S \ {brk} : n[q - 4] = m[q - 4]
    BY <1>2
  <1>9. SizeOf(n, brk) = z - brk /\ AllocOf(n, brk) = 0 /\ EndOf(n, brk) = z
    BY <1>2, <1>4 DEF Marks, SizeOf, AllocOf, EndOf
  <1> QED
    BY <1>3, <1>7, <1>8, <1>9, TilesMeans DEF GrownTo

-----------------------------------------------------------------------------
(* Heaps: a tiling, and lists with its free blocks.                        *)

(* The heap h with other words.                                            *)
WithMem(h, n) == [h EXCEPT !.mem = n]

(* The blocks of P stay as they are, and so do their payloads.             *)
PayloadOf(m, p) == {w \in WordAddr : p <= w /\ w < EndOf(m, p) - 8}

Keeps(m, n, P) ==
  \A p \in P : /\ EndOf(n, p) = EndOf(m, p)
               /\ \A w \in PayloadOf(m, p) : n[w] = m[w]

(* Keeping is transitive, and what keeps many blocks keeps a few.          *)
LEMMA KeepsTwice ==
  ASSUME NEW m, NEW n, NEW r, NEW P, Keeps(m, n, P), Keeps(n, r, P)
  PROVE  Keeps(m, r, P)
  BY DEF Keeps, PayloadOf

(* What keeps many blocks keeps a few.                                     *)
LEMMA KeepsLess ==
  ASSUME NEW m, NEW n, NEW P, NEW Q \in SUBSET P, Keeps(m, n, P)
  PROVE  Keeps(m, n, Q)
  BY DEF Keeps

(* Free blocks have room for links, and are apart from one another.        *)
LEMMA FreeSpaced ==
  ASSUME NEW m \in [WordAddr -> Nat], NEW brk, NEW S, Tiles(m, brk, S)
  PROVE  Spaced(FreeOf(m, brk, S)) /\ FreeOf(m, brk, S) \subseteq S \ {brk, heap_listp}
  <1> DEFINE F == FreeOf(m, brk, S)
  <1>1. F \subseteq S \ {brk, heap_listp}
    BY TilesAddrs DEF FreeOf
  <1> HIDE DEF F
  <1>2. \A p \in F : p + 16 <= EndOf(m, p) /\ EndOf(m, p) \in S
    BY <1>1, TilesBlock
  <1>3. ASSUME NEW p \in F PROVE Roomy(p)
    <2>1. /\ S \subseteq BlockPtrs
          /\ \A q \in S : q \in Nat /\ q <= mem_max_addr
      BY TilesAddrs
    <2> QED
      BY <1>1, <1>2, <2>1, Numbers DEF Roomy
  <1>4. ASSUME NEW p \in F, NEW r \in F, p # r PROVE p + 16 <= r \/ r + 16 <= p
    <2>1. /\ \A q \in S : q \in Nat
          /\ \A q \in S \ {brk}, t \in S : t <= q \/ EndOf(m, q) <= t
      BY TilesAddrs
    <2>2. p \in S \ {brk} /\ r \in S \ {brk}
      BY <1>1
    <2>3. (r <= p \/ EndOf(m, p) <= r) /\ (p <= r \/ EndOf(m, r) <= p)
      BY <2>1, <2>2
    <2>4. p \in Nat /\ r \in Nat /\ EndOf(m, p) \in Nat /\ EndOf(m, r) \in Nat
      BY <1>2, <2>1, <2>2
    <2> QED
      BY <1>2, <1>4, <2>3, <2>4
  <1> QED
    BY <1>1, <1>3, <1>4 DEF F, Spaced

(* The links of free blocks are no tags, and not in the payload of others. *)
LEMMA Apart ==
  ASSUME NEW m \in [WordAddr -> Nat], NEW brk, NEW S, Tiles(m, brk, S),
         NEW p \in FreeOf(m, brk, S)
  PROVE  /\ \A q \in S : q - 4 # p /\ q - 4 # p + 4 /\ q - 8 # p /\ q - 8 # p + 4
         /\ \A q \in Used(m, brk, S) : p \notin PayloadOf(m, q) /\ p + 4 \notin PayloadOf(m, q)
         /\ p \in WordAddr /\ p + 4 \in WordAddr
  <1>1. p \in S \ {brk} /\ p # heap_listp /\ AllocOf(m, p) = 0
    <2>1. FreeOf(m, brk, S) \subseteq S \ {brk, heap_listp}
      BY FreeSpaced
    <2> QED
      BY <2>1 DEF FreeOf
  <1>2. /\ p \in Nat /\ p % 8 = 0 /\ p + 16 <= EndOf(m, p) /\ EndOf(m, p) \in Nat
        /\ p \in WordAddr /\ p + 4 \in WordAddr
    <2>1. Spaced(FreeOf(m, brk, S))
      BY FreeSpaced
    <2>2. Roomy(p)
      BY <2>1 DEF Spaced
    <2>3. p + 16 <= EndOf(m, p) /\ EndOf(m, p) \in Nat
      BY <1>1, TilesBlock
    <2> QED
      BY <2>2, <2>3, RoomyAddrs
  <1>3. ASSUME NEW q \in S
        PROVE  q - 4 # p /\ q - 4 # p + 4 /\ q - 8 # p /\ q - 8 # p + 4
    <2>1. q \in Nat /\ q % 8 = 0 /\ (q <= p \/ EndOf(m, p) <= q)
      BY <1>1, TilesAddrs
    <2> QED
      BY <1>2, <2>1
  <1>4. ASSUME NEW q \in Used(m, brk, S)
        PROVE  p \notin PayloadOf(m, q) /\ p + 4 \notin PayloadOf(m, q)
    <2>1. q \in S \ {brk} /\ q # p
      BY <1>1 DEF Used
    <2>2. q \in Nat /\ EndOf(m, q) \in Nat /\ (p <= q \/ EndOf(m, q) <= p)
          /\ (q <= p \/ EndOf(m, p) <= q)
      BY <1>1, <2>1, TilesAddrs, TilesBlock
    <2> QED
      BY <1>2, <2>1, <2>2 DEF PayloadOf
  <1> QED
    BY <1>2, <1>3, <1>4

(* What is left alone when only links change.                              *)
Unmoved(m, n, brk, S) ==
  /\ Tiles(n, brk, S)
  /\ \A q \in S : n[q - 4] = m[q - 4]
  /\ FreeOf(n, brk, S) = FreeOf(m, brk, S) /\ Used(n, brk, S) = Used(m, brk, S)
  /\ Keeps(m, n, Used(m, brk, S))
  /\ Owned(m, brk, S) => Owned(n, brk, S)
  /\ \A q \in S \ {brk} : EndOf(n, q) = EndOf(m, q)

(* Links lie in free blocks only: changing them moves nothing.             *)
LEMMA LinksUnmoved ==
  ASSUME NEW m \in [WordAddr -> Nat], NEW n \in [WordAddr -> Nat],
         NEW brk, NEW S, Tiles(m, brk, S),
         NEW F, F \subseteq FreeOf(m, brk, S), OnlyLinks(m, n, F)
  PROVE  Unmoved(m, n, brk, S)
  <1>1. \A q \in S : q \in Nat /\ q - 4 \in WordAddr /\ q - 8 \in WordAddr
    BY TilesAddrs
  <1>2. \A q \in S : n[q - 4] = m[q - 4] /\ n[q - 8] = m[q - 8]
    BY <1>1, Apart DEF OnlyLinks
  <1>3. \A q \in S \ {brk} : EndOf(m, q) \in S
    BY TilesBlock
  <1>4. /\ \A q \in S : SameMark(m, n, q - 4)
        /\ \A q \in S \ {brk} : SameMark(m, n, EndOf(m, q) - 8)
    BY <1>2, <1>3 DEF SameMark, GET_SIZE, GET_ALLOC
  <1>5. /\ Tiles(n, brk, S)
        /\ \A q \in S : /\ SizeOf(n, q) = SizeOf(m, q) /\ AllocOf(n, q) = AllocOf(m, q)
                        /\ EndOf(n, q) = EndOf(m, q)
    BY <1>4, TilesFrame
  <1>6. FreeOf(n, brk, S) = FreeOf(m, brk, S) /\ Used(n, brk, S) = Used(m, brk, S)
    BY <1>5 DEF FreeOf, Used
  <1>7. Keeps(m, n, Used(m, brk, S))
    <2>1. ASSUME NEW q \in Used(m, brk, S), NEW w \in PayloadOf(m, q)
          PROVE  n[w] = m[w]
      <3>1. w \in WordAddr /\ \A p \in F : w # p /\ w # p + 4
        BY Apart DEF PayloadOf
      <3> QED
        BY <3>1 DEF OnlyLinks
    <2>2. \A q \in Used(m, brk, S) : EndOf(n, q) = EndOf(m, q)
      BY <1>5 DEF Used
    <2> QED
      BY <2>1, <2>2 DEF Keeps
  <1>8. Owned(m, brk, S) => Owned(n, brk, S)
    <2>1. \A p \in FreeOf(m, brk, S) :
            /\ EndOf(m, p) \in S /\ EndOf(n, p) = EndOf(m, p)
            /\ TagOf(n, EndOf(m, p)) = TagOf(m, EndOf(m, p))
      BY <1>2, <1>3, <1>5 DEF FreeOf, TagOf, GET_TAG
    <2> QED
      BY <1>6, <2>1 DEF Owned
  <1> QED
    BY <1>2, <1>5, <1>6, <1>7, <1>8 DEF Unmoved

(* Taking a block off the lists, and putting one on them.                  *)
LEMMA Unlink ==
  ASSUME NEW h, NEW brk, NEW S, NEW F, Loose(h, brk, S, F), NEW b \in F,
         NEW r, r = delete_block(h, b), NEW G, G = F \ {b}
  PROVE  /\ Loose(r, brk, S, G) /\ r.ruined = h.ruined
         /\ Unmoved(h.mem, r.mem, brk, S)
  <1>1. PICK m \in [WordAddr -> Nat] : m = h.mem
    BY DEF Loose, Heaps
  <1>2. Spaced(F)
    BY <1>1, FreeSpaced DEF Loose, Spaced
  <1>3. /\ r \in Heaps /\ r.ruined = h.ruined
        /\ ListsHold(r.mem, r.lists, F \ {b}) /\ OnlyLinks(h.mem, r.mem, F)
    BY <1>2, Delete DEF Loose
  <1>4. PICK n \in [WordAddr -> Nat] : n = r.mem
    BY <1>3 DEF Heaps
  <1>5. Unmoved(m, n, brk, S)
    BY <1>1, <1>3, <1>4, LinksUnmoved DEF Loose
  <1> QED
    BY <1>1, <1>3, <1>4, <1>5 DEF Loose, Unmoved

(* Putting a block on its list.                                            *)
LEMMA Link ==
  ASSUME NEW h, NEW brk, NEW S, NEW F, Loose(h, brk, S, F),
         NEW b \in FreeOf(h.mem, brk, S) \ F, NEW G, G = F \cup {b},
         NEW z, z = SizeOf(h.mem, b), NEW r, r = insert_block(h, b, z)
  PROVE  /\ Loose(r, brk, S, G) /\ r.ruined = h.ruined
         /\ Unmoved(h.mem, r.mem, brk, S)
  <1>1. PICK m \in [WordAddr -> Nat] : m = h.mem
    BY DEF Loose, Heaps
  <1>2. G \subseteq FreeOf(m, brk, S)
    BY <1>1 DEF Loose
  <1>3. Spaced(G)
    BY <1>1, <1>2, FreeSpaced DEF Loose, Spaced
  <1>4. z = GET_SIZE(h.mem, HDRP(b))
    BY DEF SizeOf, HDRP, WSIZE
  <1>5. /\ r \in Heaps /\ r.ruined = h.ruined
        /\ ListsHold(r.mem, r.lists, G) /\ OnlyLinks(h.mem, r.mem, G)
    <2>1. h \in Heaps /\ ListsHold(h.mem, h.lists, F) /\ b \notin F
      BY DEF Loose
    <2> QED
      BY <1>2, <1>3, <1>4, <2>1, Insert
  <1>6. PICK n \in [WordAddr -> Nat] : n = r.mem
    BY <1>5 DEF Heaps
  <1>7. Unmoved(m, n, brk, S)
    BY <1>1, <1>2, <1>5, <1>6, LinksUnmoved DEF Loose
  <1> QED
    BY <1>1, <1>2, <1>5, <1>6, <1>7 DEF Loose, Unmoved

-----------------------------------------------------------------------------
(* What each kind of write makes of a heap.                                *)

(* Nothing but the words of X is written.                                  *)
OnlyAt(m, n, X) == \A w \in WordAddr : w \notin X => n[w] = m[w]

(* From m to n, the area from p to e has become a block.                   *)
Retags(m, n, p, e, a) ==
  /\ n \in [WordAddr -> Nat] /\ OnlyAt(m, n, {p - 4, e - 8})
  /\ Marks(n, p - 4, e - p, a) /\ Marks(n, e - 8, e - p, a)
  /\ TagOf(n, p) \in {0, TagOf(m, p)}

(* What that makes of the heap: one block from p to e, free if a is 0.     *)
Retagged(m, n, brk, S, T, p, e, a) ==
  /\ T = Outside(S, p, e)
  /\ p \in T \ {brk} /\ SizeOf(n, p) = e - p /\ AllocOf(n, p) = a /\ EndOf(n, p) = e
  /\ \A q \in T \ {p} : n[q - 4] = m[q - 4]
  /\ FreeOf(n, brk, T) = {q \in FreeOf(m, brk, S) : q < p \/ e <= q}
                           \cup {q \in {p} : a = 0}
  /\ Used(n, brk, T) = {q \in Used(m, brk, S) : q < p \/ e <= q} \cup {q \in {p} : a = 1}
  /\ Keeps(m, n, {q \in Used(m, brk, S) : q < p \/ e <= q})

(* The lists are not touched by it, if none of their blocks is inside.     *)
LEMMA Retag ==
  ASSUME NEW h, NEW brk, NEW S, NEW F, Loose(h, brk, S, F),
         NEW m, m = h.mem, NEW n,
         NEW p \in S \ {heap_listp}, NEW e \in S, p < e, NEW a \in {0, 1},
         Retags(m, n, p, e, a), \A q \in F : q < p \/ e <= q,
         a = 0 => TagOf(m, e) = 0,
         NEW T, T = Outside(S, p, e), NEW g, g = WithMem(h, n)
  PROVE  Loose(g, brk, T, F) /\ g.mem = n /\ g.ruined = h.ruined
         /\ Retagged(m, n, brk, S, T, p, e, a)
  <1>1. /\ m \in [WordAddr -> Nat] /\ n \in [WordAddr -> Nat] /\ Tiles(m, brk, S)
        /\ Owned(m, brk, S) /\ F \subseteq FreeOf(m, brk, S) /\ ListsHold(m, h.lists, F)
        /\ h \in Heaps
    BY DEF Loose, Heaps, Retags
  <1>2. /\ \A q \in S : /\ q \in Nat /\ q % 8 = 0 /\ q - 4 \in WordAddr /\ q <= brk
                        /\ q - 8 \in WordAddr /\ heap_listp <= q
        /\ \A q \in S \ {brk}, r \in S : r <= q \/ EndOf(m, q) <= r
        /\ brk \in S /\ heap_listp \in S
    BY <1>1, TilesAddrs
  <1>3. p \in Nat /\ e \in Nat /\ p # brk /\ p % 8 = 0 /\ e % 8 = 0 /\ p + 16 <= e
    <2>1. p \in Nat /\ e \in Nat /\ p # brk /\ p % 8 = 0 /\ e % 8 = 0
      BY <1>2
    <2>2. p + 16 <= EndOf(m, p) /\ EndOf(m, p) \in Nat
      BY <1>1, <2>1, TilesBlock
    <2>3. e <= p \/ EndOf(m, p) <= e
      BY <1>2, <2>1
    <2> QED
      BY <2>1, <2>2, <2>3
  <1>4. \A w \in WordAddr : w < p - 4 \/ e - 4 <= w => n[w] = m[w]
    <2>1. ASSUME NEW w \in WordAddr, w < p - 4 \/ e - 4 <= w PROVE n[w] = m[w]
      <3>1. w \in Nat
        BY Numbers DEF WordAddr
      <3>2. w # p - 4 /\ w # e - 8
        BY <1>3, <2>1, <3>1
      <3> QED
        BY <3>2 DEF Retags, OnlyAt
    <2> QED
      BY <2>1
  <1>5. /\ Tiles(n, brk, T)
        /\ SizeOf(n, p) = e - p /\ AllocOf(n, p) = a /\ EndOf(n, p) = e
        /\ \A q \in S : q < p \/ e <= q => n[q - 4] = m[q - 4]
    BY <1>1, <1>4, TilesFuse DEF Retags
  <1>6. T \subseteq S /\ \A q \in T : q = p \/ q < p \/ e <= q
    BY <1>2, <1>3 DEF Outside
  <1>7. ASSUME NEW q \in S \ {brk}, q < p \/ e <= q
        PROVE  /\ q \in T /\ n[q - 4] = m[q - 4] /\ EndOf(n, q) = EndOf(m, q)
               /\ AllocOf(n, q) = AllocOf(m, q)
               /\ EndOf(m, q) \in T /\ EndOf(m, q) \in Nat
               /\ (q < p => EndOf(m, q) <= p)
    <2>1. q \in T /\ n[q - 4] = m[q - 4]
      BY <1>2, <1>3, <1>5, <1>7 DEF Outside
    <2>2. EndOf(m, q) \in S /\ EndOf(m, q) \in Nat /\ EndOf(m, q) >= q + 8
      BY <1>1, TilesBlock
    <2>3. q < p => EndOf(m, q) <= p
      BY <1>2, <1>3
    <2>4. EndOf(n, q) = EndOf(m, q) /\ AllocOf(n, q) = AllocOf(m, q)
      BY <2>1 DEF EndOf, SizeOf, AllocOf, GET_SIZE, GET_ALLOC
    <2>5. EndOf(m, q) <= p \/ e <= EndOf(m, q)
      BY <1>2, <1>3, <1>7, <2>2, <2>3
    <2> QED
      BY <2>1, <2>2, <2>3, <2>4, <2>5 DEF Outside
  <1>8. p \in T \ {brk} /\ e \in T
    BY <1>3 DEF Outside
  <1>9. /\ FreeOf(n, brk, T) = {q \in FreeOf(m, brk, S) : q < p \/ e <= q}
                                 \cup {q \in {p} : a = 0}
        /\ Used(n, brk, T) = {q \in Used(m, brk, S) : q < p \/ e <= q}
                               \cup {q \in {p} : a = 1}
    <2>1. \A q \in T \ {brk} : q = p \/ (q \in S \ {brk} /\ (q < p \/ e <= q))
      BY <1>6
    <2>2. \A q \in S \ {brk} : q < p \/ e <= q =>
            q \in T \ {brk} /\ AllocOf(n, q) = AllocOf(m, q) /\ q # p
      BY <1>3, <1>7
    <2> QED
      BY <1>5, <1>8, <2>1, <2>2 DEF FreeOf, Used
  <1>10. Keeps(m, n, {q \in Used(m, brk, S) : q < p \/ e <= q})
    <2>1. ASSUME NEW q \in S \ {brk}, q < p \/ e <= q, NEW w \in PayloadOf(m, q)
          PROVE  n[w] = m[w]
      <3>1. w \in WordAddr /\ w \in Nat /\ q \in Nat /\ q <= w /\ w < EndOf(m, q) - 8
        BY <1>2, Numbers DEF PayloadOf, WordAddr
      <3>2. w < p - 4 \/ e - 4 <= w
        BY <1>3, <1>7, <2>1, <3>1
      <3> QED
        BY <1>4, <3>1, <3>2
    <2> QED
      BY <1>7, <2>1 DEF Keeps, Used
  <1>11. Owned(n, brk, T)
    <2>1. n[e - 4] = m[e - 4]
      BY <1>3, <1>5
    <2>2. a = 0 => TagOf(n, EndOf(n, p)) = 0
      BY <1>5, <2>1 DEF TagOf, GET_TAG
    <2>3. ASSUME NEW q \in FreeOf(m, brk, S), q < p \/ e <= q
          PROVE  TagOf(n, EndOf(n, q)) = 0
      <3>1. PICK x \in T : x = EndOf(m, q) /\ x = EndOf(n, q) /\ TagOf(m, x) = 0
        BY <1>1, <1>7, <2>3 DEF FreeOf, Owned
      <3>2. CASE x = p
        BY <3>1, <3>2 DEF Retags
      <3>3. CASE x # p
        BY <1>5, <1>6, <3>1, <3>3 DEF TagOf, GET_TAG
      <3> QED
        BY <3>2, <3>3
    <2> QED
      BY <1>9, <2>2, <2>3 DEF Owned
  <1>12. ListsHold(n, h.lists, F)
    <2>1. ASSUME NEW q \in F
          PROVE  /\ GET_SIZE(n, HDRP(q)) = GET_SIZE(m, HDRP(q))
                 /\ n[q] = m[q] /\ n[q + 4] = m[q + 4]
      <3>1. q \in S \ {brk} /\ (q < p \/ e <= q)
        BY <1>1 DEF FreeOf
      <3>2. q \in WordAddr /\ q + 4 \in WordAddr /\ q \in Nat /\ q + 16 <= EndOf(m, q)
        <4>1. Roomy(q) /\ q # heap_listp
          BY <1>1, FreeSpaced DEF Spaced
        <4> QED
          BY <1>1, <3>1, <4>1, RoomyAddrs, TilesBlock
      <3>3. (q < p - 4 /\ q + 4 < p - 4) \/ (e - 4 <= q /\ e - 4 <= q + 4)
        BY <1>3, <1>7, <3>1, <3>2
      <3>4. n[q - 4] = m[q - 4] /\ n[q] = m[q] /\ n[q + 4] = m[q + 4]
        BY <1>4, <1>5, <3>1, <3>2, <3>3
      <3> QED
        BY <3>4 DEF GET_SIZE, HDRP, WSIZE
    <2> QED
      BY <1>1, <2>1, ListsFrame
  <1>13. g \in Heaps /\ g.mem = n /\ g.lists = h.lists /\ g.ruined = h.ruined
    BY <1>1 DEF Heaps, WithMem
  <1>14. F \subseteq FreeOf(n, brk, T)
    BY <1>1, <1>9
  <1>15. \A q \in T \ {p} : n[q - 4] = m[q - 4]
    BY <1>5, <1>6
  <1> QED
    BY <1>5, <1>8, <1>9, <1>10, <1>11, <1>12, <1>13, <1>14, <1>15 DEF Loose, Retagged

(* From m to n, the block from p to e is cut in two at x.                  *)
Cuts(m, n, p, x, e) ==
  /\ n \in [WordAddr -> Nat] /\ OnlyAt(m, n, {p - 4, x - 8, x - 4, e - 8})
  /\ p + 16 <= x /\ x + 16 <= e
  /\ Marks(n, p - 4, x - p, 1) /\ Marks(n, x - 8, x - p, 1)
  /\ Marks(n, x - 4, e - x, 0) /\ Marks(n, e - 8, e - x, 0)
  /\ TagOf(n, p) \in {0, TagOf(m, p)}

(* What that makes of the heap: p in use, and a free block x.              *)
HasCut(m, n, brk, S, T, p, x, e) ==
  /\ T = S \cup {x} /\ x \notin S
  /\ SizeOf(n, p) = x - p /\ SizeOf(n, x) = e - x
  /\ FreeOf(n, brk, T) = (FreeOf(m, brk, S) \ {p}) \cup {x}
  /\ Used(n, brk, T) = Used(m, brk, S) \cup {p}
  /\ Keeps(m, n, Used(m, brk, S) \ {p})
  /\ \A q \in S \ {p} : n[q - 4] = m[q - 4]

(* The lists are not touched by it, if p is on none.                       *)
LEMMA Cut ==
  ASSUME NEW h, NEW brk, NEW S, NEW F, Loose(h, brk, S, F),
         NEW m, m = h.mem, NEW n,
         NEW p, p \in FreeOf(m, brk, S), NEW e, e = EndOf(m, p),
         NEW x \in BlockPtrs, Cuts(m, n, p, x, e), p \notin F,
         NEW T, T = S \cup {x}, NEW g, g = WithMem(h, n)
  PROVE  Loose(g, brk, T, F) /\ g.mem = n /\ g.ruined = h.ruined
         /\ HasCut(m, n, brk, S, T, p, x, e)
  <1>1. /\ m \in [WordAddr -> Nat] /\ n \in [WordAddr -> Nat] /\ Tiles(m, brk, S)
        /\ Owned(m, brk, S) /\ F \subseteq FreeOf(m, brk, S) /\ ListsHold(m, h.lists, F)
        /\ h \in Heaps
    BY DEF Loose, Heaps, Cuts
  <1>2. /\ \A q \in S : /\ q \in Nat /\ q % 8 = 0 /\ q - 4 \in WordAddr /\ q <= brk
                        /\ q - 8 \in WordAddr /\ heap_listp <= q
        /\ \A q \in S \ {brk}, r \in S : r <= q \/ EndOf(m, q) <= r
        /\ brk \in S /\ heap_listp \in S
    <2>1. Places(m, brk, S)
      BY <1>1, TilesPlaces
    <2> QED
      BY <2>1 DEF Places
  <1>3. /\ p \in S \ {heap_listp, brk} /\ p \in Nat /\ p % 8 = 0
        /\ e \in S /\ e \in Nat /\ e % 8 = 0 /\ p + 16 <= x /\ x + 16 <= e
        /\ x \in Nat /\ x % 8 = 0
    <2>1. p \in S \ {heap_listp, brk}
      BY <1>1, FreeSpaced
    <2>2. e \in S
      BY <1>1, <2>1, TilesBlock
    <2>3. x \in Nat /\ x % 8 = 0
      BY Numbers DEF BlockPtrs, DSIZE
    <2> QED
      BY <1>2, <2>1, <2>2, <2>3 DEF Cuts
  <1>4. \A w \in WordAddr : w < p - 4 \/ e - 4 <= w => n[w] = m[w]
    <2>1. ASSUME NEW w \in WordAddr, w < p - 4 \/ e - 4 <= w PROVE n[w] = m[w]
      <3>1. w \in Nat
        BY Numbers DEF WordAddr
      <3>2. w # p - 4 /\ w # e - 8 /\ w # x - 8 /\ w # x - 4
        BY <1>3, <2>1, <3>1
      <3> QED
        BY <3>2 DEF Cuts, OnlyAt
    <2> QED
      BY <2>1
  <1>5. /\ Tiles(n, brk, T) /\ x \notin S
        /\ SizeOf(n, p) = x - p /\ AllocOf(n, p) = 1 /\ EndOf(n, p) = x
        /\ SizeOf(n, x) = e - x /\ AllocOf(n, x) = 0 /\ EndOf(n, x) = e
        /\ \A q \in S \ {p} : n[q - 4] = m[q - 4]
    <2>1. /\ Marks(n, p - 4, x - p, 1) /\ Marks(n, x - 8, x - p, 1)
          /\ Marks(n, x - 4, e - x, 0) /\ Marks(n, e - 8, e - x, 0)
      BY DEF Cuts
    <2>2. SplitAt(m, n, brk, S, T, p, x, e)
      BY <1>1, <1>3, <1>4, <2>1, TilesSplit
    <2> QED
      BY <2>2 DEF SplitAt
  <1>6. ASSUME NEW q \in S \ {brk, p}
        PROVE  /\ n[q - 4] = m[q - 4] /\ EndOf(n, q) = EndOf(m, q)
               /\ AllocOf(n, q) = AllocOf(m, q)
               /\ EndOf(m, q) \in S /\ EndOf(m, q) \in Nat
               /\ (q < p /\ EndOf(m, q) <= p) \/ e <= q
    <2>1. n[q - 4] = m[q - 4]
      BY <1>5
    <2>2. EndOf(m, q) \in S /\ EndOf(m, q) \in Nat /\ EndOf(m, q) >= q + 8
      BY <1>1, TilesBlock
    <2>3. EndOf(n, q) = EndOf(m, q) /\ AllocOf(n, q) = AllocOf(m, q)
      BY <2>1 DEF EndOf, SizeOf, AllocOf, GET_SIZE, GET_ALLOC
    <2>4. (q <= p \/ e <= q) /\ (p <= q \/ EndOf(m, q) <= p)
      BY <1>2, <1>3
    <2> QED
      BY <1>2, <1>3, <2>1, <2>2, <2>3, <2>4
  <1>7. x # brk /\ x # p
    BY <1>2, <1>3
  <1>8. /\ FreeOf(n, brk, T) = (FreeOf(m, brk, S) \ {p}) \cup {x}
        /\ Used(n, brk, T) = Used(m, brk, S) \cup {p}
    <2>1. \A q \in T \ {brk} : q = p \/ q = x \/ q \in S \ {brk, p}
      OBVIOUS
    <2>2. AllocOf(m, p) = 0
      BY DEF FreeOf
    <2>3. \A q \in S \ {brk, p} : q \in T \ {brk} /\ q # x /\ AllocOf(n, q) = AllocOf(m, q)
      BY <1>5, <1>6
    <2>4. /\ p \in T \ {brk} /\ x \in T \ {brk} /\ p \in S \ {brk} /\ x # p
          /\ AllocOf(n, p) = 1 /\ AllocOf(n, x) = 0
      BY <1>3, <1>5, <1>7
    <2>5. FreeOf(n, brk, T) = (FreeOf(m, brk, S) \ {p}) \cup {x}
      BY <2>1, <2>3, <2>4 DEF FreeOf
    <2>6. Used(n, brk, T) = Used(m, brk, S) \cup {p}
      BY <2>1, <2>2, <2>3, <2>4 DEF Used
    <2> QED
      BY <2>5, <2>6
  <1>9. Keeps(m, n, Used(m, brk, S) \ {p})
    <2>1. ASSUME NEW q \in S \ {brk, p}, NEW w \in PayloadOf(m, q)
          PROVE  n[w] = m[w]
      <3>1. w \in WordAddr /\ w \in Nat /\ q \in Nat /\ q <= w /\ w < EndOf(m, q) - 8
        BY <1>2, Numbers DEF PayloadOf, WordAddr
      <3>2. w < p - 4 \/ e - 4 <= w
        BY <1>3, <1>6, <3>1
      <3> QED
        BY <1>4, <3>1, <3>2
    <2> QED
      BY <1>6, <2>1 DEF Keeps, Used
  <1>10. Owned(n, brk, T)
    <2>1. TagOf(m, e) = 0 /\ e # p
      BY <1>1, <1>3 DEF Owned
    <2>2. TagOf(n, EndOf(n, x)) = 0
      BY <1>3, <1>5, <2>1 DEF TagOf, GET_TAG
    <2>3. ASSUME NEW q \in FreeOf(m, brk, S) \ {p}
          PROVE  TagOf(n, EndOf(n, q)) = 0
      <3>1. PICK y \in S : y = EndOf(m, q) /\ y = EndOf(n, q) /\ TagOf(m, y) = 0
        BY <1>1, <1>6 DEF FreeOf, Owned
      <3>2. CASE y = p
        BY <3>1, <3>2 DEF Cuts
      <3>3. CASE y # p
        BY <1>5, <3>1, <3>3 DEF TagOf, GET_TAG
      <3> QED
        BY <3>2, <3>3
    <2> QED
      BY <1>8, <2>2, <2>3 DEF Owned
  <1>11. ListsHold(n, h.lists, F)
    <2>1. ASSUME NEW q \in F
          PROVE  /\ GET_SIZE(n, HDRP(q)) = GET_SIZE(m, HDRP(q))
                 /\ n[q] = m[q] /\ n[q + 4] = m[q + 4]
      <3>1. q \in S \ {brk, p}
        BY <1>1 DEF FreeOf
      <3>2. q \in WordAddr /\ q + 4 \in WordAddr /\ q \in Nat /\ q + 16 <= EndOf(m, q)
        <4>1. Roomy(q) /\ q # heap_listp
          BY <1>1, FreeSpaced DEF Spaced
        <4> QED
          BY <1>1, <3>1, <4>1, RoomyAddrs, TilesBlock
      <3>3. (q < p - 4 /\ q + 4 < p - 4) \/ (e - 4 <= q /\ e - 4 <= q + 4)
        BY <1>3, <1>6, <3>1, <3>2
      <3>4. n[q - 4] = m[q - 4] /\ n[q] = m[q] /\ n[q + 4] = m[q + 4]
        BY <1>4, <1>5, <3>1, <3>2, <3>3
      <3> QED
        BY <3>4 DEF GET_SIZE, HDRP, WSIZE
    <2> QED
      BY <1>1, <2>1, ListsFrame
  <1>12. g \in Heaps /\ g.mem = n /\ g.lists = h.lists /\ g.ruined = h.ruined
    BY <1>1 DEF Heaps, WithMem
  <1>13. F \subseteq FreeOf(n, brk, T)
    BY <1>1, <1>8
  <1> QED
    BY <1>5, <1>8, <1>9, <1>10, <1>11, <1>12, <1>13 DEF Loose, HasCut

(* From m to n, only the tag of block q has changed.                       *)
Tags1(m, n, q) ==
  /\ n \in [WordAddr -> Nat] /\ OnlyAt(m, n, {q - 4}) /\ SameMark(m, n, q - 4)

(* Writing into payloads, or the tag of a block q, changes no block.       *)
Harmless(m, n, brk, S, q) ==
  /\ \A r \in S : r # q => n[r - 4] = m[r - 4]
  /\ FreeOf(n, brk, S) = FreeOf(m, brk, S) /\ Used(n, brk, S) = Used(m, brk, S)
  /\ \A r \in S \ {brk} : EndOf(n, r) = EndOf(m, r) /\ SizeOf(n, r) = SizeOf(m, r)

(* Setting or taking away the tag of a block, behind one in use.           *)
LEMMA HeaderTag ==
  ASSUME NEW h, NEW brk, NEW S, NEW F, Loose(h, brk, S, F),
         NEW m, m = h.mem, NEW n, NEW q \in S, Tags1(m, n, q),
         TagOf(n, q) = 0 \/ \E r \in Used(m, brk, S) : EndOf(m, r) = q,
         NEW g, g = WithMem(h, n)
  PROVE  Loose(g, brk, S, F) /\ g.mem = n /\ g.ruined = h.ruined
         /\ Harmless(m, n, brk, S, q) /\ Keeps(m, n, Used(m, brk, S))
  <1>1. /\ m \in [WordAddr -> Nat] /\ n \in [WordAddr -> Nat] /\ Tiles(m, brk, S)
        /\ Owned(m, brk, S) /\ F \subseteq FreeOf(m, brk, S) /\ ListsHold(m, h.lists, F)
        /\ h \in Heaps
    BY DEF Loose, Heaps, Tags1
  <1>2. /\ \A r \in S : /\ r \in Nat /\ r % 8 = 0 /\ r - 4 \in WordAddr /\ r - 8 \in WordAddr
        /\ \A r \in S \ {brk}, t \in S : t <= r \/ EndOf(m, r) <= t
    BY <1>1, TilesAddrs
  <1>3. \A r \in S \ {brk} : /\ EndOf(m, r) \in S /\ EndOf(m, r) \in Nat
                             /\ r + 8 <= EndOf(m, r)
    BY <1>1, TilesBlock
  <1>4. \A r \in S : (r # q => n[r - 4] = m[r - 4]) /\ n[r - 8] = m[r - 8]
    <2>1. \A r \in S : (r # q => r - 4 # q - 4) /\ r - 8 # q - 4
      BY <1>2
    <2> QED
      BY <1>2, <2>1 DEF Tags1, OnlyAt
  <1>5. /\ \A r \in S : SameMark(m, n, r - 4)
        /\ \A r \in S \ {brk} : SameMark(m, n, EndOf(m, r) - 8)
    BY <1>3, <1>4 DEF Tags1, SameMark, GET_SIZE, GET_ALLOC
  <1>6. /\ Tiles(n, brk, S)
        /\ \A r \in S : /\ SizeOf(n, r) = SizeOf(m, r) /\ AllocOf(n, r) = AllocOf(m, r)
                        /\ EndOf(n, r) = EndOf(m, r)
    BY <1>1, <1>5, TilesFrame
  <1>7. FreeOf(n, brk, S) = FreeOf(m, brk, S) /\ Used(n, brk, S) = Used(m, brk, S)
    BY <1>6 DEF FreeOf, Used
  <1>8. Keeps(m, n, Used(m, brk, S))
    <2>1. ASSUME NEW r \in S \ {brk}, NEW w \in PayloadOf(m, r) PROVE n[w] = m[w]
      <3>1. w \in WordAddr /\ w \in Nat /\ r <= w /\ w < EndOf(m, r) - 8
        BY Numbers DEF PayloadOf, WordAddr
      <3>2. w # q - 4
        BY <1>2, <1>3, <3>1
      <3> QED
        BY <3>1, <3>2 DEF Tags1, OnlyAt
    <2> QED
      BY <1>6, <2>1 DEF Keeps, Used
  <1>9. Owned(n, brk, S)
    <2>1. ASSUME NEW r \in FreeOf(m, brk, S) PROVE TagOf(n, EndOf(n, r)) = 0
      <3>1. PICK y \in S : y = EndOf(m, r) /\ y = EndOf(n, r) /\ TagOf(m, y) = 0
        BY <1>1, <1>3, <1>6 DEF FreeOf, Owned
      <3>2. CASE y # q
        BY <1>4, <3>1, <3>2 DEF TagOf, GET_TAG
      <3>3. CASE y = q
        <4>1. ~ \E t \in Used(m, brk, S) : EndOf(m, t) = q
          <5>1. SUFFICES ASSUME NEW t \in Used(m, brk, S), EndOf(m, t) = q PROVE FALSE
            OBVIOUS
          <5>2. t \in S \ {brk} /\ r \in S \ {brk} /\ t # r
            BY DEF Used, FreeOf
          <5>3. t <= r \/ q <= t
            BY <1>2, <3>1, <3>3, <5>2
          <5>4. r <= t \/ q <= r
            BY <1>2, <5>1, <5>2
          <5>5. t + 8 <= q /\ r + 8 <= q /\ t \in Nat /\ r \in Nat /\ q \in Nat
            BY <1>2, <1>3, <3>1, <3>3, <5>1, <5>2
          <5> QED
            BY <5>2, <5>3, <5>4, <5>5
        <4> QED
          BY <3>1, <3>3, <4>1
      <3> QED
        BY <3>2, <3>3
    <2> QED
      BY <1>7, <2>1 DEF Owned
  <1>10. ListsHold(n, h.lists, F)
    <2>1. ASSUME NEW p \in F
          PROVE  GET_SIZE(n, HDRP(p)) = GET_SIZE(m, HDRP(p)) /\ n[p] = m[p] /\ n[p + 4] = m[p + 4]
      <3>1. p \in FreeOf(m, brk, S)
        BY <1>1
      <3>2. p \in WordAddr /\ p + 4 \in WordAddr /\ q - 4 # p /\ q - 4 # p + 4
        BY <1>1, <3>1, Apart
      <3>3. n[p] = m[p] /\ n[p + 4] = m[p + 4]
        BY <3>2 DEF Tags1, OnlyAt
      <3> QED
        BY <1>6, <3>1, <3>3 DEF FreeOf, SizeOf, HDRP, WSIZE
    <2> QED
      BY <1>1, <2>1, ListsFrame
  <1>11. g \in Heaps /\ g.mem = n /\ g.lists = h.lists /\ g.ruined = h.ruined
    BY <1>1 DEF Heaps, WithMem
  <1> QED
    BY <1>1, <1>4, <1>6, <1>7, <1>8, <1>9, <1>10, <1>11 DEF Loose, Harmless

(* From m to n, there is a free block from brk on, and an epilogue at z.   *)
Grows(m, n, brk, z) ==
  /\ n \in [WordAddr -> Nat] /\ OnlyAt(m, n, {brk - 4, z - 8, z - 4})
  /\ z \in BlockPtrs /\ brk + 16 <= z
  /\ Marks(n, brk - 4, z - brk, 0) /\ Marks(n, z - 8, z - brk, 0) /\ Marks(n, z - 4, 0, 1)
  /\ TagOf(n, brk) = 0 /\ TagOf(n, z) = 0

(* What that makes of the heap: a free block that is on no list yet.       *)
HasGrown(m, n, brk, S, z, T) ==
  /\ SizeOf(n, brk) = z - brk
  /\ FreeOf(n, z, T) = FreeOf(m, brk, S) \cup {brk}
  /\ Used(n, z, T) = Used(m, brk, S)
  /\ Keeps(m, n, Used(m, brk, S))
  /\ \A q \in S \ {brk} : n[q - 4] = m[q - 4]

(* The lists are not touched by it.                                        *)
LEMMA Grow ==
  ASSUME NEW h, NEW brk, NEW S, NEW F, Loose(h, brk, S, F),
         NEW m, m = h.mem, NEW n, NEW z, Grows(m, n, brk, z),
         NEW T, T = S \cup {z}, NEW g, g = WithMem(h, n)
  PROVE  Loose(g, z, T, F) /\ g.mem = n /\ g.ruined = h.ruined
         /\ HasGrown(m, n, brk, S, z, T)
  <1>1. /\ m \in [WordAddr -> Nat] /\ n \in [WordAddr -> Nat] /\ Tiles(m, brk, S)
        /\ Owned(m, brk, S) /\ F \subseteq FreeOf(m, brk, S) /\ ListsHold(m, h.lists, F)
        /\ h \in Heaps
    BY DEF Loose, Heaps, Grows
  <1>2. Places(m, brk, S)
    BY <1>1, TilesPlaces
  <1>3. brk \in Nat /\ z \in Nat /\ z % 8 = 0 /\ brk % 8 = 0 /\ brk + 16 <= z
    <2>1. z \in Nat /\ z % 8 = 0 /\ brk + 16 <= z
      BY Numbers DEF Grows, BlockPtrs, DSIZE
    <2> QED
      BY <1>2, <2>1 DEF Places
  <1>4. \A w \in WordAddr : w < brk - 4 => n[w] = m[w]
    <2>1. ASSUME NEW w \in WordAddr, w < brk - 4 PROVE n[w] = m[w]
      <3>1. w \in Nat
        BY Numbers DEF WordAddr
      <3>2. w # brk - 4 /\ w # z - 8 /\ w # z - 4
        BY <1>3, <2>1, <3>1
      <3> QED
        BY <3>2 DEF Grows, OnlyAt
    <2> QED
      BY <2>1
  <1>5. /\ Tiles(n, z, T) /\ z \notin S
        /\ SizeOf(n, brk) = z - brk /\ AllocOf(n, brk) = 0 /\ EndOf(n, brk) = z
        /\ \A q \in S \ {brk} : n[q - 4] = m[q - 4]
    <2>1. GrownTo(m, n, brk, S, z, T)
      BY <1>1, <1>3, <1>4, TilesGrow DEF Grows
    <2> QED
      BY <2>1 DEF GrownTo
  <1>6. ASSUME NEW q \in S \ {brk}
        PROVE  /\ n[q - 4] = m[q - 4] /\ EndOf(n, q) = EndOf(m, q)
               /\ AllocOf(n, q) = AllocOf(m, q) /\ q \in Nat
               /\ EndOf(m, q) \in S /\ EndOf(m, q) \in Nat /\ EndOf(m, q) <= brk
    <2>1. n[q - 4] = m[q - 4]
      BY <1>5
    <2>2. EndOf(m, q) \in S /\ EndOf(m, q) \in Nat /\ EndOf(m, q) <= brk
      BY <1>1, TilesBlock
    <2>3. EndOf(n, q) = EndOf(m, q) /\ AllocOf(n, q) = AllocOf(m, q)
      BY <2>1 DEF EndOf, SizeOf, AllocOf, GET_SIZE, GET_ALLOC
    <2> QED
      BY <1>2, <2>1, <2>2, <2>3 DEF Places
  <1>7. brk \in S /\ brk # z
    BY <1>2, <1>3 DEF Places
  <1>8. FreeOf(n, z, T) = FreeOf(m, brk, S) \cup {brk} /\ Used(n, z, T) = Used(m, brk, S)
    <2>1. \A q \in T \ {z} : q = brk \/ q \in S \ {brk}
      OBVIOUS
    <2>2. \A q \in S : q \in T \ {z}
      BY <1>5
    <2> QED
      BY <1>5, <1>6, <1>7, <2>1, <2>2 DEF FreeOf, Used
  <1>9. Keeps(m, n, Used(m, brk, S))
    <2>1. ASSUME NEW q \in S \ {brk}, NEW w \in PayloadOf(m, q) PROVE n[w] = m[w]
      <3>1. w \in WordAddr /\ w \in Nat /\ w < EndOf(m, q) - 8
        BY Numbers DEF PayloadOf, WordAddr
      <3>2. w < brk - 4
        BY <1>3, <1>6, <3>1
      <3> QED
        BY <1>4, <3>1, <3>2
    <2> QED
      BY <1>6, <2>1 DEF Keeps, Used
  <1>10. Owned(n, z, T)
    <2>1. TagOf(n, EndOf(n, brk)) = 0
      BY <1>5 DEF Grows
    <2>2. ASSUME NEW q \in FreeOf(m, brk, S) PROVE TagOf(n, EndOf(n, q)) = 0
      <3>1. PICK y \in S : y = EndOf(m, q) /\ y = EndOf(n, q) /\ TagOf(m, y) = 0
        BY <1>1, <1>6 DEF FreeOf, Owned
      <3>2. CASE y = brk
        BY <3>1, <3>2 DEF Grows
      <3>3. CASE y # brk
        BY <1>5, <3>1, <3>3 DEF TagOf, GET_TAG
      <3> QED
        BY <3>2, <3>3
    <2> QED
      BY <1>8, <2>1, <2>2 DEF Owned
  <1>11. ListsHold(n, h.lists, F)
    <2>1. ASSUME NEW q \in F
          PROVE  /\ GET_SIZE(n, HDRP(q)) = GET_SIZE(m, HDRP(q))
                 /\ n[q] = m[q] /\ n[q + 4] = m[q + 4]
      <3>1. q \in S \ {brk}
        BY <1>1 DEF FreeOf
      <3>2. q \in WordAddr /\ q + 4 \in WordAddr /\ q \in Nat /\ q + 16 <= EndOf(m, q)
        <4>1. Roomy(q) /\ q # heap_listp
          BY <1>1, FreeSpaced DEF Spaced
        <4> QED
          BY <1>1, <3>1, <4>1, RoomyAddrs, TilesBlock
      <3>3. q < brk - 4 /\ q + 4 < brk - 4
        BY <1>3, <1>6, <3>1, <3>2
      <3>4. n[q - 4] = m[q - 4] /\ n[q] = m[q] /\ n[q + 4] = m[q + 4]
        BY <1>4, <1>5, <3>1, <3>2, <3>3
      <3> QED
        BY <3>4 DEF GET_SIZE, HDRP, WSIZE
    <2> QED
      BY <1>1, <2>1, ListsFrame
  <1>12. g \in Heaps /\ g.mem = n /\ g.lists = h.lists /\ g.ruined = h.ruined
    BY <1>1 DEF Heaps, WithMem
  <1>13. F \subseteq FreeOf(n, z, T)
    BY <1>1, <1>8
  <1> QED
    BY <1>5, <1>8, <1>9, <1>10, <1>11, <1>12, <1>13 DEF Loose, HasGrown

(* Writing into the payload of a block p.                                  *)
Wrote(m, n, brk, S, p) ==
  /\ \A q \in S : n[q - 4] = m[q - 4]
  /\ FreeOf(n, brk, S) = FreeOf(m, brk, S) /\ Used(n, brk, S) = Used(m, brk, S)
  /\ \A q \in S \ {brk} : EndOf(n, q) = EndOf(m, q) /\ SizeOf(n, q) = SizeOf(m, q)
  /\ Keeps(m, n, Used(m, brk, S) \ {p})

(* The lists are not touched by it, if block p is in use.                  *)
LEMMA Write ==
  ASSUME NEW h, NEW brk, NEW S, NEW F, Loose(h, brk, S, F),
         NEW m, m = h.mem, NEW n, n \in [WordAddr -> Nat],
         NEW p, p \in Used(m, brk, S), OnlyAt(m, n, PayloadOf(m, p)),
         NEW g, g = WithMem(h, n)
  PROVE  Loose(g, brk, S, F) /\ g.mem = n /\ g.ruined = h.ruined
         /\ Wrote(m, n, brk, S, p)
  <1>1. /\ m \in [WordAddr -> Nat] /\ n \in [WordAddr -> Nat] /\ Tiles(m, brk, S)
        /\ Owned(m, brk, S) /\ F \subseteq FreeOf(m, brk, S) /\ ListsHold(m, h.lists, F)
        /\ h \in Heaps
    BY DEF Loose, Heaps
  <1>2. Places(m, brk, S)
    BY <1>1, TilesPlaces
  <1>3. p \in S \ {brk} /\ p \in Nat /\ EndOf(m, p) \in Nat /\ p % 8 = 0
    BY <1>1, <1>2, TilesBlock DEF Used, Places
  <1>4. \A q \in S \ {brk} : EndOf(m, q) \in S /\ EndOf(m, q) \in Nat
                             /\ q + 8 <= EndOf(m, q)
    BY <1>1, TilesBlock
  <1>5. ASSUME NEW q \in S PROVE n[q - 4] = m[q - 4] /\ n[q - 8] = m[q - 8]
    <2>1. q \in Nat /\ q - 4 \in WordAddr /\ q - 8 \in WordAddr
          /\ (q <= p \/ EndOf(m, p) <= q)
      BY <1>2, <1>3 DEF Places
    <2>2. q - 4 \notin PayloadOf(m, p) /\ q - 8 \notin PayloadOf(m, p)
      BY <1>3, <2>1 DEF PayloadOf
    <2> QED
      BY <2>1, <2>2 DEF OnlyAt
  <1>6. /\ \A q \in S : SameMark(m, n, q - 4)
        /\ \A q \in S \ {brk} : SameMark(m, n, EndOf(m, q) - 8)
    BY <1>4, <1>5 DEF SameMark, GET_SIZE, GET_ALLOC
  <1>7. /\ Tiles(n, brk, S)
        /\ \A q \in S : /\ SizeOf(n, q) = SizeOf(m, q) /\ AllocOf(n, q) = AllocOf(m, q)
                        /\ EndOf(n, q) = EndOf(m, q)
    BY <1>1, <1>6, TilesFrame
  <1>8. FreeOf(n, brk, S) = FreeOf(m, brk, S) /\ Used(n, brk, S) = Used(m, brk, S)
    BY <1>7 DEF FreeOf, Used
  <1>9. Keeps(m, n, Used(m, brk, S) \ {p})
    <2>1. ASSUME NEW q \in S \ {brk, p}, NEW w \in PayloadOf(m, q) PROVE n[w] = m[w]
      <3>1. w \in WordAddr /\ w \in Nat /\ q <= w /\ w < EndOf(m, q) - 8
        BY Numbers DEF PayloadOf, WordAddr
      <3>2. q \in Nat /\ (q <= p \/ EndOf(m, p) <= q) /\ (p <= q \/ EndOf(m, q) <= p)
        BY <1>2, <1>3 DEF Places
      <3>3. w \notin PayloadOf(m, p)
        BY <1>3, <1>4, <3>1, <3>2 DEF PayloadOf
      <3> QED
        BY <3>1, <3>3 DEF OnlyAt
    <2> QED
      BY <1>7, <2>1 DEF Keeps, Used
  <1>10. Owned(n, brk, S)
    <2>1. \A q \in FreeOf(m, brk, S) :
            /\ EndOf(m, q) \in S /\ EndOf(n, q) = EndOf(m, q)
            /\ TagOf(n, EndOf(m, q)) = TagOf(m, EndOf(m, q))
      BY <1>4, <1>5, <1>7 DEF FreeOf, TagOf, GET_TAG
    <2> QED
      BY <1>1, <1>8, <2>1 DEF Owned
  <1>11. ListsHold(n, h.lists, F)
    <2>1. ASSUME NEW q \in F
          PROVE  /\ GET_SIZE(n, HDRP(q)) = GET_SIZE(m, HDRP(q))
                 /\ n[q] = m[q] /\ n[q + 4] = m[q + 4]
      <3>1. q \in FreeOf(m, brk, S) /\ q \in S
        BY <1>1 DEF FreeOf
      <3>2. /\ q \in WordAddr /\ q + 4 \in WordAddr
            /\ q \notin PayloadOf(m, p) /\ q + 4 \notin PayloadOf(m, p)
        BY <1>1, <3>1, Apart
      <3>3. n[q - 4] = m[q - 4] /\ n[q] = m[q] /\ n[q + 4] = m[q + 4]
        BY <1>5, <3>1, <3>2 DEF OnlyAt
      <3> QED
        BY <3>3 DEF GET_SIZE, HDRP, WSIZE
    <2> QED
      BY <1>1, <2>1, ListsFrame
  <1>12. g \in Heaps /\ g.mem = n /\ g.lists = h.lists /\ g.ruined = h.ruined
    BY <1>1 DEF Heaps, WithMem
  <1> QED
    BY <1>1, <1>5, <1>7, <1>8, <1>9, <1>10, <1>11, <1>12 DEF Loose, Wrote

-----------------------------------------------------------------------------
(* The words the code writes.                                              *)

(* A word packed from a size, an allocation bit and a tag.                 *)
PackedWord(x, z, bit, t) ==
  /\ x \in Nat
  /\ x - (x % 8) = z /\ x % 2 = bit /\ 2 * ((x \div 2) % 2) = t

(* What PACK makes of a size and a bit has them in it.                     *)
LEMMA PackArith ==
  ASSUME NEW z \in Nat, z % 8 = 0, NEW bit \in {0, 1}, NEW t \in {0, 2}
  PROVE  PackedWord(PACK(z, bit) + t, z, bit, t)
  <1>1. \A x \in Nat, b \in {0, 1}, u \in {0, 2} : x % 8 = 0 =>
          /\ x + b + u \in Nat
          /\ (x + b + u) - ((x + b + u) % 8) = x /\ (x + b + u) % 2 = b
          /\ 2 * (((x + b + u) \div 2) % 2) = u
    BY SMT
  <1> QED
    BY <1>1 DEF PackedWord, PACK

(* From m to n, the word at a has been packed.                             *)
Packs(m, n, a, z, bit, t) ==
  /\ n \in [WordAddr -> Nat] /\ OnlyAt(m, n, {a})
  /\ Marks(n, a, z, bit) /\ GET_TAG(n, a) = t

(* A packed word that is written.                                          *)
LEMMA PacksWord ==
  ASSUME NEW m \in [WordAddr -> Nat], NEW a \in WordAddr,
         NEW z, NEW bit, NEW t, NEW x, PackedWord(x, z, bit, t),
         NEW n, n = [m EXCEPT ![a] = x]
  PROVE  Packs(m, n, a, z, bit, t)
  <1>1. n \in [WordAddr -> Nat] /\ n[a] = x /\ \A w \in WordAddr : w # a => n[w] = m[w]
    BY DEF PackedWord
  <1>2. GET_SIZE(n, a) = z /\ GET_ALLOC(n, a) = bit /\ GET_TAG(n, a) = t
    BY <1>1 DEF GET_SIZE, GET_ALLOC, GET_TAG, PackedWord
  <1> QED
    BY <1>1, <1>2 DEF Packs, Marks, OnlyAt

(* PUT packs a word and keeps its tag.                                     *)
LEMMA PutPacks ==
  ASSUME NEW m \in [WordAddr -> Nat], NEW a \in WordAddr,
         NEW z \in Nat, z % 8 = 0, NEW bit \in {0, 1}, NEW n, n = PUT(m, a, PACK(z, bit))
  PROVE  Packs(m, n, a, z, bit, GET_TAG(m, a))
  <1>1. PICK t \in {0, 2} : t = GET_TAG(m, a)
    BY UntaggedWord
  <1>2. PICK x : x = PACK(z, bit) + t
    OBVIOUS
  <1>3. PackedWord(x, z, bit, t)
    BY <1>2, PackArith
  <1>4. n = [m EXCEPT ![a] = x]
    BY <1>1, <1>2 DEF PUT
  <1>5. Packs(m, n, a, z, bit, t)
    BY <1>3, <1>4, PacksWord
  <1> QED
    BY <1>1, <1>5

(* PUT_NOTAG packs a word without a tag.                                   *)
LEMMA PutNoTagPacks ==
  ASSUME NEW m \in [WordAddr -> Nat], NEW a \in WordAddr,
         NEW z \in Nat, z % 8 = 0, NEW bit \in {0, 1},
         NEW n, n = PUT_NOTAG(m, a, PACK(z, bit))
  PROVE  Packs(m, n, a, z, bit, 0)
  <1>1. PICK x : x = PACK(z, bit)
    OBVIOUS
  <1>2. PackedWord(x, z, bit, 0)
    <2>1. x + 0 = x
      BY <1>1 DEF PACK
    <2> QED
      BY <1>1, <2>1, PackArith
  <1>3. n = [m EXCEPT ![a] = x]
    BY <1>1 DEF PUT_NOTAG
  <1> QED
    BY <1>2, <1>3, PacksWord

(* Two words packed alike.                                                 *)
PacksBoth(m, n, a, b, z, bit, t) ==
  /\ n \in [WordAddr -> Nat] /\ OnlyAt(m, n, {a, b})
  /\ Marks(n, a, z, bit) /\ GET_TAG(n, a) = t /\ Marks(n, b, z, bit)

(* One after the other.                                                    *)
LEMMA PacksTwo ==
  ASSUME NEW m \in [WordAddr -> Nat], NEW x, NEW n,
         NEW a \in WordAddr, NEW b \in WordAddr, a # b, NEW z, NEW bit, NEW t, NEW u,
         Packs(m, x, a, z, bit, t), Packs(x, n, b, z, bit, u)
  PROVE  PacksBoth(m, n, a, b, z, bit, t) /\ PacksBoth(m, n, b, a, z, bit, u)
  <1>1. n \in [WordAddr -> Nat] /\ OnlyAt(m, n, {a, b}) /\ n[a] = x[a]
    BY DEF Packs, OnlyAt
  <1>2. /\ GET_SIZE(n, a) = GET_SIZE(x, a) /\ GET_ALLOC(n, a) = GET_ALLOC(x, a)
        /\ GET_TAG(n, a) = GET_TAG(x, a)
    BY <1>1 DEF GET_SIZE, GET_ALLOC, GET_TAG
  <1>3. /\ Marks(n, a, z, bit) /\ GET_TAG(n, a) = t
        /\ Marks(n, b, z, bit) /\ GET_TAG(n, b) = u
    BY <1>2 DEF Packs, Marks
  <1>4. OnlyAt(m, n, {b, a})
    BY <1>1 DEF OnlyAt
  <1> QED
    BY <1>1, <1>3, <1>4 DEF PacksBoth

(* Two places where the tags of a block may be.                            *)
Extent(p, e) == /\ p \in Nat /\ e \in Nat /\ p % 8 = 0 /\ e % 8 = 0 /\ p + 8 <= e
                /\ p - 4 \in WordAddr /\ e - 8 \in WordAddr

Span(p, e) == e - p

(* Such a place is a multiple of 8, and not empty.                         *)
LEMMA ExtentSize ==
  ASSUME NEW p, NEW e, Extent(p, e)
  PROVE  e - p \in Nat /\ (e - p) % 8 = 0 /\ p - 4 # e - 8 /\ e - p >= 8
         /\ p + (e - p) = e
  <1>1. p \in Nat /\ e \in Nat /\ p % 8 = 0 /\ e % 8 = 0 /\ p + 8 <= e
    BY DEF Extent
  <1> QED
    BY <1>1

(* The ways the code retags an area: header first or footer first.         *)
LEMMA PutsRetag ==
  ASSUME NEW m \in [WordAddr -> Nat], NEW p, NEW e, Extent(p, e), NEW bit \in {0, 1},
         NEW z, z = Span(p, e), NEW n,
         \/ n = PUT(PUT(m, p - 4, PACK(z, bit)), e - 8, PACK(z, bit))
         \/ n = PUT(PUT(m, e - 8, PACK(z, bit)), p - 4, PACK(z, bit))
  PROVE  Retags(m, n, p, e, bit) /\ TagOf(n, p) = TagOf(m, p)
  <1>1. /\ z \in Nat /\ z % 8 = 0 /\ p - 4 # e - 8
        /\ p - 4 \in WordAddr /\ e - 8 \in WordAddr
    BY ExtentSize DEF Extent, Span
  <1>2. PacksBoth(m, n, p - 4, e - 8, z, bit, GET_TAG(m, p - 4))
    <2>1. CASE n = PUT(PUT(m, p - 4, PACK(z, bit)), e - 8, PACK(z, bit))
      <3>1. PICK x : x = PUT(m, p - 4, PACK(z, bit))
        OBVIOUS
      <3>2. Packs(m, x, p - 4, z, bit, GET_TAG(m, p - 4))
        BY <1>1, <3>1, PutPacks
      <3>3. x \in [WordAddr -> Nat]
        BY <3>2 DEF Packs
      <3>4. n = PUT(x, e - 8, PACK(z, bit))
        BY <2>1, <3>1
      <3>5. Packs(x, n, e - 8, z, bit, GET_TAG(x, e - 8))
        BY <1>1, <3>3, <3>4, PutPacks
      <3> QED
        BY <1>1, <3>2, <3>5, PacksTwo
    <2>2. CASE n = PUT(PUT(m, e - 8, PACK(z, bit)), p - 4, PACK(z, bit))
      <3>1. PICK x : x = PUT(m, e - 8, PACK(z, bit))
        OBVIOUS
      <3>2. Packs(m, x, e - 8, z, bit, GET_TAG(m, e - 8))
        BY <1>1, <3>1, PutPacks
      <3>3. x \in [WordAddr -> Nat] /\ x[p - 4] = m[p - 4]
        BY <1>1, <3>2 DEF Packs, OnlyAt
      <3>4. n = PUT(x, p - 4, PACK(z, bit))
        BY <2>2, <3>1
      <3>5. Packs(x, n, p - 4, z, bit, GET_TAG(x, p - 4))
        BY <1>1, <3>3, <3>4, PutPacks
      <3>6. GET_TAG(x, p - 4) = GET_TAG(m, p - 4)
        BY <3>3 DEF GET_TAG
      <3>7. PacksBoth(m, n, p - 4, e - 8, z, bit, GET_TAG(x, p - 4))
        BY <1>1, <3>2, <3>5, PacksTwo
      <3> QED
        BY <3>6, <3>7
    <2> QED
      BY <2>1, <2>2
  <1> QED
    BY <1>2 DEF PacksBoth, Retags, TagOf, Span

(* A block's header and footer written together.                           *)
LEMMA PutBothRetags ==
  ASSUME NEW m \in [WordAddr -> Nat], NEW p, NEW e, Extent(p, e), NEW bit \in {0, 1},
         NEW z, z = Span(p, e), NEW n, n = PutBoth(m, p, PACK(z, bit))
  PROVE  Retags(m, n, p, e, bit) /\ TagOf(n, p) = TagOf(m, p)
  <1>1. /\ z \in Nat /\ z % 8 = 0 /\ p + z - 8 = e - 8 /\ p - 4 \in WordAddr
    BY ExtentSize DEF Extent, Span
  <1>2. PICK x : x = PUT(m, p - 4, PACK(z, bit))
    OBVIOUS
  <1>3. Packs(m, x, p - 4, z, bit, GET_TAG(m, p - 4))
    BY <1>1, <1>2, PutPacks
  <1>4. FTRP(x, p) = e - 8
    BY <1>1, <1>3 DEF Packs, Marks, FTRP, HDRP, WSIZE, DSIZE
  <1>5. n = PUT(x, e - 8, PACK(z, bit))
    BY <1>2, <1>4 DEF PutBoth, HDRP, WSIZE
  <1> QED
    BY <1>2, <1>5, PutsRetag

(* The same without the tags.                                              *)
LEMMA PutBothNoTagRetags ==
  ASSUME NEW m \in [WordAddr -> Nat], NEW p, NEW e, Extent(p, e), NEW bit \in {0, 1},
         NEW z, z = Span(p, e), NEW n, n = PutBothNoTag(m, p, PACK(z, bit))
  PROVE  Retags(m, n, p, e, bit) /\ TagOf(n, p) = 0
  <1>1. /\ z \in Nat /\ z % 8 = 0 /\ p + z - 8 = e - 8 /\ p - 4 # e - 8
        /\ p - 4 \in WordAddr /\ e - 8 \in WordAddr
    BY ExtentSize DEF Extent, Span
  <1>2. PICK x : x = PUT_NOTAG(m, p - 4, PACK(z, bit))
    OBVIOUS
  <1>3. Packs(m, x, p - 4, z, bit, 0)
    BY <1>1, <1>2, PutNoTagPacks
  <1>4. FTRP(x, p) = e - 8 /\ x \in [WordAddr -> Nat]
    BY <1>1, <1>3 DEF Packs, Marks, FTRP, HDRP, WSIZE, DSIZE
  <1>5. n = PUT_NOTAG(x, e - 8, PACK(z, bit))
    BY <1>2, <1>4 DEF PutBothNoTag, HDRP, WSIZE
  <1>6. Packs(x, n, e - 8, z, bit, 0)
    BY <1>1, <1>4, <1>5, PutNoTagPacks
  <1>7. PacksBoth(m, n, p - 4, e - 8, z, bit, 0)
    BY <1>1, <1>3, <1>6, PacksTwo
  <1> QED
    BY <1>7 DEF PacksBoth, Retags, TagOf, Span

-----------------------------------------------------------------------------
(* coalesce.                                                               *)

(* The blocks of P that do not begin between p and e.                      *)
Beside(P, p, e) == {q \in P : q < p \/ e <= q}

(* The heap r is h but for the area from p to e, which is a free block now.*)
Merged(h, r, brk, S, T, p, e) ==
  /\ Whole(r, brk, T) /\ p \in FreeOf(r.mem, brk, T)
  /\ SizeOf(r.mem, p) = e - p /\ EndOf(r.mem, p) = e
  /\ TagOf(r.mem, p) \in {0, TagOf(h.mem, p)}
  /\ FreeOf(r.mem, brk, T) = Beside(FreeOf(h.mem, brk, S), p, e) \cup {p}
  /\ Used(r.mem, brk, T) = Beside(Used(h.mem, brk, S), p, e)
  /\ Keeps(h.mem, r.mem, Used(r.mem, brk, T))
  /\ \A q \in T \ {p} : q \in S /\ r.mem[q - 4] = h.mem[q - 4]

(* Free blocks that have been taken off their lists become one, which is   *)
(* put on its list.                                                        *)
LEMMA Merge ==
  ASSUME NEW h, h \in Heaps, NEW brk, NEW S, NEW F, NEW g, Loose(g, brk, S, F),
         Unmoved(h.mem, g.mem, brk, S), NEW p, NEW e,
         F = Beside(FreeOf(h.mem, brk, S), p, e),
         p \in S \ {heap_listp}, e \in S, p < e, TagOf(h.mem, e) = 0,
         NEW n, Retags(g.mem, n, p, e, 0), NEW k, k = WithMem(g, n),
         NEW z, z = Span(p, e), NEW r, r = insert_block(k, p, z),
         NEW T, T = Outside(S, p, e)
  PROVE  Merged(h, r, brk, S, T, p, e) /\ r.ruined = g.ruined
  <1>0. z = e - p
    BY DEF Span
  <1>1. PICK m : m = g.mem
    OBVIOUS
  <1>2. /\ TagOf(m, e) = 0 /\ TagOf(m, p) = TagOf(h.mem, p)
        /\ FreeOf(m, brk, S) = FreeOf(h.mem, brk, S) /\ Used(m, brk, S) = Used(h.mem, brk, S)
        /\ \A q \in S : m[q - 4] = h.mem[q - 4]
        /\ Keeps(h.mem, m, Used(h.mem, brk, S))
    BY <1>1 DEF Unmoved, TagOf, GET_TAG
  <1>3. \A q \in F : q < p \/ e <= q
    BY DEF Beside
  <1>4. Loose(k, brk, T, F) /\ k.mem = n /\ k.ruined = g.ruined
        /\ Retagged(m, n, brk, S, T, p, e, 0)
    BY <1>1, <1>2, <1>3, Retag
  <1>5. /\ p \in T \ {brk} /\ SizeOf(n, p) = e - p /\ EndOf(n, p) = e
        /\ \A q \in T \ {p} : n[q - 4] = m[q - 4]
        /\ FreeOf(n, brk, T) = F \cup {p} /\ Used(n, brk, T) = Beside(Used(m, brk, S), p, e)
        /\ Keeps(m, n, Beside(Used(m, brk, S), p, e))
    BY <1>2, <1>4 DEF Retagged, Beside
  <1>6. p \notin F
    <2>1. p \in Nat /\ e \in Nat
      <3>1. PICK y \in [WordAddr -> Nat] : y = g.mem /\ Tiles(y, brk, S)
        BY DEF Loose, Heaps
      <3> QED
        BY <3>1, TilesPlaces DEF Places
    <2> QED
      BY <1>3, <2>1
  <1>7. Loose(r, brk, T, F \cup {p}) /\ r.ruined = k.ruined /\ Unmoved(n, r.mem, brk, T)
    <2>0. PICK G : G = F \cup {p}
      OBVIOUS
    <2>1. p \in FreeOf(k.mem, brk, T) \ F
      BY <1>0, <1>4, <1>5, <1>6
    <2>3. PICK y : y = SizeOf(k.mem, p) /\ r = insert_block(k, p, y)
      BY <1>0, <1>4, <1>5
    <2>2. Loose(r, brk, T, G) /\ r.ruined = k.ruined /\ Unmoved(k.mem, r.mem, brk, T)
      BY <1>4, <2>0, <2>1, <2>3, Link
    <2> QED
      BY <1>4, <2>0, <2>2
  <1>8. PICK y : y = r.mem
    OBVIOUS
  <1>9. /\ FreeOf(y, brk, T) = F \cup {p}
        /\ Used(y, brk, T) = Beside(Used(h.mem, brk, S), p, e)
        /\ Keeps(n, y, Used(n, brk, T))
        /\ \A q \in T : y[q - 4] = n[q - 4]
        /\ EndOf(y, p) = EndOf(n, p)
    BY <1>2, <1>5, <1>7, <1>8 DEF Unmoved
  <1>10. SizeOf(y, p) = e - p /\ TagOf(y, p) = TagOf(n, p)
    BY <1>5, <1>9 DEF SizeOf, TagOf, GET_SIZE, GET_TAG
  <1>11. Keeps(h.mem, y, Used(y, brk, T))
    <2>1. PICK U : U = Beside(Used(h.mem, brk, S), p, e)
      OBVIOUS
    <2>2. U \subseteq Used(h.mem, brk, S)
      BY <2>1 DEF Beside
    <2>3. Keeps(h.mem, m, U)
      BY <1>2, <2>2, KeepsLess
    <2>4. Keeps(m, n, U) /\ Keeps(n, y, U)
      BY <1>2, <1>5, <1>9, <2>1
    <2>5. Keeps(h.mem, y, U)
      BY <2>3, <2>4, KeepsTwice
    <2> QED
      BY <1>9, <2>1, <2>5
  <1>12. \A q \in T \ {p} : q \in S /\ y[q - 4] = h.mem[q - 4]
    BY <1>2, <1>5, <1>9 DEF Outside
  <1>13. TagOf(y, p) \in {0, TagOf(h.mem, p)}
    BY <1>1, <1>2, <1>10 DEF Retags
  <1> QED
    BY <1>4, <1>5, <1>7, <1>8, <1>9, <1>10, <1>11, <1>12, <1>13 DEF Merged, Whole

(* The blocks before and behind a block.                                   *)
LEMMA Neighbours ==
  ASSUME NEW m \in [WordAddr -> Nat], NEW brk, NEW S, Tiles(m, brk, S),
         NEW b \in S \ {heap_listp, brk}
  PROVE  /\ PREV_BLKP(m, b) \in S \ {brk} /\ EndOf(m, PREV_BLKP(m, b)) = b
         /\ PREV_BLKP(m, b) + SizeOf(m, PREV_BLKP(m, b)) = b
         /\ PREV_BLKP(m, b) + 8 <= b
         /\ NEXT_BLKP(m, b) \in S /\ NEXT_BLKP(m, b) = EndOf(m, b)
         /\ NEXT_BLKP(m, b) >= b + 16 /\ NEXT_BLKP(m, b) = b + SizeOf(m, b)
  <1>1. PICK p \in S \ {brk} : EndOf(m, p) = b
    BY TilesAddrs
  <1>2. /\ EndOf(m, p) = p + SizeOf(m, p) /\ SizeOf(m, p) \in Nat /\ p \in Nat
        /\ GET_SIZE(m, EndOf(m, p) - 8) = SizeOf(m, p) /\ p + 8 <= EndOf(m, p)
    BY TilesAddrs, TilesBlock
  <1>3. PREV_BLKP(m, b) = p
    <2>1. PICK z \in Nat : z = SizeOf(m, p) /\ b = p + z /\ GET_SIZE(m, b - 8) = z
      BY <1>1, <1>2
    <2>2. PREV_BLKP(m, b) = b - z
      BY <2>1 DEF PREV_BLKP, DSIZE
    <2> QED
      BY <1>2, <2>1, <2>2
  <1>4. NEXT_BLKP(m, b) = EndOf(m, b)
    BY DEF NEXT_BLKP, EndOf, SizeOf, HDRP, WSIZE
  <1>5. EndOf(m, b) \in S /\ EndOf(m, b) >= b + 16 /\ EndOf(m, b) = b + SizeOf(m, b)
    BY TilesBlock
  <1> QED
    BY <1>1, <1>2, <1>3, <1>4, <1>5

(* Two steps that move nothing.                                            *)
LEMMA UnmovedTwice ==
  ASSUME NEW m, NEW x, NEW n, NEW brk, NEW S,
         Unmoved(m, x, brk, S), Unmoved(x, n, brk, S)
  PROVE  Unmoved(m, n, brk, S)
  <1>1. Keeps(m, n, Used(m, brk, S))
    BY KeepsTwice DEF Unmoved
  <1> QED
    BY <1>1 DEF Unmoved

(* Some of the blocks on the lists have been taken off them.               *)
Took(h, g, brk, S, F) ==
  Loose(g, brk, S, F) /\ g.ruined = h.ruined /\ Unmoved(h.mem, g.mem, brk, S)

(* One more is taken off.                                                  *)
LEMMA TakeMore ==
  ASSUME NEW h, NEW g, NEW brk, NEW S, NEW F, Took(h, g, brk, S, F), NEW b \in F,
         NEW r, r = delete_block(g, b), NEW G, G = F \ {b}
  PROVE  Took(h, r, brk, S, G)
  <1>1. /\ Loose(r, brk, S, G) /\ r.ruined = g.ruined
        /\ Unmoved(g.mem, r.mem, brk, S)
    BY Unlink DEF Took
  <1> QED
    BY <1>1, UnmovedTwice DEF Took

(* What coalesce leaves: block p, with b in it, and no other new block.    *)
Settled(h, k, brk, S, T, b, p) ==
  /\ Whole(k, brk, T) /\ p \in FreeOf(k.mem, brk, T)
  /\ SizeOf(k.mem, p) >= SizeOf(h.mem, b) /\ TagOf(k.mem, p) \in {0, TagOf(h.mem, b)}
  /\ Used(k.mem, brk, T) = Used(h.mem, brk, S)
  /\ Keeps(h.mem, k.mem, Used(h.mem, brk, S))
  /\ \A q \in FreeOf(k.mem, brk, T) \ {p} :
       q \in FreeOf(h.mem, brk, S) \ {b} /\ k.mem[q - 4] = h.mem[q - 4]

Rest(F, D) == F \ D

(* The blocks D, from p to e, are off the lists: they are made one and put *)
(* on its list.                                                            *)
LEMMA Settle ==
  ASSUME NEW h, NEW brk, NEW S, Whole(h, brk, S), NEW p, NEW e, NEW D,
         \A q \in S : (q < p \/ e <= q) <=> q \notin D,
         D \subseteq FreeOf(h.mem, brk, S),
         NEW b \in D, p <= b, EndOf(h.mem, b) <= e, p \in D, e \in S,
         TagOf(h.mem, e) = 0, TagOf(h.mem, p) \in {0, TagOf(h.mem, b)},
         NEW g, NEW F, F = Rest(FreeOf(h.mem, brk, S), D), Took(h, g, brk, S, F),
         NEW n, Retags(g.mem, n, p, e, 0), NEW k, k = WithMem(g, n),
         NEW z, z = Span(p, e), NEW r, r = insert_block(k, p, z)
  PROVE  r.ruined = h.ruined /\ \E T : Settled(h, r, brk, S, T, b, p)
  <1>1. PICK m \in [WordAddr -> Nat] : m = h.mem /\ Tiles(m, brk, S)
    BY DEF Whole, Loose, Heaps
  <1>2. Places(m, brk, S)
    BY <1>1, TilesPlaces
  <1>3. /\ D \subseteq S \ {heap_listp, brk}
        /\ \A q \in Used(m, brk, S) : q \in S /\ q \notin D
    <2>1. FreeOf(m, brk, S) \subseteq S \ {heap_listp, brk}
      BY <1>1, FreeSpaced
    <2> QED
      BY <1>1, <2>1 DEF FreeOf, Used
  <1>4. /\ F = Beside(FreeOf(m, brk, S), p, e)
        /\ Used(m, brk, S) = Beside(Used(m, brk, S), p, e)
    <2>1. \A q \in FreeOf(m, brk, S) : q \in S
      BY DEF FreeOf
    <2> QED
      BY <1>1, <1>3, <2>1 DEF Beside, Rest
  <1>5. p \in S \ {heap_listp} /\ p \in Nat /\ e \in Nat /\ p < e /\ b \in Nat
        /\ SizeOf(m, b) \in Nat /\ EndOf(m, b) = b + SizeOf(m, b)
    <2>1. p \in S \ {heap_listp} /\ b \in S \ {brk}
      BY <1>3
    <2> QED
      BY <1>1, <1>2, <2>1, TilesBlock DEF Places
  <1>6. PICK T : T = Outside(S, p, e)
    OBVIOUS
  <1>7. Merged(h, r, brk, S, T, p, e) /\ r.ruined = g.ruined
    <2>1. h \in Heaps /\ Loose(g, brk, S, F) /\ Unmoved(h.mem, g.mem, brk, S)
      BY DEF Took, Whole, Loose
    <2>2. F = Beside(FreeOf(h.mem, brk, S), p, e)
      BY <1>1, <1>4
    <2>3. p \in S \ {heap_listp} /\ e \in S /\ p < e /\ TagOf(h.mem, e) = 0
      BY <1>5
    <2> QED
      BY <1>6, <2>1, <2>2, <2>3, Merge
  <1>8. PICK y : y = r.mem
    OBVIOUS
  <1>9. /\ Whole(r, brk, T) /\ p \in FreeOf(y, brk, T) /\ SizeOf(y, p) = e - p
        /\ TagOf(y, p) \in {0, TagOf(m, p)}
        /\ FreeOf(y, brk, T) = F \cup {p} /\ Used(y, brk, T) = Used(m, brk, S)
        /\ Keeps(m, y, Used(m, brk, S))
        /\ \A q \in T \ {p} : y[q - 4] = m[q - 4]
    BY <1>1, <1>4, <1>7, <1>8 DEF Merged
  <1>10. SizeOf(y, p) >= SizeOf(m, b)
    BY <1>1, <1>5, <1>9
  <1>11. TagOf(y, p) \in {0, TagOf(m, b)}
    BY <1>1, <1>9
  <1>12. \A q \in FreeOf(y, brk, T) \ {p} :
           q \in FreeOf(m, brk, S) \ {b} /\ y[q - 4] = m[q - 4]
    BY <1>1, <1>9 DEF FreeOf, Rest
  <1>13. Settled(h, r, brk, S, T, b, p)
    BY <1>1, <1>8, <1>9, <1>10, <1>11, <1>12 DEF Settled
  <1> QED
    BY <1>7, <1>13 DEF Took

(* None has been taken off yet.                                            *)
LEMMA WholeTook ==
  ASSUME NEW h, NEW brk, NEW S, Whole(h, brk, S)
  PROVE  Took(h, h, brk, S, FreeOf(h.mem, brk, S))
  <1>1. PICK m : m = h.mem
    OBVIOUS
  <1>2. Unmoved(m, m, brk, S)
    BY <1>1 DEF Unmoved, Keeps, Whole, Loose
  <1> QED
    BY <1>1, <1>2 DEF Took, Whole

(* Taking two, or three, blocks off the lists.                             *)
LEMMA TakeTwo ==
  ASSUME NEW h, NEW brk, NEW S, Whole(h, brk, S),
         NEW a \in FreeOf(h.mem, brk, S), NEW b \in FreeOf(h.mem, brk, S), a # b,
         NEW x, x = delete_block(h, a), NEW g, g = delete_block(x, b)
  PROVE  Took(h, g, brk, S, Rest(FreeOf(h.mem, brk, S), {a, b}))
  <1>1. PICK F : F = FreeOf(h.mem, brk, S)
    OBVIOUS
  <1>2. Took(h, h, brk, S, F)
    BY <1>1, WholeTook
  <1>3. PICK G : G = F \ {a}
    OBVIOUS
  <1>4. Took(h, x, brk, S, G)
    BY <1>1, <1>2, <1>3, TakeMore
  <1>5. PICK H : H = G \ {b}
    OBVIOUS
  <1>6. b \in G
    BY <1>1, <1>3
  <1>7. Took(h, g, brk, S, H)
    BY <1>4, <1>5, <1>6, TakeMore
  <1>8. H = Rest(F, {a, b})
    BY <1>3, <1>5 DEF Rest
  <1> QED
    BY <1>1, <1>7, <1>8

(* And three.                                                              *)
LEMMA TakeThree ==
  ASSUME NEW h, NEW brk, NEW S, Whole(h, brk, S),
         NEW a \in FreeOf(h.mem, brk, S), NEW b \in FreeOf(h.mem, brk, S),
         NEW c \in FreeOf(h.mem, brk, S), a # b, a # c, b # c,
         NEW x, x = delete_block(h, a), NEW y, y = delete_block(x, b),
         NEW g, g = delete_block(y, c)
  PROVE  Took(h, g, brk, S, Rest(FreeOf(h.mem, brk, S), {a, b, c}))
  <1>1. PICK F : F = Rest(FreeOf(h.mem, brk, S), {a, b})
    OBVIOUS
  <1>2. Took(h, y, brk, S, F)
    BY <1>1, TakeTwo
  <1>3. PICK G : G = F \ {c}
    OBVIOUS
  <1>4. c \in F
    BY <1>1 DEF Rest
  <1>5. Took(h, g, brk, S, G)
    BY <1>2, <1>3, <1>4, TakeMore
  <1>6. G = Rest(FreeOf(h.mem, brk, S), {a, b, c})
    BY <1>1, <1>3 DEF Rest
  <1> QED
    BY <1>5, <1>6

(* Headers are the same afterwards.                                        *)
LEMMA TookMem ==
  ASSUME NEW h, NEW g, NEW brk, NEW S, NEW F, Took(h, g, brk, S, F)
  PROVE  /\ g.mem \in [WordAddr -> Nat] /\ Unmoved(h.mem, g.mem, brk, S)
         /\ \A q \in S : g.mem[q - 4] = h.mem[q - 4]
  BY DEF Took, Loose, Heaps, Unmoved

(* Between two blocks of a tiling there is a place for a block.            *)
LEMMA ExtentOf ==
  ASSUME NEW m, NEW brk, NEW S, Places(m, brk, S),
         NEW p \in S, NEW e \in S, p < e
  PROVE  Extent(p, e)
  <1>1. /\ p \in Nat /\ e \in Nat /\ p % 8 = 0 /\ e % 8 = 0
        /\ p - 4 \in WordAddr /\ e - 8 \in WordAddr
    BY DEF Places
  <1>2. p + 8 <= e
    BY <1>1
  <1> QED
    BY <1>1, <1>2 DEF Extent

(* A free block, what is before it and behind it.                          *)
Around(m, brk, S, p, b, e) ==
  /\ b \in FreeOf(m, brk, S) /\ b \in S \ {heap_listp, brk}
  /\ p = PREV_BLKP(m, b) /\ e = NEXT_BLKP(m, b)
  /\ p \in S \ {brk} /\ e \in S /\ e = EndOf(m, b) /\ EndOf(m, p) = b
  /\ p \in Nat /\ b \in Nat /\ e \in Nat /\ p + 8 <= b /\ b + 16 <= e
  /\ GET_SIZE(m, HDRP(b)) = e - b /\ GET_SIZE(m, HDRP(p)) = b - p
  /\ HDRP(p) = p - 4 /\ HDRP(b) = b - 4 /\ HDRP(e) = e - 4
  /\ GET_ALLOC(m, HDRP(p)) = AllocOf(m, p) /\ GET_TAG(m, HDRP(p)) = TagOf(m, p)
  /\ GET_ALLOC(m, HDRP(e)) = AllocOf(m, e)
  /\ AllocOf(m, p) \in {0, 1} /\ AllocOf(m, e) \in {0, 1}
  /\ \A q \in S : (q < p \/ b <= q) <=> q # p
  /\ \A q \in S : (q < b \/ e <= q) <=> q # b

(* Every free block has both.                                              *)
LEMMA AroundIs ==
  ASSUME NEW m \in [WordAddr -> Nat], NEW brk, NEW S, Tiles(m, brk, S),
         NEW b \in FreeOf(m, brk, S)
  PROVE  \E p, e : Around(m, brk, S, p, b, e)
  <1>1. b \in S \ {heap_listp, brk}
    <2>1. FreeOf(m, brk, S) \subseteq S \ {heap_listp, brk}
      BY FreeSpaced
    <2> QED
      BY <2>1
  <1>2. PICK p, e : p = PREV_BLKP(m, b) /\ e = NEXT_BLKP(m, b)
    OBVIOUS
  <1>3. /\ p \in S \ {brk} /\ EndOf(m, p) = b /\ p + SizeOf(m, p) = b /\ p + 8 <= b
        /\ e \in S /\ e = EndOf(m, b) /\ e >= b + 16 /\ e = b + SizeOf(m, b)
    BY <1>1, <1>2, Neighbours
  <1>4. Places(m, brk, S)
    BY TilesPlaces
  <1>5. p \in Nat /\ b \in Nat /\ e \in Nat
    BY <1>1, <1>3, <1>4 DEF Places
  <1>6. /\ SizeOf(m, p) \in Nat /\ SizeOf(m, b) \in Nat
        /\ AllocOf(m, p) \in {0, 1} /\ AllocOf(m, e) \in {0, 1}
    <2>1. CASE e = brk
      BY <1>1, <1>3, <2>1, TilesBlock, TilesAddrs
    <2>2. CASE e # brk
      BY <1>1, <1>3, <2>2, TilesBlock
    <2> QED
      BY <2>1, <2>2
  <1>7. GET_SIZE(m, p - 4) = b - p /\ GET_SIZE(m, b - 4) = e - b
    <2>1. SizeOf(m, p) = b - p /\ SizeOf(m, b) = e - b
      BY <1>3, <1>5, <1>6
    <2> QED
      BY <2>1 DEF SizeOf
  <1>8. \A q \in S : (q <= p \/ b <= q) /\ (q <= b \/ e <= q) /\ q \in Nat
    BY <1>1, <1>3, <1>4 DEF Places
  <1>9. \A q \in S : (q < p \/ b <= q) <=> q # p
    BY <1>3, <1>5, <1>8
  <1>10. \A q \in S : (q < b \/ e <= q) <=> q # b
    BY <1>3, <1>5, <1>8
  <1>11. HDRP(p) = p - 4 /\ HDRP(b) = b - 4 /\ HDRP(e) = e - 4
    BY DEF HDRP, WSIZE
  <1>12. /\ GET_ALLOC(m, HDRP(p)) = AllocOf(m, p) /\ GET_TAG(m, HDRP(p)) = TagOf(m, p)
         /\ GET_ALLOC(m, HDRP(e)) = AllocOf(m, e)
         /\ GET_SIZE(m, HDRP(b)) = e - b /\ GET_SIZE(m, HDRP(p)) = b - p
    BY <1>7, <1>11 DEF AllocOf, TagOf
  <1>13. Around(m, brk, S, p, b, e)
    BY <1>1, <1>2, <1>3, <1>5, <1>6, <1>9, <1>10, <1>11, <1>12 DEF Around
  <1> QED
    BY <1>13

(* The cases of coalesce, each with what it leaves.                        *)
Coalesced(h, r, brk, S, b) ==
  r.heap.ruined = h.ruined /\ \E T : Settled(h, r.heap, brk, S, T, b, r.bp)

(* The sizes of two, and of three, blocks.                                 *)
Joint(m, b, e) == GET_SIZE(m, HDRP(b)) + GET_SIZE(m, HDRP(e))
Joint3(m, b, p, e) == Joint(m, b, p) + GET_SIZE(m, HDRP(e))

(* There is no tag behind a free block.                                    *)
LEMMA OwnedEnd ==
  ASSUME NEW h, NEW brk, NEW S, Whole(h, brk, S), NEW b \in FreeOf(h.mem, brk, S),
         NEW e, e = EndOf(h.mem, b)
  PROVE  TagOf(h.mem, e) = 0
  BY DEF Whole, Loose, Owned

(* Two neighbours: what begins between them.                               *)
LEMMA Apart2 ==
  ASSUME NEW S, NEW p, NEW b, NEW e, p \in Int, b \in Int, e \in Int, p < b, b < e,
         \A q \in S : q \in Nat,
         \A q \in S : (q < p \/ b <= q) <=> q # p,
         \A q \in S : (q < b \/ e <= q) <=> q # b
  PROVE  \A q \in S : (q < p \/ e <= q) <=> q \notin {p, b}
  OBVIOUS

(* The third case of coalesce: the block behind is free.                   *)
LEMMA MergeNext ==
  ASSUME NEW h, NEW brk, NEW S, Whole(h, brk, S), NEW m, m = h.mem,
         NEW p, NEW b, NEW e, Around(m, brk, S, p, b, e),
         NEW c, Around(m, brk, S, b, e, c),
         NEW x, x = delete_block(h, b), NEW g, g = delete_block(x, e),
         NEW z, z = Joint(m, b, e),
         NEW n, n = PutBoth(g.mem, b, PACK(z, 0)), NEW k, k = WithMem(g, n),
         NEW r, r = insert_block(k, b, z)
  PROVE  r.ruined = h.ruined /\ \E T : Settled(h, r, brk, S, T, b, b)
  <1>1. Places(m, brk, S) /\ Tiles(m, brk, S)
    <2>1. PICK y \in [WordAddr -> Nat] : y = m /\ Tiles(y, brk, S)
      BY DEF Whole, Loose, Heaps
    <2> QED
      BY <2>1, TilesPlaces
  <1>2. /\ b \in FreeOf(m, brk, S) /\ e \in FreeOf(m, brk, S) /\ b # e
        /\ b \in S /\ e \in S /\ c \in S /\ b \in Nat /\ e \in Nat /\ c \in Nat
        /\ b < e /\ e < c /\ EndOf(m, b) = e /\ EndOf(m, e) = c
        /\ GET_SIZE(m, HDRP(b)) = e - b /\ GET_SIZE(m, HDRP(e)) = c - e
    BY DEF Around
  <1>3. z = Span(b, c)
    BY <1>2 DEF Span, Joint, Joint3
  <1>4. PICK D : D = {b, e}
    OBVIOUS
  <1>5. \A q \in S : (q < b \/ c <= q) <=> q \notin D
    <2>1. \A q \in S : q \in Nat
      BY <1>1 DEF Places
    <2>2. /\ \A q \in S : (q < b \/ e <= q) <=> q # b
          /\ \A q \in S : (q < e \/ c <= q) <=> q # e
      BY DEF Around
    <2> QED
      BY <1>2, <1>4, <2>1, <2>2, Apart2
  <1>6. PICK F : F = Rest(FreeOf(m, brk, S), D)
    OBVIOUS
  <1>7. Took(h, g, brk, S, F)
    BY <1>2, <1>4, <1>6, TakeTwo
  <1>8. Extent(b, c)
    BY <1>1, <1>2, ExtentOf
  <1>9. Retags(g.mem, n, b, c, 0)
    BY <1>3, <1>7, <1>8, TookMem, PutBothRetags
  <1>10. TagOf(m, c) = 0
    BY <1>2, OwnedEnd
  <1>11. D \subseteq FreeOf(h.mem, brk, S) /\ b \in D
    BY <1>2, <1>4
  <1>12. b <= b /\ EndOf(h.mem, b) <= c /\ c \in S
    BY <1>2
  <1>13. F = Rest(FreeOf(h.mem, brk, S), D) /\ TagOf(h.mem, c) = 0
         /\ TagOf(h.mem, b) \in {0, TagOf(h.mem, b)}
    BY <1>6, <1>10
  <1> QED
    BY <1>3, <1>5, <1>7, <1>9, <1>11, <1>12, <1>13, Settle

(* The second one: the block before is free.                               *)
LEMMA MergePrev ==
  ASSUME NEW h, NEW brk, NEW S, Whole(h, brk, S), NEW m, m = h.mem,
         NEW p, NEW b, NEW e, Around(m, brk, S, p, b, e),
         p \in FreeOf(m, brk, S), TagOf(m, p) = 0,
         NEW x, x = delete_block(h, b), NEW g, g = delete_block(x, p),
         NEW z, z = Joint(m, b, p),
         NEW f, f = PUT(g.mem, FTRP(g.mem, b), PACK(z, 0)),
         NEW n, n = PUT(f, HDRP(p), PACK(z, 0)), NEW k, k = WithMem(g, n),
         NEW r, r = insert_block(k, p, z)
  PROVE  r.ruined = h.ruined /\ \E T : Settled(h, r, brk, S, T, b, p)
  <1>1. Places(m, brk, S) /\ Tiles(m, brk, S)
    <2>1. PICK y \in [WordAddr -> Nat] : y = m /\ Tiles(y, brk, S)
      BY DEF Whole, Loose, Heaps
    <2> QED
      BY <2>1, TilesPlaces
  <1>2. /\ b \in FreeOf(m, brk, S) /\ p # b
        /\ b \in S /\ p \in S /\ e \in S /\ b \in Nat /\ e \in Nat /\ p \in Nat
        /\ p < b /\ b < e /\ EndOf(m, b) = e
        /\ GET_SIZE(m, HDRP(b)) = e - b /\ GET_SIZE(m, HDRP(p)) = b - p
        /\ HDRP(p) = p - 4 /\ HDRP(b) = b - 4
    BY DEF Around
  <1>3. z = Span(p, e)
    BY <1>2 DEF Span, Joint, Joint3
  <1>4. PICK D : D = {b, p}
    OBVIOUS
  <1>5. \A q \in S : (q < p \/ e <= q) <=> q \notin D
    <2>1. \A q \in S : q \in Nat
      BY <1>1 DEF Places
    <2>2. /\ \A q \in S : (q < p \/ b <= q) <=> q # p
          /\ \A q \in S : (q < b \/ e <= q) <=> q # b
      BY DEF Around
    <2>3. \A q \in S : (q < p \/ e <= q) <=> q \notin {p, b}
      BY <1>2, <2>1, <2>2, Apart2
    <2> QED
      BY <1>4, <2>3
  <1>6. PICK F : F = Rest(FreeOf(m, brk, S), D)
    OBVIOUS
  <1>7. Took(h, g, brk, S, F)
    BY <1>2, <1>4, <1>6, TakeTwo
  <1>8. Extent(p, e)
    BY <1>1, <1>2, ExtentOf
  <1>9. Retags(g.mem, n, p, e, 0)
    <2>1. g.mem \in [WordAddr -> Nat] /\ g.mem[b - 4] = m[b - 4]
      BY <1>2, <1>7, TookMem
    <2>2. FTRP(g.mem, b) = e - 8
      <3>1. GET_SIZE(g.mem, b - 4) = e - b
        BY <1>2, <2>1 DEF GET_SIZE
      <3> QED
        BY <1>2, <3>1 DEF FTRP, DSIZE
    <2>3. n = PUT(PUT(g.mem, e - 8, PACK(z, 0)), p - 4, PACK(z, 0))
      BY <1>2, <2>2
    <2> QED
      BY <1>3, <1>8, <2>1, <2>3, PutsRetag
  <1>10. TagOf(m, e) = 0
    BY <1>2, OwnedEnd
  <1>11. D \subseteq FreeOf(h.mem, brk, S) /\ b \in D /\ p \in D
    BY <1>2, <1>4
  <1>12. p <= b /\ EndOf(h.mem, b) <= e /\ e \in S
    BY <1>2
  <1>13. F = Rest(FreeOf(h.mem, brk, S), D) /\ TagOf(h.mem, e) = 0
         /\ TagOf(h.mem, p) \in {0, TagOf(h.mem, b)}
    BY <1>6, <1>10
  <1> QED
    BY <1>3, <1>5, <1>7, <1>9, <1>11, <1>12, <1>13, Settle

(* The last one: both are.                                                 *)
LEMMA MergeBoth ==
  ASSUME NEW h, NEW brk, NEW S, Whole(h, brk, S), NEW m, m = h.mem,
         NEW p, NEW b, NEW e, Around(m, brk, S, p, b, e),
         p \in FreeOf(m, brk, S), TagOf(m, p) = 0,
         NEW c, Around(m, brk, S, b, e, c),
         NEW x, x = delete_block(h, b), NEW y, y = delete_block(x, p),
         NEW g, g = delete_block(y, e),
         NEW z, z = Joint3(m, b, p, e),
         NEW f, f = PUT(g.mem, HDRP(p), PACK(z, 0)),
         NEW n, n = PUT(f, FTRP(f, e), PACK(z, 0)), NEW k, k = WithMem(g, n),
         NEW r, r = insert_block(k, p, z)
  PROVE  r.ruined = h.ruined /\ \E T : Settled(h, r, brk, S, T, b, p)
  <1>1. Places(m, brk, S) /\ Tiles(m, brk, S)
    <2>1. PICK w \in [WordAddr -> Nat] : w = m /\ Tiles(w, brk, S)
      BY DEF Whole, Loose, Heaps
    <2> QED
      BY <2>1, TilesPlaces
  <1>2. /\ b \in FreeOf(m, brk, S) /\ e \in FreeOf(m, brk, S) /\ p # b /\ p # e /\ b # e
        /\ b \in S /\ p \in S /\ e \in S /\ c \in S
        /\ b \in Nat /\ e \in Nat /\ p \in Nat /\ c \in Nat
        /\ p < b /\ b < e /\ e < c /\ p < c /\ p < e
        /\ EndOf(m, b) = e /\ EndOf(m, e) = c
        /\ GET_SIZE(m, HDRP(b)) = e - b /\ GET_SIZE(m, HDRP(p)) = b - p
        /\ GET_SIZE(m, HDRP(e)) = c - e
        /\ HDRP(p) = p - 4 /\ HDRP(b) = b - 4 /\ HDRP(e) = e - 4
    BY DEF Around
  <1>3. z = Span(p, c)
    BY <1>2 DEF Span, Joint, Joint3
  <1>4. PICK D : D = {b, p, e}
    OBVIOUS
  <1>5. \A q \in S : (q < p \/ c <= q) <=> q \notin D
    <2>1. \A q \in S : q \in Nat
      BY <1>1 DEF Places
    <2>2. /\ \A q \in S : (q < p \/ b <= q) <=> q # p
          /\ \A q \in S : (q < b \/ e <= q) <=> q # b
          /\ \A q \in S : (q < e \/ c <= q) <=> q # e
      BY DEF Around
    <2>3. \A q \in S : (q < p \/ c <= q) <=> q \notin {p, b, e}
      BY <1>2, <2>1, <2>2
    <2> QED
      BY <1>4, <2>3
  <1>6. PICK F : F = Rest(FreeOf(m, brk, S), D)
    OBVIOUS
  <1>7. Took(h, g, brk, S, F)
    BY <1>2, <1>4, <1>6, TakeThree
  <1>8. Extent(p, c)
    BY <1>1, <1>2, ExtentOf
  <1>9. Retags(g.mem, n, p, c, 0)
    <2>1. g.mem \in [WordAddr -> Nat] /\ g.mem[e - 4] = m[e - 4]
      BY <1>2, <1>7, TookMem
    <2>2. f[e - 4] = m[e - 4]
      <3>1. e - 4 # p - 4
        BY <1>2
      <3>2. f = [g.mem EXCEPT ![p - 4] = PACK(z, 0) + GET_TAG(g.mem, p - 4)]
        BY <1>2 DEF PUT
      <3>3. e - 4 \in WordAddr
        BY <1>1, <1>2 DEF Places
      <3> QED
        BY <2>1, <3>1, <3>2, <3>3
    <2>3. FTRP(f, e) = c - 8
      <3>1. GET_SIZE(f, e - 4) = c - e
        BY <1>2, <2>2 DEF GET_SIZE
      <3> QED
        BY <1>2, <3>1 DEF FTRP, DSIZE
    <2>4. n = PUT(PUT(g.mem, p - 4, PACK(z, 0)), c - 8, PACK(z, 0))
      BY <1>2, <2>3
    <2> QED
      BY <1>3, <1>8, <2>1, <2>4, PutsRetag
  <1>10. TagOf(m, c) = 0
    BY <1>2, OwnedEnd
  <1>11. D \subseteq FreeOf(h.mem, brk, S) /\ b \in D /\ p \in D
    BY <1>2, <1>4
  <1>12. p <= b /\ EndOf(h.mem, b) <= c /\ c \in S
    BY <1>2
  <1>13. F = Rest(FreeOf(h.mem, brk, S), D) /\ TagOf(h.mem, c) = 0
         /\ TagOf(h.mem, p) \in {0, TagOf(h.mem, b)}
    BY <1>6, <1>10
  <1> QED
    BY <1>3, <1>5, <1>7, <1>9, <1>11, <1>12, <1>13, Settle

(* The free block before, or behind, a free block, has neighbours too.     *)
LEMMA AroundNext ==
  ASSUME NEW m \in [WordAddr -> Nat], NEW brk, NEW S, Tiles(m, brk, S),
         NEW p, NEW b, NEW e, Around(m, brk, S, p, b, e), AllocOf(m, e) = 0
  PROVE  \E c : Around(m, brk, S, b, e, c)
  <1>1. e \in S /\ e # brk
    BY TilesAddrs DEF Around
  <1>2. e \in FreeOf(m, brk, S)
    BY <1>1 DEF FreeOf
  <1>3. PICK q, c : Around(m, brk, S, q, e, c)
    BY <1>2, AroundIs
  <1>4. q = b
    <2>1. /\ \A y \in S : (y < q \/ e <= y) <=> y # q
          /\ q \in S /\ q < e /\ q \in Nat /\ e \in Nat
      BY <1>3 DEF Around
    <2>2. b \in S /\ b \in Nat /\ b < e
      BY DEF Around
    <2>3. /\ \A y \in S : (y < b \/ e <= y) <=> y # b
      BY DEF Around
    <2> QED
      BY <2>1, <2>2, <2>3
  <1> QED
    BY <1>3, <1>4

(* The first case of coalesce changes nothing.                             *)
LEMMA SettledAlone ==
  ASSUME NEW h, NEW brk, NEW S, Whole(h, brk, S), NEW b \in FreeOf(h.mem, brk, S)
  PROVE  Settled(h, h, brk, S, S, b, b)
  <1>1. PICK m \in [WordAddr -> Nat] : m = h.mem /\ Tiles(m, brk, S)
    BY DEF Whole, Loose, Heaps
  <1>2. SizeOf(m, b) \in Nat
    BY <1>1, TilesBlock DEF FreeOf
  <1> QED
    BY <1>1, <1>2 DEF Settled, Keeps

(* What coalesce(h, b) computes, spelled out.                              *)
CoalesceNext(h, r, b, e) ==
  \E x, g, z, n :
    /\ x = delete_block(h, b) /\ g = delete_block(x, e)
    /\ z = Joint(h.mem, b, e)
    /\ n = PutBoth(g.mem, b, PACK(z, 0))
    /\ r.heap = insert_block(WithMem(g, n), b, z) /\ r.bp = b

CoalescePrev(h, r, b, p) ==
  \E x, g, z, f, n :
    /\ x = delete_block(h, b) /\ g = delete_block(x, p)
    /\ z = Joint(h.mem, b, p)
    /\ f = PUT(g.mem, FTRP(g.mem, b), PACK(z, 0))
    /\ n = PUT(f, HDRP(p), PACK(z, 0))
    /\ r.heap = insert_block(WithMem(g, n), p, z) /\ r.bp = p

CoalesceBoth(h, r, b, p, e) ==
  \E x, y, g, z, f, n :
    /\ x = delete_block(h, b) /\ y = delete_block(x, p) /\ g = delete_block(y, e)
    /\ z = Joint3(h.mem, b, p, e)
    /\ f = PUT(g.mem, HDRP(p), PACK(z, 0))
    /\ n = PUT(f, FTRP(f, e), PACK(z, 0))
    /\ r.heap = insert_block(WithMem(g, n), p, z) /\ r.bp = p

(* coalesce does one of them, or is led astray by a tag.                   *)
LEMMA CoalesceCases ==
  ASSUME NEW h, NEW b, NEW p, p = PREV_BLKP(h.mem, b), NEW e, e = NEXT_BLKP(h.mem, b),
         NEW pa, pa = GET_ALLOC(h.mem, HDRP(p)), NEW ea, ea = GET_ALLOC(h.mem, HDRP(e)),
         NEW t, t = GET_TAG(h.mem, HDRP(p)), pa \in {0, 1}, ea \in {0, 1},
         NEW r, r = coalesce(h, b)
  PROVE  \/ pa = 1 /\ ea = 1 /\ r.heap = h /\ r.bp = b
         \/ r.heap = [h EXCEPT !.ruined = "tag"] /\ r.bp = b
         \/ ea = 0 /\ CoalesceNext(h, r, b, e)
         \/ pa = 0 /\ t = 0 /\ CoalescePrev(h, r, b, p)
         \/ pa = 0 /\ t = 0 /\ ea = 0 /\ CoalesceBoth(h, r, b, p, e)
  <1>1. CASE pa = 1 /\ ea = 1
    BY <1>1 DEF coalesce
  <1>2. CASE pa = 0 /\ t # 0 /\ ea = 1
    BY <1>2 DEF coalesce, MergesAllocated
  <1>3. CASE (pa = 1 \/ t # 0) /\ ea = 0
    BY <1>3 DEF coalesce, MergesAllocated, CoalesceNext, WithMem, Joint
  <1>4. CASE pa = 0 /\ t = 0 /\ ea = 1
    BY <1>4 DEF coalesce, MergesAllocated, CoalescePrev, WithMem, Joint
  <1>5. CASE pa = 0 /\ t = 0 /\ ea = 0
    BY <1>5 DEF coalesce, MergesAllocated, CoalesceBoth, WithMem, Joint, Joint3
  <1> QED
    BY <1>1, <1>2, <1>3, <1>4, <1>5

(* coalesce leaves the lists whole, unless a tag leads it astray.          *)
LEMMA Coalesce ==
  ASSUME NEW h, NEW brk, NEW S, Whole(h, brk, S), NEW b \in FreeOf(h.mem, brk, S),
         NEW r, r = coalesce(h, b)
  PROVE  \/ r.heap = [h EXCEPT !.ruined = "tag"] /\ r.bp = b
         \/ Coalesced(h, r, brk, S, b)
  <1>1. PICK m \in [WordAddr -> Nat] : m = h.mem /\ Tiles(m, brk, S)
    BY DEF Whole, Loose, Heaps
  <1>2. PICK p, e : Around(m, brk, S, p, b, e)
    BY <1>1, AroundIs
  <1>3. /\ p = PREV_BLKP(m, b) /\ e = NEXT_BLKP(m, b)
        /\ GET_ALLOC(m, HDRP(p)) = AllocOf(m, p) /\ GET_TAG(m, HDRP(p)) = TagOf(m, p)
        /\ GET_ALLOC(m, HDRP(e)) = AllocOf(m, e)
        /\ AllocOf(m, p) \in {0, 1} /\ AllocOf(m, e) \in {0, 1}
        /\ p \in S \ {brk}
    BY <1>2 DEF Around
  <1>4. \/ r.heap = h /\ r.bp = b
        \/ r.heap = [h EXCEPT !.ruined = "tag"] /\ r.bp = b
        \/ AllocOf(m, e) = 0 /\ CoalesceNext(h, r, b, e)
        \/ AllocOf(m, p) = 0 /\ TagOf(m, p) = 0 /\ CoalescePrev(h, r, b, p)
        \/ AllocOf(m, p) = 0 /\ TagOf(m, p) = 0 /\ AllocOf(m, e) = 0
             /\ CoalesceBoth(h, r, b, p, e)
    BY <1>1, <1>3, CoalesceCases
  <1>5. CASE r.heap = h /\ r.bp = b
    BY <1>5, SettledAlone DEF Coalesced
  <1>6. CASE AllocOf(m, e) = 0 /\ CoalesceNext(h, r, b, e)
    <2>1. PICK c : Around(m, brk, S, b, e, c)
      BY <1>1, <1>2, <1>6, AroundNext
    <2>2. PICK x, g, z, n :
            /\ x = delete_block(h, b) /\ g = delete_block(x, e)
            /\ z = Joint(m, b, e)
            /\ n = PutBoth(g.mem, b, PACK(z, 0))
            /\ r.heap = insert_block(WithMem(g, n), b, z) /\ r.bp = b
      BY <1>1, <1>6 DEF CoalesceNext
    <2>3. PICK k : k = WithMem(g, n)
      OBVIOUS
    <2>4. PICK u : u = r.heap
      OBVIOUS
    <2>5. u = insert_block(k, b, z)
      BY <2>2, <2>3, <2>4
    <2>6. u.ruined = h.ruined /\ \E T : Settled(h, u, brk, S, T, b, b)
      BY <1>1, <1>2, <2>1, <2>2, <2>3, <2>5, MergeNext
    <2> QED
      BY <2>2, <2>4, <2>6 DEF Coalesced
  <1>7. CASE AllocOf(m, p) = 0 /\ TagOf(m, p) = 0 /\ CoalescePrev(h, r, b, p)
    <2>1. p \in FreeOf(m, brk, S)
      BY <1>3, <1>7 DEF FreeOf
    <2>2. PICK x, g, z, f, n :
            /\ x = delete_block(h, b) /\ g = delete_block(x, p)
            /\ z = Joint(m, b, p)
            /\ f = PUT(g.mem, FTRP(g.mem, b), PACK(z, 0))
            /\ n = PUT(f, HDRP(p), PACK(z, 0))
            /\ r.heap = insert_block(WithMem(g, n), p, z) /\ r.bp = p
      BY <1>1, <1>7 DEF CoalescePrev
    <2>3. PICK k : k = WithMem(g, n)
      OBVIOUS
    <2>4. PICK u : u = r.heap
      OBVIOUS
    <2>5. u = insert_block(k, p, z)
      BY <2>2, <2>3, <2>4
    <2>6. u.ruined = h.ruined /\ \E T : Settled(h, u, brk, S, T, b, p)
      BY <1>1, <1>2, <1>7, <2>1, <2>2, <2>3, <2>5, MergePrev
    <2> QED
      BY <2>2, <2>4, <2>6 DEF Coalesced
  <1>8. CASE AllocOf(m, p) = 0 /\ TagOf(m, p) = 0 /\ AllocOf(m, e) = 0
             /\ CoalesceBoth(h, r, b, p, e)
    <2>1. p \in FreeOf(m, brk, S)
      BY <1>3, <1>8 DEF FreeOf
    <2>2. PICK c : Around(m, brk, S, b, e, c)
      BY <1>1, <1>2, <1>8, AroundNext
    <2>3. PICK x, y, g, z, f, n :
            /\ x = delete_block(h, b) /\ y = delete_block(x, p) /\ g = delete_block(y, e)
            /\ z = Joint3(m, b, p, e)
            /\ f = PUT(g.mem, HDRP(p), PACK(z, 0))
            /\ n = PUT(f, FTRP(f, e), PACK(z, 0))
            /\ r.heap = insert_block(WithMem(g, n), p, z) /\ r.bp = p
      BY <1>1, <1>8 DEF CoalesceBoth
    <2>4. PICK k : k = WithMem(g, n)
      OBVIOUS
    <2>5. PICK u : u = r.heap
      OBVIOUS
    <2>6. u = insert_block(k, p, z)
      BY <2>3, <2>4, <2>5
    <2>7. u.ruined = h.ruined /\ \E T : Settled(h, u, brk, S, T, b, p)
      BY <1>1, <1>2, <1>8, <2>1, <2>2, <2>3, <2>4, <2>6, MergeBoth
    <2> QED
      BY <2>3, <2>5, <2>7 DEF Coalesced
  <1> QED
    BY <1>4, <1>5, <1>6, <1>7, <1>8

-----------------------------------------------------------------------------
(* extend_heap, place, mm_free and the rest of mm_realloc.                 *)

(* What extend_heap leaves: a free block p of at least n bytes, untagged,  *)
(* and no other new one.                                                   *)
Extended(h, k, brk, S, z, T, n, p) ==
  /\ Whole(k, z, T) /\ p \in FreeOf(k.mem, z, T)
  /\ SizeOf(k.mem, p) >= n /\ TagOf(k.mem, p) = 0
  /\ Used(k.mem, z, T) = Used(h.mem, brk, S)
  /\ Keeps(h.mem, k.mem, Used(h.mem, brk, S))
  /\ \A q \in FreeOf(k.mem, z, T) \ {p} :
       q \in FreeOf(h.mem, brk, S) /\ k.mem[q - 4] = h.mem[q - 4]

(* The words extend_heap writes.                                           *)
LEMMA ExtendWrites ==
  ASSUME NEW m \in [WordAddr -> Nat], NEW brk, NEW z, Extent(brk, z), z \in BlockPtrs,
         brk + 16 <= z, NEW n, n = Span(brk, z),
         NEW freed, freed = PutBothNoTag(m, brk, PACK(n, 0)),
         NEW ended, ended = PUT_NOTAG(freed, HDRP(NEXT_BLKP(freed, brk)), PACK(0, 1))
  PROVE  Grows(m, ended, brk, z)
  <1>1. Retags(m, freed, brk, z, 0) /\ TagOf(freed, brk) = 0
    BY PutBothNoTagRetags
  <1>2. freed \in [WordAddr -> Nat]
    BY <1>1 DEF Retags
  <1>3. /\ brk \in Nat /\ z \in Nat /\ brk - 4 \in WordAddr /\ z - 8 \in WordAddr
        /\ n = z - brk /\ brk - 4 # z - 4 /\ z - 8 # z - 4
    BY DEF Extent, Span
  <1>4. z - 4 \in WordAddr
    BY <1>3, Numbers DEF WordAddr, BlockPtrs, WSIZE, DSIZE
  <1>5. HDRP(NEXT_BLKP(freed, brk)) = z - 4
    <2>1. GET_SIZE(freed, brk - 4) = z - brk
      BY <1>1 DEF Retags, Marks
    <2> QED
      BY <1>3, <2>1 DEF HDRP, NEXT_BLKP, WSIZE
  <1>6. Packs(freed, ended, z - 4, 0, 1, 0)
    <2>1. ended = PUT_NOTAG(freed, z - 4, PACK(0, 1))
      BY <1>5
    <2> QED
      BY <1>2, <1>4, <2>1, PutNoTagPacks
  <1>7. ended[brk - 4] = freed[brk - 4] /\ ended[z - 8] = freed[z - 8]
    BY <1>3, <1>6 DEF Packs, OnlyAt
  <1>8. OnlyAt(m, ended, {brk - 4, z - 8, z - 4})
    BY <1>1, <1>6 DEF Retags, Packs, OnlyAt
  <1>9. Marks(ended, brk - 4, z - brk, 0) /\ Marks(ended, z - 8, z - brk, 0)
        /\ TagOf(ended, brk) = 0
    BY <1>1, <1>7 DEF Retags, Marks, GET_SIZE, GET_ALLOC, TagOf, GET_TAG
  <1>10. Marks(ended, z - 4, 0, 1) /\ TagOf(ended, z) = 0
    BY <1>6 DEF Packs, TagOf
  <1> QED
    BY <1>6, <1>8, <1>9, <1>10 DEF Grows, Packs

(* extend_heap adds a free block, merged with the last one if that is      *)
(* free.                                                                   *)
LEMMA Extend ==
  ASSUME NEW h, NEW brk, NEW S, Whole(h, brk, S), NEW words,
         NEW n, n = ExtendSize(words), NEW z, z = brk + n,
         n \in Nat, n >= 16, n % 8 = 0, z <= mem_max_addr,
         NEW r, r = extend_heap(h, brk, words)
  PROVE  /\ r.heap \in Heaps /\ r.bp \in BlockPtrs
         /\ \/ r.heap.ruined = "tag"
            \/ /\ r.heap.ruined = h.ruined
               /\ \E T : Extended(h, r.heap, brk, S, z, T, n, r.bp)
  <1>1. PICK m \in [WordAddr -> Nat] : m = h.mem /\ Tiles(m, brk, S)
    BY DEF Whole, Loose, Heaps
  <1>2. /\ brk \in S /\ brk \in Nat /\ brk % 8 = 0 /\ heap_listp < brk
        /\ brk - 4 \in WordAddr
    BY <1>1, TilesAddrs
  <1>3. z \in BlockPtrs /\ brk + 16 <= z /\ z \in Nat
    BY <1>2, Numbers DEF BlockPtrs, DSIZE
  <1>4. Extent(brk, z) /\ n = Span(brk, z)
    <2>1. z - 8 \in WordAddr
      BY <1>2, <1>3, Numbers DEF WordAddr, WSIZE, BlockPtrs, DSIZE
    <2>2. z % 8 = 0 /\ brk + 8 <= z /\ n = z - brk
      BY <1>2, <1>3 DEF BlockPtrs, DSIZE
    <2> QED
      BY <1>2, <1>3, <2>1, <2>2 DEF Extent, Span
  <1>5. PICK freed : freed = PutBothNoTag(m, brk, PACK(n, 0))
    OBVIOUS
  <1>6. PICK ended :
          ended = PUT_NOTAG(freed, HDRP(NEXT_BLKP(freed, brk)), PACK(0, 1))
    OBVIOUS
  <1>7. Grows(m, ended, brk, z)
    BY <1>3, <1>4, <1>5, <1>6, ExtendWrites
  <1>8. PICK F, T, g : F = FreeOf(h.mem, brk, S) /\ T = S \cup {z} /\ g = WithMem(h, ended)
    OBVIOUS
  <1>9. Loose(g, z, T, F) /\ g.mem = ended /\ g.ruined = h.ruined
        /\ HasGrown(m, ended, brk, S, z, T)
    <2>1. Loose(h, brk, S, F)
      BY <1>8 DEF Whole
    <2>2. T = S \cup {z}
      BY <1>8
    <2>3. g = WithMem(h, ended)
      BY <1>8
    <2>4. m = h.mem
      BY <1>1
    <2> QED
      BY <1>7, <2>1, <2>2, <2>3, <2>4, Grow
  <1>10. PICK k : k = insert_block(g, brk, n)
    OBVIOUS
  <1>11. /\ SizeOf(g.mem, brk) = n /\ TagOf(g.mem, brk) = 0
         /\ FreeOf(g.mem, z, T) = F \cup {brk} /\ brk \notin F
         /\ Used(g.mem, z, T) = Used(h.mem, brk, S)
         /\ Keeps(h.mem, g.mem, Used(h.mem, brk, S))
         /\ \A q \in S \ {brk} : g.mem[q - 4] = h.mem[q - 4]
    BY <1>1, <1>2, <1>7, <1>8, <1>9 DEF HasGrown, Grows, FreeOf
  <1>12. PICK G : G = F \cup {brk}
    OBVIOUS
  <1>13. Loose(k, z, T, G) /\ k.ruined = g.ruined /\ Unmoved(g.mem, k.mem, z, T)
    <2>1. brk \in FreeOf(g.mem, z, T) \ F
      BY <1>11
    <2> QED
      BY <1>9, <1>10, <1>11, <1>12, <2>1, Link
  <1>14. Whole(k, z, T) /\ brk \in FreeOf(k.mem, z, T)
    BY <1>11, <1>12, <1>13 DEF Whole, Unmoved
  <1>15. r = coalesce(k, brk)
    BY <1>1, <1>5, <1>6, <1>8, <1>10 DEF extend_heap, WithMem
  <1>16. /\ SizeOf(k.mem, brk) = n /\ TagOf(k.mem, brk) = 0
         /\ FreeOf(k.mem, z, T) = F \cup {brk}
         /\ Used(k.mem, z, T) = Used(h.mem, brk, S)
         /\ Keeps(h.mem, k.mem, Used(h.mem, brk, S))
         /\ \A q \in S \ {brk} : k.mem[q - 4] = h.mem[q - 4]
    <2>1. Used(k.mem, z, T) = Used(h.mem, brk, S) /\ FreeOf(k.mem, z, T) = F \cup {brk}
      BY <1>11, <1>13 DEF Unmoved
    <2>2. Keeps(h.mem, k.mem, Used(h.mem, brk, S))
      <3>1. Keeps(g.mem, k.mem, Used(h.mem, brk, S))
        BY <1>11, <1>13 DEF Unmoved
      <3> QED
        BY <1>11, <3>1, KeepsTwice
    <2>3. \A q \in T : k.mem[q - 4] = g.mem[q - 4]
      BY <1>13 DEF Unmoved
    <2>4. \A q \in S \ {brk} : k.mem[q - 4] = h.mem[q - 4]
      BY <1>8, <1>11, <2>3
    <2>5. k.mem[brk - 4] = g.mem[brk - 4]
      BY <1>2, <1>8, <2>3
    <2>6. SizeOf(k.mem, brk) = n /\ TagOf(k.mem, brk) = 0
      BY <1>11, <2>5 DEF SizeOf, TagOf, GET_SIZE, GET_TAG
    <2> QED
      BY <2>1, <2>2, <2>4, <2>6
  <1>17. CASE r.heap = [k EXCEPT !.ruined = "tag"] /\ r.bp = brk
    <2>1. k \in Heaps
      BY <1>14 DEF Whole, Loose
    <2>2. [k EXCEPT !.ruined = "tag"] \in Heaps /\ [k EXCEPT !.ruined = "tag"].ruined = "tag"
      BY <2>1 DEF Heaps
    <2>3. brk \in BlockPtrs
      BY <1>1, <1>2, TilesAddrs
    <2> QED
      BY <1>17, <2>2, <2>3
  <1>18. CASE Coalesced(k, r, z, T, brk)
    <2>2. PICK W : Settled(k, r.heap, z, T, W, brk, r.bp)
      BY <1>18 DEF Coalesced
    <2>3. Extended(h, r.heap, brk, S, z, W, n, r.bp)
      <3>1. SizeOf(r.heap.mem, r.bp) >= n /\ TagOf(r.heap.mem, r.bp) = 0
            /\ Whole(r.heap, z, W) /\ r.bp \in FreeOf(r.heap.mem, z, W)
            /\ Used(r.heap.mem, z, W) = Used(h.mem, brk, S)
        BY <1>16, <2>2 DEF Settled
      <3>2. Keeps(h.mem, r.heap.mem, Used(h.mem, brk, S))
        <4>1. Keeps(k.mem, r.heap.mem, Used(h.mem, brk, S))
          BY <1>16, <2>2 DEF Settled
        <4> QED
          BY <1>16, <4>1, KeepsTwice
      <3>3. \A q \in FreeOf(r.heap.mem, z, W) \ {r.bp} :
              q \in FreeOf(h.mem, brk, S) /\ r.heap.mem[q - 4] = h.mem[q - 4]
        <4>1. \A q \in FreeOf(r.heap.mem, z, W) \ {r.bp} :
                q \in F /\ r.heap.mem[q - 4] = k.mem[q - 4]
          BY <1>16, <2>2 DEF Settled
        <4>2. \A q \in F : q \in S \ {brk}
          BY <1>8 DEF FreeOf
        <4> QED
          BY <1>8, <1>16, <4>1, <4>2
      <3> QED
        BY <3>1, <3>2, <3>3 DEF Extended
    <2>4. r.heap \in Heaps /\ r.bp \in BlockPtrs /\ r.heap.ruined = h.ruined
      <3>1. Whole(r.heap, z, W) /\ r.bp \in FreeOf(r.heap.mem, z, W)
        BY <2>2 DEF Settled
      <3>2. PICK y \in [WordAddr -> Nat] : y = r.heap.mem /\ Tiles(y, z, W)
        BY <3>1 DEF Whole, Loose, Heaps
      <3>3. W \subseteq BlockPtrs
        BY <3>2, TilesAddrs
      <3> QED
        BY <1>9, <1>13, <1>18, <3>1, <3>3 DEF Coalesced, FreeOf, Whole, Loose
    <2> QED
      BY <2>3, <2>4
  <1> QED
    BY <1>14, <1>15, <1>17, <1>18, Coalesce

(* What place leaves: block b is in use, with at least n bytes.            *)
Placed(h, r, brk, S, T, b, n) ==
  /\ Whole(r, brk, T)
  /\ Used(r.mem, brk, T) = Used(h.mem, brk, S) \cup {b}
  /\ Keeps(h.mem, r.mem, Used(h.mem, brk, S))
  /\ SizeOf(r.mem, b) >= n

(* The words place writes when it splits a block.                          *)
LEMMA PlaceWrites ==
  ASSUME NEW m \in [WordAddr -> Nat], NEW b, NEW x, NEW e, Extent(b, x), Extent(x, e),
         b + 16 <= x, x + 16 <= e,
         NEW y, y = Span(b, x), NEW z, z = Span(x, e),
         NEW front, front = PutBoth(m, b, PACK(y, 1)),
         NEW n, n = PutBothNoTag(front, x, PACK(z, 0))
  PROVE  Cuts(m, n, b, x, e)
  <1>1. Retags(m, front, b, x, 1) /\ TagOf(front, b) = TagOf(m, b)
    BY PutBothRetags
  <1>2. front \in [WordAddr -> Nat]
    BY <1>1 DEF Retags
  <1>3. Retags(front, n, x, e, 0)
    BY <1>2, PutBothNoTagRetags
  <1>4. /\ b \in Nat /\ x \in Nat /\ e \in Nat
        /\ b - 4 \in WordAddr /\ x - 8 \in WordAddr /\ e - 8 \in WordAddr
        /\ x - 4 \in WordAddr
    BY DEF Extent
  <1>5. b - 4 # x - 4 /\ b - 4 # e - 8 /\ x - 8 # x - 4 /\ x - 8 # e - 8
    BY <1>4
  <1>6. n[b - 4] = front[b - 4] /\ n[x - 8] = front[x - 8]
    BY <1>3, <1>4, <1>5 DEF Retags, OnlyAt
  <1>7. OnlyAt(m, n, {b - 4, x - 8, x - 4, e - 8})
    BY <1>1, <1>3 DEF Retags, OnlyAt
  <1>8. /\ Marks(n, b - 4, x - b, 1) /\ Marks(n, x - 8, x - b, 1)
        /\ TagOf(n, b) \in {0, TagOf(m, b)}
    BY <1>1, <1>6 DEF Retags, Marks, GET_SIZE, GET_ALLOC, GET_TAG, TagOf
  <1> QED
    BY <1>3, <1>7, <1>8 DEF Cuts, Retags

(* The two ways of place.                                                  *)
PlacesPart(h, r, b, asize) ==
  \E g, y, z, front, n, k :
    /\ g = delete_block(h, b) /\ y = asize /\ z = GET_SIZE(h.mem, HDRP(b)) - asize
    /\ z >= 16
    /\ front = PutBoth(g.mem, b, PACK(y, 1))
    /\ n = PutBothNoTag(front, NEXT_BLKP(front, b), PACK(z, 0))
    /\ k = WithMem(g, n) /\ r = insert_block(k, NEXT_BLKP(front, b), z)

PlacesAll(h, r, b) ==
  \E g, z, n :
    /\ g = delete_block(h, b) /\ z = GET_SIZE(h.mem, HDRP(b))
    /\ n = PutBoth(g.mem, b, PACK(z, 1)) /\ r = WithMem(g, n)

(* place does one or the other.                                            *)
LEMMA PlaceCases ==
  ASSUME NEW h, NEW b, NEW asize, NEW r, r = place(h, b, asize)
  PROVE  PlacesPart(h, r, b, asize) \/ PlacesAll(h, r, b)
  BY DEF place, PlacesPart, PlacesAll, WithMem, MIN_BSIZE

(* The block is taken as it is.                                            *)
LEMMA PlaceAll ==
  ASSUME NEW h, NEW brk, NEW S, Whole(h, brk, S), NEW b \in FreeOf(h.mem, brk, S),
         NEW asize \in Nat, asize <= SizeOf(h.mem, b), NEW r, PlacesAll(h, r, b)
  PROVE  r.ruined = h.ruined /\ \E T : Placed(h, r, brk, S, T, b, asize)
  <1>1. PICK m \in [WordAddr -> Nat] : m = h.mem /\ Tiles(m, brk, S)
    BY DEF Whole, Loose, Heaps
  <1>2. PICK p, e : Around(m, brk, S, p, b, e)
    BY <1>1, AroundIs
  <1>3. /\ b \in S \ {heap_listp, brk} /\ e \in S /\ b \in Nat /\ e \in Nat
        /\ b < e /\ EndOf(m, b) = e /\ GET_SIZE(m, HDRP(b)) = e - b
        /\ \A q \in S : (q < b \/ e <= q) <=> q # b
        /\ SizeOf(m, b) = e - b
    BY <1>2 DEF Around, SizeOf
  <1>4. PICK g, z, n :
          /\ g = delete_block(h, b) /\ z = GET_SIZE(m, HDRP(b))
          /\ n = PutBoth(g.mem, b, PACK(z, 1)) /\ r = WithMem(g, n)
    BY <1>1 DEF PlacesAll
  <1>5. PICK H, F : H = FreeOf(h.mem, brk, S) /\ F = H \ {b}
    OBVIOUS
  <1>6. Loose(g, brk, S, F) /\ g.ruined = h.ruined /\ Unmoved(m, g.mem, brk, S)
    <2>1. Loose(h, brk, S, H) /\ b \in H
      BY <1>5 DEF Whole
    <2> QED
      BY <1>1, <1>4, <1>5, <2>1, Unlink
  <1>7. Extent(b, e) /\ z = Span(b, e)
    <2>1. Places(m, brk, S)
      BY <1>1, TilesPlaces
    <2> QED
      BY <1>3, <1>4, <2>1, ExtentOf DEF Span
  <1>8. PICK w \in [WordAddr -> Nat] : w = g.mem
    BY <1>6 DEF Loose, Heaps
  <1>9. Retags(w, n, b, e, 1)
    BY <1>4, <1>7, <1>8, PutBothRetags
  <1>10. PICK T : T = Outside(S, b, e)
    OBVIOUS
  <1>11. /\ Loose(r, brk, T, F) /\ r.mem = n /\ r.ruined = g.ruined
         /\ Retagged(w, n, brk, S, T, b, e, 1)
    <2>1. \A q \in F : q < b \/ e <= q
      BY <1>3, <1>5 DEF FreeOf
    <2> QED
      BY <1>3, <1>4, <1>6, <1>8, <1>9, <1>10, <2>1, Retag
  <1>12. /\ FreeOf(w, brk, S) = H /\ Used(w, brk, S) = Used(m, brk, S)
         /\ Keeps(m, w, Used(m, brk, S))
    BY <1>1, <1>5, <1>6, <1>8 DEF Unmoved
  <1>13. \A q \in Used(m, brk, S) : q # b
    BY <1>1 DEF Used, FreeOf
  <1>14. {q \in Used(w, brk, S) : q < b \/ e <= q} = Used(m, brk, S)
    BY <1>3, <1>12, <1>13 DEF Used
  <1>15. {q \in FreeOf(w, brk, S) : q < b \/ e <= q} = F
    <2>1. H \subseteq S
      BY <1>5 DEF FreeOf
    <2>2. {q \in H : q < b \/ e <= q} = F
      BY <1>3, <1>5, <2>1
    <2> QED
      BY <1>12, <2>2
  <1>16. /\ FreeOf(n, brk, T) = F /\ Used(n, brk, T) = Used(m, brk, S) \cup {b}
         /\ Keeps(w, n, Used(m, brk, S)) /\ SizeOf(n, b) = e - b
    <2>1. Retagged(w, n, brk, S, T, b, e, 1)
      BY <1>11
    <2>2. FreeOf(n, brk, T) = F
      BY <1>15, <2>1 DEF Retagged
    <2>3. Used(n, brk, T) = Used(m, brk, S) \cup {b}
      BY <1>14, <2>1 DEF Retagged
    <2>4. Keeps(w, n, Used(m, brk, S)) /\ SizeOf(n, b) = e - b
      BY <1>14, <2>1 DEF Retagged
    <2> QED
      BY <2>2, <2>3, <2>4
  <1>17. Keeps(m, n, Used(m, brk, S))
    BY <1>12, <1>16, KeepsTwice
  <1>18. Placed(h, r, brk, S, T, b, asize)
    BY <1>1, <1>3, <1>11, <1>16, <1>17 DEF Placed, Whole
  <1> QED
    BY <1>6, <1>11, <1>18

(* The block is split, and the rest put on its list.                       *)
LEMMA PlacePart ==
  ASSUME NEW h, NEW brk, NEW S, Whole(h, brk, S), NEW b \in FreeOf(h.mem, brk, S),
         NEW asize \in Nat, asize >= 16, asize % 8 = 0, NEW r, PlacesPart(h, r, b, asize)
  PROVE  r.ruined = h.ruined /\ \E T : Placed(h, r, brk, S, T, b, asize)
  <1>1. PICK m \in [WordAddr -> Nat] : m = h.mem /\ Tiles(m, brk, S)
    BY DEF Whole, Loose, Heaps
  <1>2. PICK p, e : Around(m, brk, S, p, b, e)
    BY <1>1, AroundIs
  <1>3. /\ b \in S \ {heap_listp, brk} /\ e \in S /\ b \in Nat /\ e \in Nat
        /\ b < e /\ EndOf(m, b) = e /\ GET_SIZE(m, HDRP(b)) = e - b
        /\ SizeOf(m, b) = e - b
    BY <1>2 DEF Around, SizeOf
  <1>4. PICK g, y, z, front, n, k :
          /\ g = delete_block(h, b) /\ y = asize /\ z = GET_SIZE(m, HDRP(b)) - asize
          /\ z >= 16
          /\ front = PutBoth(g.mem, b, PACK(y, 1))
          /\ n = PutBothNoTag(front, NEXT_BLKP(front, b), PACK(z, 0))
          /\ k = WithMem(g, n) /\ r = insert_block(k, NEXT_BLKP(front, b), z)
    BY <1>1 DEF PlacesPart
  <1>5. PICK x : x = b + asize
    OBVIOUS
  <1>6. /\ x \in Nat /\ b + 16 <= x /\ x + 16 <= e /\ x % 8 = 0
        /\ y = x - b /\ z = e - x /\ b % 8 = 0 /\ e % 8 = 0
        /\ b - 4 \in WordAddr /\ e - 8 \in WordAddr /\ x \in BlockPtrs
    <2>1. x \in Nat /\ b + 16 <= x /\ x + 16 <= e /\ y = x - b /\ z = e - x
      BY <1>3, <1>4, <1>5
    <2>2. /\ b % 8 = 0 /\ e % 8 = 0 /\ b - 4 \in WordAddr /\ e - 8 \in WordAddr
          /\ heap_listp <= b /\ e <= mem_max_addr
      BY <1>1, <1>3, TilesAddrs
    <2>3. x % 8 = 0
      BY <1>3, <1>5, <2>2
    <2>4. x \in BlockPtrs
      BY <1>3, <2>1, <2>2, <2>3, Numbers DEF BlockPtrs, DSIZE
    <2> QED
      BY <2>1, <2>2, <2>3, <2>4
  <1>7. Extent(b, x) /\ Extent(x, e) /\ y = Span(b, x) /\ z = Span(x, e)
    <2>1. x - 8 \in WordAddr /\ x - 4 \in WordAddr
      BY <1>3, <1>6, Numbers DEF WordAddr, WSIZE, BlockPtrs, DSIZE
    <2> QED
      BY <1>3, <1>6, <2>1 DEF Extent, Span
  <1>8. PICK H, F : H = FreeOf(h.mem, brk, S) /\ F = H \ {b}
    OBVIOUS
  <1>9. Loose(g, brk, S, F) /\ g.ruined = h.ruined /\ Unmoved(m, g.mem, brk, S)
    <2>1. Loose(h, brk, S, H) /\ b \in H
      BY <1>8 DEF Whole
    <2> QED
      BY <1>1, <1>4, <1>8, <2>1, Unlink
  <1>10. PICK w \in [WordAddr -> Nat] : w = g.mem
    BY <1>9 DEF Loose, Heaps
  <1>11. NEXT_BLKP(front, b) = x
    <2>1. Retags(w, front, b, x, 1)
      BY <1>4, <1>7, <1>10, PutBothRetags
    <2>2. GET_SIZE(front, b - 4) = x - b
      BY <2>1 DEF Retags, Marks
    <2> QED
      BY <1>3, <1>6, <2>2 DEF NEXT_BLKP, HDRP, WSIZE
  <1>12. n = PutBothNoTag(front, x, PACK(z, 0)) /\ r = insert_block(k, x, z)
         /\ front = PutBoth(w, b, PACK(y, 1))
    BY <1>4, <1>10, <1>11
  <1>13. Cuts(w, n, b, x, e)
    BY <1>6, <1>7, <1>12, PlaceWrites
  <1>14. /\ FreeOf(w, brk, S) = H /\ Used(w, brk, S) = Used(m, brk, S)
         /\ Keeps(m, w, Used(m, brk, S)) /\ EndOf(w, b) = e
    BY <1>1, <1>3, <1>8, <1>9, <1>10 DEF Unmoved
  <1>15. PICK T : T = S \cup {x}
    OBVIOUS
  <1>16. /\ Loose(k, brk, T, F) /\ k.mem = n /\ k.ruined = g.ruined
         /\ HasCut(w, n, brk, S, T, b, x, e)
    <2>1. b \in FreeOf(w, brk, S) /\ b \notin F /\ e = EndOf(w, b)
      BY <1>8, <1>14
    <2>2. k = WithMem(g, n)
      BY <1>4
    <2> QED
      BY <1>6, <1>9, <1>10, <1>13, <1>15, <2>1, <2>2, Cut
  <1>17. /\ FreeOf(n, brk, T) = F \cup {x} /\ x \notin F
         /\ Used(n, brk, T) = Used(m, brk, S) \cup {b} /\ SizeOf(n, b) = asize
         /\ SizeOf(n, x) = z /\ Keeps(m, n, Used(m, brk, S))
    <2>1. Used(m, brk, S) \ {b} = Used(m, brk, S)
      BY <1>1 DEF Used, FreeOf
    <2>2. Keeps(w, n, Used(m, brk, S))
      BY <1>14, <1>16, <2>1 DEF HasCut
    <2>3. Keeps(m, n, Used(m, brk, S))
      BY <1>14, <2>2, KeepsTwice
    <2>4. F \subseteq S
      BY <1>8 DEF FreeOf
    <2> QED
      BY <1>4, <1>6, <1>8, <1>14, <1>16, <2>3, <2>4 DEF HasCut
  <1>18. PICK G : G = F \cup {x}
    OBVIOUS
  <1>19. Loose(r, brk, T, G) /\ r.ruined = k.ruined /\ Unmoved(n, r.mem, brk, T)
    <2>1. x \in FreeOf(k.mem, brk, T) \ F /\ z = SizeOf(k.mem, x)
      BY <1>16, <1>17
    <2>2. r = insert_block(k, x, z) /\ Loose(k, brk, T, F)
      BY <1>12, <1>16
    <2>3. Loose(r, brk, T, G) /\ r.ruined = k.ruined /\ Unmoved(k.mem, r.mem, brk, T)
      BY <1>18, <2>1, <2>2, Link
    <2> QED
      BY <1>16, <2>3
  <1>20. Whole(r, brk, T)
    BY <1>17, <1>18, <1>19 DEF Whole, Unmoved
  <1>21. /\ Used(r.mem, brk, T) = Used(m, brk, S) \cup {b}
         /\ Keeps(m, r.mem, Used(m, brk, S)) /\ SizeOf(r.mem, b) = asize
    <2>1. Keeps(n, r.mem, Used(n, brk, T)) /\ Used(m, brk, S) \in SUBSET Used(n, brk, T)
      BY <1>17, <1>19 DEF Unmoved
    <2>2. Keeps(n, r.mem, Used(m, brk, S))
      BY <2>1, KeepsLess
    <2>3. Keeps(m, r.mem, Used(m, brk, S))
      BY <1>17, <2>2, KeepsTwice
    <2>4. r.mem[b - 4] = n[b - 4]
      BY <1>3, <1>15, <1>19 DEF Unmoved
    <2> QED
      BY <1>17, <1>19, <2>3, <2>4 DEF Unmoved, SizeOf, GET_SIZE
  <1>22. Placed(h, r, brk, S, T, b, asize)
    BY <1>1, <1>20, <1>21 DEF Placed
  <1> QED
    BY <1>9, <1>16, <1>19, <1>22

(* place takes a free block out of the lists, and gives none of it away    *)
(* twice.                                                                  *)
LEMMA Place ==
  ASSUME NEW h, NEW brk, NEW S, Whole(h, brk, S), NEW b \in FreeOf(h.mem, brk, S),
         NEW asize \in Nat, asize >= 16, asize % 8 = 0, asize <= SizeOf(h.mem, b),
         NEW r, r = place(h, b, asize)
  PROVE  r.ruined = h.ruined /\ \E T : Placed(h, r, brk, S, T, b, asize)
  BY PlaceCases, PlaceAll, PlacePart

(* A word without its tag, and with one.                                   *)
LEMMA TagArith ==
  ASSUME NEW x \in Nat, NEW t, t = 2 * ((x \div 2) % 2)
  PROVE  /\ PackedWord(x - t, x - (x % 8), x % 2, 0)
         /\ PackedWord(x - t + 2, x - (x % 8), x % 2, 2)
  <1>1. PICK k \in Nat, i \in 0 .. 7 : x = 8 * k + i
    <2>1. x = 8 * (x \div 8) + (x % 8) /\ x \div 8 \in Nat /\ x % 8 \in 0 .. 7
      OBVIOUS
    <2> QED
      BY <2>1
  <1> QED
    BY <1>1 DEF PackedWord

(* The tag of a block is taken away, or set.                               *)
LEMMA TagWrites ==
  ASSUME NEW m \in [WordAddr -> Nat], NEW q, q - 4 \in WordAddr, NEW n
  PROVE  /\ n = UNSET_TAG(m, q - 4) => Tags1(m, n, q) /\ TagOf(n, q) = 0
         /\ n = SET_TAG(m, q - 4) => Tags1(m, n, q)
  <1>1. PICK a, x, t : a = q - 4 /\ x = m[a] /\ t = 2 * ((x \div 2) % 2)
    OBVIOUS
  <1>2. a \in WordAddr /\ x \in Nat /\ GET_TAG(m, a) = t
        /\ GET_SIZE(m, a) = x - (x % 8) /\ GET_ALLOC(m, a) = x % 2
    BY <1>1 DEF GET_TAG, GET_SIZE, GET_ALLOC
  <1>3. /\ PackedWord(x - t, x - (x % 8), x % 2, 0)
        /\ PackedWord(x - t + 2, x - (x % 8), x % 2, 2)
    BY <1>1, <1>2, TagArith
  <1>4. ASSUME NEW y, NEW u, PackedWord(y, x - (x % 8), x % 2, u), n = [m EXCEPT ![a] = y]
        PROVE  Tags1(m, n, q) /\ TagOf(n, q) = u
    <2>1. Packs(m, n, a, GET_SIZE(m, a), GET_ALLOC(m, a), u)
      BY <1>2, <1>4, PacksWord
    <2> QED
      BY <1>1, <2>1 DEF Packs, Marks, Tags1, SameMark, TagOf
  <1>5. CASE n = UNSET_TAG(m, q - 4)
    <2>1. n = [m EXCEPT ![a] = x - t]
      BY <1>1, <1>2, <1>5 DEF UNSET_TAG
    <2>2. Tags1(m, n, q) /\ TagOf(n, q) = 0
      BY <1>3, <1>4, <2>1
    <2>3. n = SET_TAG(m, q - 4) => Tags1(m, n, q)
      <3>1. n = SET_TAG(m, q - 4) => n = [m EXCEPT ![a] = x - t + 2]
        BY <1>1, <1>2 DEF SET_TAG
      <3> QED
        BY <1>3, <1>4, <3>1
    <2> QED
      BY <2>2, <2>3
  <1>6. CASE n = SET_TAG(m, q - 4)
    <2>1. n = [m EXCEPT ![a] = x - t + 2]
      BY <1>1, <1>2, <1>6 DEF SET_TAG
    <2> QED
      BY <1>3, <1>4, <1>5, <2>1
  <1> QED
    BY <1>5, <1>6

(* A block in use that is not the prologue, and the one behind it.         *)
Within(m, brk, S, b, e) ==
  /\ b \in S \ {heap_listp, brk} /\ e \in S /\ e = EndOf(m, b)
  /\ b \in Nat /\ e \in Nat /\ b + 16 <= e /\ e - 4 \in WordAddr
  /\ SizeOf(m, b) = e - b /\ GET_SIZE(m, HDRP(b)) = e - b
  /\ NEXT_BLKP(m, b) = e /\ HDRP(e) = e - 4 /\ HDRP(b) = b - 4
  /\ \A q \in S : (q < b \/ e <= q) <=> q # b
  /\ Extent(b, e)

(* Every block but the first and the last is one.                          *)
LEMMA WithinIs ==
  ASSUME NEW m \in [WordAddr -> Nat], NEW brk, NEW S, Tiles(m, brk, S),
         NEW b \in S \ {heap_listp, brk}
  PROVE  \E e : Within(m, brk, S, b, e)
  <1>1. PICK e : e = EndOf(m, b)
    OBVIOUS
  <1>2. /\ e \in S /\ e \in Nat /\ b + 16 <= e /\ SizeOf(m, b) \in Nat
        /\ e = b + SizeOf(m, b)
    BY <1>1, TilesBlock
  <1>3. Places(m, brk, S)
    BY TilesPlaces
  <1>4. b \in Nat /\ e - 4 \in WordAddr
    BY <1>2, <1>3 DEF Places
  <1>5. Extent(b, e)
    BY <1>2, <1>3, <1>4, ExtentOf
  <1>6. \A q \in S : (q < b \/ e <= q) <=> q # b
    <2>1. \A q \in S : q \in Nat /\ (q <= b \/ e <= q)
      BY <1>1, <1>3 DEF Places
    <2> QED
      BY <1>2, <1>4, <2>1
  <1>7. SizeOf(m, b) = e - b
    BY <1>2, <1>4
  <1>8. HDRP(b) = b - 4 /\ HDRP(e) = e - 4 /\ GET_SIZE(m, HDRP(b)) = e - b
        /\ NEXT_BLKP(m, b) = e
    BY <1>2, <1>4, <1>7 DEF HDRP, NEXT_BLKP, SizeOf, WSIZE
  <1> QED
    BY <1>1, <1>2, <1>4, <1>5, <1>6, <1>7, <1>8 DEF Within

(* What mm_free leaves: block b is not in use any more.                    *)
Freed(h, r, brk, S, T, b) ==
  /\ Whole(r, brk, T)
  /\ Used(r.mem, brk, T) = Used(h.mem, brk, S) \ {b}
  /\ Keeps(h.mem, r.mem, Used(h.mem, brk, S) \ {b})

(* mm_free puts a block on its list, unless a tag leads coalesce astray.   *)
LEMMA Free ==
  ASSUME NEW h, NEW brk, NEW S, Whole(h, brk, S),
         NEW b \in Used(h.mem, brk, S) \ {heap_listp}, NEW r, r = mm_free(h, b)
  PROVE  /\ r \in Heaps
         /\ r.ruined = "tag" \/ (r.ruined = h.ruined /\ \E T : Freed(h, r, brk, S, T, b))
  <1>1. PICK m \in [WordAddr -> Nat] : m = h.mem /\ Tiles(m, brk, S)
    BY DEF Whole, Loose, Heaps
  <1>2. b \in S \ {heap_listp, brk} /\ AllocOf(m, b) = 1
    BY <1>1 DEF Used
  <1>3. PICK e : Within(m, brk, S, b, e)
    BY <1>1, <1>2, WithinIs
  <1>4. /\ e \in S /\ e = EndOf(m, b) /\ b < e /\ e - 4 \in WordAddr
        /\ GET_SIZE(m, HDRP(b)) = e - b /\ NEXT_BLKP(m, b) = e /\ HDRP(e) = e - 4
        /\ \A q \in S : (q < b \/ e <= q) <=> q # b
        /\ Extent(b, e)
    BY <1>3 DEF Within
  <1>5. PICK w : w = UNSET_TAG(m, e - 4)
    OBVIOUS
  <1>6. PICK z : z = Span(b, e)
    OBVIOUS
  <1>7. PICK n : n = PutBoth(w, b, PACK(z, 0))
    OBVIOUS
  <1>8. PICK k : k = insert_block(WithMem(h, n), b, z)
    OBVIOUS
  <1>9. r = coalesce(k, b).heap
    <2>1. GET_SIZE(m, HDRP(b)) = z
      BY <1>4, <1>6 DEF Span
    <2>2. UNSET_TAG(m, HDRP(NEXT_BLKP(m, b))) = w
      BY <1>4, <1>5
    <2> QED
      BY <1>1, <1>7, <1>8, <2>1, <2>2 DEF mm_free, WithMem
  <1>10. PICK F, x : F = FreeOf(h.mem, brk, S) /\ x = WithMem(h, w)
    OBVIOUS
  <1>11. Tags1(m, w, e) /\ TagOf(w, e) = 0 /\ w \in [WordAddr -> Nat]
    BY <1>4, <1>5, TagWrites DEF Tags1
  <1>12. /\ Loose(x, brk, S, F) /\ x.mem = w /\ x.ruined = h.ruined
         /\ Harmless(m, w, brk, S, e) /\ Keeps(m, w, Used(m, brk, S))
    <2>1. Loose(h, brk, S, F)
      BY <1>10 DEF Whole
    <2> QED
      BY <1>1, <1>4, <1>10, <1>11, <2>1, HeaderTag
  <1>13. /\ FreeOf(w, brk, S) = F /\ Used(w, brk, S) = Used(m, brk, S)
    BY <1>1, <1>10, <1>12 DEF Harmless
  <1>14. Retags(w, n, b, e, 0)
    BY <1>4, <1>6, <1>7, <1>11, PutBothRetags
  <1>15. PICK T, g : T = Outside(S, b, e) /\ g = WithMem(x, n)
    OBVIOUS
  <1>16. g = WithMem(h, n)
    BY <1>10, <1>15 DEF WithMem
  <1>17. /\ Loose(g, brk, T, F) /\ g.mem = n /\ g.ruined = h.ruined
         /\ Retagged(w, n, brk, S, T, b, e, 0)
    <2>1. \A q \in F : q < b \/ e <= q
      BY <1>1, <1>2, <1>4, <1>10 DEF FreeOf
    <2>2. Loose(x, brk, S, F) /\ w = x.mem /\ T = Outside(S, b, e) /\ g = WithMem(x, n)
          /\ b \in S \ {heap_listp}
      BY <1>2, <1>12, <1>15
    <2>3. Loose(g, brk, T, F) /\ g.mem = n /\ g.ruined = x.ruined
          /\ Retagged(w, n, brk, S, T, b, e, 0)
      BY <1>4, <1>11, <1>14, <2>1, <2>2, Retag
    <2> QED
      BY <1>12, <2>3
  <1>18. {q \in Used(w, brk, S) : q < b \/ e <= q} = Used(m, brk, S) \ {b}
    BY <1>4, <1>13 DEF Used
  <1>19. {q \in FreeOf(w, brk, S) : q < b \/ e <= q} = F
    BY <1>1, <1>2, <1>4, <1>10, <1>13 DEF FreeOf
  <1>20. /\ FreeOf(n, brk, T) = F \cup {b} /\ b \notin F
         /\ Used(n, brk, T) = Used(m, brk, S) \ {b}
         /\ Keeps(w, n, Used(m, brk, S) \ {b}) /\ SizeOf(n, b) = z
    BY <1>1, <1>2, <1>6, <1>10, <1>17, <1>18, <1>19 DEF Retagged, Span, FreeOf
  <1>21. PICK G : G = F \cup {b}
    OBVIOUS
  <1>22. Loose(k, brk, T, G) /\ k.ruined = g.ruined /\ Unmoved(n, k.mem, brk, T)
    <2>1. b \in FreeOf(g.mem, brk, T) \ F /\ z = SizeOf(g.mem, b)
      BY <1>17, <1>20
    <2>2. k = insert_block(g, b, z) /\ Loose(g, brk, T, F)
      BY <1>8, <1>16, <1>17
    <2>3. Loose(k, brk, T, G) /\ k.ruined = g.ruined /\ Unmoved(g.mem, k.mem, brk, T)
      BY <1>21, <2>1, <2>2, Link
    <2> QED
      BY <1>17, <2>3
  <1>23. Whole(k, brk, T) /\ b \in FreeOf(k.mem, brk, T)
    BY <1>20, <1>21, <1>22 DEF Whole, Unmoved
  <1>24. /\ Used(k.mem, brk, T) = Used(m, brk, S) \ {b}
         /\ Keeps(m, k.mem, Used(m, brk, S) \ {b})
    <2>1. Keeps(n, k.mem, Used(m, brk, S) \ {b})
      BY <1>20, <1>22 DEF Unmoved
    <2>2. PICK P : P = Used(m, brk, S) \ {b}
      OBVIOUS
    <2>3. P \in SUBSET Used(m, brk, S)
      BY <2>2
    <2>4. Keeps(m, w, P)
      BY <1>12, <2>3, KeepsLess
    <2>5. Keeps(w, n, P) /\ Keeps(n, k.mem, P)
      BY <1>20, <2>1, <2>2
    <2>6. Keeps(m, k.mem, P)
      BY <2>4, <2>5, KeepsTwice
    <2> QED
      BY <1>20, <1>22, <2>2, <2>6 DEF Unmoved
  <1>25. PICK c : c = coalesce(k, b)
    OBVIOUS
  <1>26. CASE c.heap = [k EXCEPT !.ruined = "tag"]
    <2>1. k \in Heaps
      BY <1>23 DEF Whole, Loose
    <2>2. [k EXCEPT !.ruined = "tag"] \in Heaps /\ [k EXCEPT !.ruined = "tag"].ruined = "tag"
      BY <2>1 DEF Heaps
    <2> QED
      BY <1>9, <1>25, <1>26, <2>2
  <1>27. CASE Coalesced(k, c, brk, T, b)
    <2>1. PICK W : Settled(k, c.heap, brk, T, W, b, c.bp)
      BY <1>27 DEF Coalesced
    <2>2. /\ Whole(r, brk, W) /\ Used(r.mem, brk, W) = Used(m, brk, S) \ {b}
          /\ Keeps(k.mem, r.mem, Used(m, brk, S) \ {b})
      BY <1>9, <1>24, <1>25, <2>1 DEF Settled
    <2>3. Keeps(m, r.mem, Used(m, brk, S) \ {b})
      BY <1>24, <2>2, KeepsTwice
    <2>4. Freed(h, r, brk, S, W, b)
      BY <1>1, <2>2, <2>3 DEF Freed
    <2>5. r \in Heaps /\ r.ruined = h.ruined
      BY <1>9, <1>17, <1>22, <1>25, <1>27, <2>2 DEF Coalesced, Whole, Loose
    <2> QED
      BY <2>4, <2>5
  <1> QED
    BY <1>23, <1>25, <1>26, <1>27, Coalesce

(* Setting the tag behind a block in use.                                  *)
Reserved(h, r, brk, S) ==
  /\ Whole(r, brk, S) /\ r.ruined = h.ruined
  /\ FreeOf(r.mem, brk, S) = FreeOf(h.mem, brk, S)
  /\ Used(r.mem, brk, S) = Used(h.mem, brk, S)
  /\ Keeps(h.mem, r.mem, Used(h.mem, brk, S))

(* mm_realloc reserves the block behind, at most.                          *)
LEMMA Reserve ==
  ASSUME NEW h, NEW brk, NEW S, Whole(h, brk, S),
         NEW b \in Used(h.mem, brk, S) \ {heap_listp}, NEW n, NEW r, r = Tagged(h, b, n)
  PROVE  Reserved(h, r, brk, S)
  <1>1. PICK m \in [WordAddr -> Nat] : m = h.mem /\ Tiles(m, brk, S)
    BY DEF Whole, Loose, Heaps
  <1>2. b \in S \ {heap_listp, brk} /\ b \in Used(m, brk, S)
    BY <1>1 DEF Used
  <1>3. PICK e : Within(m, brk, S, b, e)
    BY <1>1, <1>2, WithinIs
  <1>4. e \in S /\ e = EndOf(m, b) /\ e - 4 \in WordAddr
        /\ HDRP(NEXT_BLKP(m, b)) = e - 4
    BY <1>3 DEF Within
  <1>5. CASE r = h
    BY <1>5 DEF Reserved, Keeps
  <1>6. CASE r # h
    <2>1. PICK w : w = SET_TAG(m, e - 4)
      OBVIOUS
    <2>2. r = WithMem(h, w)
      BY <1>1, <1>4, <1>6, <2>1 DEF Tagged, WithMem
    <2>3. Tags1(m, w, e)
      BY <1>4, <2>1, TagWrites
    <2>4. PICK F : F = FreeOf(h.mem, brk, S)
      OBVIOUS
    <2>5. /\ Loose(r, brk, S, F) /\ r.mem = w /\ r.ruined = h.ruined
          /\ Harmless(m, w, brk, S, e) /\ Keeps(m, w, Used(m, brk, S))
      <3>1. Loose(h, brk, S, F)
        BY <2>4 DEF Whole
      <3> QED
        BY <1>1, <1>2, <1>4, <2>2, <2>3, <3>1, HeaderTag
    <2> QED
      BY <1>1, <2>4, <2>5 DEF Reserved, Harmless, Whole
  <1> QED
    BY <1>5, <1>6

(* What taking the next block leaves: block b has grown, and its payload   *)
(* is what it was.                                                         *)
Absorbs(h, r, brk, S, T, b) ==
  /\ Whole(r, brk, T)
  /\ Used(r.mem, brk, T) = Used(h.mem, brk, S)
  /\ Keeps(h.mem, r.mem, Used(h.mem, brk, S) \ {b})
  /\ \A w \in PayloadOf(h.mem, b) : w \in PayloadOf(r.mem, b) /\ r.mem[w] = h.mem[w]

(* mm_realloc takes the free block behind.                                 *)
LEMMA Absorb ==
  ASSUME NEW h, NEW brk, NEW S, Whole(h, brk, S),
         NEW b \in Used(h.mem, brk, S) \ {heap_listp},
         NEW e, e = NEXT_BLKP(h.mem, b), GET_ALLOC(h.mem, HDRP(e)) = 0,
         NEW z, z = Joint(h.mem, b, e), NEW r, r = Absorbed(h, b, z)
  PROVE  /\ r.ruined = h.ruined /\ SizeOf(r.mem, b) = z
         /\ \E T : Absorbs(h, r, brk, S, T, b)
  <1>1. PICK m \in [WordAddr -> Nat] : m = h.mem /\ Tiles(m, brk, S)
    BY DEF Whole, Loose, Heaps
  <1>2. b \in S \ {heap_listp, brk} /\ AllocOf(m, b) = 1
    BY <1>1 DEF Used
  <1>3. PICK y : Within(m, brk, S, b, y)
    BY <1>1, <1>2, WithinIs
  <1>4. /\ e \in S /\ e = EndOf(m, b) /\ b < e /\ HDRP(e) = e - 4 /\ b \in Nat /\ e \in Nat
        /\ GET_SIZE(m, HDRP(b)) = e - b /\ \A q \in S : (q < b \/ e <= q) <=> q # b
        /\ HDRP(b) = b - 4 /\ b + 16 <= e
    BY <1>1, <1>3 DEF Within
  <1>5. AllocOf(m, e) = 0 /\ GET_ALLOC(m, HDRP(e)) = AllocOf(m, e)
    BY <1>1, <1>4 DEF AllocOf
  <1>6. e \in FreeOf(m, brk, S)
    <2>1. e # brk
      BY <1>1, <1>5, TilesAddrs
    <2> QED
      BY <1>4, <1>5, <2>1 DEF FreeOf
  <1>7. PICK p, c : Around(m, brk, S, p, e, c)
    BY <1>1, <1>6, AroundIs
  <1>8. /\ c \in S /\ c \in Nat /\ e < c /\ GET_SIZE(m, HDRP(e)) = c - e /\ e + 16 <= c
        /\ \A q \in S : (q < e \/ c <= q) <=> q # e
    BY <1>7 DEF Around
  <1>9. b < c /\ z = Span(b, c)
    BY <1>1, <1>4, <1>8 DEF Span, Joint
  <1>10. \A q \in S : (q < b \/ c <= q) <=> q \notin {b, e}
    <2>1. \A q \in S : q \in Nat
      BY <1>1, TilesPlaces DEF Places
    <2> QED
      BY <1>4, <1>8, <2>1, Apart2
  <1>11. PICK g : g = delete_block(h, e)
    OBVIOUS
  <1>12. PICK H, F : H = FreeOf(h.mem, brk, S) /\ F = H \ {e}
    OBVIOUS
  <1>13. Loose(g, brk, S, F) /\ g.ruined = h.ruined /\ Unmoved(m, g.mem, brk, S)
    <2>1. Loose(h, brk, S, H) /\ e \in H
      BY <1>1, <1>6, <1>12 DEF Whole
    <2> QED
      BY <1>1, <1>11, <1>12, <2>1, Unlink
  <1>14. PICK x \in [WordAddr -> Nat] : x = g.mem
    BY <1>13 DEF Loose, Heaps
  <1>15. PICK n : n = PutBothNoTag(x, b, PACK(z, 1))
    OBVIOUS
  <1>16. r = WithMem(g, n)
    BY <1>11, <1>14, <1>15 DEF Absorbed, WithMem
  <1>17. Extent(b, c)
    <2>1. Places(m, brk, S)
      BY <1>1, TilesPlaces
    <2> QED
      BY <1>2, <1>8, <1>9, <2>1, ExtentOf
  <1>18. Retags(x, n, b, c, 1)
    BY <1>9, <1>15, <1>17, PutBothNoTagRetags
  <1>19. PICK T : T = Outside(S, b, c)
    OBVIOUS
  <1>20. /\ Loose(r, brk, T, F) /\ r.mem = n /\ r.ruined = g.ruined
         /\ Retagged(x, n, brk, S, T, b, c, 1)
    <2>1. \A q \in F : q < b \/ c <= q
      BY <1>1, <1>2, <1>10, <1>12 DEF FreeOf
    <2>2. b \in S \ {heap_listp} /\ c \in S /\ b < c
      BY <1>2, <1>8, <1>9
    <2>3. Loose(g, brk, S, F) /\ x = g.mem
      BY <1>13, <1>14
    <2> QED
      BY <1>16, <1>18, <1>19, <2>1, <2>2, <2>3, Retag
  <1>21. /\ FreeOf(x, brk, S) = H /\ Used(x, brk, S) = Used(m, brk, S)
         /\ Keeps(m, x, Used(m, brk, S)) /\ b \in Used(m, brk, S)
    BY <1>1, <1>12, <1>13, <1>14 DEF Unmoved
  <1>22. {q \in Used(x, brk, S) : q < b \/ c <= q} = Used(m, brk, S) \ {b}
    BY <1>6, <1>10, <1>21 DEF Used, FreeOf
  <1>23. {q \in FreeOf(x, brk, S) : q < b \/ c <= q} = F
    BY <1>1, <1>2, <1>10, <1>12, <1>21 DEF FreeOf
  <1>24. /\ FreeOf(n, brk, T) = F /\ Used(n, brk, T) = Used(m, brk, S)
         /\ Keeps(x, n, Used(m, brk, S) \ {b}) /\ SizeOf(n, b) = c - b /\ EndOf(n, b) = c
    <2>1. FreeOf(n, brk, T) = F \cup {q \in {b} : 1 = 0}
      BY <1>20, <1>23 DEF Retagged
    <2>2. Used(n, brk, T) = (Used(m, brk, S) \ {b}) \cup {q \in {b} : 1 = 1}
      BY <1>20, <1>22 DEF Retagged
    <2>3. Keeps(x, n, Used(m, brk, S) \ {b}) /\ SizeOf(n, b) = c - b /\ EndOf(n, b) = c
      BY <1>20, <1>22 DEF Retagged
    <2> QED
      BY <1>21, <2>1, <2>2, <2>3
  <1>25. Keeps(m, n, Used(m, brk, S) \ {b})
    <2>1. PICK P : P = Used(m, brk, S) \ {b}
      OBVIOUS
    <2>2. P \in SUBSET Used(m, brk, S)
      BY <2>1
    <2>3. Keeps(m, x, P)
      BY <1>21, <2>2, KeepsLess
    <2> QED
      BY <1>24, <2>1, <2>3, KeepsTwice
  <1>26. \A w \in PayloadOf(m, b) : w \in PayloadOf(n, b) /\ n[w] = m[w]
    <2>1. SUFFICES ASSUME NEW w \in PayloadOf(m, b) PROVE w \in PayloadOf(n, b) /\ n[w] = m[w]
      OBVIOUS
    <2>2. w \in WordAddr /\ b <= w /\ w < e - 8 /\ w \in Int
      BY <1>4 DEF PayloadOf, WordAddr
    <2>3. x[w] = m[w]
      BY <1>21 DEF Keeps
    <2>4. w # b - 4 /\ w # c - 8 /\ w < c - 8
      BY <1>4, <1>8, <2>2
    <2>5. n[w] = x[w]
      BY <1>18, <2>2, <2>4 DEF Retags, OnlyAt
    <2> QED
      BY <1>24, <2>2, <2>3, <2>4, <2>5 DEF PayloadOf
  <1>27. Absorbs(h, r, brk, S, T, b)
    BY <1>1, <1>20, <1>24, <1>25, <1>26 DEF Absorbs, Whole
  <1> QED
    BY <1>9, <1>13, <1>20, <1>24, <1>27 DEF Span

-----------------------------------------------------------------------------
(* The words of a payload, and writing them.                               *)
LEMMA WordsInside ==
  ASSUME NEW m, NEW p, NEW k, p \in Nat, k \in Nat, SizeOf(m, p) \in Nat,
         k + 8 <= SizeOf(m, p)
  PROVE  WordsOf(p, k) \subseteq PayloadOf(m, p)
  BY Numbers DEF WordsOf, PayloadOf, EndOf, WordAddr

(* What memset writes.                                                     *)
LEMMA FillWrites ==
  ASSUME NEW m \in [WordAddr -> Nat], NEW p, NEW v \in Nat, NEW k, NEW n, n = memset(m, p, v, k)
  PROVE  /\ n \in [WordAddr -> Nat]
         /\ \A w \in WordAddr : n[w] = IF w \in WordsOf(p, k) THEN v ELSE m[w]
  BY DEF memset

(* What memmove writes.                                                    *)
LEMMA MoveWrites ==
  ASSUME NEW m \in [WordAddr -> Nat], NEW p, NEW f, NEW k, NEW n, n = memmove(m, p, f, k)
  PROVE  /\ n \in [WordAddr -> Nat]
         /\ \A w \in WordAddr : w \notin WordsOf(p, k) => n[w] = m[w]
         /\ \A w \in WordsOf(p, k) : w - p + f \in WordAddr => n[w] = m[w - p + f]
  BY DEF memmove, WordsOf

-----------------------------------------------------------------------------
(* mm_init.                                                                *)

(* The four words mm_init writes.                                          *)
StartWords(m, a) ==
  [[[[m EXCEPT ![a] = 0] EXCEPT ![a + 4] = 9] EXCEPT ![a + 8] = 9] EXCEPT ![a + 12] = 1]

(* They are a prologue and an epilogue.                                    *)
LEMMA StartTiles ==
  ASSUME NEW m \in [WordAddr -> Nat], NEW a, a = mem_start_brk, NEW n, n = StartWords(m, a)
  PROVE  n \in [WordAddr -> Nat] /\ Tiles(n, a + 16, {a + 8, a + 16})
  <1>1. a \in Nat /\ a \in WordAddr /\ a + 4 \in WordAddr /\ a + 8 \in WordAddr
        /\ a + 12 \in WordAddr
    BY Numbers DEF WordAddr, WSIZE
  <1>2. n \in [WordAddr -> Nat]
    BY <1>1 DEF StartWords
  <1>3. PICK u \in [WordAddr -> Nat] : u = Untagged(m)
    BY <1>1, UntaggedWord
  <1>4. PICK v : v = Tags!FirstWords(u)
    OBVIOUS
  <1>5. v = StartWords(u, a)
    <2>1. /\ Tags!PACK(Tags!OVERHEAD, 1) = 9 /\ Tags!PACK(0, 1) = 1
          /\ Tags!WSIZE = 4 /\ Tags!DSIZE = 8
      BY DEF Tags!PACK, Tags!OVERHEAD, Tags!WSIZE, Tags!DSIZE
    <2>2. mem_start_brk + Tags!WSIZE = a + 4 /\ mem_start_brk + Tags!DSIZE = a + 8
          /\ mem_start_brk + Tags!WSIZE + Tags!DSIZE = a + 12
      BY <1>1, <2>1
    <2> QED
      BY <1>4, <2>1, <2>2 DEF Tags!FirstWords, Tags!PUT, StartWords
  <1>6. Untagged(n) = v
    <2>1. Untagged(n) \in [WordAddr -> Nat] /\ v \in [WordAddr -> Nat]
      BY <1>1, <1>2, <1>3, <1>5, UntaggedWord DEF StartWords
    <2>2. ASSUME NEW w \in WordAddr PROVE Untagged(n)[w] = v[w]
      <3>1. a # a + 4 /\ a # a + 8 /\ a # a + 12 /\ a + 4 # a + 8 /\ a + 4 # a + 12
            /\ a + 8 # a + 12
        BY <1>1
      <3>2. Untagged(n)[w] = n[w] - (n[w] % 8) + (n[w] % 2)
        BY DEF Untagged, GET_SIZE, GET_ALLOC
      <3>3. u[w] = m[w] - (m[w] % 8) + (m[w] % 2)
        BY <1>3 DEF Untagged, GET_SIZE, GET_ALLOC
      <3>4. CASE w \in {a, a + 4, a + 8, a + 12}
        <4>1. v[w] = n[w] /\ n[w] \in {0, 9, 1}
          BY <1>1, <1>3, <1>5, <3>1, <3>4 DEF StartWords
        <4> QED
          BY <3>2, <4>1
      <3>5. CASE w \notin {a, a + 4, a + 8, a + 12}
        <4>1. v[w] = u[w] /\ n[w] = m[w]
          BY <1>1, <1>3, <1>5, <3>5 DEF StartWords
        <4> QED
          BY <3>2, <3>3, <4>1
      <3> QED
        BY <3>4, <3>5
    <2> QED
      BY <2>1, <2>2
  <1>7. Tags!Tiling(v, a + 16, {a + 8, a + 16})
    <2>1. u \in [Tags!WordAddr -> Nat]
      BY <1>3, TagsNames
    <2> QED
      BY <1>1, <1>4, <2>1, TagsArea, Tags!EmptyHeap
  <1> QED
    BY <1>2, <1>6, <1>7, TilesMeans

(* An empty list.                                                          *)
LEMMA NothingHeld == ASSUME NEW m PROVE Holds(m, NULL, {})
  <1>1. PICK s : s = [k \in Nat |-> NULL]
    OBVIOUS
  <1>2. s \in [Nat -> {NULL} \cup BlockPtrs] /\ \A k \in Nat : s[k] = NULL
    BY <1>1
  <1>3. Chain(m, NULL, s, 0)
    BY <1>2 DEF Chain
  <1>4. {s[k] : k \in 0 .. 0 - 1} = {}
    OBVIOUS
  <1> QED
    BY <1>2, <1>3, <1>4 DEF Holds

(* An empty heap: no block is free, and all lists are empty.               *)
LEMMA StartWhole ==
  ASSUME NEW m \in [WordAddr -> Nat], NEW h \in Heaps,
         h.mem = StartWords(m, mem_start_brk),
         h.lists = [l \in 0 .. LISTS - 1 |-> NULL]
  PROVE  \A brk, S : brk = mem_start_brk + 16 /\ S = {mem_start_brk + 8, brk} =>
           Whole(h, brk, S) /\ Used(h.mem, brk, S) = {heap_listp}
  <1> TAKE brk, S
  <1> HAVE brk = mem_start_brk + 16 /\ S = {mem_start_brk + 8, brk}
  <1>1. PICK n, a : n \in [WordAddr -> Nat] /\ n = h.mem /\ a = mem_start_brk
    BY DEF Heaps
  <1>2. Tiles(n, brk, S)
    <2>1. n = StartWords(m, a) /\ a = mem_start_brk /\ brk = a + 16 /\ S = {a + 8, a + 16}
      BY <1>1
    <2> QED
      BY <2>1, StartTiles
  <1>3. heap_listp = mem_start_brk + 8 /\ S \ {brk} = {heap_listp}
    BY Numbers
  <1>4. AllocOf(n, heap_listp) = 1
    BY <1>1, <1>2, TilesAddrs
  <1>5. FreeOf(n, brk, S) = {} /\ Used(n, brk, S) = {heap_listp}
    <2>1. \A q \in S \ {brk} : AllocOf(n, q) = 1 /\ AllocOf(n, q) # 0
      BY <1>3, <1>4
    <2>2. FreeOf(n, brk, S) = {}
      BY <2>1 DEF FreeOf
    <2>3. Used(n, brk, S) = S \ {brk}
      BY <2>1 DEF Used
    <2> QED
      BY <1>3, <2>2, <2>3
  <1>6. ListsHold(n, h.lists, {})
    <2>1. \A l \in 0 .. LISTS - 1 : Sorted(n, {}, l) = {} /\ h.lists[l] = NULL
      BY DEF Sorted
    <2>2. \A l \in 0 .. LISTS - 1 : Holds(n, h.lists[l], Sorted(n, {}, l))
      BY <2>1, NothingHeld
    <2>3. h.lists \in [0 .. LISTS - 1 -> {NULL} \cup BlockPtrs]
      BY DEF Heaps
    <2> QED
      BY <2>2, <2>3 DEF ListsHold
  <1> QED
    BY <1>1, <1>2, <1>5, <1>6 DEF Whole, Loose, Owned

-----------------------------------------------------------------------------
(* The walk along the headers.                                             *)

(* Going on along the headers.                                             *)
Onward(m, brk, p) ==
  /\ p < mem_max_addr /\ GET_SIZE(m, HDRP(p)) > 0
  /\ NEXT_BLKP(m, p) \in BlockPtrs /\ NEXT_BLKP(m, p) <= brk

(* f is a walk on from every block, and the walk is that from the          *)
(* prologue.                                                               *)
Walks(m, brk, f) ==
  f = [p \in BlockPtrs |->
         {p} \cup (IF Onward(m, brk, p) THEN f[NEXT_BLKP(m, p)] ELSE {})]

WalkOf(m, brk) == (CHOOSE f : Walks(m, brk, f))[heap_listp]

(* The walk of the properties is the walk of this memory.                  *)
LEMMA WalkNow == Walk = WalkOf(mem, mem_brk)
  BY DEF Walk, WalkOf, Walks, Onward, LinkedOn

(* It is that of mm-firstfit.c, over the untagged words.                   *)
LEMMA WalksTags ==
  ASSUME NEW m \in [WordAddr -> Nat], NEW brk, NEW f
  PROVE  Walks(m, brk, f) <=> Tags!Walks(Untagged(m), brk, f)
  <1>1. Tags!BlockPtrs = BlockPtrs
    BY TagsNames
  <1>2. ASSUME NEW p \in BlockPtrs
        PROVE  /\ Onward(m, brk, p) <=> Tags!Onward(Untagged(m), brk, p)
               /\ NEXT_BLKP(m, p) = Tags!NEXT_BLKP(Untagged(m), p)
    <2>1. p \in Nat /\ p - 4 \in WordAddr
      BY Numbers DEF BlockPtrs, WordAddr, WSIZE, DSIZE
    <2>2. Tags!NEXT_BLKP(Untagged(m), p) = NEXT_BLKP(m, p)
          /\ Tags!GET_SIZE(Untagged(m), Tags!HDRP(p)) = GET_SIZE(m, HDRP(p))
      BY <2>1, TagsMacros DEF EndOf, SizeOf, NEXT_BLKP, HDRP, WSIZE
    <2> QED
      BY <1>1, <2>2, TagsNames DEF Onward, Tags!Onward
  <1> DEFINE here == [p \in BlockPtrs |->
               {p} \cup (IF Onward(m, brk, p) THEN f[NEXT_BLKP(m, p)] ELSE {})]
             there == [p \in BlockPtrs |->
               {p} \cup (IF Tags!Onward(Untagged(m), brk, p)
                         THEN f[Tags!NEXT_BLKP(Untagged(m), p)] ELSE {})]
  <1>3. here = there
    BY <1>2
  <1>4. Walks(m, brk, f) <=> f = here
    BY DEF Walks
  <1>5. Tags!Walks(Untagged(m), brk, f) <=> f = there
    BY <1>1 DEF Tags!Walks
  <1> QED
    BY <1>3, <1>4, <1>5

(* So walking along the headers finds the tiling.                          *)
LEMMA WalkTiles ==
  ASSUME NEW m \in [WordAddr -> Nat], NEW brk, NEW S, Tiles(m, brk, S)
  PROVE  WalkOf(m, brk) = S
  <1>1. PICK u : u = Untagged(m)
    OBVIOUS
  <1>2. u \in [Tags!WordAddr -> Nat] /\ Tags!Tiling(u, brk, S)
    BY <1>1, TilesUntagged
  <1>3. PICK f : Tags!Walks(u, brk, f)
    BY TagsArea, Tags!WalkExists
  <1>4. Walks(m, brk, f)
    BY <1>1, <1>3, WalksTags
  <1>5. PICK g : g = CHOOSE x : Walks(m, brk, x)
    OBVIOUS
  <1>6. Walks(m, brk, g)
    BY <1>4, <1>5
  <1>7. Tags!Walks(u, brk, g)
    BY <1>1, <1>6, WalksTags
  <1>8. \A p \in S : g[p] = {q \in S : p <= q}
    BY <1>2, <1>7, TagsArea, Tags!WalksOn
  <1>9. heap_listp \in S /\ \A q \in S : heap_listp <= q
    BY TilesAddrs
  <1> QED
    BY <1>5, <1>8, <1>9 DEF WalkOf

-----------------------------------------------------------------------------
(* Halving.                                                                *)
Halves(n, l, f) ==
  f = [k \in 0 .. l |-> IF k = 0 THEN n ELSE f[k - 1] \div 2]

(* Halving, as a function.                                                 *)
LEMMA HalvedIs == ASSUME NEW n, NEW l PROVE Halved(n, l) = (CHOOSE f : Halves(n, l, f))[l]
  BY DEF Halved, Halves

(* What such a function is.                                                *)
LEMMA HalvesMeans ==
  ASSUME NEW n, NEW l \in Nat, NEW f
  PROVE  Halves(n, l, f) => /\ f[0] = n
                            /\ \A k \in 0 .. l : k # 0 => f[k] = f[k - 1] \div 2
  BY DEF Halves

(* There is one.                                                           *)
LEMMA HalvesExists == ASSUME NEW n, NEW l \in Nat PROVE \E f : Halves(n, l, f)
  <1> DEFINE Bad == {k \in Nat : ~\E f : Halves(n, k, f)}
  <1>1. SUFFICES ASSUME l \in Bad PROVE FALSE
    OBVIOUS
  <1>2. PICK k \in Bad : \A j \in Bad : k <= j
    <2>1. Bad \in SUBSET Nat /\ Bad # {}
      BY <1>1
    <2> QED
      BY <2>1, Least
  <1>3. k \in Nat /\ ~\E f : Halves(n, k, f)
    BY <1>2
  <1>4. CASE k = 0
    <2>1. PICK f : f = [j \in 0 .. 0 |-> n]
      OBVIOUS
    <2>2. Halves(n, 0, f)
      BY <2>1 DEF Halves
    <2> QED
      BY <1>3, <1>4, <2>2
  <1>5. CASE k # 0
    <2>1. k - 1 \in Nat /\ ~(k <= k - 1)
      BY <1>3, <1>5
    <2>2. k - 1 \notin Bad
      BY <1>2, <2>1
    <2>3. PICK f : Halves(n, k - 1, f)
      BY <2>1, <2>2
    <2>4. /\ f[0] = n /\ \A j \in 0 .. k - 1 : j # 0 => f[j] = f[j - 1] \div 2
      BY <2>1, <2>3, HalvesMeans
    <2>5. PICK g : g = [j \in 0 .. k |-> IF j = k THEN f[k - 1] \div 2 ELSE f[j]]
      OBVIOUS
    <2>6. \A j \in 0 .. k : g[j] = IF j = 0 THEN n ELSE g[j - 1] \div 2
      <3> SUFFICES ASSUME NEW j \in 0 .. k PROVE g[j] = IF j = 0 THEN n ELSE g[j - 1] \div 2
        OBVIOUS
      <3>1. CASE j = 0
        BY <1>3, <1>5, <2>4, <2>5, <3>1
      <3>2. CASE j # 0
        <4>1. j - 1 \in 0 .. k /\ j - 1 # k
          BY <1>3, <3>2
        <4>2. g[j - 1] = f[j - 1]
          BY <2>5, <4>1
        <4>3. CASE j = k
          BY <2>5, <3>2, <4>2, <4>3
        <4>4. CASE j # k
          <5>1. j \in 0 .. k - 1
            BY <1>3, <4>4
          <5> QED
            BY <2>4, <2>5, <3>2, <4>2, <4>4, <5>1
        <4> QED
          BY <4>3, <4>4
      <3> QED
        BY <3>1, <3>2
    <2>7. DOMAIN g = 0 .. k /\ g = [j \in 0 .. k |-> g[j]]
      BY <2>5
    <2>8. Halves(n, k, g)
      BY <2>6, <2>7 DEF Halves
    <2> QED
      BY <1>3, <2>8
  <1> QED
    BY <1>4, <1>5

(* Two such functions agree where both are defined.                        *)
LEMMA HalvesUnique ==
  ASSUME NEW n, NEW a \in Nat, NEW b \in Nat, NEW f, NEW g,
         Halves(n, a, f), Halves(n, b, g), NEW l \in 0 .. a, l <= b
  PROVE  f[l] = g[l]
  <1> DEFINE Bad == {k \in Nat : k <= a /\ k <= b /\ f[k] # g[k]}
  <1>1. SUFFICES ASSUME l \in Bad PROVE FALSE
    OBVIOUS
  <1>2. PICK k \in Bad : \A j \in Bad : k <= j
    <2>1. Bad \in SUBSET Nat /\ Bad # {}
      BY <1>1
    <2> QED
      BY <2>1, Least
  <1>3. k \in 0 .. a /\ k \in 0 .. b /\ f[k] # g[k]
    BY <1>2
  <1>4. /\ f[0] = n /\ \A j \in 0 .. a : j # 0 => f[j] = f[j - 1] \div 2
        /\ g[0] = n /\ \A j \in 0 .. b : j # 0 => g[j] = g[j - 1] \div 2
    BY HalvesMeans
  <1>5. k # 0
    BY <1>3, <1>4
  <1>6. k - 1 \in Nat /\ ~(k <= k - 1) /\ k - 1 <= a /\ k - 1 <= b
    BY <1>3, <1>5
  <1>7. f[k - 1] = g[k - 1]
    BY <1>2, <1>6
  <1> QED
    BY <1>3, <1>4, <1>5, <1>7

(* One more halving.                                                       *)
LEMMA HalvedStep ==
  ASSUME NEW n, NEW l \in Nat
  PROVE  Halved(n, 0) = n /\ Halved(n, l + 1) = Halved(n, l) \div 2
  <1>1. ASSUME NEW k \in Nat PROVE \E f : Halves(n, k, f) /\ Halved(n, k) = f[k]
    <2>1. PICK f : f = CHOOSE x : Halves(n, k, x)
      OBVIOUS
    <2>2. Halves(n, k, f)
      BY <2>1, HalvesExists
    <2> QED
      BY <2>1, <2>2, HalvedIs
  <1>2. Halved(n, 0) = n
    BY <1>1, HalvesMeans
  <1>3. PICK f : Halves(n, l, f) /\ Halved(n, l) = f[l]
    BY <1>1
  <1>4. l + 1 \in Nat
    OBVIOUS
  <1>5. PICK g : Halves(n, l + 1, g) /\ Halved(n, l + 1) = g[l + 1]
    BY <1>1, <1>4
  <1>6. g[l + 1] = g[l] \div 2
    <2>1. l + 1 \in 0 .. l + 1 /\ l + 1 # 0 /\ (l + 1) - 1 = l
      OBVIOUS
    <2>2. PICK j \in Nat : j = l + 1
      BY <1>4
    <2>3. Halves(n, j, g)
      BY <1>5, <2>2
    <2>5. \A k \in 0 .. j : k # 0 => g[k] = g[k - 1] \div 2
      BY <2>3, HalvesMeans
    <2>4. g[j] = g[j - 1] \div 2
      BY <2>1, <2>2, <2>5
    <2> QED
      BY <2>1, <2>2, <2>4
  <1>7. f[l] = g[l]
    <2>1. l \in 0 .. l /\ l <= l + 1
      OBVIOUS
    <2> QED
      BY <1>3, <1>4, <1>5, <2>1, HalvesUnique
  <1> QED
    BY <1>2, <1>3, <1>5, <1>6, <1>7

(* Halving keeps the order of two numbers.                                 *)
LEMMA HalvedMonotone ==
  ASSUME NEW m \in Nat, NEW n \in Nat, m <= n, NEW l \in Nat
  PROVE  Halved(m, l) \in Nat /\ Halved(n, l) \in Nat /\ Halved(m, l) <= Halved(n, l)
  <1> DEFINE Good(k) == /\ Halved(m, k) \in Nat /\ Halved(n, k) \in Nat
                        /\ Halved(m, k) <= Halved(n, k)
             Bad == {k \in Nat : ~Good(k)}
  <1>1. SUFFICES ASSUME l \in Bad PROVE FALSE
    OBVIOUS
  <1>2. PICK k \in Bad : \A j \in Bad : k <= j
    <2>1. Bad \in SUBSET Nat /\ Bad # {}
      BY <1>1
    <2> QED
      BY <2>1, Least
  <1>3. Good(0)
    BY HalvedStep
  <1>4. k # 0 /\ k \in Nat
    BY <1>2, <1>3
  <1>5. k - 1 \in Nat /\ ~(k <= k - 1) /\ (k - 1) + 1 = k
    BY <1>4
  <1>6. Good(k - 1)
    BY <1>2, <1>5
  <1>7. Halved(m, k) = Halved(m, k - 1) \div 2 /\ Halved(n, k) = Halved(n, k - 1) \div 2
    BY <1>5, HalvedStep
  <1>8. \A x, y \in Nat : x <= y => x \div 2 \in Nat /\ y \div 2 \in Nat /\ x \div 2 <= y \div 2
    OBVIOUS
  <1>9. Good(k)
    BY <1>6, <1>7, <1>8
  <1> QED
    BY <1>2, <1>9
=============================================================================
