----------------------------- MODULE MemlibProof -----------------------------
(***************************************************************************)
(* Theorems about memlib.c: when no argument carries the break beyond the  *)
(* address space, mem_sbrk's limit holds for every sequence of calls.  An  *)
(* area in the lower half of the addresses satisfies this for every int.   *)
(***************************************************************************)
EXTENDS MemlibClient, TLAPS

(* From the end of the area, the address space has room for every positive *)
(* argument, so that the sum in mem_sbrk does not wrap round.              *)
RoomAbove ==
  \A incr \in Increments : incr >= 0 => mem_max_addr + incr < WORD_MOD

(* A number below the modulus is its own remainder.                        *)
LEMMA NoWrap == \A x, y \in Nat : x < y => x % y = x
  BY SMT

(* A break that mem_sbrk grants is the sum itself.                         *)
LEMMA Granted ==
  ASSUME RoomAbove, TypeOK, NEW incr \in Increments, SbrkSucceeds(mem_brk, incr)
  PROVE  /\ incr \in Nat /\ MovedBrk(mem_brk, incr) = mem_brk + incr
         /\ mem_brk \in Nat /\ mem_start_brk \in Nat
         /\ mem_start_brk <= mem_brk /\ mem_brk + incr <= mem_max_addr
  <1>1. /\ mem_start_brk \in Nat /\ mem_max_addr \in Nat
        /\ WORD_MOD \in Nat /\ WORD_MOD > 0 /\ WORD_MOD % 16 = 0
    BY MemlibAssumption DEF MemlibAssumption, mem_max_addr
  <1>2. mem_brk \in Nat /\ mem_start_brk <= mem_brk /\ mem_brk <= mem_max_addr
    BY <1>1 DEF TypeOK
  <1>3. incr \in Int /\ incr <= (WORD_MOD \div 2) - 1
    BY <1>1, IncrementsAssumption DEF IncrementsAssumption
  <1>4. incr \in Nat /\ MovedBrk(mem_brk, incr) <= mem_max_addr
    BY <1>3 DEF SbrkSucceeds
  <1>5. mem_brk + incr \in Nat /\ mem_brk + incr < WORD_MOD
    BY <1>1, <1>2, <1>3, <1>4 DEF RoomAbove
  <1>6. MovedBrk(mem_brk, incr) = mem_brk + incr
    BY <1>1, <1>5, NoWrap DEF MovedBrk
  <1> QED
    BY <1>1, <1>2, <1>4, <1>6

(* Each call keeps the types, and the areas apart and below the break.     *)
LEMMA SbrkKeeps ==
  ASSUME RoomAbove, TypeOK, AreasDisjoint, NEW incr \in Increments, Sbrk(incr)
  PROVE  TypeOK' /\ AreasDisjoint' /\ mem_brk' >= mem_brk
  <1>1. CASE SbrkSucceeds(mem_brk, incr)
    <2> DEFINE new == [lo |-> mem_brk, hi |-> mem_brk + incr]
    <2>1. /\ incr \in Nat /\ mem_brk \in Nat /\ mem_start_brk \in Nat
          /\ mem_start_brk <= mem_brk /\ mem_brk + incr <= mem_max_addr
          /\ MovedBrk(mem_brk, incr) = mem_brk + incr
      BY <1>1, Granted
    <2>2. mem_brk' = mem_brk + incr /\ areas' = areas \cup {new}
      BY <1>1, <2>1 DEF Sbrk, mem_sbrk
    <2>3. new \in [lo : Nat, hi : Nat] /\ new.lo = mem_brk /\ new.hi = mem_brk + incr
      BY <2>1
    <2>4. mem_max_addr \in Int
      BY MemlibAssumption DEF MemlibAssumption, mem_max_addr
    <2>5. TypeOK'
      BY <2>1, <2>2, <2>3, <2>4 DEF TypeOK
    <2>6. \A a \in areas : /\ a.lo \in Nat /\ a.hi \in Nat
                           /\ mem_start_brk <= a.lo /\ a.lo <= a.hi /\ a.hi <= mem_brk
      BY DEF TypeOK, AreasDisjoint
    <2> HIDE DEF new
    <2>7. \A a \in areas' : mem_start_brk <= a.lo /\ a.lo <= a.hi /\ a.hi <= mem_brk'
      BY <2>1, <2>2, <2>3, <2>6
    <2>8. \A a, b \in areas' : a # b => a.hi <= b.lo \/ b.hi <= a.lo
      BY <2>2, <2>3, <2>6 DEF AreasDisjoint
    <2> QED
      BY <2>1, <2>2, <2>5, <2>7, <2>8 DEF AreasDisjoint
  <1>2. CASE ~SbrkSucceeds(mem_brk, incr)
    <2>1. mem_brk' = mem_brk /\ areas' = areas
      BY <1>2 DEF Sbrk, mem_sbrk
    <2>2. mem_brk \in Int
      BY MemlibAssumption DEF MemlibAssumption, mem_max_addr, TypeOK
    <2> QED
      BY <2>1, <2>2 DEF TypeOK, AreasDisjoint
  <1> QED
    BY <1>1, <1>2

(* mem_sbrk never hands out a byte twice nor one outside the heap, whatever *)
(* ints it is called with, when the area lies low enough.                   *)
THEOREM AreasApart == ASSUME RoomAbove PROVE Spec => [](TypeOK /\ AreasDisjoint)
  <1> DEFINE I == TypeOK /\ AreasDisjoint
  <1>1. Init => I
    BY MemlibAssumption
       DEF MemlibAssumption, Init, TypeOK, AreasDisjoint, mem_max_addr
  <1>2. I /\ [Next]_vars => I'
    <2> SUFFICES ASSUME I, [Next]_vars PROVE I'
      OBVIOUS
    <2>1. CASE Reset
      BY <2>1, MemlibAssumption
         DEF MemlibAssumption, Reset, mem_reset_brk, TypeOK, AreasDisjoint, mem_max_addr
    <2>2. CASE \E incr \in Increments : Sbrk(incr)
      BY <2>2, SbrkKeeps
    <2>3. CASE UNCHANGED vars
      BY <2>3 DEF vars, TypeOK, AreasDisjoint
    <2> QED
      BY <2>1, <2>2, <2>3 DEF Next
  <1> HIDE DEF I
  <1>3. Spec => []I
    BY <1>1, <1>2, PTL DEF Spec
  <1> QED
    BY <1>3 DEF I

(* When the area lies so low that no argument makes the sum of mem_sbrk    *)
(* (memlib.c:62) wrap round, the break stays inside it, after every        *)
(* sequence of calls.  In the upper half of the address space it may not.  *)
THEOREM BreakInside == ASSUME RoomAbove PROVE Spec => []TypeOK
  <1>1. Spec => [](TypeOK /\ AreasDisjoint)
    BY AreasApart
  <1> QED
    BY <1>1, PTL

(* ... there, the heap never shrinks but by mem_reset_brk.                 *)
THEOREM NeverShrinks == ASSUME RoomAbove PROVE Spec => HeapNeverShrinks
  <1> DEFINE I == TypeOK /\ AreasDisjoint
  <1>1. I /\ [Next]_vars => [Reset \/ mem_brk' >= mem_brk]_vars
    <2>1. ASSUME I, NEW incr \in Increments, Sbrk(incr)
          PROVE  mem_brk' >= mem_brk
      BY <2>1, SbrkKeeps
    <2> QED
      BY <2>1 DEF Next
  <1>2. Spec => []I
    BY AreasApart
  <1> HIDE DEF I
  <1> QED
    BY <1>1, <1>2, PTL DEF Spec, HeapNeverShrinks

(* No byte of the heap is without an owner, and a refused call takes none. *)
LEMMA SbrkFills ==
  ASSUME RoomAbove, TypeOK, HeapIsHandedOut, NEW incr \in Increments, Sbrk(incr)
  PROVE  HeapIsHandedOut'
  <1>1. CASE SbrkSucceeds(mem_brk, incr)
    <2> DEFINE new == [lo |-> mem_brk, hi |-> mem_brk + incr]
    <2>1. /\ incr \in Nat /\ mem_brk \in Nat /\ mem_start_brk \in Nat
          /\ mem_brk' = mem_brk + incr /\ areas' = areas \cup {new}
      BY <1>1, Granted DEF Sbrk, mem_sbrk
    <2>2. new \in areas' /\ new.lo = mem_brk /\ new.hi = mem_brk + incr
      BY <2>1
    <2>3. \A p \in mem_start_brk .. mem_brk - 1 : \E a \in areas' : a.lo <= p /\ p < a.hi
      BY <2>1 DEF HeapIsHandedOut
    <2> HIDE DEF new
    <2>4. \A p \in mem_brk .. mem_brk + incr - 1 : \E a \in areas' : a.lo <= p /\ p < a.hi
      BY <2>1, <2>2
    <2>5. mem_start_brk' = mem_start_brk
      OBVIOUS
    <2> QED
      BY <2>1, <2>3, <2>4, <2>5 DEF HeapIsHandedOut
  <1>2. CASE ~SbrkSucceeds(mem_brk, incr)
    BY <1>2 DEF Sbrk, mem_sbrk, HeapIsHandedOut
  <1> QED
    BY <1>1, <1>2

(* ... and every byte of the heap has been handed out.                     *)
THEOREM AllHandedOut == ASSUME RoomAbove PROVE Spec => []HeapIsHandedOut
  <1> DEFINE I == TypeOK /\ AreasDisjoint
  <1>1. Init => HeapIsHandedOut
    BY MemlibAssumption DEF MemlibAssumption, Init, HeapIsHandedOut
  <1>2. I /\ HeapIsHandedOut /\ [Next]_vars => HeapIsHandedOut'
    <2> SUFFICES ASSUME I, HeapIsHandedOut, [Next]_vars PROVE HeapIsHandedOut'
      OBVIOUS
    <2>1. CASE Reset
      BY <2>1, MemlibAssumption
         DEF MemlibAssumption, Reset, mem_reset_brk, HeapIsHandedOut
    <2>2. CASE \E incr \in Increments : Sbrk(incr)
      BY <2>2, SbrkFills
    <2>3. CASE UNCHANGED vars
      BY <2>3 DEF vars, HeapIsHandedOut
    <2> QED
      BY <2>1, <2>2, <2>3 DEF Next
  <1>3. Spec => []I
    BY AreasApart
  <1> HIDE DEF I
  <1> QED
    BY <1>1, <1>2, <1>3, PTL DEF Spec
=============================================================================
