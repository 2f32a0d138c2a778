---------------------------- MODULE MemlibClient ----------------------------
(***************************************************************************)
(* memlib.c by itself: any sequence of calls of mem_sbrk, with any int for *)
(* an argument, and of mem_reset_brk.  areas remembers what the calls have *)
(* handed out since the heap was last emptied.                             *)
(***************************************************************************)
EXTENDS Memlib, Integers

CONSTANT Increments  \* the arguments mem_sbrk is called with

ASSUME IncrementsAssumption ==
  Increments \subseteq -(WORD_MOD \div 2) .. (WORD_MOD \div 2) - 1

VARIABLE areas  \* the areas mem_sbrk has returned, as [lo, hi)

vars == <<mem_brk, areas>>

Init == mem_brk = mem_start_brk /\ areas = {}

(* mem_sbrk returns the old break, and the caller uses incr bytes from it. *)
Sbrk(incr) ==
  /\ mem_sbrk(incr)
  /\ areas' = IF SbrkSucceeds(mem_brk, incr)
              THEN areas \cup {[lo |-> mem_brk, hi |-> mem_brk + incr]}
              ELSE areas

Reset == mem_reset_brk /\ areas' = {}

Next == Reset \/ \E incr \in Increments : Sbrk(incr)

Spec == Init /\ [][Next]_vars
-----------------------------------------------------------------------------
(* The break stays inside the area mem_init obtained.                      *)
TypeOK ==
  /\ mem_brk \in mem_start_brk .. mem_max_addr
  /\ areas \subseteq [lo : Nat, hi : Nat]

(* mem_sbrk never hands out a byte twice, nor one that is not in the heap. *)
AreasDisjoint ==
  /\ \A a \in areas : mem_start_brk <= a.lo /\ a.lo <= a.hi /\ a.hi <= mem_brk
  /\ \A a, b \in areas : a # b => a.hi <= b.lo \/ b.hi <= a.lo

(* Only mem_reset_brk takes memory back: "In this model, the heap cannot   *)
(* be shrunk" (memlib.c:55-56).                                            *)
HeapNeverShrinks == [][Reset \/ mem_brk' >= mem_brk]_vars

(* The bytes handed out are all the bytes of the heap: a refused call      *)
(* takes none.                                                             *)
HeapIsHandedOut ==
  \A p \in mem_start_brk .. mem_brk - 1 : \E a \in areas : a.lo <= p /\ p < a.hi
=============================================================================
