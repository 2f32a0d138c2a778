--------------------------- MODULE AllocContract ---------------------------
(***************************************************************************)
(* What any allocator of this repository promises its client, whatever     *)
(* lists and tags it keeps: the interface described in TODO.md and tested  *)
(* by eval_mm_valid in mdriver.c.  The state is only what the client sees, *)
(* the payloads it holds and the words in them.                            *)
(***************************************************************************)
EXTENDS Integers

CONSTANTS
  Ids,      \* the client's names for its blocks
  Lo, Hi    \* payloads lie in Lo .. Hi - 1, the area of the heap

ALIGNMENT == 8
WORD == 4

VARIABLE held  \* by name: a payload [lo, size, data], or Nothing

Nothing == [lo |-> 0, size |-> 0, data |-> <<>>]

(* data is indexed by the offsets of the payload's words.                  *)
Offsets(n) == {o \in 0 .. n - 1 : o % WORD = 0}

IsHeld(i) == held[i] # Nothing

IsPayload(r) ==
  /\ r.lo % ALIGNMENT = 0 /\ r.size > 0
  /\ Lo <= r.lo /\ r.lo + r.size <= Hi
  /\ DOMAIN r.data = Offsets(r.size)

Disjoint(r, s) == r.lo + r.size <= s.lo \/ s.lo + s.size <= r.lo

(* A step that concerns block i alone: the others stay where they are, and *)
(* so does what is in them.                                                *)
OnlyMoves(i) == \A j \in Ids \ {i} : held'[j] = held[j]

(* Block i is given a payload apart from all the others.                   *)
Placed(i) ==
  /\ IsPayload(held'[i])
  /\ \A j \in Ids \ {i} : IsHeld(j) => Disjoint(held'[i], held[j])

Init == held = [i \in Ids |-> Nothing]

(* mm_malloc returns a pointer.  Nothing is said of what is in the block.  *)
Grant(i) == ~IsHeld(i) /\ Placed(i) /\ OnlyMoves(i)

(* mm_realloc returns a pointer: the contents are the same up to the       *)
(* smaller of the two sizes.                                               *)
Resize(i) ==
  /\ IsHeld(i) /\ Placed(i) /\ OnlyMoves(i)
  /\ \A o \in DOMAIN held[i].data \cap DOMAIN held'[i].data :
       held'[i].data[o] = held[i].data[o]

(* mm_free.                                                                *)
Release(i) == IsHeld(i) /\ held'[i] = Nothing /\ OnlyMoves(i)

(* The client writes to a payload it holds.                                *)
Write(i) ==
  /\ IsHeld(i) /\ OnlyMoves(i) /\ held'[i] # Nothing
  /\ held'[i].lo = held[i].lo /\ held'[i].size = held[i].size
  /\ DOMAIN held'[i].data = DOMAIN held[i].data

(* mm_init: the heap starts afresh and what was held is gone.              *)
Restart == held' = [i \in Ids |-> Nothing]

Next == Restart \/ \E i \in Ids : Grant(i) \/ Resize(i) \/ Release(i) \/ Write(i)

Spec == Init /\ [][Next]_held
=============================================================================
