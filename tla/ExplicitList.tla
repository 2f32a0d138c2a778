---------------------------- MODULE ExplicitList ----------------------------
(***************************************************************************)
(* mm2.c: the beginnings of an allocator with one explicit free list, and  *)
(* of a consistency checker, mm_check, which every routine calls.  mm_free *)
(* is empty and mm_realloc returns NULL, so that all there is to a client  *)
(* is mm_init and mm_malloc, and mm_malloc begins with a call of mm_check. *)
(* That call is modelled, a turn of a loop as a step.  Its loops follow    *)
(* pointers nobody has written: the program faults when it reads a word    *)
(* outside the area.  As no call returns, nothing behind it is modelled,   *)
(* and the head of the free list stays where mm_init leaves it.            *)
(***************************************************************************)
EXTENDS Memlib

WSIZE == 4
DSIZE == 8
MIN_BSIZE == 24

WordAddr == {a \in mem_start_brk .. mem_max_addr - 1 : a % WSIZE = 0}

VARIABLES
  mem,                       \* the area, word by word
  pc,                        \* where the program is: a loop of mm_check, ...
  ptr, ptr2,                 \* locals of mm_check
  lastWasFree, firstLoop

locals == <<ptr, ptr2, lastWasFree, firstLoop>>
vars == <<mem_brk, mem, pc, locals>>

PACK(n, alloc) == n + alloc
GET_SIZE(p) == mem[p] - (mem[p] % 8)
GET_ALLOC(p) == mem[p] % 2
HDRP(b) == b - WSIZE
FTRP(b) == b + GET_SIZE(HDRP(b)) - DSIZE
NEXT_BLKP(b) == b + GET_SIZE(HDRP(b))
NextWord(b) == b + DSIZE
NEXT_FREEP(b) == mem[NextWord(b)]
PREV_FREEP(b) == mem[b]

(* The prologue's block pointer, and the head of the list until a block is *)
(* inserted.                                                               *)
heap_listp == mem_start_brk + DSIZE
free_listp == heap_listp

Size(b) == GET_SIZE(HDRP(b))
IsFree(b) == GET_ALLOC(HDRP(b)) = 0

-----------------------------------------------------------------------------
(* libc maps an area of this size afresh, and the pages are zero.          *)
Init ==
  /\ mem_brk = mem_start_brk /\ mem = [a \in WordAddr |-> 0]
  /\ pc = "start"
  /\ ptr = NULL /\ ptr2 = NULL /\ lastWasFree = FALSE /\ firstLoop = TRUE

(* A prologue with room for two links, which are not written, and the      *)
(* epilogue.  myheapcheck only reads.                                      *)
mm_init ==
  /\ pc = "start" /\ SbrkSucceeds(mem_brk, 8 * WSIZE)
  /\ mem_sbrk(8 * WSIZE)
  /\ mem' = [mem EXCEPT ![mem_start_brk] = 0,
                        ![mem_start_brk + WSIZE] = PACK(MIN_BSIZE, 1),
                        ![mem_start_brk + 3 * DSIZE] = PACK(MIN_BSIZE, 1),
                        ![mem_start_brk + WSIZE + MIN_BSIZE] = PACK(0, 1)]
  /\ pc' = "idle"
  /\ UNCHANGED locals

(* mm_malloc calls mm_check before it looks at the size.                   *)
mm_malloc ==
  /\ pc = "idle"
  /\ pc' = "marked"
  /\ ptr' = free_listp /\ ptr2' = free_listp
  /\ lastWasFree' = FALSE /\ firstLoop' = TRUE
  /\ UNCHANGED <<mem_brk, mem>>

-----------------------------------------------------------------------------
(* The six loops of mm_check.                                              *)

Reads(addresses) == addresses \subseteq WordAddr

(* Everything the turn of the loop reads lies in the area, in the order it *)
(* is read.                                                                *)
Safe ==
  /\ Reads({HDRP(ptr)})
  /\ Size(ptr) # 0 =>
     CASE pc = "marked" ->
            (IsFree(ptr) \/ ptr = heap_listp) => Reads({NextWord(ptr)})
       [] pc = "adjacent" -> TRUE
       [] pc = "listed" -> /\ Reads({HDRP(ptr2)})
                           /\ Size(ptr2) = 0 => Reads({NextWord(ptr)})
       [] pc = "linked" -> /\ Reads({HDRP(ptr2)})
                           /\ Size(ptr2) # 0 =>
                                /\ Reads({NextWord(ptr)})
                                /\ NEXT_FREEP(ptr) = ptr2 =>
                                     Reads({ptr2, NextWord(ptr2)})
       [] pc = "cycles" ->
            /\ Reads({HDRP(ptr2)})
            /\ Size(ptr2) # 0 =>
                 /\ Reads({NextWord(ptr2)}) /\ Reads({HDRP(NEXT_FREEP(ptr2))})
                 /\ (Size(NEXT_FREEP(ptr2)) # 0 /\ (firstLoop \/ ptr # ptr2)) =>
                      /\ Reads({NextWord(ptr)})
                      /\ Reads({NextWord(NEXT_FREEP(ptr))})
                      /\ Reads({NextWord(NEXT_FREEP(NEXT_FREEP(ptr)))})
       [] OTHER -> Reads({FTRP(ptr), ptr, NextWord(ptr)})

Loops == <<"marked", "adjacent", "listed", "linked", "cycles", "blocks">>
InCheck == \E n \in 1 .. 6 : pc = Loops[n]

Turn(loop) == pc = loop /\ Safe
SameHeap == UNCHANGED <<mem_brk, mem>>

(* The loop ends, and the next one starts at the head of the list again.   *)
NextLoop ==
  /\ \E n \in 1 .. 5 : pc = Loops[n] /\ pc' = Loops[n + 1]
  /\ ptr' = free_listp
  /\ ptr2' = CASE pc = "listed" -> NEXT_FREEP(free_listp)
               [] pc = "linked" -> free_listp
               [] OTHER -> ptr2
  /\ UNCHANGED <<lastWasFree, firstLoop>>

(* mm_check returns, whatever its answer: nobody looks at it.              *)
Return == pc' = "checked" /\ UNCHANGED locals

Stays == UNCHANGED pc

(* Every block on the list is marked free.                                 *)
marked ==
  /\ Turn("marked") /\ SameHeap
  /\ LET head == Size(ptr) # 0 /\ ~IsFree(ptr) /\ ptr = heap_listp IN
     \/ Size(ptr) # 0 /\ ~IsFree(ptr) /\ ~head /\ Return
     \/ (Size(ptr) = 0 \/ (head /\ NEXT_FREEP(ptr) = NULL)) /\ NextLoop
     \/ /\ Size(ptr) # 0 /\ (IsFree(ptr) \/ (head /\ NEXT_FREEP(ptr) # NULL))
        /\ ptr' = NEXT_FREEP(ptr) /\ Stays
        /\ UNCHANGED <<ptr2, lastWasFree, firstLoop>>

(* No free blocks are side by side, from the head of the list on.          *)
adjacent ==
  /\ Turn("adjacent") /\ SameHeap
  /\ \/ Size(ptr) = 0 /\ NextLoop
     \/ Size(ptr) # 0 /\ IsFree(ptr) /\ lastWasFree /\ Return
     \/ /\ Size(ptr) # 0 /\ ~(IsFree(ptr) /\ lastWasFree)
        /\ lastWasFree' = IsFree(ptr)
        /\ ptr' = NEXT_BLKP(ptr) /\ Stays /\ UNCHANGED <<ptr2, firstLoop>>

(* Every free block is in the list: the inner loop advances ptr2 to the    *)
(* block behind ptr.                                                       *)
listed ==
  /\ Turn("listed") /\ SameHeap
  /\ \/ Size(ptr) = 0 /\ NextLoop
     \/ /\ Size(ptr) # 0 /\ Size(ptr2) = 0
        /\ ptr' = NEXT_FREEP(ptr) /\ Stays
        /\ UNCHANGED <<ptr2, lastWasFree, firstLoop>>
     \/ Size(ptr) # 0 /\ Size(ptr2) # 0 /\ IsFree(ptr2) /\ ptr # ptr2 /\ Return
     \/ /\ Size(ptr) # 0 /\ Size(ptr2) # 0 /\ ~(IsFree(ptr2) /\ ptr # ptr2)
        /\ ptr2' = NEXT_BLKP(ptr) /\ Stays
        /\ UNCHANGED <<ptr, lastWasFree, firstLoop>>

(* Consecutive blocks point to each other.                                 *)
linked ==
  /\ Turn("linked") /\ SameHeap
  /\ LET on == Size(ptr) # 0 /\ Size(ptr2) # 0
         fits == on /\ NEXT_FREEP(ptr) = ptr2 /\ PREV_FREEP(ptr2) = ptr
     IN \/ ~on /\ NextLoop
        \/ on /\ ~fits /\ Return
        \/ /\ fits /\ Stays
           /\ ptr' = ptr2 /\ ptr2' = NEXT_FREEP(ptr2)
           /\ UNCHANGED <<lastWasFree, firstLoop>>

(* There is no cycle.                                                      *)
cycles ==
  /\ Turn("cycles") /\ SameHeap
  /\ LET on == Size(ptr) # 0 /\ Size(ptr2) # 0 /\ Size(NEXT_FREEP(ptr2)) # 0 IN
     \/ ~on /\ NextLoop
     \/ on /\ ~firstLoop /\ ptr = ptr2 /\ Return
     \/ /\ on /\ (firstLoop \/ ptr # ptr2) /\ Stays
        /\ ptr' = NEXT_FREEP(ptr) /\ ptr2' = NEXT_FREEP(NEXT_FREEP(ptr'))
        /\ firstLoop' = FALSE /\ UNCHANGED lastWasFree

(* checkblock prints what is wrong with a block, and changes nothing.      *)
blocks ==
  /\ Turn("blocks") /\ SameHeap
  /\ \/ Size(ptr) = 0 /\ Return
     \/ /\ Size(ptr) # 0 /\ ptr' = NEXT_FREEP(ptr) /\ Stays
        /\ UNCHANGED <<ptr2, lastWasFree, firstLoop>>

fault ==
  /\ InCheck /\ ~Safe
  /\ pc' = "fault" /\ UNCHANGED locals /\ SameHeap

mm_check == marked \/ adjacent \/ listed \/ linked \/ cycles \/ blocks \/ fault

Next == mm_init \/ mm_malloc \/ mm_check

(* mm_check runs on: the thread that called it does nothing else.          *)
FairSpec == Init /\ [][Next]_vars /\ WF_vars(mm_check)

(* TODO.md:58 has mm_check return, "a nonzero value if and only if your    *)
(* heap is consistent": a call comes to an end.  The heap it is called on  *)
(* here is the one mm_init has just laid out.                              *)
CheckReturns == (pc = "marked") ~> (pc = "checked")
=============================================================================
