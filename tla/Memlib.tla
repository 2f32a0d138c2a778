------------------------------- MODULE Memlib -------------------------------
(***************************************************************************)
(* memlib.c: the simulated memory system the allocators grow their heap    *)
(* in.  mem_init obtains one area of MAX_HEAP bytes from libc and keeps    *)
(* three pointers into it; two of them never move again and are constants  *)
(* here, the third one, mem_brk, is the state.                             *)
(*                                                                         *)
(* The program is built with -m32 (Makefile), so size_t, int and pointers  *)
(* all have 32 bits.  WORD_MOD stands for 2^32: the arithmetic that the C  *)
(* code performs on those types is arithmetic modulo WORD_MOD.             *)
(*                                                                         *)
(* In all modules a definition named ..._slip is not the program: it is    *)
(* what a plausible slip would make of the definition it precedes.         *)
(***************************************************************************)
EXTENDS Integers

CONSTANTS
  mem_start_brk,  \* first byte of the area, as malloc returned it
  MAX_HEAP,       \* size of the area in bytes (config.h: 20 MB)
  WORD_MOD        \* number of values of a size_t, an int or a pointer

(***************************************************************************)
(* libc's malloc returns doubleword-aligned, non-null areas that fit the   *)
(* address space, the one-past-the-end pointer included.                   *)
(***************************************************************************)
ASSUME MemlibAssumption ==
  /\ mem_start_brk \in Nat /\ mem_start_brk > 0 /\ mem_start_brk % 8 = 0
  /\ MAX_HEAP \in Nat /\ MAX_HEAP % 8 = 0
  /\ WORD_MOD \in Nat /\ WORD_MOD % 16 = 0
  /\ mem_start_brk + MAX_HEAP < WORD_MOD

VARIABLE mem_brk  \* first byte behind the heap

NULL == 0

mem_max_addr == mem_start_brk + MAX_HEAP

(* The value an int parameter receives when a size_t is passed for it.     *)
ToInt(n) == IF n < WORD_MOD \div 2 THEN n ELSE n - WORD_MOD

(***************************************************************************)
(* mem_sbrk(incr).  The sum mem_brk + incr is a pointer: where it leaves   *)
(* the address space it wraps round before it is compared.                 *)
(***************************************************************************)
MovedBrk(brk, incr) == (brk + incr) % WORD_MOD

SbrkSucceeds_slip(brk, incr) == incr >= 0   \* no limit
SbrkSucceeds_slip2(brk, incr) == MovedBrk(brk, incr) <= mem_max_addr

SbrkSucceeds(brk, incr) == incr >= 0 /\ MovedBrk(brk, incr) <= mem_max_addr

mem_sbrk_slip(incr) == mem_brk' = MovedBrk(mem_brk, incr)  \* moved, then refused

mem_sbrk(incr) ==
  mem_brk' = IF SbrkSucceeds(mem_brk, incr) THEN MovedBrk(mem_brk, incr)
                                            ELSE mem_brk

mem_reset_brk == mem_brk' = mem_start_brk

mem_heap_lo == mem_start_brk
mem_heap_hi == mem_brk - 1
mem_heapsize == mem_brk - mem_start_brk
=============================================================================
