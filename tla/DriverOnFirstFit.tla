-------------------------- MODULE DriverOnFirstFit --------------------------
(***************************************************************************)
(* The program mdriver as it is built with mm-firstfit.c: the driver of    *)
(* Driver, linked with one of the allocators it allows for; where that is  *)
(* mm-firstfit, the answers, the growth of the heap and what becomes of    *)
(* the data the driver writes are those of the routines of FirstFit, on    *)
(* one and the same memory, from one evaluation to the next.               *)
(*                                                                         *)
(* The driver calls, and waits: a call is one step here.  FirstFit takes   *)
(* the steps of a call apart.                                              *)
(***************************************************************************)
EXTENDS DriverProps

CONSTANT CHUNKSIZE   \* as in FirstFit

VARIABLE mem         \* the words of the area, as FirstFit sees them

progVars == <<vars, mem>>

FF == INSTANCE FirstFit
  WITH call <- "none", bp <- NULL, Sizes <- {}, RawMem <- {}, Passes <- 0

Is(name) == allocator = name

-----------------------------------------------------------------------------
(* The routines of mm-firstfit.c, as functions of memory and break.        *)

(* find_fit: the first block on the way from the prologue to the epilogue  *)
(* that is free and big enough, or NULL.                                   *)
find_fit(m, asize) ==
  LET from[p \in FF!heap_listp .. mem_max_addr] ==
        LET size == FF!GET_SIZE(m, FF!HDRP(p)) IN
        CASE size = 0 -> NULL
          [] FF!GET_ALLOC(m, FF!HDRP(p)) = 0 /\ asize <= size -> p
          [] OTHER -> from[FF!NEXT_BLKP(m, p)]
  IN from[FF!heap_listp]

(* What mm_malloc(size) makes of the memory, what it adds to the heap, and *)
(* its answer.                                                             *)
mm_malloc(m, size) ==
  LET asize == FF!AdjustedSize(size)
      fit == find_fit(m, asize)
      words == FF!WordsFor(asize)
      incr == ToInt(FF!ExtendSize(words))
      grown == FF!extend_heap(m, mem_brk, words)
  IN CASE size = 0 -> [mem |-> m, incr |-> 0, bp |-> NULL]
       [] size # 0 /\ fit # NULL ->
            [mem |-> FF!place(m, fit, asize), incr |-> 0, bp |-> fit]
       [] size # 0 /\ fit = NULL /\ SbrkSucceeds(mem_brk, incr) ->
            [mem |-> FF!place(grown.mem, grown.bp, asize), incr |-> incr,
             bp |-> grown.bp]
       [] OTHER -> [mem |-> m, incr |-> incr, bp |-> NULL]

mm_realloc_slip(m, ptr, size) ==   \* nothing is copied
  LET new == mm_malloc(m, size) IN
  IF new.bp = NULL THEN new ELSE [new EXCEPT !.mem = FF!mm_free(@, ptr)]

mm_realloc(m, ptr, size) ==
  LET new == mm_malloc(m, size)
      old == FF!GET_SIZE(m, FF!HDRP(ptr))
      copied == FF!memcpy(new.mem, new.bp, ptr, IF size < old THEN size ELSE old)
  IN IF new.bp = NULL THEN new ELSE [new EXCEPT !.mem = FF!mm_free(copied, ptr)]

(* mem_reset_brk and mm_init.                                              *)
mm_init(m) ==
  LET brk == mem_start_brk + 4 * FF!WSIZE
      frame == [m EXCEPT ![mem_start_brk] = 0,
                         ![mem_start_brk + FF!WSIZE] = FF!PACK(FF!OVERHEAD, 1),
                         ![mem_start_brk + FF!DSIZE] = FF!PACK(FF!OVERHEAD, 1),
                         ![mem_start_brk + FF!WSIZE + FF!DSIZE] = FF!PACK(0, 1)]
  IN FF!extend_heap(frame, brk, CHUNKSIZE \div FF!WSIZE).mem

-----------------------------------------------------------------------------
(* The steps of the two together.                                          *)

Asks == pass \notin LibcPasses /\ (Operating("a") \/ Operating("r"))

Result ==
  IF Op.type = "a" THEN mm_malloc(mem, Op.size) ELSE mm_realloc(mem, Old, Op.size)

(* The new block begins with the data of the old one.                      *)
Kept(m, p) ==
  \A a \in FF!WordsOf(p, Compared) : m[a] = FF!FillWord(Op.index)

(* eval_mm_valid fills a block it has accepted.                            *)
Filled(m, p) ==
  IF pass = "valid" /\ pc' = "ops"
  THEN FF!memset(m, p, FF!FillWord(Op.index), Op.size) ELSE m

evaluation_begins ==
  /\ begin_evaluation(4 * FF!WSIZE + CHUNKSIZE)
  /\ mem' = mm_init(mem)

request ==
  /\ Asks
  /\ LET new == Result IN
     /\ new.bp # NULL
     /\ Request(new.bp, new.incr, Kept(new.mem, new.bp))
     /\ mem' = Filled(new.mem, new.bp)

(* mm_malloc answers NULL; mm_realloc then ends the process.               *)
request_refused ==
  /\ Asks
  /\ LET new == Result IN
     /\ new.bp = NULL
     /\ IF Op.type = "a" THEN request_fails(new.incr) ELSE allocator_exits(new.incr)
  /\ UNCHANGED mem

free == Free /\ mem' = FF!mm_free(mem, Old)

Linked ==
  /\ IF Is("mm-firstfit")
     THEN evaluation_begins \/ request \/ request_refused \/ free
     ELSE Allocator /\ UNCHANGED mem
  /\ UNCHANGED allocator

ProgInit == Init /\ mem = [a \in FF!WordAddr |-> 0]

ProgNext ==
  \/ Linked
  \/ Own /\ UNCHANGED <<allocator, mem>>
  \/ stopped /\ UNCHANGED mem

ProgSpec == ProgInit /\ [][ProgNext]_progVars

-----------------------------------------------------------------------------
(* mm-firstfit.c, called by the driver, is an honest allocator: whatever   *)
(* it answers in an evaluation, an honest one might have answered, that is *)
(* aligned blocks in the heap apart from all those in use, with the data   *)
(* of the old one after mm_realloc.                                        *)
Honestly == INSTANCE Driver
  WITH allocator <- IF Is("mm-firstfit") THEN "honest" ELSE allocator

FirstFitIsHonest ==
  [][Is("mm-firstfit") /\ pass \notin LibcPasses => Honestly!Next]_progVars
=============================================================================
