------------------------------- MODULE Clock -------------------------------
(***************************************************************************)
(* clock.c: time in cycles, from a counter that is read in words of 32     *)
(* bits (WORD stands for 2^32), and the same with the cost of the timer    *)
(* interrupts taken off (start_comp_counter, get_comp_counter), which is   *)
(* measured first (callibrate).                                            *)
(*                                                                         *)
(* now is the true number of cycles since some moment, utime the number of *)
(* clock ticks of user time: what the hardware and times() count.          *)
(* Definitions named ..._slip are not the program: each is what a slip     *)
(* would make of the one after it.                                         *)
(***************************************************************************)
EXTENDS Integers

CONSTANTS
  WORD,          \* number of values of an unsigned int
  Machines,      \* "x86": a counter of two words; "alpha": of one word
  Starts,        \* what the counter may say when the program starts
  Gaps,          \* how many cycles pass between two steps of the program
  Horizon,       \* bound: cycles that pass altogether
  NEVENT, THRESHOLD, RECORDTHRESH

ASSUME ClockAssumption ==
  /\ WORD \in Nat \ {0, 1} /\ Machines \subseteq {"x86", "alpha"}
  /\ Starts \subseteq Nat /\ Gaps \subseteq Nat /\ Horizon \in Nat
  /\ NEVENT \in Nat /\ THRESHOLD \in Nat /\ RECORDTHRESH \in Nat

VARIABLES
  machine,       \* which of the two versions was compiled
  first,         \* what now was when the program started
  now, utime,
  pc,            \* "idle", "started", "callibrate", "looked", "begin",
                 \* "timing" or "read"
  cyc_hi, cyc_lo,
  begun,         \* now, at the last start_counter
  began,         \* utime, at the last times() before it (start_tick)
  inside,        \* the ticks in the time that is measured
  result,        \* what get_counter returned ...
  ticks,         \* ... and the ticks get_comp_counter takes off
  cyc_per_tick,  \* a fraction [cycles, ticks], or NoCost (0.0)
  e, oldt, oldc, newt,   \* locals of callibrate
  events         \* the costs callibrate has measured

counter == <<cyc_hi, cyc_lo, begun>>
locals == <<e, oldt, oldc, newt>>
vars == <<machine, first, now, utime, pc, counter, began, inside, result, ticks,
          cyc_per_tick, locals, events>>

NoCost == [cycles |-> 0, ticks |-> 1]
Less(p, q) == p.cycles * q.ticks < q.cycles * p.ticks

-----------------------------------------------------------------------------
(* access_counter: the words of the counter at the moment t.               *)
HiWord(t) == IF machine = "x86" THEN (t \div WORD) % WORD ELSE 0
LoWord(t) == t % WORD

start_counter(t) == cyc_hi' = HiWord(t) /\ cyc_lo' = LoWord(t) /\ begun' = t

(* get_counter subtracts word by word, with a borrow.                      *)
Cycles_slip(hi, lo, t) ==   \* without the borrow
  ((HiWord(t) - hi) % WORD) * WORD + ((LoWord(t) - lo) % WORD)

Cycles(hi, lo, t) ==
  LET low == (LoWord(t) - lo) % WORD
      borrow == IF low > LoWord(t) THEN 1 ELSE 0
  IN ((HiWord(t) - hi - borrow) % WORD) * WORD + low

get_counter(t) == Cycles(cyc_hi, cyc_lo, t)

-----------------------------------------------------------------------------
Init ==
  /\ machine \in Machines
  /\ first \in Starts /\ now = first /\ utime = 0
  /\ pc = "idle"
  /\ cyc_hi = 0 /\ cyc_lo = 0 /\ begun = first
  /\ began = 0 /\ inside = 0 /\ result = 0 /\ ticks = 0
  /\ cyc_per_tick = NoCost
  /\ e = 0 /\ oldt = 0 /\ oldc = 0 /\ newt = 0
  /\ events = {}

(* Time goes by, with or without a tick of the clock.                      *)
Passes(gap, tick) ==
  /\ now + gap <= first + Horizon
  /\ now' = now + gap /\ utime' = utime + tick
  /\ UNCHANGED <<machine, first>>

(* start_comp_counter: without a cost per tick it calls callibrate, which  *)
(* begins with times(), start_counter and get_counter ...                  *)
callibrate(gap, tick) ==
  /\ pc \in {"idle", "read"} /\ cyc_per_tick = NoCost
  /\ Passes(gap, tick)
  /\ oldc' = utime
  /\ start_counter(now')
  /\ e' = 0 /\ events' = {}
  /\ pc' = "started"
  /\ UNCHANGED <<began, inside, result, ticks, cyc_per_tick, oldt, newt>>

first_look(gap, tick) ==
  /\ pc = "started"
  /\ Passes(gap, tick)
  /\ oldt' = get_counter(now')
  /\ pc' = "callibrate"
  /\ UNCHANGED <<counter, began, inside, result, ticks, cyc_per_tick, events,
                 e, oldc, newt>>

Recorded_slip(old, cost) == cost   \* the latest one

(* ... and looks at the counter until it has seen NEVENT gaps with a tick: *)
(* the smallest of their costs, above a threshold, is recorded.            *)
Recorded(old, cost) ==
  IF (old = NoCost \/ Less(cost, old)) /\ cost.cycles > RECORDTHRESH * cost.ticks
  THEN cost ELSE old

look(gap, tick) ==
  /\ pc = "callibrate" /\ e < NEVENT
  /\ Passes(gap, tick)
  /\ newt' = get_counter(now')
  /\ pc' = IF newt' - oldt >= THRESHOLD THEN "looked" ELSE "callibrate"
  /\ UNCHANGED <<counter, began, inside, result, ticks, cyc_per_tick, events,
                 e, oldt, oldc>>

(* After a gap that is long enough it asks times(), and time goes by until *)
(* that answers.                                                           *)
look_at_ticks(gap, tick) ==
  /\ pc = "looked"
  /\ Passes(gap, tick)
  /\ LET cost == [cycles |-> newt - oldt, ticks |-> utime' - oldc] IN
     IF utime' > oldc
     THEN /\ cyc_per_tick' = Recorded(cyc_per_tick, cost)
          /\ e' = e + 1 /\ oldc' = utime'
          /\ events' = events \cup {cost}
     ELSE UNCHANGED <<cyc_per_tick, e, oldc, events>>
  /\ oldt' = newt
  /\ pc' = "callibrate"
  /\ UNCHANGED <<counter, began, inside, result, ticks, newt>>

callibrated ==
  /\ pc = "callibrate" /\ e = NEVENT
  /\ pc' = "begin"
  /\ UNCHANGED <<machine, first, now, utime, counter, began, inside, result,
                 ticks, cyc_per_tick, locals, events>>

callibration_known ==
  /\ pc \in {"idle", "read"} /\ cyc_per_tick # NoCost
  /\ pc' = "begin"
  /\ UNCHANGED <<machine, first, now, utime, counter, began, inside, result,
                 ticks, cyc_per_tick, locals, events>>

(* The rest of start_comp_counter: times(), then start_counter.            *)
start_comp_counter(gap, tick) ==
  /\ pc = "begin"
  /\ Passes(gap, tick)
  /\ began' = utime /\ inside' = 0
  /\ start_counter(now')
  /\ pc' = "timing"
  /\ UNCHANGED <<result, ticks, cyc_per_tick, locals, events>>

run(gap, tick) ==   \* the function that is timed
  /\ pc = "timing"
  /\ Passes(gap, tick)
  /\ inside' = inside + tick
  /\ UNCHANGED <<pc, counter, began, result, ticks, cyc_per_tick, locals,
                 events>>

get_comp_counter_slip(gap, tick) ==   \* began is not looked at
  /\ pc = "timing"
  /\ result' = get_counter(now)
  /\ Passes(gap, tick)
  /\ ticks' = utime'
  /\ pc' = "read"
  /\ UNCHANGED <<counter, began, inside, cyc_per_tick, locals, events>>

(* get_comp_counter: get_counter, then times().                            *)
get_comp_counter(gap, tick) ==
  /\ pc = "timing"
  /\ result' = get_counter(now)
  /\ Passes(gap, tick)
  /\ ticks' = utime' - began
  /\ pc' = "read"
  /\ UNCHANGED <<counter, began, inside, cyc_per_tick, locals, events>>

Next ==
  \/ callibrated \/ callibration_known
  \/ \E gap \in Gaps, tick \in {0, 1} :
       \/ callibrate(gap, tick) \/ first_look(gap, tick)
       \/ look(gap, tick) \/ look_at_ticks(gap, tick)
       \/ start_comp_counter(gap, tick) \/ run(gap, tick)
       \/ get_comp_counter(gap, tick)

Spec == Init /\ [][Next]_vars
-----------------------------------------------------------------------------
(* "Get # cycles since counter started" (clock.h:6): the subtraction is    *)
(* right across any number of carries between the words, and when the      *)
(* counter itself has begun again at zero, for as long as the time to be   *)
(* measured fits the counter.  On the Alpha it is right only while the     *)
(* counter does not pass zero: there the borrow is taken off a high word   *)
(* that the counter does not have.                                         *)
InRange ==
  IF machine = "x86" THEN now - begun < WORD * WORD
                     ELSE now \div WORD = begun \div WORD

CountsCycles == pc = "timing" /\ InRange => get_counter(now) = now - begun

(* The cost of a tick is the smallest that callibrate has measured and     *)
(* that is above the threshold; there is none if all are below.            *)
CostIsSmallest ==
  LET above == {c \in events : c.cycles > RECORDTHRESH * c.ticks} IN
  /\ cyc_per_tick = NoCost <=> above = {}
  /\ above # {} => cyc_per_tick \in above
                   /\ \A c \in above : ~Less(c, cyc_per_tick)

(* The ticks taken off include all those of the measured interval, and at  *)
(* most two more: one before start_counter and one after get_counter.      *)
TicksCovered == pc = "read" => ticks \in inside .. inside + 2
=============================================================================
