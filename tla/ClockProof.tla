----------------------------- MODULE ClockProof -----------------------------
(***************************************************************************)
(* Theorems about clock.c, for every size of the words, every pattern of   *)
(* time passing and every setting of the calibration.                      *)
(***************************************************************************)
EXTENDS Clock, TLAPS

(* What the ticks counted so far have to do with those of the interval:    *)
(* one may have fallen between times() and the start of the counter.       *)
TickInv ==
  /\ utime \in Nat /\ began \in Nat /\ inside \in Nat /\ ticks \in Int
  /\ pc = "timing" => /\ began + inside <= utime
                      /\ utime <= began + inside + 1
  /\ TicksCovered

(* It is kept by every step.                                               *)
LEMMA TickInvHolds == Spec => []TickInv
  <1>1. Init => TickInv
    BY DEF Init, TickInv, TicksCovered
  <1>2. TickInv /\ [Next]_vars => TickInv'
    <2> SUFFICES ASSUME TickInv, [Next]_vars PROVE TickInv'
      OBVIOUS
    <2> USE DEF TickInv, TicksCovered
    <2>1. CASE callibrated
      BY <2>1 DEF callibrated, counter, locals
    <2>2. CASE callibration_known
      BY <2>2 DEF callibration_known, counter, locals
    <2>3. ASSUME NEW gap \in Gaps, NEW tick \in {0, 1}, callibrate(gap, tick)
          PROVE  TickInv'
      BY <2>3 DEF callibrate, Passes
    <2>4. ASSUME NEW gap \in Gaps, NEW tick \in {0, 1}, look(gap, tick)
          PROVE  TickInv'
      BY <2>4 DEF look, Passes
    <2>4a. ASSUME NEW gap \in Gaps, NEW tick \in {0, 1},
                  first_look(gap, tick) \/ look_at_ticks(gap, tick)
           PROVE  TickInv'
      BY <2>4a DEF first_look, look_at_ticks, Passes
    <2>5. ASSUME NEW gap \in Gaps, NEW tick \in {0, 1}, start_comp_counter(gap, tick)
          PROVE  TickInv'
      BY <2>5 DEF start_comp_counter, Passes
    <2>6. ASSUME NEW gap \in Gaps, NEW tick \in {0, 1}, run(gap, tick)
          PROVE  TickInv'
      BY <2>6 DEF run, Passes
    <2>7. ASSUME NEW gap \in Gaps, NEW tick \in {0, 1}, get_comp_counter(gap, tick)
          PROVE  TickInv'
      BY <2>7 DEF get_comp_counter, Passes
    <2>8. CASE UNCHANGED vars
      BY <2>8 DEF vars
    <2> QED
      BY <2>1, <2>2, <2>3, <2>4, <2>4a, <2>5, <2>6, <2>7, <2>8 DEF Next
  <1> QED
    BY <1>1, <1>2, PTL DEF Spec

(* get_comp_counter never takes off less than the ticks of the measured    *)
(* interval, and never more than two more, however the ticks fall.         *)
THEOREM Compensated == Spec => []TicksCovered
  <1>1. TickInv => TicksCovered
    BY DEF TickInv
  <1> QED
    BY <1>1, TickInvHolds, PTL

-----------------------------------------------------------------------------
(* Arithmetic of words.                                                    *)

(* An unsigned int has some value.                                         *)
LEMMA WordPositive == WORD \in Nat /\ WORD > 0
  BY ClockAssumption DEF ClockAssumption

(* Quotient and remainder.                                                 *)
LEMMA DivMod ==
  ASSUME NEW x \in Int, NEW w \in Nat, w > 0
  PROVE  /\ x \div w \in Int /\ x % w \in Nat /\ x % w < w
         /\ x = (x \div w) * w + (x % w)
  BY SMT

(* A multiple of w is no smaller than the quotients say.                   *)
LEMMA Multiples ==
  ASSUME NEW p \in Int, NEW q \in Int, NEW w \in Nat, p < q
  PROVE  p * w + w <= q * w
  <1>1. (q - p - 1) * w >= 0
    BY SMT
  <1>2. (q - p - 1) * w = q * w - p * w - w
    BY SMT
  <1> QED
    BY <1>1, <1>2

(* Quotient and remainder are unique.                                      *)
LEMMA Unique ==
  ASSUME NEW p \in Int, NEW q \in Int, NEW r \in Nat, NEW s \in Nat, NEW w \in Nat,
         r < w, s < w, p * w + r = q * w + s
  PROVE  p = q /\ r = s
  <1>1. p * w \in Int /\ q * w \in Int
    OBVIOUS
  <1>2. ~(p < q)
    BY <1>1, Multiples
  <1>3. ~(q < p)
    BY <1>1, Multiples
  <1> QED
    BY <1>1, <1>2, <1>3

(* What differs from a word by a multiple of w has that word as remainder. *)
LEMMA SameRemainder ==
  ASSUME NEW x \in Int, NEW q \in Int, NEW d \in Nat, NEW w \in Nat,
         d < w, x = q * w + d
  PROVE  x % w = d
  <1>1. /\ x \div w \in Int /\ x % w \in Nat /\ x % w < w
        /\ x = (x \div w) * w + (x % w)
    BY DivMod
  <1> DEFINE p == x \div w
             r == x % w
  <1>2. p \in Int /\ r \in Nat /\ r < w /\ p * w + r = q * w + d
    BY <1>1
  <1> HIDE DEF p, r
  <1>3. r = d
    BY <1>2, Unique
  <1> QED
    BY <1>3 DEF r

(* The borrow: the difference of two low words is greater than the first   *)
(* exactly when the second one is greater.                                 *)
LEMMA Borrow ==
  ASSUME NEW x \in Nat, NEW y \in Nat, NEW w \in Nat, x < w, y < w
  PROVE  /\ x >= y => (x - y) % w = x - y
         /\ x < y => (x - y) % w = x - y + w
  <1>1. CASE x >= y
    <2>1. x - y \in Nat /\ x - y < w /\ x - y = 0 * w + (x - y)
      BY <1>1
    <2> QED
      BY <1>1, <2>1, SameRemainder
  <1>2. CASE x < y
    <2>1. x - y + w \in Nat /\ x - y + w < w /\ x - y = (-1) * w + (x - y + w)
      BY <1>2
    <2> QED
      BY <1>2, <2>1, SameRemainder
  <1> QED
    BY <1>1, <1>2

-----------------------------------------------------------------------------
(* What the words of the counter were when it was started.                 *)
StartInv ==
  /\ machine \in {"x86", "alpha"} /\ now \in Nat
  /\ pc = "timing" => /\ begun \in Nat /\ begun <= now
                      /\ cyc_hi = HiWord(begun) /\ cyc_lo = LoWord(begun)

(* Only start_counter writes them, from the time it is given.              *)
LEMMA StartInvHolds == Spec => []StartInv
  <1>1. Init => StartInv
    BY ClockAssumption DEF ClockAssumption, Init, StartInv
  <1>2. StartInv /\ [Next]_vars => StartInv'
    <2> SUFFICES ASSUME StartInv, [Next]_vars PROVE StartInv'
      OBVIOUS
    <2>0. Gaps \subseteq Nat
      BY ClockAssumption DEF ClockAssumption
    <2> USE DEF StartInv, HiWord, LoWord
    <2>1. CASE callibrated
      BY <2>1 DEF callibrated
    <2>2. CASE callibration_known
      BY <2>2 DEF callibration_known
    <2>3. ASSUME NEW gap \in Gaps, NEW tick \in {0, 1}, callibrate(gap, tick)
          PROVE  StartInv'
      BY <2>0, <2>3 DEF callibrate, Passes
    <2>4. ASSUME NEW gap \in Gaps, NEW tick \in {0, 1}, look(gap, tick)
          PROVE  StartInv'
      BY <2>0, <2>4 DEF look, Passes
    <2>4a. ASSUME NEW gap \in Gaps, NEW tick \in {0, 1},
                  first_look(gap, tick) \/ look_at_ticks(gap, tick)
           PROVE  StartInv'
      BY <2>0, <2>4a DEF first_look, look_at_ticks, Passes
    <2>5. ASSUME NEW gap \in Gaps, NEW tick \in {0, 1}, start_comp_counter(gap, tick)
          PROVE  StartInv'
      BY <2>0, <2>5 DEF start_comp_counter, start_counter, Passes
    <2>6. ASSUME NEW gap \in Gaps, NEW tick \in {0, 1}, run(gap, tick)
          PROVE  StartInv'
      BY <2>0, <2>6 DEF run, Passes, counter
    <2>7. ASSUME NEW gap \in Gaps, NEW tick \in {0, 1}, get_comp_counter(gap, tick)
          PROVE  StartInv'
      BY <2>0, <2>7 DEF get_comp_counter, Passes
    <2>8. CASE UNCHANGED vars
      BY <2>8 DEF vars, counter
    <2> QED
      BY <2>1, <2>2, <2>3, <2>4, <2>4a, <2>5, <2>6, <2>7, <2>8 DEF Next
  <1> QED
    BY <1>1, <1>2, PTL DEF Spec

(* The subtraction of two words with a borrow: the low words x1, x0 and    *)
(* the quotients q1, q0 of the later and the earlier time.                 *)
LEMMA TwoWords ==
  ASSUME NEW w \in Nat, w > 0,
         NEW q1 \in Nat, NEW q0 \in Nat, NEW x1 \in Nat, NEW x0 \in Nat,
         x1 < w, x0 < w,
         NEW d \in Nat, d < w * w, q1 * w + x1 = q0 * w + x0 + d
  PROVE  LET low == (x1 - x0) % w
             borrow == IF low > x1 THEN 1 ELSE 0
         IN (((q1 % w) - (q0 % w) - borrow) % w) * w + low = d
  <1> DEFINE low == (x1 - x0) % w
             borrow == IF low > x1 THEN 1 ELSE 0
             h == q1 - q0 - borrow
  <1>1. /\ low \in Nat /\ low < w /\ borrow \in {0, 1}
        /\ x1 - x0 = low - borrow * w
    <2>1. x1 >= x0 => low = x1 - x0
      BY Borrow
    <2>2. x1 < x0 => low = x1 - x0 + w
      BY Borrow
    <2> HIDE DEF low
    <2> QED
      BY <2>1, <2>2
  <1> HIDE DEF low, borrow
  <1>2. h \in Int /\ q1 * w - q0 * w - borrow * w = h * w
    BY <1>1
  <1>3. h * w + low = d
    <2>1. q1 * w \in Int /\ q0 * w \in Int /\ borrow * w \in Int /\ h * w \in Int
      BY <1>1, <1>2
    <2> HIDE DEF h
    <2> QED
      BY <1>1, <1>2, <2>1
  <1>4. h \in Nat /\ h < w
    <2>1. h \in Int /\ h * w \in Int /\ w * w \in Int
      BY <1>2
    <2> HIDE DEF h
    <2>2. ~(h < 0)
      BY <2>1, <1>1, <1>3, Multiples
    <2>3. ~(w < h) /\ h # w
      BY <2>1, <1>1, <1>3, Multiples
    <2> QED
      BY <2>1, <2>2, <2>3
  <1>5. ((q1 % w) - (q0 % w) - borrow) % w = h
    <2> DEFINE p1 == q1 \div w
               p0 == q0 \div w
               r1 == q1 % w
               r0 == q0 % w
    <2>1. /\ p1 \in Int /\ r1 \in Nat /\ q1 = p1 * w + r1
          /\ p0 \in Int /\ r0 \in Nat /\ q0 = p0 * w + r0
      BY DivMod
    <2> HIDE DEF p1, p0, r1, r0
    <2>2. /\ p0 - p1 \in Int /\ (p0 - p1) * w = p0 * w - p1 * w
          /\ p0 * w \in Int /\ p1 * w \in Int
      BY <2>1
    <2>3. r1 - r0 - borrow \in Int /\ r1 - r0 - borrow = (p0 - p1) * w + h
      BY <1>1, <2>1, <2>2
    <2> HIDE DEF h
    <2> DEFINE z == r1 - r0 - borrow
               p == p0 - p1
    <2>3a. z \in Int /\ p \in Int /\ z = p * w + h
      BY <2>2, <2>3
    <2> HIDE DEF z, p
    <2>4. z % w = h
      BY <1>4, <2>3a, SameRemainder
    <2> USE DEF z
    <2> QED
      BY <2>4 DEF r1, r0
  <1> QED
    BY <1>3, <1>5 DEF low, borrow

(* get_counter is right, in words of any size, whenever the time that is   *)
(* measured fits the counter.                                              *)
THEOREM CounterRight == Spec => []CountsCycles
  <1>1. StartInv => CountsCycles
    <2> SUFFICES ASSUME StartInv, pc = "timing", InRange
                 PROVE  get_counter(now) = now - begun
      BY DEF CountsCycles
    <2> DEFINE q1 == now \div WORD
               q0 == begun \div WORD
               x1 == now % WORD
               x0 == begun % WORD
    <2>1. /\ now \in Nat /\ begun \in Nat /\ begun <= now
          /\ cyc_hi = HiWord(begun) /\ cyc_lo = x0 /\ machine \in {"x86", "alpha"}
      BY DEF StartInv, LoWord
    <2>2. /\ q1 \in Int /\ x1 \in Nat /\ x1 < WORD /\ now = q1 * WORD + x1
          /\ q0 \in Int /\ x0 \in Nat /\ x0 < WORD /\ begun = q0 * WORD + x0
      BY <2>1, WordPositive, DivMod
    <2>3. q1 \in Nat /\ q0 \in Nat
      BY <2>1, WordPositive, SMT
    <2>4. CASE machine = "x86"
      <3>1. now - begun < WORD * WORD
        BY <2>4 DEF InRange
      <3>2. HiWord(now) = q1 % WORD /\ cyc_hi = q0 % WORD /\ LoWord(now) = x1
        BY <2>1, <2>4 DEF HiWord, LoWord
      <3> HIDE DEF q1, q0, x1, x0
      <3> DEFINE d == now - begun
      <3>3. d \in Nat /\ q1 * WORD + x1 = q0 * WORD + x0 + d /\ d < WORD * WORD
        BY <2>1, <2>2, <3>1, WordPositive
      <3> HIDE DEF d
      <3>4. LET low == (x1 - x0) % WORD
                borrow == IF low > x1 THEN 1 ELSE 0
            IN (((q1 % WORD) - (q0 % WORD) - borrow) % WORD) * WORD + low = d
        BY <2>2, <2>3, <3>3, WordPositive, TwoWords
      <3>5. get_counter(now) = d
        BY <2>1, <3>2, <3>4 DEF get_counter, Cycles
      <3> QED
        BY <3>5 DEF d
    <2>5. CASE machine = "alpha"
      <3>1. q1 = q0
        BY <2>5 DEF InRange
      <3>2. HiWord(now) = 0 /\ cyc_hi = 0 /\ LoWord(now) = x1
        BY <2>1, <2>5 DEF HiWord, LoWord
      <3> HIDE DEF q1, q0, x1, x0
      <3>3. x1 >= x0 /\ x1 - x0 = now - begun
        BY <2>1, <2>2, <3>1, WordPositive
      <3>4. (x1 - x0) % WORD = x1 - x0
        BY <2>2, <3>3, WordPositive, Borrow
      <3> DEFINE low == (x1 - x0) % WORD
                 borrow == IF low > x1 THEN 1 ELSE 0
      <3>5. low = now - begun /\ borrow = 0
        BY <2>2, <3>3, <3>4
      <3>6. get_counter(now) = ((0 - 0 - borrow) % WORD) * WORD + low
        BY <2>1, <3>2 DEF get_counter, Cycles
      <3> HIDE DEF low, borrow
      <3>7. (0 - 0 - borrow) % WORD = 0
        <4>1. 0 - 0 - borrow = 0 * WORD + 0 /\ 0 - 0 - borrow \in Int
          BY <3>5, WordPositive
        <4> QED
          BY <4>1, WordPositive, SameRemainder
      <3>8. 0 * WORD = 0 /\ now - begun \in Int
        BY <2>1, WordPositive
      <3> QED
        BY <3>5, <3>6, <3>7, <3>8
    <2> QED
      BY <2>1, <2>4, <2>5
  <1> QED
    BY <1>1, StartInvHolds, PTL

-----------------------------------------------------------------------------
(* Costs are compared by cross-multiplication; what callibrate records has *)
(* at least one tick.                                                      *)
Costs == [cycles : Int, ticks : Nat \ {0}]

Above == {c \in events : c.cycles > RECORDTHRESH * c.ticks}

CostInv ==
  /\ now \in Nat /\ utime \in Nat /\ oldc \in Nat
  /\ oldt \in Int /\ newt \in Int
  /\ cyc_hi \in Int /\ cyc_lo \in Int
  /\ events \subseteq Costs /\ cyc_per_tick \in Costs
  /\ CostIsSmallest

(* What undercuts a cost undercuts all that do not undercut it.            *)
LEMMA LessThanAll ==
  ASSUME NEW new \in Costs, NEW old \in Costs, NEW c \in Costs,
         Less(new, old), ~Less(c, old)
  PROVE  ~Less(c, new)
  <1> DEFINE n == new.cycles
             nt == new.ticks
             o == old.cycles
             ot == old.ticks
             a == c.cycles
             at == c.ticks
  <1>1. /\ n \in Int /\ o \in Int /\ a \in Int
        /\ nt \in Nat \ {0} /\ ot \in Nat \ {0} /\ at \in Nat \ {0}
    BY DEF Costs
  <1>2. n * ot < o * nt /\ ~(a * ot < o * at)
    BY DEF Less
  <1>3. SUFFICES ASSUME a * nt < n * at PROVE FALSE
    BY DEF Less
  <1> HIDE DEF n, nt, o, ot, a, at
  <1>4. (a * nt) * ot < (n * at) * ot
    <2>1. n * at - a * nt > 0 /\ n * at - a * nt \in Int
      BY <1>1, <1>3
    <2>2. (n * at - a * nt) * ot > 0
      BY <1>1, <2>1
    <2> QED
      BY <1>1, <2>2
  <1>5. (n * ot) * at < (o * nt) * at
    <2>1. o * nt - n * ot > 0 /\ o * nt - n * ot \in Int
      BY <1>1, <1>2
    <2>2. (o * nt - n * ot) * at > 0
      BY <1>1, <2>1
    <2> QED
      BY <1>1, <2>2
  <1>6. (o * at) * nt <= (a * ot) * nt
    <2>1. a * ot - o * at >= 0 /\ a * ot - o * at \in Int
      BY <1>1, <1>2
    <2>2. (a * ot - o * at) * nt >= 0
      BY <1>1, <2>1
    <2> QED
      BY <1>1, <2>2
  <1>7. /\ (a * nt) * ot = (a * ot) * nt /\ (n * at) * ot = (n * ot) * at
        /\ (o * nt) * at = (o * at) * nt
    BY <1>1
  <1> QED
    BY <1>1, <1>4, <1>5, <1>6, <1>7

(* A cost that callibrate has measured is recorded, or is not smaller than *)
(* the one recorded, or below the threshold.                               *)
LEMMA RecordsSmallest ==
  ASSUME CostInv, NEW cost \in Costs,
         cyc_per_tick' = Recorded(cyc_per_tick, cost), events' = events \cup {cost}
  PROVE  cyc_per_tick' \in Costs /\ CostIsSmallest'
  <1>0. RECORDTHRESH \in Nat
    BY ClockAssumption DEF ClockAssumption
  <1> DEFINE high == cost.cycles > RECORDTHRESH * cost.ticks
  <1>1. /\ cyc_per_tick \in Costs /\ events \subseteq Costs
        /\ cyc_per_tick = NoCost <=> Above = {}
        /\ Above # {} => /\ cyc_per_tick \in Above
                         /\ \A c \in Above : ~Less(c, cyc_per_tick)
    BY DEF CostInv, CostIsSmallest, Above
  <1>2. Above' = IF high THEN Above \cup {cost} ELSE Above
    BY DEF Above
  <1>3. high => cost # NoCost
    BY <1>0 DEF NoCost
  <1>4. ~Less(cost, cost)
    BY DEF Less, Costs
  <1> HIDE DEF high
  <1>5. CASE ~high
    <2>1. cyc_per_tick' = cyc_per_tick
      BY <1>5 DEF Recorded, high
    <2> QED
      BY <1>1, <1>2, <1>5, <2>1 DEF CostIsSmallest, Above
  <1>6. CASE high /\ (cyc_per_tick = NoCost \/ Less(cost, cyc_per_tick))
    <2>1. cyc_per_tick' = cost
      BY <1>6 DEF Recorded, high
    <2>2. \A c \in Above : ~Less(c, cost)
      BY <1>1, <1>6, LessThanAll DEF Above
    <2>3. Above' = Above \cup {cost}
      BY <1>2, <1>6
    <2>4. \A c \in Above' : ~Less(c, cyc_per_tick')
      BY <1>4, <2>1, <2>2, <2>3
    <2> QED
      BY <1>3, <1>6, <2>1, <2>3, <2>4 DEF CostIsSmallest, Above
  <1>7. CASE high /\ cyc_per_tick # NoCost /\ ~Less(cost, cyc_per_tick)
    <2>1. cyc_per_tick' = cyc_per_tick
      BY <1>7 DEF Recorded, high
    <2>2. Above' = Above \cup {cost}
      BY <1>2, <1>7
    <2>3. Above # {}
      BY <1>1, <1>7
    <2>4. \A c \in Above' : ~Less(c, cyc_per_tick')
      BY <1>1, <1>7, <2>1, <2>2, <2>3
    <2> QED
      BY <1>1, <1>7, <2>1, <2>2, <2>3, <2>4 DEF CostIsSmallest, Above
  <1> QED
    BY <1>5, <1>6, <1>7

(* The words of the counter are numbers, and so is what it returns.        *)
LEMMA CounterTypes ==
  ASSUME NEW t \in Nat, machine \in {"x86", "alpha"}
  PROVE  /\ HiWord(t) \in Int /\ LoWord(t) \in Int
         /\ \A hi, lo \in Int : Cycles(hi, lo, t) \in Int
  <1>1. HiWord(t) \in Int /\ LoWord(t) \in Int
    <2>1. t \div WORD \in Int /\ t % WORD \in Int
      BY WordPositive, DivMod
    <2>2. (t \div WORD) % WORD \in Int
      BY <2>1, WordPositive, DivMod
    <2> QED
      BY <2>1, <2>2 DEF HiWord, LoWord
  <1>2. ASSUME NEW hi \in Int, NEW lo \in Int PROVE Cycles(hi, lo, t) \in Int
    <2> DEFINE low == (LoWord(t) - lo) % WORD
               borrow == IF low > LoWord(t) THEN 1 ELSE 0
               high == (HiWord(t) - hi - borrow) % WORD
    <2>1. low \in Int
      BY <1>1, WordPositive, DivMod
    <2>2. HiWord(t) - hi - borrow \in Int
      BY <1>1
    <2>3. high \in Int
      BY <2>2, WordPositive, DivMod
    <2>4. Cycles(hi, lo, t) = high * WORD + low
      BY DEF Cycles
    <2> HIDE DEF low, high
    <2> QED
      BY <2>1, <2>3, <2>4, WordPositive
  <1> QED
    BY <1>1, <1>2

(* The ticks of a gap that has any are a positive number.                  *)
LEMMA Ahead ==
  ASSUME NEW x \in Nat, NEW y \in Nat, x > y
  PROVE  x - y \in Nat \ {0}
  OBVIOUS

(* It is kept by every step; look_at_ticks is the one that records a cost. *)
LEMMA CostInvHolds == Spec => []CostInv
  <1>1. Init => CostInv
    <2> SUFFICES ASSUME Init PROVE CostInv
      OBVIOUS
    <2>1. NoCost \in Costs /\ 0 \in Nat /\ 0 \in Int
      BY DEF NoCost, Costs
    <2>2. first \in Nat
      BY ClockAssumption DEF ClockAssumption, Init
    <2> QED
      BY <2>1, <2>2 DEF Init, CostInv, CostIsSmallest
  <1>2. CostInv /\ StartInv /\ [Next]_vars => CostInv'
    <2> SUFFICES ASSUME CostInv, StartInv, [Next]_vars PROVE CostInv'
      OBVIOUS
    <2>0. Gaps \subseteq Nat
      BY ClockAssumption DEF ClockAssumption
    <2>m. machine \in {"x86", "alpha"} /\ now \in Nat
      BY DEF StartInv
    <2>t. /\ now \in Nat /\ utime \in Nat /\ oldc \in Nat
          /\ oldt \in Int /\ newt \in Int
          /\ cyc_hi \in Int /\ cyc_lo \in Int
          /\ events \subseteq Costs /\ cyc_per_tick \in Costs
      BY DEF CostInv
    <2>s. ASSUME UNCHANGED <<events, cyc_per_tick>> PROVE CostIsSmallest'
      BY <2>s DEF CostInv, CostIsSmallest
    <2>w. ASSUME NEW t \in Nat, start_counter(t) PROVE cyc_hi' \in Int /\ cyc_lo' \in Int
      BY <2>m, <2>w, CounterTypes DEF start_counter
    <2>p. ASSUME NEW gap \in Gaps, NEW tick \in {0, 1}, Passes(gap, tick)
          PROVE  now' \in Nat /\ utime' \in Nat /\ machine' = machine
      BY <2>0, <2>t, <2>p DEF Passes
    <2>1. CASE callibrated
      BY <2>1, <2>s, <2>t DEF callibrated, counter, locals, CostInv
    <2>2. CASE callibration_known
      BY <2>2, <2>s, <2>t DEF callibration_known, counter, locals, CostInv
    <2>3. ASSUME NEW gap \in Gaps, NEW tick \in {0, 1}, callibrate(gap, tick)
          PROVE  CostInv'
      <3>1. now' \in Nat /\ utime' \in Nat
        BY <2>3, <2>p DEF callibrate
      <3>2. cyc_hi' \in Int /\ cyc_lo' \in Int
        BY <2>3, <2>w, <3>1 DEF callibrate
      <3>3. oldt' = oldt /\ newt' = newt /\ oldc' \in Nat
        BY <2>3, <2>t DEF callibrate
      <3>4. events' = {} /\ cyc_per_tick' = cyc_per_tick /\ cyc_per_tick = NoCost
        BY <2>3 DEF callibrate
      <3>5. CostIsSmallest'
        BY <3>4 DEF CostIsSmallest
      <3> QED
        BY <2>t, <3>1, <3>2, <3>3, <3>4, <3>5 DEF CostInv
    <2>4. ASSUME NEW gap \in Gaps, NEW tick \in {0, 1},
                 first_look(gap, tick) \/ look(gap, tick)
          PROVE  CostInv'
      <3>1. now' \in Nat /\ utime' \in Nat
        BY <2>4, <2>p DEF first_look, look
      <3>2. get_counter(now') \in Int
        BY <2>m, <2>t, <3>1, CounterTypes DEF get_counter
      <3>3. UNCHANGED <<cyc_hi, cyc_lo, cyc_per_tick, oldc, events>>
        BY <2>4 DEF first_look, look, counter
      <3>4. oldt' \in Int /\ newt' \in Int
        BY <2>4, <2>t, <3>2 DEF first_look, look
      <3> QED
        BY <2>t, <2>s, <3>1, <3>3, <3>4 DEF CostInv
    <2>4a. ASSUME NEW gap \in Gaps, NEW tick \in {0, 1}, look_at_ticks(gap, tick)
           PROVE  CostInv'
      <3> DEFINE cost == [cycles |-> newt - oldt, ticks |-> utime' - oldc]
      <3>1. now' \in Nat /\ utime' \in Nat
        BY <2>4a, <2>p DEF look_at_ticks
      <3>2. oldt' = newt /\ newt' = newt /\ cyc_hi' = cyc_hi /\ cyc_lo' = cyc_lo
        BY <2>4a DEF look_at_ticks, counter
      <3>3. CASE utime' > oldc
        <4>1. /\ cyc_per_tick' = Recorded(cyc_per_tick, cost)
              /\ oldc' = utime' /\ events' = events \cup {cost}
          BY <2>4a, <3>3 DEF look_at_ticks
        <4>2. utime' - oldc \in Nat \ {0} /\ newt - oldt \in Int
          <5>1. oldc \in Nat /\ utime' \in Nat /\ utime' > oldc
            BY <2>t, <3>1, <3>3
          <5>2. newt - oldt \in Int
            BY <2>t
          <5>3. utime' - oldc \in Nat \ {0}
            BY <5>1, Ahead
          <5> QED
            BY <5>2, <5>3, Zenon
        <4>3. cost \in Costs
          BY <4>2 DEF Costs
        <4> HIDE DEF cost
        <4>4. cyc_per_tick' \in Costs /\ CostIsSmallest'
          BY <4>1, <4>3, RecordsSmallest
        <4> QED
          BY <2>t, <3>1, <3>2, <4>1, <4>3, <4>4 DEF CostInv
      <3>4. CASE ~(utime' > oldc)
        <4>1. UNCHANGED <<cyc_per_tick, oldc, events>>
          BY <2>4a, <3>4 DEF look_at_ticks
        <4> QED
          BY <2>t, <2>s, <3>1, <3>2, <4>1 DEF CostInv
      <3> QED
        BY <3>3, <3>4
    <2>5. ASSUME NEW gap \in Gaps, NEW tick \in {0, 1}, start_comp_counter(gap, tick)
          PROVE  CostInv'
      <3>1. now' \in Nat /\ utime' \in Nat /\ machine' = machine
        BY <2>5, <2>p DEF start_comp_counter
      <3>2. cyc_hi' \in Int /\ cyc_lo' \in Int
        BY <2>5, <2>w, <3>1 DEF start_comp_counter
      <3>3. UNCHANGED <<cyc_per_tick, oldt, newt, oldc, events>>
        BY <2>5 DEF start_comp_counter, locals
      <3> QED
        BY <2>t, <2>s, <3>1, <3>2, <3>3 DEF CostInv
    <2>6. ASSUME NEW gap \in Gaps, NEW tick \in {0, 1}, run(gap, tick)
          PROVE  CostInv'
      <3>1. now' \in Nat /\ utime' \in Nat
        BY <2>6, <2>p DEF run
      <3>2. UNCHANGED <<cyc_hi, cyc_lo, cyc_per_tick, oldt, newt, oldc, events>>
        BY <2>6 DEF run, counter, locals
      <3> QED
        BY <2>t, <2>s, <3>1, <3>2 DEF CostInv
    <2>7. ASSUME NEW gap \in Gaps, NEW tick \in {0, 1}, get_comp_counter(gap, tick)
          PROVE  CostInv'
      <3>1. now' \in Nat /\ utime' \in Nat
        BY <2>7, <2>p DEF get_comp_counter
      <3>2. UNCHANGED <<cyc_hi, cyc_lo, cyc_per_tick, oldt, newt, oldc, events>>
        BY <2>7 DEF get_comp_counter, counter, locals
      <3> QED
        BY <2>t, <2>s, <3>1, <3>2 DEF CostInv
    <2>8. CASE UNCHANGED vars
      BY <2>8, <2>s, <2>t DEF vars, counter, locals, CostInv
    <2> QED
      BY <2>1, <2>2, <2>3, <2>4, <2>4a, <2>5, <2>6, <2>7, <2>8 DEF Next
  <1> QED
    BY <1>1, <1>2, StartInvHolds, PTL DEF Spec

(* The cost callibrate settles on is the smallest that it has measured     *)
(* above the threshold, whichever gaps and ticks it meets.                 *)
THEOREM SmallestCost == Spec => []CostIsSmallest
  <1>1. CostInv => CostIsSmallest
    BY DEF CostInv
  <1> QED
    BY <1>1, CostInvHolds, PTL
=============================================================================
