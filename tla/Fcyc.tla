-------------------------------- MODULE Fcyc --------------------------------
(***************************************************************************)
(* fcyc.c: the K-best measurement scheme.  fcyc runs the function under    *)
(* test until the kbest smallest of the samples agree within epsilon, or   *)
(* until there are maxsamples samples, and answers the smallest one.       *)
(*                                                                         *)
(* A sample is whatever the cycle counter says: any number of Samples.     *)
(* epsilon, a double in the code, is Epsilon hundredths.  The parameters   *)
(* keep their values from one measurement to the next, and so does the     *)
(* buffer that is read to clear the cache.  Definitions named ..._slip are *)
(* not the program: each is what a slip would make of the one after it.    *)
(***************************************************************************)
EXTENDS Integers, Sequences, SequencesExt, FiniteSets

CONSTANTS
  K, MAXSAMPLES, EPSILON, CACHE_BYTES, CACHE_BLOCK,  \* the defaults
  Samples,     \* what the counter may say
  Ks,          \* arguments of set_fcyc_k
  MaxSamples,  \* ... of set_fcyc_maxsamples
  Epsilons,    \* ... of set_fcyc_epsilon, in hundredths
  Sizes,       \* ... of set_fcyc_cache_size, in bytes
  Blocks,      \* ... of set_fcyc_cache_block, in bytes
  Settings     \* bound: how many settings are made

ASSUME FcycAssumption ==
  /\ K \in Nat \ {0}
  /\ MAXSAMPLES \in Nat /\ EPSILON \in Nat /\ CACHE_BYTES \in Nat
  /\ Samples \subseteq Int
  /\ Ks \subseteq Nat \ {0} /\ MaxSamples \subseteq Nat
  /\ CACHE_BLOCK \in Nat \ (0 .. 3) /\ Blocks \subseteq Nat \ (0 .. 3)
  /\ Epsilons \subseteq Nat /\ Sizes \subseteq Nat /\ Settings \in Nat

VARIABLES
  kbest, maxsamples, epsilon,                          \* parameters
  compensate, clear_cache, cache_bytes, cache_block,   \* ... and more
  cache_buf,    \* size of the buffer, NoBuffer when there is none
  values,       \* the array of kbest numbers; empty when there is none
  samplecount,
  pc,           \* "idle", "clear", "measure", "test" or "returned"
  result,       \* what fcyc returned
  taken,        \* the samples of this measurement, in order
  set           \* number of settings made

scheme == <<kbest, maxsamples, epsilon>>
params == <<scheme, compensate, clear_cache, cache_bytes, cache_block>>
vars == <<params, cache_buf, values, samplecount, pc, result, taken, set>>

NoBuffer == -1

Init ==
  /\ kbest = K /\ maxsamples = MAXSAMPLES /\ epsilon = EPSILON
  /\ compensate = FALSE /\ clear_cache = FALSE
  /\ cache_bytes = CACHE_BYTES /\ cache_block = CACHE_BLOCK
  /\ cache_buf = NoBuffer
  /\ values = <<>> /\ samplecount = 0
  /\ pc = "idle" /\ result = 0 /\ taken = <<>> /\ set = 0

-----------------------------------------------------------------------------
(* The parameters, set between measurements.                               *)
Setting ==
  /\ pc \in {"idle", "returned"} /\ set < Settings /\ set' = set + 1
  /\ pc' = "idle"
  /\ UNCHANGED <<values, samplecount, result, taken>>

set_fcyc_k(k) ==
  /\ Setting /\ kbest' = k
  /\ UNCHANGED <<maxsamples, epsilon, compensate, clear_cache, cache_bytes,
                 cache_block, cache_buf>>

set_fcyc_maxsamples(n) ==
  /\ Setting /\ maxsamples' = n
  /\ UNCHANGED <<kbest, epsilon, compensate, clear_cache, cache_bytes,
                 cache_block, cache_buf>>

set_fcyc_epsilon(eps) ==
  /\ Setting /\ epsilon' = eps
  /\ UNCHANGED <<kbest, maxsamples, compensate, clear_cache, cache_bytes,
                 cache_block, cache_buf>>

set_fcyc_compensate(on) ==
  /\ Setting /\ compensate' = on
  /\ UNCHANGED <<scheme, clear_cache, cache_bytes, cache_block, cache_buf>>

set_fcyc_clear_cache(on) ==
  /\ Setting /\ clear_cache' = on
  /\ UNCHANGED <<scheme, compensate, cache_bytes, cache_block, cache_buf>>

set_fcyc_cache_block(bytes) ==
  /\ Setting /\ cache_block' = bytes
  /\ UNCHANGED <<scheme, compensate, clear_cache, cache_bytes, cache_buf>>

set_fcyc_cache_size_slip(bytes) ==   \* the old buffer is kept
  /\ Setting /\ cache_bytes' = bytes
  /\ UNCHANGED <<scheme, compensate, clear_cache, cache_block, cache_buf>>

(* A buffer of another size is given up; clear obtains it again.           *)
set_fcyc_cache_size(bytes) ==
  /\ Setting /\ cache_bytes' = bytes
  /\ cache_buf' = IF bytes = cache_bytes THEN cache_buf ELSE NoBuffer
  /\ UNCHANGED <<scheme, compensate, clear_cache, cache_block>>

-----------------------------------------------------------------------------
(* init_sampler: the array begins with kbest zeros.                        *)
init_sampler_slip ==   \* K, not kbest
  values' = [k \in 1 .. K |-> 0] /\ samplecount' = 0

init_sampler == values' = [k \in 1 .. kbest |-> 0] /\ samplecount' = 0

fcyc ==
  /\ pc \in {"idle", "returned"}
  /\ init_sampler
  /\ taken' = <<>>
  /\ pc' = IF clear_cache THEN "clear" ELSE "measure"
  /\ UNCHANGED <<params, cache_buf, result, set>>

(* clear reads the buffer in steps of incr ints, to its end.               *)
incr_slip == cache_block \div cache_bytes   \* not the size of an int

incr == cache_block \div 4

clear ==
  /\ pc = "clear"
  /\ cache_buf' = IF cache_buf = NoBuffer THEN cache_bytes ELSE cache_buf
  /\ pc' = IF incr > 0 THEN "measure" ELSE "clear"
  /\ UNCHANGED <<params, values, samplecount, result, taken, set>>

(* The insertion sort of add_sample: the number at pos sinks to its place, *)
(* those before it being in order.                                         *)

Sunk(v, pos) ==
  LET greater == {k \in 1 .. pos - 1 : v[k] > v[pos]}
      to == pos - Cardinality(greater)
  IN [k \in DOMAIN v |-> IF k = to THEN v[pos]
                         ELSE IF to < k /\ k <= pos THEN v[k - 1] ELSE v[k]]

(* The array after another sample: it fills up first, and then the largest *)
(* number gives way to a smaller sample.                                   *)
Kept_slip(v, count, val) ==   \* the latest sample always replaces it
  LET pos == IF count < kbest THEN count + 1 ELSE kbest
  IN Sunk([v EXCEPT ![pos] = val], pos)

Kept(v, count, val) ==
  IF count < kbest THEN Sunk([v EXCEPT ![count + 1] = val], count + 1)
  ELSE IF val < v[kbest] THEN Sunk([v EXCEPT ![kbest] = val], kbest)
  ELSE v

add_sample(val) ==
  /\ values' = Kept(values, samplecount, val)
  /\ samplecount' = samplecount + 1

measure(val) ==
  /\ pc = "measure"
  /\ add_sample(val)
  /\ taken' = Append(taken, val)
  /\ pc' = "test"
  /\ UNCHANGED <<params, cache_buf, result, set>>

Converged_slip ==   \* before there are enough samples
  (100 + epsilon) * values[1] >= 100 * values[kbest]

Converged ==
  /\ samplecount >= kbest
  /\ (100 + epsilon) * values[1] >= 100 * values[kbest]

again_slip ==   \* no limit
  /\ pc = "test" /\ ~Converged
  /\ pc' = IF clear_cache THEN "clear" ELSE "measure"
  /\ UNCHANGED <<params, cache_buf, values, samplecount, result, taken, set>>

again ==
  /\ pc = "test" /\ ~Converged /\ samplecount < maxsamples
  /\ pc' = IF clear_cache THEN "clear" ELSE "measure"
  /\ UNCHANGED <<params, cache_buf, values, samplecount, result, taken, set>>

return ==
  /\ pc = "test" /\ (Converged \/ samplecount >= maxsamples)
  /\ result' = values[1]
  /\ values' = <<>>
  /\ pc' = "returned"
  /\ UNCHANGED <<params, cache_buf, samplecount, taken, set>>

Run == clear \/ again \/ return \/ \E val \in Samples : measure(val)

Next ==
  \/ \E k \in Ks : set_fcyc_k(k)
  \/ \E n \in MaxSamples : set_fcyc_maxsamples(n)
  \/ \E eps \in Epsilons : set_fcyc_epsilon(eps)
  \/ \E on \in BOOLEAN : set_fcyc_clear_cache(on) \/ set_fcyc_compensate(on)
  \/ \E bytes \in Blocks : set_fcyc_cache_block(bytes)
  \/ \E bytes \in Sizes : set_fcyc_cache_size(bytes)
  \/ fcyc \/ Run

Spec == Init /\ [][Next]_vars

FairSpec == Spec /\ WF_vars(Run)
-----------------------------------------------------------------------------
(* x is the kth of the samples in s when they are put in order: fewer than *)
(* k are smaller, and k of them are not larger.                            *)
IsSmallest(x, k, s) ==
  /\ Cardinality({j \in DOMAIN s : s[j] < x}) < k
  /\ Cardinality({j \in DOMAIN s : s[j] <= x}) >= k

(* Every variable has its type, and the array has kbest places from the    *)
(* first sample of a measurement to the last, whatever was set before it.  *)
TypeOK ==
  /\ kbest \in Ks \cup {K} /\ maxsamples \in MaxSamples \cup {MAXSAMPLES}
  /\ epsilon \in Epsilons \cup {EPSILON}
  /\ compensate \in BOOLEAN /\ clear_cache \in BOOLEAN
  /\ cache_block \in Blocks \cup {CACHE_BLOCK}
  /\ cache_bytes \in Sizes \cup {CACHE_BYTES}
  /\ cache_buf \in Sizes \cup {CACHE_BYTES, NoBuffer}
  /\ values \in Seq(Samples \cup {0}) /\ samplecount \in Nat
  /\ pc \in {"idle", "clear", "measure", "test", "returned"}
  /\ pc \in {"clear", "measure", "test"} => Len(values) = kbest
  /\ result \in Samples \cup {0}
  /\ taken \in Seq(Samples) /\ set \in 0 .. Settings

(* values holds the kbest smallest samples taken so far, in order, however *)
(* they came; a zero with which the array began never counts as one.  And  *)
(* fcyc answers the smallest sample taken, "When exceeded, just return     *)
(* best sample found" (fcyc.c:232), also when kbest exceeds maxsamples.    *)
ValuesAreBest ==
  /\ pc \in {"clear", "measure", "test"} =>
       \A k \in 1 .. kbest : k <= samplecount => IsSmallest(values[k], k, taken)
  /\ pc = "returned" => IsSmallest(result, 1, taken)

(* fcyc stops where the scheme says: when the kbest smallest samples agree *)
(* within epsilon, and else not before there are maxsamples of them.       *)
StopsWhenConverged ==
  pc = "returned" =>
    \/ Len(taken) >= maxsamples
    \/ \E x \in ToSet(taken) :
         /\ IsSmallest(x, kbest, taken)
         /\ (100 + epsilon) * result >= 100 * x

(* ... and never takes a sample more than maxsamples, but the first.       *)
NoSampleTooMany ==
  pc # "idle" => Len(taken) <= IF maxsamples > 1 THEN maxsamples ELSE 1

(* The buffer clear reads to its end has the size that clear reads.        *)
BufferFits == pc = "measure" /\ clear_cache => cache_buf = cache_bytes

(* Every measurement comes to an end, whatever the counter says.           *)
Measured == (pc \in {"clear", "measure"}) ~> (pc = "returned")
=============================================================================
