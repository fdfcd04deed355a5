------------------------------- MODULE Sampler -------------------------------
(***************************************************************************)
(* Drawing the next token from logits (src/src/sampler.rs): sort, keep     *)
(* top_k, softmax, cut the nucleus of mass top_p, and draw from it by the  *)
(* running sum of its probabilities.                                       *)
(*                                                                         *)
(* The sums are floating-point sums, so the question is what rounding does *)
(* to the boundaries.  A float is a natural number of the smallest unit    *)
(* with Bits significant bits, rounded to nearest, ties to even; One is    *)
(* 1.0.  A logit is finite, an infinity or a NaN of either sign.  exp is   *)
(* a table of exp((l - max_logit) * inv_temp) by the distance of l from    *)
(* max_logit: one for each temperature, the ones without a finite          *)
(* reciprocal included.                                                    *)
(***************************************************************************)
EXTENDS Integers, Sequences, SequencesExt, FiniteSetsExt, Functions, TLC

CONSTANTS
  Logits,            \* how many there are
  Levels,            \* values of a finite logit
  PlusInf, MinusInf, PlusNaN, MinusNaN,
  Exps,              \* tables [distance -> float] of exp, one per temperature
  Bits, One,         \* the float format
  TopKs, TopPs       \* configurations; a top_p of One disables

NaN == -1            \* as a float

Special == {PlusInf, MinusInf, PlusNaN, MinusNaN}

(* Two logits differ by a number or, one of them infinite, by infinity.    *)
(* At distance 0 exp is 1.0, or a NaN: 0 times an inv_temp not finite.     *)
Distances == {a - b : a, b \in Levels} \intersect Nat
Reach == Distances \union {PlusInf}
ASSUME FormatAssumption ==
  /\ Logits \in Nat \ {0} /\ Bits \in Nat \ {0} /\ One \in Nat \ {0}
  /\ Levels \subseteq Int /\ Special \intersect Int = {}
  /\ PlusInf \notin {MinusInf, PlusNaN, MinusNaN}
  /\ MinusInf \notin {PlusNaN, MinusNaN} /\ PlusNaN # MinusNaN
  /\ \A e \in Exps : e \in [Reach -> Nat \union {NaN}] /\ e[0] \in {One, NaN}
  /\ TopKs \subseteq Nat /\ TopPs \subseteq Nat

VARIABLES
  logits, greedy, exp, top_k, top_p,   \* the call
  drawing,
  candidates,                          \* ids, by logit descending
  probs, cutoff,
  turn, cum,                              \* index and running sum of the loop
  drawn,                                   \* the draw
  result, fallback

sampleVars == <<logits, greedy, exp, top_k, top_p, drawing, candidates, probs, cutoff, turn, cum, drawn,
          result, fallback>>
call == <<logits, greedy, exp, top_k, top_p>>

Finite(l) == l \in Levels
Number(l) == l \notin {PlusNaN, MinusNaN}

(* a > b for f32: never beside a NaN.                                      *)
Above(a, b) == \/ Finite(a) /\ Finite(b) /\ a > b
               \/ a = PlusInf /\ (Finite(b) \/ b = MinusInf)
               \/ Finite(a) /\ b = MinusInf

Pow[n \in Nat] == IF n = 0 THEN 1 ELSE 2 * Pow[n - 1]

(* n / d rounded to a float: with as few bits dropped as will do.          *)
Exponent(n, d) == CHOOSE e \in 0 .. n : /\ n < d * Pow[Bits + e]
                                        /\ \A x \in 0 .. (e - 1) : n >= d * Pow[Bits + x]
RoundQ(n, d) ==
  LET p == Pow[Exponent(n, d)]
      u == d * p
      q == n \div u
      twice == 2 * (n % u)
  IN (IF twice > u \/ (twice = u /\ q % 2 = 1) THEN q + 1 ELSE q) * p
Plus(a, b) == IF NaN \in {a, b} THEN NaN ELSE RoundQ(a + b, 1)
Ratio(a, b) == IF NaN \in {a, b} THEN NaN ELSE RoundQ(a * One, b)

(* The running sums of s, from none of its elements to all.                *)
Totals(s) == LET total[n \in 0 .. Len(s)] == IF n = 0 THEN 0 ELSE Plus(total[n - 1], s[n]) IN total
SumOf(s) == Totals(s)[Len(s)]

(* argmax: the first of the largest above -inf, or else the first of all.  *)
Argmax ==
  LET over == {t \in 1 .. Logits : Above(logits[t], MinusInf)}
  IN IF over = {} THEN 1
     ELSE CHOOSE t \in over : \A o \in over :
            Above(logits[t], logits[o]) \/ (~Above(logits[o], logits[t]) /\ t <= o)

SampleInit ==
  /\ logits \in [1 .. Logits -> Levels \union Special]
  /\ greedy \in BOOLEAN /\ exp \in Exps
  /\ top_k \in TopKs /\ top_p \in TopPs
  /\ drawing = "sort"
  /\ candidates = << >> /\ probs = << >> /\ cutoff = 0
  /\ turn = 1 /\ cum = 0 /\ drawn = 0
  /\ result = 0 /\ fallback = FALSE

Greedy ==
  /\ drawing = "sort" /\ greedy
  /\ result' = Argmax
  /\ drawing' = "done"
  /\ UNCHANGED <<call, candidates, probs, cutoff, turn, cum, drawn, fallback>>

(* sort_unstable_by: equal logits in any order, and total_cmp puts the     *)
(* NaNs above and below everything.  Then truncate.                        *)
AtLeast(a, b) == \/ a = PlusNaN \/ b = MinusNaN
                 \/ Number(a) /\ Number(b) /\ ~Above(b, a)
KeptOneMore(n) == IF top_k > 0 /\ top_k < n THEN top_k + 1 ELSE n    \* broken
Kept(n) == IF top_k > 0 /\ top_k < n THEN top_k ELSE n
SortAndTruncate ==
  /\ drawing = "sort" /\ ~greedy
  /\ \E order \in Bijection(1 .. Logits, 1 .. Logits) :
       /\ \A x, y \in 1 .. Logits : x < y => AtLeast(logits[order[x]], logits[order[y]])
       /\ candidates' = [x \in 1 .. Kept(Logits) |-> order[x]]
  /\ drawing' = "softmax"
  /\ UNCHANGED <<call, probs, cutoff, turn, cum, drawn, result, fallback>>

(* How far l is below m; inf - inf and a NaN have no distance.             *)
Away(l, m) == IF Finite(l) /\ Finite(m) THEN m - l
              ELSE IF Number(l) /\ Number(m) /\ l # m THEN PlusInf ELSE NaN
Weight(t) == LET d == Away(logits[t], logits[candidates[1]])
             IN IF d = NaN THEN NaN ELSE exp[d]
Softmax ==
  /\ drawing = "softmax"
  /\ LET weights == [x \in DOMAIN candidates |-> Weight(candidates[x])]
     IN probs' = [x \in DOMAIN weights |-> Ratio(weights[x], SumOf(weights))]
  /\ cutoff' = Len(candidates)
  /\ drawing' = IF top_p < One THEN "nucleus" ELSE "draw"
  /\ UNCHANGED <<call, candidates, turn, cum, drawn, result, fallback>>

(* One turn of the top-p loop.  With a NaN no comparison holds.            *)
Reached(c) == c # NaN /\ c >= top_p
Nucleus ==
  /\ drawing = "nucleus"
  /\ LET c == Plus(cum, probs[turn])
         ends == Reached(c) \/ turn = Len(probs)
     IN /\ cutoff' = IF Reached(c) THEN turn ELSE cutoff
        /\ cum' = IF ends THEN 0 ELSE c
        /\ turn'   = IF ends THEN 1 ELSE turn + 1
        /\ drawing'  = IF ends THEN "draw" ELSE "nucleus"
  /\ UNCHANGED <<call, candidates, probs, drawn, result, fallback>>

(* drawn = next_f32() * nucleus_sum.  next_f32 is uniform on the multiples of  *)
(* one unit in the last place below 1.                                     *)
Grid == Pow[Bits]
WholeSum == SumOf(probs)                      \* broken: not renormalized
NucleusSum == SumOf(SubSeq(probs, 1, cutoff))
Draw ==
  /\ drawing = "draw"
  /\ \E u \in 0 .. (Grid - 1) :
       drawn' = IF NucleusSum = NaN THEN NaN ELSE RoundQ(u * NucleusSum, Grid)
  /\ drawing' = "walk"
  /\ UNCHANGED <<call, candidates, probs, cutoff, turn, cum, result, fallback>>

(* One turn of the last loop, and what follows it.                         *)
Covers(c) == drawn # NaN /\ c # NaN /\ drawn <= c
Walk ==
  /\ drawing = "walk"
  /\ LET c == Plus(cum, probs[turn])
     IN /\ cum' = c
        /\ IF Covers(c) THEN result' = candidates[turn] /\ drawing' = "done" /\ UNCHANGED <<turn, fallback>>
           ELSE IF turn < cutoff THEN turn' = turn + 1 /\ UNCHANGED <<result, drawing, fallback>>
           ELSE /\ result' = candidates[1] /\ drawing' = "done"
                /\ fallback' = TRUE /\ UNCHANGED turn
  /\ UNCHANGED <<call, candidates, probs, cutoff, drawn>>

SampleNext == Greedy \/ SortAndTruncate \/ Softmax \/ Nucleus \/ Draw \/ Walk

SampleSpec == SampleInit /\ [][SampleNext]_sampleVars
-----------------------------------------------------------------------------
(* The kept logits have no softmax: the largest is not finite, a NaN is    *)
(* among the others, or the temperature makes a NaN of a distance.         *)
Undefined ==
  LET best == logits[candidates[1]]
  IN \/ ~Finite(best)
     \/ \E x \in DOMAIN candidates : \/ logits[candidates[x]] = MinusNaN
                                     \/ exp[Away(logits[candidates[x]], best)] = NaN

(* The mass of tokens, exactly: the sum of their weights.                  *)
Largest == Max({logits[t] : t \in 1 .. Logits} \intersect Levels)
Mass(ts) == MapThenSumSet(LAMBDA t : exp[Away(logits[t], Largest)], ts)
Better(t) == {o \in 1 .. Logits : Above(logits[o], logits[t])}

(* The sums are off by less than this: half a unit in the last place for   *)
(* each of their operations.                                               *)
Slack == Logits * (One \div Pow[Bits])

(* "Numerical fallback: return the most probable candidate."  No rounding  *)
(* reaches it: both sums run over the same probabilities in the same       *)
(* order, so the last turn of the loop matches.  Logits without a softmax  *)
(* reach it, and do always; then a token none is above is returned.        *)
FallbackWithoutSoftmax ==
  drawing = "done" /\ ~greedy => /\ (fallback <=> Undefined)
                                /\ (fallback => Better(result) = {})

(* What is drawn by a softmax has a probability (a logit of -inf has none) *)
(* and is among the top_k and in the nucleus: fewer than top_k tokens are  *)
(* better, and the probabilities of those that are do not already add up   *)
(* to top_p.  Greedy drawing takes a best token, of any logits.            *)
DrawnIsInNucleus ==
  drawing = "done" =>
    IF greedy THEN Better(result) = {}
    ELSE ~Undefined =>
         /\ exp[Away(logits[result], Largest)] > 0
         /\ top_k > 0 => Cardinality(Better(result)) < top_k
         /\ Better(result) # {} /\ top_p < One =>
              Totals(probs)[Cardinality(Better(result))] < top_p

(* Every token gets its share: the draw falls into the token's own         *)
(* interval of the candidates' mass, up to rounding; and the tokens that   *)
(* are better than it do not have mass top_p.                              *)
Share(n) == MapThenSumSet(LAMBDA x : exp[Away(logits[candidates[x]], Largest)], 1 .. n)
DrawnByShare ==
  drawing = "done" /\ ~greedy /\ ~Undefined =>
    LET all == Share(Len(candidates))
    IN /\ One * Share(turn - 1) - Slack * all <= drawn * all
       /\ drawn * all <= One * Share(turn) + Slack * all
       /\ Better(result) # {} /\ top_p < One /\ top_k = 0 =>
            Mass(Better(result)) * One < (top_p + Slack) * Mass(1 .. Logits)
=============================================================================
