------------------------------ MODULE Sampler -------------------------------
(***************************************************************************)
(* How llm_sample chooses the next token (llm_common.c), for given         *)
(* probabilities: the most likely one, any, or one of the nucleus.  A      *)
(* probability is a whole number of parts of WHOLE, a token its index,     *)
(* counted from 1.  What float arithmetic rounds away is left out.         *)
(***************************************************************************)
EXTENDS Integers, Sequences, FiniteSets, SequencesExt, FiniteSetsExt, Functions

CONSTANTS WHOLE,    \* 1.0
          Dists,    \* distributions, as sequences
          TopPs,    \* values of topp, in parts of WHOLE
          Coins     \* random_f32 is c / Coins with c < Coins

\* -p takes hundredths, and no vocabulary has less than 100 tokens: topp is at
\* least what every token had if all were equally likely.
ASSUME SamplerAssumption ==
  /\ {WHOLE, Coins} \subseteq Nat \ {0}
  /\ \A p \in Dists : Len(p) > 1 /\ FoldLeft(+, 0, p) = WHOLE
  /\ \A p \in Dists, t \in TopPs : t \in Int /\ (t > 0 => t * Len(p) >= WHOLE)

VARIABLE drawn      \* what was drawn, from what and how

Nothing == [probs |-> <<>>, topp |-> 0, cold |-> FALSE, coin |-> 0, token |-> 0]

Sum(p, is) == SumFunctionOnSet(p, is)

\* The first of the tokens in is, in order, at which r is below the running total;
\* the last one if there is none.
FirstAbove(r, p, is) ==
  LET k == SelectInSeq([j \in DOMAIN is |-> Sum(p, {is[i] : i \in 1..j})],
                       LAMBDA cdf : r < cdf * Coins)
  IN  IF k = 0 THEN Last(is) ELSE is[k]

Indices(p) == [i \in DOMAIN p |-> i]

sample_argmax(p) == CHOOSE i \in DOMAIN p : \A j \in DOMAIN p : p[j] < p[i] \/ (p[j] = p[i] /\ i <= j)

sample_mult(p, coin) == FirstAbove(coin * WHOLE, p, Indices(p))

\* sort_probindex: each token goes behind those that are as likely.
sort_probindex(p, is) ==
  FoldLeft(LAMBDA sorted, i : SelectSeq(sorted, LAMBDA j : p[j] >= p[i]) \o <<i>>
                                \o SelectSeq(sorted, LAMBDA j : p[j] < p[i]),
           <<>>, is)

\* Mutant: as likely as the cutoff is not enough.
Candidates_Strict(p, topp) ==
  SelectSeq(Indices(p), LAMBDA i : p[i] * (Len(p) - 1) > WHOLE - topp)

\* The tokens that are not cut off before the sort.
Candidates(p, topp) ==
  SelectSeq(Indices(p), LAMBDA i : p[i] * (Len(p) - 1) >= WHOLE - topp)

sample_topp(p, topp, coin) ==
  LET sorted == sort_probindex(p, Candidates(p, topp))
      Mass(k) == Sum(p, {sorted[i] : i \in 1..k})
      over == {k \in DOMAIN sorted : Mass(k) > topp}
      last_idx == IF over = {} THEN Len(sorted) ELSE Min(over)
  IN  FirstAbove(coin * Mass(last_idx), p, SubSeq(sorted, 1, last_idx))

llm_sample(p, topp, cold, coin) ==
  CASE cold -> sample_argmax(p)
    [] ~cold /\ (topp <= 0 \/ topp >= WHOLE) -> sample_mult(p, coin)
    [] OTHER -> sample_topp(p, topp, coin)

Sample ==
  \E p \in Dists, topp \in TopPs, cold \in BOOLEAN, coin \in 0 .. Coins - 1 :
    drawn' = [probs |-> p, topp |-> topp, cold |-> cold, coin |-> coin,
              token |-> llm_sample(p, topp, cold, coin)]

-----------------------------------------------------------------------------
\* Those before i when the likelier come first, and of two alike the earlier.
Before(p, i) == {j \in DOMAIN p : p[j] > p[i] \/ (p[j] = p[i] /\ j < i)}

\* The smallest set of most likely tokens with more than topp between them.
Nucleus(p, topp) == {i \in DOMAIN p : Sum(p, Before(p, i)) <= topp}

\* Though most tokens are cut off before the sort and none by the order of a
\* reference, what is drawn is what the nucleus has at the place the coin shows:
\* each of its tokens is drawn in proportion to its probability, and no other.
NucleusExact ==
  drawn # Nothing /\ ~drawn.cold /\ drawn.topp \in 1 .. WHOLE - 1 =>
    LET p == drawn.probs
        nucleus == Nucleus(p, drawn.topp)
        place == drawn.coin * Sum(p, nucleus)
        before == Sum(p, Before(p, drawn.token))
    IN  /\ drawn.token \in nucleus
        /\ before * Coins <= place /\ place < (before + p[drawn.token]) * Coins
=============================================================================
