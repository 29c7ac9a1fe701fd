------------------------------ MODULE Subseqs ------------------------------
(***************************************************************************)
(* Parts of a sequence and sequences of a set, defined so that proofs can  *)
(* unfold them: the provers know nothing of SelectSeq and SortSeq.         *)
(***************************************************************************)
EXTENDS Integers, Sequences, FiniteSets

\* What s has at the positions in T up to n, in order, and at all of them.
KeptTo(s, T, n) ==
  LET from[m \in 0..Len(s)] == IF m = 0 THEN << >>
                               ELSE IF m \in T THEN Append(from[m - 1], s[m])
                               ELSE from[m - 1]
  IN  from[n]
Kept(s, T) == KeptTo(s, T, Len(s))

\* The elements of S, each once, in an order in which their keys do not
\* decrease.
IsSorting(s, S, key) ==
  /\ \A x \in S : \E i \in DOMAIN s : s[i] = x
  /\ \A i, j \in DOMAIN s : i < j => s[i] # s[j] /\ key[s[i]] <= key[s[j]]
ByKey(S, key) == CHOOSE s \in [1..Cardinality(S) -> S] : IsSorting(s, S, key)
=============================================================================
