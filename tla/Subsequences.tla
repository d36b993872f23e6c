---------------------------- MODULE Subsequences ----------------------------
(***************************************************************************)
(* Operators on sequences as recursive functions, which proofs can unfold. *)
(***************************************************************************)
EXTENDS Naturals, Sequences, SequencesExt

\* The elements of s that are in S, in their order: SelectSeq with a set for a test.
Chosen(s, S) ==
  LET kept[n \in 0..Len(s)] ==
        IF n = 0 THEN <<>>
        ELSE IF s[n] \in S THEN Append(kept[n - 1], s[n]) ELSE kept[n - 1]
  IN  kept[Len(s)]

\* The sequences of which s is made, one after the other.
Joined(s) ==
  LET joined[n \in 0..Len(s)] == IF n = 0 THEN <<>> ELSE joined[n - 1] \o s[n]
  IN  joined[Len(s)]

\* The elements of s at the places in I, in their order.
Places(s, I) == Chosen([i \in DOMAIN s |-> i], I)

Picked(s, I) == LET places == Places(s, I) IN [k \in DOMAIN places |-> s[places[k]]]

\* The elements of s, each once, in the order in which they come first.
Distinct(s) == Picked(s, {i \in DOMAIN s : \A j \in 1..(i - 1) : s[j] # s[i]})

\* x in a sorted sequence, behind all that it does not come before.
Inserted(s, x, before) ==
  Chosen(s, {y \in ToSet(s) : <<x, y>> \notin before}) \o <<x>>
    \o Chosen(s, {y \in ToSet(s) : <<x, y>> \in before})

\* s in the order of a set of pairs, elements that are not in a pair as they come:
\* SortSeq with a set for a test.
Sorted(s, before) ==
  LET sorted[n \in 0..Len(s)] ==
        IF n = 0 THEN <<>> ELSE Inserted(sorted[n - 1], s[n], before)
  IN  sorted[Len(s)]

\* The sum of a sequence of numbers.
Total(s) ==
  LET total[n \in 0..Len(s)] == IF n = 0 THEN 0 ELSE total[n - 1] + s[n]
  IN  total[Len(s)]

=============================================================================
