--------------------------- MODULE SequenceLemmas ---------------------------
(***************************************************************************)
(* Lemmas about sequences and about the operators on them the models use,  *)
(* cited by the proofs.  Induction is stated with a set of numbers: it     *)
(* follows from the well-foundedness of < on Nat.                          *)
(***************************************************************************)
EXTENDS Naturals, Sequences, SequencesExt, Subsequences, FiniteSetTheorems,
        WellFoundedInduction, TLAPS

---------------------------------------------------------------------------
(***************************************************************************)
(* Induction.                                                              *)
(***************************************************************************)

\* A set of naturals that is not empty has a least element.
LEMMA LeastNatural ==
    ASSUME NEW T \in SUBSET Nat, T # {}
    PROVE  \E x \in T : \A y \in T : x <= y
<1> DEFINE less == {p \in Nat \X Nat : p[1] < p[2]}
<1>1. less = OpToRel(<, Nat)
  BY DEF OpToRel
<1>2. IsWellFoundedOn(OpToRel(<, Nat), Nat)
  BY NatLessThanWellFounded
<1>3. IsWellFoundedOn(less, Nat)
  BY <1>1, <1>2
<1>4. PICK x \in T : \A y \in T : ~(<<y, x>> \in less)
  BY <1>3, WFMin
<1>5. ASSUME NEW y \in T PROVE x <= y
  <2>1. <<y, x>> \in Nat \X Nat /\ ~(<<y, x>> \in less)
    BY <1>4
  <2> QED
    BY <2>1
<1> QED
  BY <1>5

\* A set of naturals that has 0 and the successor of each of its elements has them all.
LEMMA Induction ==
    ASSUME NEW S, 0 \in S, \A n \in Nat : n \in S => n + 1 \in S
    PROVE  Nat \subseteq S
<1> DEFINE T == {n \in Nat : n \notin S}
<1> SUFFICES ASSUME T # {} PROVE FALSE
  OBVIOUS
<1>1. PICK x \in T : \A y \in T : x <= y
  BY LeastNatural
<1>2. x # 0 /\ x \in Nat
  BY <1>1
<1>3. x - 1 \in Nat /\ ~(x - 1 \in T)
  BY <1>1, <1>2
<1> QED
  BY <1>1, <1>2, <1>3

---------------------------------------------------------------------------
(***************************************************************************)
(* Sequences.                                                              *)
(***************************************************************************)

\* A sequence over a set is one over any larger set.
LEMMA SeqOfLarger ==
    ASSUME NEW S, NEW T, S \subseteq T, NEW s \in Seq(S)
    PROVE  s \in Seq(T)
OBVIOUS

\* RemoveAt leaves elements of the sequence only.
LEMMA RemoveAtSeq ==
    ASSUME NEW S, NEW s \in Seq(S), NEW i \in DOMAIN s
    PROVE  RemoveAt(s, i) \in Seq(S)
BY DEF RemoveAt

\* So does Front.
LEMMA FrontSeq ==
    ASSUME NEW S, NEW s \in Seq(S)
    PROVE  Front(s) \in Seq(S)
BY DEF Front

\* SetToSeq lists elements of the set only.
LEMMA SetToSeqElements ==
    ASSUME NEW S, IsFiniteSet(S)
    PROVE  SetToSeq(S) \in Seq(S)
<1>1. Cardinality(S) \in Nat
  BY FS_CardinalityType
<1>2. ExistsBijection(1..Cardinality(S), S)
  BY FS_CardinalityType
<1>3. PICK f \in Bijection(1..Cardinality(S), S) : TRUE
  BY <1>2 DEF ExistsBijection
<1>4. f \in [1..Cardinality(S) -> S] /\ IsInjective(f)
  BY <1>3 DEF Bijection, Injection, IsInjective
<1>5. SetToSeq(S) \in [1..Cardinality(S) -> S]
  BY <1>4 DEF SetToSeq
<1> QED
  BY <1>1, <1>5

\* The elements of a sequence, and one more.
LEMMA ToSetAppend ==
    ASSUME NEW T, NEW s \in Seq(T), NEW c
    PROVE  ToSet(Append(s, c)) = ToSet(s) \cup {c}
<1>1. /\ DOMAIN Append(s, c) = 1..(Len(s) + 1) /\ DOMAIN s = 1..Len(s)
      /\ \A i \in 1..Len(s) : Append(s, c)[i] = s[i]
      /\ Append(s, c)[Len(s) + 1] = c
  OBVIOUS
<1>2. ASSUME NEW e \in ToSet(Append(s, c)) PROVE e \in ToSet(s) \cup {c}
  BY <1>1, <1>2 DEF ToSet
<1>3. ASSUME NEW e \in ToSet(s) \cup {c} PROVE e \in ToSet(Append(s, c))
  BY <1>1, <1>3 DEF ToSet
<1> QED
  BY <1>2, <1>3

\* What is told is what was told, and more.
LEMMA ToSetConcat ==
    ASSUME NEW T, NEW s \in Seq(T), NEW t \in Seq(T)
    PROVE  ToSet(s \o t) = ToSet(s) \cup ToSet(t)
<1> DEFINE w == s \o t
<1>1. /\ Len(w) = Len(s) + Len(t) /\ w \in Seq(T)
      /\ \A i \in 1..Len(s) : w[i] = s[i]
      /\ \A i \in 1..Len(t) : w[Len(s) + i] = t[i]
      /\ Len(s) \in Nat /\ Len(t) \in Nat
  OBVIOUS
<1> HIDE DEF w
<1>2. \A v : v \in Seq(T) => \A x : x \in ToSet(v) <=> \E i \in 1..Len(v) : v[i] = x
  BY DEF ToSet
<1>3. ASSUME NEW x \in ToSet(w) PROVE x \in ToSet(s) \cup ToSet(t)
  <2>1. PICK i \in 1..Len(w) : w[i] = x
    BY <1>1, <1>2, <1>3
  <2>2. i \in 1..Len(s) \/ (i - Len(s) \in 1..Len(t) /\ i = Len(s) + (i - Len(s)))
    BY <1>1, <2>1
  <2> QED
    BY <1>1, <1>2, <2>1, <2>2
<1>4. ASSUME NEW x \in ToSet(s) PROVE x \in ToSet(w)
  <2>1. PICK i \in 1..Len(s) : s[i] = x
    BY <1>2, <1>4
  <2>2. i \in 1..Len(w) /\ w[i] = x
    BY <1>1, <2>1
  <2> QED
    BY <1>1, <1>2, <2>2
<1>5. ASSUME NEW x \in ToSet(t) PROVE x \in ToSet(w)
  <2>1. PICK i \in 1..Len(t) : t[i] = x
    BY <1>2, <1>5
  <2>2. Len(s) + i \in 1..Len(w) /\ w[Len(s) + i] = x
    BY <1>1, <2>1
  <2> QED
    BY <1>1, <1>2, <2>2
<1> QED
  BY <1>3, <1>4, <1>5 DEF w

\* A sequence of at most one element that is not empty has one.
LEMMA OneElement ==
    ASSUME NEW T, NEW s \in Seq(T), s # <<>>, Len(s) <= 1
    PROVE  Len(s) = 1
<1>1. Len(s) \in Nat /\ Len(s) # 0
  OBVIOUS
<1> QED
  BY <1>1

\* The first of a sequence, and one more.
LEMMA OneMore ==
    ASSUME NEW T, NEW s \in Seq(T), NEW k \in Nat, k < Len(s)
    PROVE  /\ SubSeq(s, 1, k + 1) = Append(SubSeq(s, 1, k), s[k + 1])
           /\ SubSeq(s, 1, k) \in Seq(T) /\ s[k + 1] \in T
OBVIOUS

\* Sequences that begin alike have the same beginning.
LEMMA SameBeginning ==
    ASSUME NEW T, NEW s \in Seq(T), NEW t \in Seq(T), NEW n \in Nat,
           n <= Len(s), n <= Len(t), \A i \in 1..n : t[i] = s[i]
    PROVE  SubSeq(t, 1, n) = SubSeq(s, 1, n)
<1> DEFINE a == SubSeq(s, 1, n)
           b == SubSeq(t, 1, n)
<1>1. a \in Seq(T) /\ Len(a) = n /\ \A i \in 1..n : a[i] = s[i]
  OBVIOUS
<1>2. b \in Seq(T) /\ Len(b) = n /\ \A i \in 1..n : b[i] = t[i]
  OBVIOUS
<1> HIDE DEF a, b
<1>3. a = b
  BY <1>1, <1>2
<1> QED
  BY <1>3 DEF a, b

\* What arrives at the end of a sequence arrives at the end of the part still to be read.
LEMMA EndsArrive ==
    ASSUME NEW T, NEW s \in Seq(T), NEW u \in Seq(T), NEW c \in T, Len(u) <= Len(s),
           \A i \in DOMAIN u : u[i] = s[Len(s) - Len(u) + i]
    PROVE  LET s2 == Append(s, c)
               u2 == Append(u, c)
               k == Len(s) - Len(u)
           IN  /\ Len(s2) - Len(u2) = k /\ Len(u2) <= Len(s2)
               /\ SubSeq(s2, 1, k) = SubSeq(s, 1, k)
               /\ \A i \in DOMAIN u2 : u2[i] = s2[k + i]
<1> DEFINE s2 == Append(s, c)
           u2 == Append(u, c)
           k == Len(s) - Len(u)
<1>1. /\ s2 \in Seq(T) /\ Len(s2) = Len(s) + 1 /\ s2[Len(s) + 1] = c
      /\ \A i \in 1..Len(s) : s2[i] = s[i]
  OBVIOUS
<1>2. /\ u2 \in Seq(T) /\ Len(u2) = Len(u) + 1 /\ u2[Len(u) + 1] = c
      /\ \A i \in 1..Len(u) : u2[i] = u[i]
  OBVIOUS
<1> HIDE DEF s2, u2
<1>3. k \in Nat /\ k <= Len(s) /\ k + Len(u) = Len(s) /\ Len(s2) - Len(u2) = k /\ Len(u2) <= Len(s2)
  BY <1>1, <1>2
<1>4. \A i \in 1..Len(u) : u[i] = s[k + i]
  OBVIOUS
<1> HIDE DEF k
<1>5. SubSeq(s2, 1, k) = SubSeq(s, 1, k)
  BY <1>1, <1>3
<1>6. ASSUME NEW i \in DOMAIN u2 PROVE u2[i] = s2[k + i]
  <2>1. i \in 1..(Len(u) + 1)
    BY <1>2
  <2>2. CASE i = Len(u) + 1
    BY <1>1, <1>2, <1>3, <2>2
  <2>3. CASE i \in 1..Len(u)
    <3>1. k + i \in 1..Len(s)
      BY <1>3, <2>3
    <3> QED
      BY <1>1, <1>2, <1>4, <2>3, <3>1
  <2> QED
    BY <2>1, <2>2, <2>3
<1> QED
  BY <1>3, <1>5, <1>6 DEF s2, u2, k

\* What is read at the front of the part still to be read is the next of the sequence.
LEMMA FrontRead ==
    ASSUME NEW T, NEW s \in Seq(T), NEW u \in Seq(T), Len(u) <= Len(s), u # <<>>,
           \A i \in DOMAIN u : u[i] = s[Len(s) - Len(u) + i]
    PROVE  LET k == Len(s) - Len(u) IN
           /\ k \in Nat /\ k < Len(s) /\ Head(u) = s[k + 1] /\ Head(u) \in T
           /\ Tail(u) \in Seq(T) /\ Len(Tail(u)) <= Len(s) /\ Len(s) - Len(Tail(u)) = k + 1
           /\ \A i \in DOMAIN Tail(u) : Tail(u)[i] = s[(k + 1) + i]
           /\ SubSeq(s, 1, k + 1) = Append(SubSeq(s, 1, k), Head(u))
           /\ SubSeq(s, 1, k) \in Seq(T)
<1> DEFINE k == Len(s) - Len(u)
<1>1. Len(u) \in Nat \ {0} /\ Len(s) \in Nat /\ k \in Nat /\ k < Len(s)
  OBVIOUS
<1>2. 1 \in DOMAIN u /\ Head(u) = u[1] /\ Head(u) \in T /\ Head(u) = s[k + 1]
  BY <1>1
<1>3. /\ Tail(u) \in Seq(T) /\ Len(Tail(u)) = Len(u) - 1
      /\ \A i \in 1..(Len(u) - 1) : Tail(u)[i] = u[i + 1]
  BY <1>1
<1>4. Len(Tail(u)) <= Len(s) /\ Len(s) - Len(Tail(u)) = k + 1
  BY <1>1, <1>3
<1>5. ASSUME NEW i \in DOMAIN Tail(u) PROVE Tail(u)[i] = s[(k + 1) + i]
  <2>1. i \in 1..(Len(u) - 1) /\ i + 1 \in DOMAIN u /\ k + (i + 1) = (k + 1) + i
    BY <1>1, <1>3
  <2> QED
    BY <1>3, <2>1
<1>6. SubSeq(s, 1, k + 1) = Append(SubSeq(s, 1, k), s[k + 1]) /\ SubSeq(s, 1, k) \in Seq(T)
  BY <1>1, OneMore
<1> QED
  BY <1>1, <1>2, <1>3, <1>4, <1>5, <1>6

---------------------------------------------------------------------------
(***************************************************************************)
(* Chosen.                                                                 *)
(***************************************************************************)

\* f is the recursive function of Chosen(s, S).
Chooses(s, S, f) ==
  f = [n \in 0..Len(s) |->
         IF n = 0 THEN <<>>
         ELSE IF s[n] \in S THEN Append(f[n - 1], s[n]) ELSE f[n - 1]]

\* A function that chooses so.
Choice(s, S) == CHOOSE f : Chooses(s, S, f)

\* There is such a function: it is the one of the sequence without its last element,
\* continued.
LEMMA ChoosesExists ==
    ASSUME NEW T, NEW S
    PROVE  \A s \in Seq(T) : \E f : Chooses(s, S, f)
<1> DEFINE I == {n \in Nat : \A s \in Seq(T) : Len(s) = n => \E f : Chooses(s, S, f)}
<1>1. 0 \in I
  <2> SUFFICES ASSUME NEW s \in Seq(T), Len(s) = 0 PROVE \E f : Chooses(s, S, f)
    OBVIOUS
  <2>1. Chooses(s, S, [n \in 0..0 |-> <<>>])
    BY DEF Chooses
  <2> QED
    BY <2>1
<1>2. ASSUME NEW n \in Nat, n \in I PROVE n + 1 \in I
  <2> SUFFICES ASSUME NEW s \in Seq(T), Len(s) = n + 1 PROVE \E f : Chooses(s, S, f)
    OBVIOUS
  <2> DEFINE p == SubSeq(s, 1, n)
  <2>1. p \in Seq(T) /\ Len(p) = n /\ \A i \in 1..n : p[i] = s[i]
    OBVIOUS
  <2>2. PICK f : Chooses(p, S, f)
    BY <1>2, <2>1
  <2> HIDE DEF p
  <2> DEFINE g == [m \in 0..(n + 1) |->
                     IF m <= n THEN f[m]
                     ELSE IF s[m] \in S THEN Append(f[m - 1], s[m]) ELSE f[m - 1]]
  <2>3. Chooses(s, S, g)
    <3>1. \A m \in 0..n : f[m] = IF m = 0 THEN <<>>
                                ELSE IF p[m] \in S THEN Append(f[m - 1], p[m]) ELSE f[m - 1]
      BY <2>1, <2>2 DEF Chooses
    <3>2. ASSUME NEW m \in 0..(n + 1)
          PROVE  g[m] = IF m = 0 THEN <<>>
                        ELSE IF s[m] \in S THEN Append(g[m - 1], s[m]) ELSE g[m - 1]
      BY <3>1, <2>1
    <3> QED
      BY <3>2 DEF Chooses
  <2> QED
    BY <2>3
<1>3. Nat \subseteq I
  <2> HIDE DEF I
  <2> QED
    BY <1>1, <1>2, Induction
<1> QED
  BY <1>3

\* Chosen applies it to the length of the sequence.
LEMMA ChosenByChoice ==
    ASSUME NEW T, NEW S, NEW s \in Seq(T)
    PROVE  Chosen(s, S) = Choice(s, S)[Len(s)] /\ Chooses(s, S, Choice(s, S))
<1>1. Chosen(s, S) = Choice(s, S)[Len(s)]
  BY DEF Chosen, Choice, Chooses
<1>2. Chooses(s, S, Choice(s, S))
  BY ChoosesExists DEF Choice
<1> QED
  BY <1>1, <1>2

\* Its steps.
LEMMA ChoosesStep ==
    ASSUME NEW T, NEW S, NEW s \in Seq(T), NEW f, Chooses(s, S, f)
    PROVE  \A n \in Nat : n < Len(s) =>
             f[n + 1] = IF s[n + 1] \in S THEN Append(f[n], s[n + 1]) ELSE f[n]
<1>1. \A m \in 0..Len(s) : f[m] = IF m = 0 THEN <<>>
                                  ELSE IF s[m] \in S THEN Append(f[m - 1], s[m]) ELSE f[m - 1]
  BY DEF Chooses
<1>2. ASSUME NEW n \in Nat, n < Len(s)
      PROVE  f[n + 1] = IF s[n + 1] \in S THEN Append(f[n], s[n + 1]) ELSE f[n]
  <2>1. n + 1 \in 0..Len(s) /\ n + 1 # 0 /\ (n + 1) - 1 = n
    BY <1>2
  <2> QED
    BY <1>1, <2>1
<1> QED
  BY <1>1, <1>2

\* What is chosen of the first n elements depends on these alone.
LEMMA ChoosesAgree ==
    ASSUME NEW T, NEW S, NEW s \in Seq(T), NEW t \in Seq(T), NEW f, NEW g,
           Chooses(s, S, f), Chooses(t, S, g),
           NEW k \in Nat, k <= Len(s), k <= Len(t), \A i \in 1..k : s[i] = t[i]
    PROVE  f[k] = g[k]
<1> DEFINE I == {n \in Nat : n <= k => f[n] = g[n]}
<1>1. 0 \in I
  BY DEF Chooses
<1>2. ASSUME NEW n \in Nat, n \in I PROVE n + 1 \in I
  <2> SUFFICES ASSUME n + 1 <= k PROVE f[n + 1] = g[n + 1]
    OBVIOUS
  <2>1. f[n] = g[n] /\ s[n + 1] = t[n + 1] /\ n < Len(s) /\ n < Len(t)
    BY <1>2
  <2>2. f[n + 1] = IF s[n + 1] \in S THEN Append(f[n], s[n + 1]) ELSE f[n]
    BY <2>1, ChoosesStep
  <2>3. g[n + 1] = IF t[n + 1] \in S THEN Append(g[n], t[n + 1]) ELSE g[n]
    BY <2>1, ChoosesStep
  <2> QED
    BY <2>1, <2>2, <2>3
<1>3. Nat \subseteq I
  <2> HIDE DEF I
  <2> QED
    BY <1>1, <1>2, Induction
<1> QED
  BY <1>3

\* It gives sequences of elements of the sequence that are in the set.
LEMMA ChoosesSeq ==
    ASSUME NEW T, NEW S, NEW s \in Seq(T), NEW f, Chooses(s, S, f)
    PROVE  \A n \in 0..Len(s) : f[n] \in Seq(S \cap T)
<1> DEFINE I == {n \in Nat : n <= Len(s) => f[n] \in Seq(S \cap T)}
<1>1. 0 \in I
  BY DEF Chooses
<1>2. ASSUME NEW n \in Nat, n \in I PROVE n + 1 \in I
  <2> SUFFICES ASSUME n + 1 <= Len(s) PROVE f[n + 1] \in Seq(S \cap T)
    OBVIOUS
  <2>1. f[n] \in Seq(S \cap T)
    BY <1>2
  <2>2. f[n + 1] = IF s[n + 1] \in S THEN Append(f[n], s[n + 1]) ELSE f[n]
    BY ChoosesStep
  <2>3. s[n + 1] \in T
    OBVIOUS
  <2> QED
    BY <2>1, <2>2, <2>3
<1>3. Nat \subseteq I
  <2> HIDE DEF I
  <2> QED
    BY <1>1, <1>2, Induction
<1> QED
  BY <1>3

\* Of no elements none are chosen.
LEMMA ChosenEmpty == ASSUME NEW S PROVE Chosen(<<>>, S) = <<>>
<1>1. <<>> \in Seq({}) /\ Len(<<>>) = 0
  OBVIOUS
<1>2. Chosen(<<>>, S) = Choice(<<>>, S)[0] /\ Chooses(<<>>, S, Choice(<<>>, S))
  BY <1>1, ChosenByChoice
<1>3. Choice(<<>>, S)[0] = <<>>
  BY <1>1, <1>2 DEF Chooses
<1> QED
  BY <1>2, <1>3

\* What is chosen is a sequence of elements of the sequence that are in the set.
LEMMA ChosenSeq ==
    ASSUME NEW T, NEW S, NEW s \in Seq(T)
    PROVE  Chosen(s, S) \in Seq(S \cap T)
<1>1. Chosen(s, S) = Choice(s, S)[Len(s)] /\ Chooses(s, S, Choice(s, S))
  BY ChosenByChoice
<1>2. \A n \in 0..Len(s) : Choice(s, S)[n] \in Seq(S \cap T)
  BY <1>1, ChoosesSeq
<1> QED
  BY <1>1, <1>2

\* One element more is chosen or not.
LEMMA ChosenAppend ==
    ASSUME NEW T, NEW S, NEW s \in Seq(T), NEW c \in T
    PROVE  Chosen(Append(s, c), S) = IF c \in S THEN Append(Chosen(s, S), c) ELSE Chosen(s, S)
<1> DEFINE t == Append(s, c)
           n == Len(s)
           f == Choice(s, S)
           g == Choice(t, S)
<1>1. /\ t \in Seq(T) /\ Len(t) = n + 1 /\ t[n + 1] = c /\ n \in Nat
      /\ \A i \in 1..n : s[i] = t[i]
  OBVIOUS
<1> HIDE DEF t
<1>2. /\ Chosen(s, S) = f[n] /\ Chooses(s, S, f)
      /\ Chosen(t, S) = g[n + 1] /\ Chooses(t, S, g)
  BY <1>1, ChosenByChoice
<1> HIDE DEF f, g
<1>3. f[n] = g[n]
  <2>1. n \in Nat /\ n <= Len(s) /\ n <= Len(t) /\ \A i \in 1..n : s[i] = t[i]
    BY <1>1
  <2> QED
    BY <1>1, <1>2, <2>1, ChoosesAgree
<1>4. g[n + 1] = IF t[n + 1] \in S THEN Append(g[n], t[n + 1]) ELSE g[n]
  BY <1>1, <1>2, ChoosesStep
<1> QED
  BY <1>1, <1>2, <1>3, <1>4 DEF t

\* What is chosen of the first elements is a beginning of what is chosen of all.
LEMMA ChosenBeginning ==
    ASSUME NEW T, NEW S, NEW s \in Seq(T), NEW k \in 0..Len(s)
    PROVE  LET p == Chosen(SubSeq(s, 1, k), S)
               w == Chosen(s, S)
           IN  Len(p) <= Len(w) /\ p = SubSeq(w, 1, Len(p))
<1> DEFINE f == Choice(s, S)
           I == {n \in Nat : k + n <= Len(s) =>
                   Len(f[k]) <= Len(f[k + n]) /\ f[k] = SubSeq(f[k + n], 1, Len(f[k]))}
<1>0. Chooses(s, S, f) /\ \A n \in 0..Len(s) : f[n] \in Seq(S \cap T)
  BY ChosenByChoice, ChoosesSeq
<1> HIDE DEF f
<1>1. 0 \in I
  BY <1>0
<1>2. ASSUME NEW n \in Nat, n \in I PROVE n + 1 \in I
  <2> SUFFICES ASSUME k + (n + 1) <= Len(s)
               PROVE  /\ Len(f[k]) <= Len(f[k + (n + 1)])
                      /\ f[k] = SubSeq(f[k + (n + 1)], 1, Len(f[k]))
    OBVIOUS
  <2>1. f[k + n] \in Seq(S \cap T) /\ f[k] \in Seq(S \cap T) /\ f[k + (n + 1)] \in Seq(S \cap T)
    BY <1>0
  <2>2. Len(f[k]) <= Len(f[k + n]) /\ f[k] = SubSeq(f[k + n], 1, Len(f[k]))
    BY <1>2
  <2>3. f[k + (n + 1)] = IF s[k + (n + 1)] \in S THEN Append(f[k + n], s[k + (n + 1)]) ELSE f[k + n]
    <3> DEFINE m == k + n
    <3>1. m \in Nat /\ m < Len(s) /\ k + (n + 1) = m + 1
      OBVIOUS
    <3> HIDE DEF m
    <3>2. f[m + 1] = IF s[m + 1] \in S THEN Append(f[m], s[m + 1]) ELSE f[m]
      BY <1>0, <3>1, ChoosesStep
    <3> QED
      BY <3>1, <3>2 DEF m
  <2>4. Len(f[k + n]) <= Len(f[k + (n + 1)])
        /\ \A i \in 1..Len(f[k + n]) : f[k + (n + 1)][i] = f[k + n][i]
    BY <2>1, <2>3
  <2>5. \A i \in 1..Len(f[k]) : f[k][i] = f[k + (n + 1)][i]
    BY <2>1, <2>2, <2>4
  <2> QED
    BY <2>1, <2>2, <2>4, <2>5
<1>3. Nat \subseteq I
  <2> HIDE DEF I
  <2> QED
    BY <1>1, <1>2, Induction
<1>4. Len(s) - k \in Nat /\ k + (Len(s) - k) = Len(s)
  OBVIOUS
<1>5. Len(f[k]) <= Len(f[Len(s)]) /\ f[k] = SubSeq(f[Len(s)], 1, Len(f[k]))
  <2>1. Len(s) - k \in I
    BY <1>3, <1>4
  <2> QED
    BY <1>4, <2>1
<1>6. SubSeq(s, 1, k) \in Seq(T) /\ Len(SubSeq(s, 1, k)) = k
      /\ \A i \in 1..k : SubSeq(s, 1, k)[i] = s[i]
  OBVIOUS
<1>7. Chosen(SubSeq(s, 1, k), S) = f[k]
  <2> DEFINE t == SubSeq(s, 1, k)
  <2> HIDE DEF t
  <2>1. t \in Seq(T) /\ Len(t) = k /\ \A i \in 1..k : t[i] = s[i]
    BY <1>6 DEF t
  <2>2. Chosen(t, S) = Choice(t, S)[k] /\ Chooses(t, S, Choice(t, S))
    BY <2>1, ChosenByChoice
  <2>3. Choice(t, S)[k] = f[k]
    <3>1. k \in Nat /\ k <= Len(t) /\ k <= Len(s)
      BY <2>1
    <3> QED
      BY <1>0, <2>1, <2>2, <3>1, ChoosesAgree
  <2> QED
    BY <2>2, <2>3 DEF t
<1> QED
  BY <1>5, <1>7, ChosenByChoice DEF f

\* Elements that are not in the set add nothing.
LEMMA ChosenNone ==
    ASSUME NEW T, NEW S, NEW s \in Seq(T), NEW t \in Seq(T), \A i \in DOMAIN t : t[i] \notin S
    PROVE  Chosen(s \o t, S) = Chosen(s, S)
<1> DEFINE w == s \o t
           n == Len(s)
           f == Choice(s, S)
           g == Choice(w, S)
           I == {m \in Nat : m <= Len(t) => g[n + m] = g[n]}
<1>1. /\ w \in Seq(T) /\ Len(w) = n + Len(t) /\ n \in Nat
      /\ \A i \in 1..n : s[i] = w[i]
      /\ \A i \in 1..Len(t) : w[n + i] = t[i]
  OBVIOUS
<1> HIDE DEF w
<1>2. /\ Chosen(s, S) = f[n] /\ Chooses(s, S, f)
      /\ Chosen(w, S) = g[Len(w)] /\ Chooses(w, S, g)
  BY <1>1, ChosenByChoice
<1> HIDE DEF f, g
<1>3. f[n] = g[n]
  <2>1. n \in Nat /\ n <= Len(s) /\ n <= Len(w) /\ \A i \in 1..n : s[i] = w[i]
    BY <1>1
  <2>2. Chooses(s, S, f) /\ Chooses(w, S, g) /\ w \in Seq(T)
    BY <1>1, <1>2
  <2> QED
    BY <2>1, <2>2, ChoosesAgree
<1> HIDE DEF n
<1>4. 0 \in I
  BY <1>1
<1>5. ASSUME NEW m \in Nat, m \in I PROVE m + 1 \in I
  <2> SUFFICES ASSUME m + 1 <= Len(t) PROVE g[n + (m + 1)] = g[n]
    OBVIOUS
  <2>1. g[n + m] = g[n]
    BY <1>5
  <2> DEFINE k == n + m
  <2>2. /\ k \in Nat /\ k < Len(w) /\ n + (m + 1) = k + 1 /\ w[k + 1] \notin S
    <3>1. m + 1 \in 1..Len(t) /\ n + (m + 1) = k + 1
      BY <1>1
    <3>2. w[k + 1] = t[m + 1] /\ t[m + 1] \notin S
      BY <1>1, <3>1
    <3> QED
      BY <1>1, <3>1, <3>2
  <2> HIDE DEF k
  <2>3. g[k + 1] = IF w[k + 1] \in S THEN Append(g[k], w[k + 1]) ELSE g[k]
    <3>1. w \in Seq(T) /\ Chooses(w, S, g)
      BY <1>1, <1>2
    <3>2. \A i \in Nat : i < Len(w) =>
            g[i + 1] = IF w[i + 1] \in S THEN Append(g[i], w[i + 1]) ELSE g[i]
      BY <3>1, ChoosesStep
    <3> QED
      BY <2>2, <3>2
  <2> QED
    BY <2>1, <2>2, <2>3 DEF k
<1>6. Nat \subseteq I
  <2> HIDE DEF I
  <2> QED
    BY <1>4, <1>5, Induction
<1>7. g[Len(w)] = g[n]
  BY <1>1, <1>6
<1> QED
  BY <1>2, <1>3, <1>7 DEF w

\* What is chosen next of a sequence, where an element is to be read that is chosen.
LEMMA NextChosen ==
    ASSUME NEW T, NEW S, NEW s \in Seq(T), NEW u \in Seq(T), Len(u) <= Len(s), u # <<>>,
           \A i \in DOMAIN u : u[i] = s[Len(s) - Len(u) + i],
           Head(u) \in S
    PROVE  LET w == Chosen(s, S)
               p == Chosen(SubSeq(s, 1, Len(s) - Len(u)), S)
           IN  Len(p) < Len(w) /\ w[Len(p) + 1] = Head(u)
<1> DEFINE k == Len(s) - Len(u)
           w == Chosen(s, S)
           p == Chosen(SubSeq(s, 1, k), S)
           q == Chosen(SubSeq(s, 1, k + 1), S)
           c == Head(u)
<1>1. /\ k \in Nat /\ k < Len(s) /\ c \in T
      /\ SubSeq(s, 1, k + 1) = Append(SubSeq(s, 1, k), c) /\ SubSeq(s, 1, k) \in Seq(T)
  BY FrontRead
<1> HIDE DEF k, c
<1>2. q = Append(p, c)
  <2> DEFINE r == SubSeq(s, 1, k)
  <2>1. r \in Seq(T) /\ c \in T /\ c \in S
    BY <1>1 DEF c
  <2> HIDE DEF r
  <2>2. Chosen(Append(r, c), S) = Append(Chosen(r, S), c)
    BY <2>1, ChosenAppend
  <2> QED
    BY <1>1, <2>2 DEF r
<1>3. Len(q) <= Len(w) /\ q = SubSeq(w, 1, Len(q))
  <2>1. k + 1 \in 0..Len(s)
    BY <1>1
  <2> QED
    BY <2>1, ChosenBeginning
<1>4. p \in Seq(S \cap T) /\ w \in Seq(S \cap T)
  BY <1>1, ChosenSeq
<1> HIDE DEF p, q, w
<1>5. Len(p) < Len(w) /\ w[Len(p) + 1] = c
  <2>1. Len(q) = Len(p) + 1 /\ q[Len(p) + 1] = c
    BY <1>2, <1>4
  <2> QED
    BY <1>3, <1>4, <2>1
<1> QED
  BY <1>5 DEF p, w, k, c

\* a, then b.
Glued(a, b) == a \o b

\* Appending and concatenating.
LEMMA AppendLast ==
    ASSUME NEW T
    PROVE  \A a \in Seq(T), b \in Seq(T), c \in T :
              Append(Glued(a, b), c) = Glued(a, Append(b, c))
BY DEF Glued

\* Of two sequences that begin alike the same is chosen in as many steps.
LEMMA ChoosesAlike ==
    ASSUME NEW T, NEW S, NEW f, NEW g, NEW s \in Seq(T), NEW t \in Seq(T),
           Chooses(s, S, f), Chooses(t, S, g)
    PROVE  \A k \in Nat :
              k <= Len(s) /\ k <= Len(t) /\ (\A i \in 1..k : s[i] = t[i]) => f[k] = g[k]
<1> SUFFICES ASSUME NEW k \in Nat, k <= Len(s), k <= Len(t), \A i \in 1..k : s[i] = t[i]
             PROVE  f[k] = g[k]
  OBVIOUS
<1>1. Chooses(s, S, f) /\ Chooses(t, S, g) /\ s \in Seq(T) /\ t \in Seq(T)
  OBVIOUS
<1>2. k \in Nat /\ k <= Len(s) /\ k <= Len(t) /\ \A i \in 1..k : s[i] = t[i]
  OBVIOUS
<1> QED
  BY <1>1, <1>2, ChoosesAgree

\* w is s, then t.
Follows(w, s, t) ==
  /\ Len(w) = Len(s) + Len(t)
  /\ \A i \in 1..Len(s) : s[i] = w[i]
  /\ \A i \in 1..Len(t) : w[Len(s) + i] = t[i]

\* The choices begin with those from the first.
LEMMA ChoosesFirst ==
    ASSUME NEW T, NEW S, NEW s \in Seq(T), NEW w \in Seq(T), NEW t \in Seq(T),
           Follows(w, s, t), NEW f, NEW h, Chooses(s, S, f), Chooses(w, S, h)
    PROVE  h[Len(s)] = f[Len(s)]
<1>1. \A k \in Nat : k <= Len(s) /\ k <= Len(w) /\ (\A i \in 1..k : s[i] = w[i]) => f[k] = h[k]
  BY ChoosesAlike
<1>2. /\ Len(s) \in Nat /\ Len(s) <= Len(s) /\ Len(s) <= Len(w)
      /\ \A i \in 1..Len(s) : s[i] = w[i]
  BY DEF Follows
<1> QED
  BY <1>1, <1>2

\* The choices from two sequences, one after the other, in steps.
LEMMA ChoosesConcat ==
    ASSUME NEW T, NEW S, NEW f, NEW g, NEW h,
           NEW s \in Seq(T), NEW t \in Seq(T), NEW w \in Seq(T), Follows(w, s, t),
           Chooses(s, S, f), Chooses(t, S, g), Chooses(w, S, h)
    PROVE  \A m \in 0..Len(t) : h[Len(s) + m] = Glued(f[Len(s)], g[m])
<1> DEFINE n == Len(s)
           I == {m \in Nat : m <= Len(t) => h[n + m] = Glued(f[n], g[m])}
<1>1. /\ n \in Nat /\ \A m \in 0..n : f[m] \in Seq(S \cap T)
      /\ \A m \in 0..Len(t) : g[m] \in Seq(S \cap T)
  <2>1. \A m \in 0..Len(s) : f[m] \in Seq(S \cap T)
    BY ChoosesSeq
  <2>2. \A m \in 0..Len(t) : g[m] \in Seq(S \cap T)
    BY ChoosesSeq
  <2> QED
    BY <2>1, <2>2
<1>2. h[n] = f[n]
  BY ChoosesFirst
<1>3. g[0] = <<>>
  BY DEF Chooses
<1>4. /\ \A m \in Nat : m < Len(t) =>
             g[m + 1] = IF t[m + 1] \in S THEN Append(g[m], t[m + 1]) ELSE g[m]
      /\ \A m \in Nat : m < Len(w) =>
             h[m + 1] = IF w[m + 1] \in S THEN Append(h[m], w[m + 1]) ELSE h[m]
  <2>1. \A m \in Nat : m < Len(t) =>
             g[m + 1] = IF t[m + 1] \in S THEN Append(g[m], t[m + 1]) ELSE g[m]
    BY ChoosesStep
  <2>2. \A m \in Nat : m < Len(w) =>
             h[m + 1] = IF w[m + 1] \in S THEN Append(h[m], w[m + 1]) ELSE h[m]
    BY ChoosesStep
  <2> QED
    BY <2>1, <2>2
<1>5. Len(w) = n + Len(t) /\ (\A i \in 1..Len(t) : w[n + i] = t[i])
  BY DEF Follows
<1> HIDE DEF n
<1>6. 0 \in I
  <2>1. n + 0 = n /\ f[n] \in Seq(S \cap T)
    BY <1>1
  <2>2. Glued(f[n], <<>>) = f[n]
    BY <2>1 DEF Glued
  <2> QED
    BY <1>2, <1>3, <2>1, <2>2
<1>7. ASSUME NEW m \in Nat, m \in I PROVE m + 1 \in I
  <2> SUFFICES ASSUME m + 1 <= Len(t) PROVE h[n + (m + 1)] = Glued(f[n], g[m + 1])
    OBVIOUS
  <2>1. /\ n + (m + 1) = (n + m) + 1 /\ m < Len(t) /\ n + m < Len(w) /\ n + m \in Nat
        /\ m \in 0..Len(t) /\ m + 1 \in 1..Len(t) /\ n \in 0..n
    BY <1>1, <1>5
  <2>2. h[n + m] = Glued(f[n], g[m]) /\ w[(n + m) + 1] = t[m + 1]
    BY <1>5, <1>7, <2>1
  <2>3. h[(n + m) + 1] = IF t[m + 1] \in S THEN Append(Glued(f[n], g[m]), t[m + 1])
                         ELSE Glued(f[n], g[m])
    BY <1>4, <2>1, <2>2
  <2>4. f[n] \in Seq(T) /\ g[m] \in Seq(T) /\ t[m + 1] \in T
    BY <1>1, <2>1
  <2> HIDE DEF I
  <2>5. Append(Glued(f[n], g[m]), t[m + 1]) = Glued(f[n], Append(g[m], t[m + 1]))
    <3>1. \A a \in Seq(T), b \in Seq(T), c \in T :
             Append(Glued(a, b), c) = Glued(a, Append(b, c))
      BY AppendLast
    <3> QED
      BY <2>4, <3>1
  <2> QED
    BY <1>4, <2>1, <2>3, <2>5
<1>8. Nat \subseteq I
  <2> HIDE DEF I
  <2> QED
    BY <1>6, <1>7, Induction
<1> QED
  BY <1>8 DEF n

\* Of two sequences, one after the other, is chosen what is chosen of each.
LEMMA ChosenConcat ==
    ASSUME NEW T, NEW S, NEW s \in Seq(T), NEW t \in Seq(T)
    PROVE  Chosen(s \o t, S) = Chosen(s, S) \o Chosen(t, S)
<1> DEFINE w == s \o t
           f == Choice(s, S)
           g == Choice(t, S)
           h == Choice(w, S)
<1>1. /\ w \in Seq(T) /\ Follows(w, s, t) /\ Len(w) = Len(s) + Len(t)
      /\ Len(s) \in Nat /\ Len(t) \in Nat
  BY DEF Follows
<1> HIDE DEF w
<1>2. /\ Chosen(s, S) = f[Len(s)] /\ Chooses(s, S, f)
      /\ Chosen(t, S) = g[Len(t)] /\ Chooses(t, S, g)
  BY ChosenByChoice
<1>3. Chosen(w, S) = h[Len(w)] /\ Chooses(w, S, h)
  BY <1>1, ChosenByChoice
<1> HIDE DEF f, g, h
<1>4. \A m \in 0..Len(t) : h[Len(s) + m] = Glued(f[Len(s)], g[m])
  BY <1>1, <1>2, <1>3, ChoosesConcat
<1>5. h[Len(w)] = Glued(f[Len(s)], g[Len(t)])
  BY <1>1, <1>4
<1> QED
  BY <1>2, <1>3, <1>5 DEF w, Glued

---------------------------------------------------------------------------
(***************************************************************************)
(* Joined: its recursion has a solution, as that of Chosen has.            *)
(***************************************************************************)

\* f is the recursive function of Joined(s).
Joins(s, f) == f = [n \in 0..Len(s) |-> IF n = 0 THEN <<>> ELSE f[n - 1] \o s[n]]

\* A function that joins so.
Join(s) == CHOOSE f : Joins(s, f)

\* There is one, for every sequence.
LEMMA JoinsExists ==
    ASSUME NEW T
    PROVE  \A s \in Seq(T) : \E f : Joins(s, f)
<1> DEFINE I == {n \in Nat : \A s \in Seq(T) : Len(s) = n => \E f : Joins(s, f)}
<1>1. 0 \in I
  <2> SUFFICES ASSUME NEW s \in Seq(T), Len(s) = 0 PROVE \E f : Joins(s, f)
    OBVIOUS
  <2>1. Joins(s, [n \in 0..0 |-> <<>>])
    BY DEF Joins
  <2> QED
    BY <2>1
<1>2. ASSUME NEW n \in Nat, n \in I PROVE n + 1 \in I
  <2> SUFFICES ASSUME NEW s \in Seq(T), Len(s) = n + 1 PROVE \E f : Joins(s, f)
    OBVIOUS
  <2> DEFINE p == SubSeq(s, 1, n)
  <2>1. p \in Seq(T) /\ Len(p) = n /\ \A i \in 1..n : p[i] = s[i]
    OBVIOUS
  <2>2. PICK f : Joins(p, f)
    BY <1>2, <2>1
  <2> HIDE DEF p
  <2> DEFINE g == [m \in 0..(n + 1) |-> IF m <= n THEN f[m] ELSE f[m - 1] \o s[m]]
  <2>3. Joins(s, g)
    <3>1. \A m \in 0..n : f[m] = IF m = 0 THEN <<>> ELSE f[m - 1] \o p[m]
      BY <2>1, <2>2 DEF Joins
    <3>2. ASSUME NEW m \in 0..(n + 1)
          PROVE  g[m] = IF m = 0 THEN <<>> ELSE g[m - 1] \o s[m]
      BY <3>1, <2>1
    <3> QED
      BY <3>2 DEF Joins
  <2> QED
    BY <2>3
<1>3. Nat \subseteq I
  <2> HIDE DEF I
  <2> QED
    BY <1>1, <1>2, Induction
<1> QED
  BY <1>3

\* Joined is its last value.
LEMMA JoinedByJoin ==
    ASSUME NEW T, NEW s \in Seq(T)
    PROVE  Joined(s) = Join(s)[Len(s)] /\ Joins(s, Join(s))
<1>1. Joined(s) = Join(s)[Len(s)]
  BY DEF Joined, Join, Joins
<1>2. Joins(s, Join(s))
  BY JoinsExists DEF Join
<1> QED
  BY <1>1, <1>2

\* Of no sequences the empty one is made.
LEMMA JoinedEmpty == Joined(<<>>) = <<>>
<1>1. <<>> \in Seq({}) /\ Len(<<>>) = 0
  OBVIOUS
<1>2. Joined(<<>>) = Join(<<>>)[0] /\ Joins(<<>>, Join(<<>>))
  BY <1>1, JoinedByJoin
<1>3. Join(<<>>)[0] = <<>>
  BY <1>1, <1>2 DEF Joins
<1> QED
  BY <1>2, <1>3

\* One sequence more comes last.
LEMMA JoinedAppend ==
    ASSUME NEW T, NEW s \in Seq(T), NEW c \in T
    PROVE  Joined(Append(s, c)) = Joined(s) \o c
<1> DEFINE t == Append(s, c)
           n == Len(s)
           f == Join(s)
           g == Join(t)
           I == {m \in Nat : m <= n => f[m] = g[m]}
<1>1. /\ t \in Seq(T) /\ Len(t) = n + 1 /\ t[n + 1] = c /\ n \in Nat
      /\ \A i \in 1..n : t[i] = s[i]
  OBVIOUS
<1> HIDE DEF t
<1>2. /\ Joined(s) = f[n] /\ Joins(s, f)
      /\ Joined(t) = g[n + 1] /\ Joins(t, g)
  BY <1>1, JoinedByJoin
<1> HIDE DEF n, f, g
<1>3. /\ f[0] = <<>> /\ g[0] = <<>>
      /\ \A m \in 1..n : f[m] = f[m - 1] \o s[m] /\ g[m] = g[m - 1] \o t[m]
      /\ g[n + 1] = g[n] \o t[n + 1]
  <2>1. \A m \in 0..n : f[m] = IF m = 0 THEN <<>> ELSE f[m - 1] \o s[m]
    BY <1>2 DEF Joins, n
  <2>2. \A m \in 0..(n + 1) : g[m] = IF m = 0 THEN <<>> ELSE g[m - 1] \o t[m]
    BY <1>1, <1>2 DEF Joins
  <2>3. f[0] = <<>> /\ g[0] = <<>>
    BY <1>1, <2>1, <2>2
  <2>4. ASSUME NEW m \in 1..n PROVE f[m] = f[m - 1] \o s[m] /\ g[m] = g[m - 1] \o t[m]
    <3>1. m \in 0..n /\ m \in 0..(n + 1) /\ m # 0
      BY <1>1
    <3> QED
      BY <2>1, <2>2, <3>1
  <2>5. g[n + 1] = g[n] \o t[n + 1]
    <3>1. (n + 1) - 1 = n /\ n + 1 # 0 /\ n + 1 \in 0..(n + 1)
      BY <1>1
    <3>2. g[n + 1] = g[(n + 1) - 1] \o t[n + 1]
      BY <2>2, <3>1
    <3> QED
      BY <3>1, <3>2
  <2> QED
    BY <2>3, <2>4, <2>5
<1>4. 0 \in I
  BY <1>3
<1>5. ASSUME NEW m \in Nat, m \in I PROVE m + 1 \in I
  <2> SUFFICES ASSUME m + 1 <= n PROVE f[m + 1] = g[m + 1]
    OBVIOUS
  <2>1. m + 1 \in 1..n /\ (m + 1) - 1 = m /\ f[m] = g[m] /\ t[m + 1] = s[m + 1]
    BY <1>1, <1>5
  <2> QED
    BY <1>3, <2>1
<1>6. Nat \subseteq I
  <2> HIDE DEF I
  <2> QED
    BY <1>4, <1>5, Induction
<1>7. f[n] = g[n]
  BY <1>1, <1>6
<1> QED
  BY <1>1, <1>2, <1>3, <1>7 DEF t

\* Sequences over a set make one over it.
LEMMA JoinedSeq ==
    ASSUME NEW A, NEW s \in Seq(Seq(A))
    PROVE  Joined(s) \in Seq(A)
<1> DEFINE f == Join(s)
           I == {m \in Nat : m <= Len(s) => f[m] \in Seq(A)}
<1>1. Joined(s) = f[Len(s)] /\ Joins(s, f)
  BY JoinedByJoin
<1> HIDE DEF f
<1>2. \A m \in 0..Len(s) : f[m] = IF m = 0 THEN <<>> ELSE f[m - 1] \o s[m]
  BY <1>1 DEF Joins
<1>3. 0 \in I
  <2>1. f[0] = <<>> /\ <<>> \in Seq(A)
    BY <1>2
  <2> QED
    BY <2>1
<1>4. ASSUME NEW m \in Nat, m \in I PROVE m + 1 \in I
  <2> SUFFICES ASSUME m + 1 <= Len(s) PROVE f[m + 1] \in Seq(A)
    OBVIOUS
  <2>1. m + 1 \in 0..Len(s) /\ m + 1 # 0 /\ (m + 1) - 1 = m /\ m + 1 \in 1..Len(s)
    OBVIOUS
  <2>2. f[m + 1] = f[(m + 1) - 1] \o s[m + 1]
    BY <1>2, <2>1
  <2>3. f[m] \in Seq(A) /\ s[m + 1] \in Seq(A)
    BY <1>4, <2>1
  <2> QED
    BY <2>1, <2>2, <2>3
<1>5. Nat \subseteq I
  <2> HIDE DEF I
  <2> QED
    BY <1>3, <1>4, Induction
<1> QED
  BY <1>1, <1>5

\* If all its elements are in the set, the whole sequence is chosen.
LEMMA ChosenAll ==
    ASSUME NEW T, NEW S, NEW s \in Seq(T), \A i \in DOMAIN s : s[i] \in S
    PROVE  Chosen(s, S) = s
<1> DEFINE f == Choice(s, S)
           I == {n \in Nat : n <= Len(s) => Len(f[n]) = n /\ \A i \in 1..n : f[n][i] = s[i]}
<1>1. Chosen(s, S) = f[Len(s)] /\ Chooses(s, S, f)
  BY ChosenByChoice
<1>2. \A n \in 0..Len(s) : f[n] \in Seq(S \cap T)
  BY <1>1, ChoosesSeq
<1>3. \A n \in Nat : n < Len(s) =>
        f[n + 1] = IF s[n + 1] \in S THEN Append(f[n], s[n + 1]) ELSE f[n]
  BY <1>1, ChoosesStep
<1>4. 0 \in I
  BY <1>1 DEF Chooses
<1> HIDE DEF f
<1>5. ASSUME NEW n \in Nat, n \in I PROVE n + 1 \in I
  <2> SUFFICES ASSUME n + 1 <= Len(s)
               PROVE  Len(f[n + 1]) = n + 1 /\ \A i \in 1..(n + 1) : f[n + 1][i] = s[i]
    OBVIOUS
  <2>1. n \in 0..Len(s) /\ n + 1 \in DOMAIN s /\ n < Len(s)
    OBVIOUS
  <2>2. f[n] \in Seq(S \cap T) /\ Len(f[n]) = n /\ \A i \in 1..n : f[n][i] = s[i]
    BY <1>2, <1>5, <2>1
  <2>3. f[n + 1] = Append(f[n], s[n + 1])
    BY <1>3, <2>1
  <2> QED
    BY <2>2, <2>3
<1>6. Nat \subseteq I
  <2> HIDE DEF I
  <2> QED
    BY <1>4, <1>5, Induction
<1>7. Len(s) \in Nat /\ Len(s) \in 0..Len(s) /\ Len(s) \in I
  BY <1>6
<1>8. f[Len(s)] \in Seq(S \cap T) /\ Len(f[Len(s)]) = Len(s) /\ \A i \in 1..Len(s) : f[Len(s)][i] = s[i]
  BY <1>2, <1>7
<1> QED
  BY <1>1, <1>8

\* What is chosen begins with the first elements, if these are all in the set.
LEMMA ChosenFront ==
    ASSUME NEW T, NEW S, NEW s \in Seq(T), NEW k \in 0..Len(s), \A i \in 1..k : s[i] \in S
    PROVE  k <= Len(Chosen(s, S)) /\ \A i \in 1..k : Chosen(s, S)[i] = s[i]
<1> DEFINE p == SubSeq(s, 1, k)
           w == Chosen(s, S)
<1>1. p \in Seq(T) /\ Len(p) = k /\ \A i \in 1..k : p[i] = s[i]
  OBVIOUS
<1>2. Len(Chosen(p, S)) <= Len(w) /\ Chosen(p, S) = SubSeq(w, 1, Len(Chosen(p, S)))
  BY ChosenBeginning
<1>3. w \in Seq(S \cap T)
  BY ChosenSeq
<1> HIDE DEF p, w
<1>4. Chosen(p, S) = p
  BY <1>1, ChosenAll
<1> QED
  BY <1>1, <1>2, <1>3, <1>4 DEF w

\* An element of the sequence that is in the set is among those chosen.
LEMMA ChosenElements ==
    ASSUME NEW T, NEW S, NEW s \in Seq(T), NEW i \in DOMAIN s, s[i] \in S
    PROVE  s[i] \in ToSet(Chosen(s, S))
<1> DEFINE p == SubSeq(s, 1, i - 1)
           q == SubSeq(s, 1, i)
           w == Chosen(s, S)
<1>1. /\ p \in Seq(T) /\ s[i] \in T /\ q = Append(p, s[i]) /\ i \in 0..Len(s)
  <2>1. i - 1 \in Nat /\ i - 1 < Len(s) /\ (i - 1) + 1 = i
    OBVIOUS
  <2> QED
    BY <2>1, OneMore
<1>2. Len(Chosen(q, S)) <= Len(w) /\ Chosen(q, S) = SubSeq(w, 1, Len(Chosen(q, S)))
  BY <1>1, ChosenBeginning
<1>3. w \in Seq(S \cap T)
  BY ChosenSeq
<1> HIDE DEF p, w
<1>4. Chosen(Append(p, s[i]), S) = Append(Chosen(p, S), s[i])
  BY <1>1, ChosenAppend
<1>5. Chosen(p, S) \in Seq(S \cap T)
  BY <1>1, ChosenSeq
<1> DEFINE n == Len(Chosen(p, S)) + 1
<1>6. n \in 1..Len(w) /\ w[n] = s[i]
  <2>1. Chosen(q, S) = Append(Chosen(p, S), s[i])
    BY <1>1, <1>4
  <2> HIDE DEF q
  <2>2. Len(Chosen(q, S)) = n /\ Chosen(q, S)[n] = s[i] /\ n \in Nat \ {0}
    BY <1>5, <2>1
  <2> HIDE DEF n
  <2> QED
    BY <1>2, <1>3, <2>2
<1> HIDE DEF n
<1> QED
  BY <1>3, <1>6 DEF ToSet, w

\* The elements chosen are those of the sequence that are in the set.
LEMMA ChosenSet ==
    ASSUME NEW T, NEW S, NEW s \in Seq(T)
    PROVE  ToSet(Chosen(s, S)) = ToSet(s) \cap S
<1>1. s \in Seq(ToSet(s))
  BY DEF ToSet
<1>2. Chosen(s, S) \in Seq(S \cap ToSet(s))
  BY <1>1, ChosenSeq
<1>3. ToSet(Chosen(s, S)) \subseteq S \cap ToSet(s)
  BY <1>2 DEF ToSet
<1>4. ASSUME NEW x \in ToSet(s) \cap S PROVE x \in ToSet(Chosen(s, S))
  <2>1. PICK i \in DOMAIN s : s[i] = x
    BY <1>4 DEF ToSet
  <2> QED
    BY <1>4, <2>1, ChosenElements
<1> QED
  BY <1>3, <1>4

\* Of different elements each is chosen once.
LEMMA ChosenOnce ==
    ASSUME NEW T, NEW S, NEW s \in Seq(T), \A i, j \in DOMAIN s : s[i] = s[j] => i = j
    PROVE  \A i, j \in DOMAIN Chosen(s, S) : Chosen(s, S)[i] = Chosen(s, S)[j] => i = j
<1> DEFINE Once(w) == \A i, j \in DOMAIN w : w[i] = w[j] => i = j
           p(n) == SubSeq(s, 1, n)
           I == {n \in Nat : n <= Len(s) => Once(Chosen(p(n), S))}
<1>1. 0 \in I
  <2>1. p(0) = <<>>
    OBVIOUS
  <2>2. Chosen(p(0), S) = <<>>
    BY <2>1, ChosenEmpty
  <2> QED
    BY <2>2
<1>2. ASSUME NEW n \in Nat, n \in I PROVE n + 1 \in I
  <2> SUFFICES ASSUME n + 1 <= Len(s) PROVE Once(Chosen(p(n + 1), S))
    OBVIOUS
  <2> DEFINE q == p(n)
             x == s[n + 1]
             w == Chosen(q, S)
  <2>1. p(n + 1) = Append(q, x) /\ q \in Seq(T) /\ x \in T
    BY OneMore
  <2>2. Len(q) = n /\ \A i \in 1..n : q[i] = s[i]
    OBVIOUS
  <2>3. x \notin ToSet(q)
    <3>1. ASSUME NEW i \in DOMAIN q PROVE q[i] # x
      <4>1. i \in 1..n /\ i \in DOMAIN s /\ n + 1 \in DOMAIN s /\ i # n + 1
        BY <2>1, <2>2
      <4> QED
        BY <2>2, <4>1
    <3> HIDE DEF q
    <3> QED
      BY <3>1 DEF ToSet
  <2>4. Once(w)
    BY <1>2
  <2> HIDE DEF p, q, x
  <2>5. Chosen(p(n + 1), S) = IF x \in S THEN Append(w, x) ELSE w
    <3>1. Chosen(Append(q, x), S) = IF x \in S THEN Append(Chosen(q, S), x) ELSE Chosen(q, S)
      BY <2>1, ChosenAppend
    <3> QED
      BY <2>1, <3>1
  <2>6. w \in Seq(S \cap T) /\ ToSet(w) \subseteq ToSet(q)
    BY <2>1, ChosenSeq, ChosenSet
  <2> HIDE DEF w
  <2>7. Once(Append(w, x))
    <3> DEFINE v == Append(w, x)
    <3>1. /\ DOMAIN v = 1..(Len(w) + 1) /\ v[Len(w) + 1] = x
          /\ Len(w) \in Nat /\ DOMAIN w = 1..Len(w)
          /\ \A i \in 1..Len(w) : v[i] = w[i] /\ w[i] # x
      <4>1. /\ DOMAIN v = 1..(Len(w) + 1) /\ v[Len(w) + 1] = x
          /\ Len(w) \in Nat /\ DOMAIN w = 1..Len(w)
            /\ \A i \in 1..Len(w) : v[i] = w[i]
        BY <2>6
      <4>2. \A i \in DOMAIN w : w[i] # x
        BY <2>3, <2>6 DEF ToSet
      <4> QED
        BY <4>1, <4>2
    <3> HIDE DEF v
    <3>2. ASSUME NEW i \in DOMAIN v, NEW j \in DOMAIN v, v[i] = v[j] PROVE i = j
      <4>1. (i \in 1..Len(w) \/ i = Len(w) + 1) /\ (j \in 1..Len(w) \/ j = Len(w) + 1)
        BY <3>1
      <4>2. CASE i \in 1..Len(w) /\ j \in 1..Len(w)
        BY <2>4, <3>1, <3>2, <4>2
      <4> QED
        BY <3>1, <3>2, <4>1, <4>2
    <3> QED
      BY <3>2 DEF v
  <2> QED
    BY <2>4, <2>5, <2>7
<1>3. Nat \subseteq I
  <2> HIDE DEF I
  <2> QED
    BY <1>1, <1>2, Induction
<1>4. Len(s) \in Nat /\ p(Len(s)) = s
  OBVIOUS
<1>5. Once(Chosen(p(Len(s)), S))
  BY <1>3, <1>4
<1> QED
  BY <1>4, <1>5

\* Distinct lists elements of the sequence.
LEMMA DistinctSeq ==
    ASSUME NEW T, NEW s \in Seq(T)
    PROVE  Distinct(s) \in Seq(T)
<1> DEFINE d == [i \in DOMAIN s |-> i]
           S == {i \in DOMAIN s : \A j \in 1..(i - 1) : s[j] # s[i]}
           w == Chosen(d, S)
<1>1. d \in Seq(DOMAIN s)
  OBVIOUS
<1> HIDE DEF d, S
<1>2. w \in Seq(S \cap DOMAIN s)
  BY <1>1, ChosenSeq
<1> HIDE DEF w
<1>3. DOMAIN w = 1..Len(w) /\ Len(w) \in Nat /\ \A k \in 1..Len(w) : w[k] \in DOMAIN s
  BY <1>2
<1>4. \A k \in 1..Len(w) : s[w[k]] \in T
  BY <1>3
<1>5. [k \in DOMAIN w |-> s[w[k]]] \in Seq(T)
  BY <1>3, <1>4
<1> QED
  BY <1>5 DEF Distinct, Picked, Places, d, S, w

\* A part of a sequence.
LEMMA PartSeq ==
    ASSUME NEW T, NEW s \in Seq(T), NEW m \in Nat \ {0}, NEW n \in Int, n <= Len(s)
    PROVE  SubSeq(s, m, n) \in Seq(T)
<1>1. CASE m > n
  <2>1. SubSeq(s, m, n) = <<>>
    BY <1>1
  <2> QED
    BY <2>1
<1>2. CASE m <= n
  <2>1. \A i \in m..n : s[i] \in T
    BY <1>2
  <2> QED
    BY <1>2, <2>1
<1> QED
  BY <1>1, <1>2

\* What each step keeps in A stays in A.
LEMMA StepsKeep ==
    ASSUME NEW A, NEW n \in Nat, NEW f, f[0] \in A,
           \A m \in 1..n : f[m - 1] \in A => f[m] \in A
    PROVE  \A m \in 0..n : f[m] \in A
<1> DEFINE I == {m \in Nat : m <= n => f[m] \in A}
<1>1. 0 \in I
  OBVIOUS
<1>2. ASSUME NEW m \in Nat, m \in I PROVE m + 1 \in I
  <2> SUFFICES ASSUME m + 1 <= n PROVE f[m + 1] \in A
    OBVIOUS
  <2>1. m + 1 \in 1..n /\ (m + 1) - 1 = m /\ f[m] \in A
    BY <1>2
  <2> QED
    BY <2>1
<1>3. Nat \subseteq I
  <2> HIDE DEF I
  <2> QED
    BY <1>1, <1>2, Induction
<1> QED
  BY <1>3

\* f is the fold of the function G over s, from c.
FoldsOver(G, c, s, f) ==
  f = [n \in 0..Len(s) |-> IF n = 0 THEN c ELSE G[<<f[n - 1], s[n]>>]]

\* There is one.
LEMMA FoldExists ==
    ASSUME NEW T, NEW G, NEW c
    PROVE  \A s \in Seq(T) : \E f : FoldsOver(G, c, s, f)
<1> DEFINE I == {n \in Nat : \A s \in Seq(T) : Len(s) = n => \E f : FoldsOver(G, c, s, f)}
<1>1. 0 \in I
  <2> SUFFICES ASSUME NEW s \in Seq(T), Len(s) = 0 PROVE \E f : FoldsOver(G, c, s, f)
    OBVIOUS
  <2>1. FoldsOver(G, c, s, [n \in 0..0 |-> c])
    BY DEF FoldsOver
  <2> QED
    BY <2>1
<1>2. ASSUME NEW n \in Nat, n \in I PROVE n + 1 \in I
  <2> SUFFICES ASSUME NEW s \in Seq(T), Len(s) = n + 1 PROVE \E f : FoldsOver(G, c, s, f)
    OBVIOUS
  <2> DEFINE p == SubSeq(s, 1, n)
  <2>1. p \in Seq(T) /\ Len(p) = n /\ \A i \in 1..n : p[i] = s[i]
    OBVIOUS
  <2>2. PICK f : FoldsOver(G, c, p, f)
    BY <1>2, <2>1
  <2> HIDE DEF p
  <2> DEFINE g == [m \in 0..(n + 1) |-> IF m <= n THEN f[m] ELSE G[<<f[m - 1], s[m]>>]]
  <2>3. FoldsOver(G, c, s, g)
    <3>1. \A m \in 0..n : f[m] = IF m = 0 THEN c ELSE G[<<f[m - 1], p[m]>>]
      BY <2>1, <2>2 DEF FoldsOver
    <3>2. ASSUME NEW m \in 0..(n + 1)
          PROVE  g[m] = IF m = 0 THEN c ELSE G[<<g[m - 1], s[m]>>]
      <4>1. m = 0 \/ (m - 1 \in 0..n /\ g[m - 1] = f[m - 1])
        OBVIOUS
      <4>2. CASE m \in 0..n
        <5>1. g[m] = f[m] /\ (m # 0 => p[m] = s[m])
          BY <2>1, <4>2
        <5> QED
          BY <3>1, <4>1, <4>2, <5>1
      <4>3. CASE m = n + 1
        <5>1. g[m] = G[<<f[m - 1], s[m]>>] /\ m # 0
          BY <4>3
        <5> QED
          BY <4>1, <5>1
      <4> QED
        BY <4>2, <4>3
    <3> QED
      BY <3>2 DEF FoldsOver
  <2> QED
    BY <2>3
<1>3. Nat \subseteq I
  <2> HIDE DEF I
  <2> QED
    BY <1>1, <1>2, Induction
<1> QED
  BY <1>3

\* The pieces of a concatenation.
LEMMA ConcatLength ==
    ASSUME NEW A, NEW s \in Seq(Seq(A)), NEW n \in 1..Len(s)
    PROVE  /\ Joined(SubSeq(s, 1, n - 1)) \in Seq(A) /\ Joined(SubSeq(s, 1, n)) \in Seq(A)
           /\ Len(Joined(SubSeq(s, 1, n))) = Len(Joined(SubSeq(s, 1, n - 1))) + Len(s[n])
<1> DEFINE p == SubSeq(s, 1, n - 1)
           q == SubSeq(s, 1, n)
<1>1. p \in Seq(Seq(A)) /\ q \in Seq(Seq(A)) /\ s[n] \in Seq(A) /\ q = Append(p, s[n])
  <2>1. n - 1 \in Nat /\ n - 1 < Len(s) /\ (n - 1) + 1 = n
    OBVIOUS
  <2>2. q \in Seq(Seq(A))
    OBVIOUS
  <2> QED
    BY <2>1, <2>2, OneMore
<1> HIDE DEF p
<1>2. Joined(Append(p, s[n])) = Joined(p) \o s[n]
  BY <1>1, JoinedAppend
<1>3. Joined(p) \in Seq(A)
  BY <1>1, JoinedSeq
<1>4. Joined(q) = Joined(p) \o s[n]
  BY <1>1, <1>2
<1> HIDE DEF q
<1>5. Joined(q) \in Seq(A) /\ Len(Joined(q)) = Len(Joined(p)) + Len(s[n])
  BY <1>1, <1>3, <1>4
<1> QED
  BY <1>3, <1>5 DEF p, q

\* A fold f that stays in A, step by step.
FoldsIn(A, G, c, s, f) ==
  /\ FoldsOver(G, c, s, f) /\ f[0] = c
  /\ \A m \in 1..Len(s) : f[m] = G[<<f[m - 1], s[m]>>]
  /\ \A m \in 0..Len(s) : f[m] \in A

\* There is one if the function stays in A.
LEMMA FoldInto ==
    ASSUME NEW A, NEW T, NEW G, NEW c \in A, NEW s \in Seq(T),
           \A a \in A, b \in T : G[<<a, b>>] \in A
    PROVE  \E f : FoldsIn(A, G, c, s, f)
<1>1. PICK f : FoldsOver(G, c, s, f)
  BY FoldExists
<1>2. (\A m \in 1..Len(s) : s[m] \in T) /\ Len(s) \in Nat
  OBVIOUS
<1>3. \A m \in 0..Len(s) : f[m] = IF m = 0 THEN c ELSE G[<<f[m - 1], s[m]>>]
  BY <1>1 DEF FoldsOver
<1>4. f[0] = c /\ \A m \in 1..Len(s) : f[m] = G[<<f[m - 1], s[m]>>]
  <2>1. 0 \in 0..Len(s) /\ \A m \in 1..Len(s) : m \in 0..Len(s) /\ m # 0
    BY <1>2
  <2> QED
    BY <1>3, <2>1
<1>5. \A m \in 1..Len(s) : f[m - 1] \in A => f[m] \in A
  BY <1>2, <1>4
<1>6. \A m \in 0..Len(s) : f[m] \in A
  BY <1>2, <1>4, <1>5, StepsKeep
<1> QED
  BY <1>1, <1>4, <1>6 DEF FoldsIn

---------------------------------------------------------------------------
(***************************************************************************)
(* Total.                                                                  *)
(***************************************************************************)

\* f is the recursive function of Total(s).
Adds(s, f) == f = [n \in 0..Len(s) |-> IF n = 0 THEN 0 ELSE f[n - 1] + s[n]]

\* The sums f of the beginnings of s.
SumsOf(s, f) ==
  /\ f[0] = 0 /\ Total(s) = f[Len(s)]
  /\ \A m \in 1..Len(s) : f[m] = f[m - 1] + s[m]
  /\ \A m \in 0..Len(s) : f[m] \in Nat

\* Total is the last of the sums.
LEMMA TotalSteps ==
    ASSUME NEW s \in Seq(Nat)
    PROVE  \E f : SumsOf(s, f)
<1> DEFINE G == [p \in Nat \X Nat |-> p[1] + p[2]]
           g == CHOOSE f : Adds(s, f)
<1>1. \A a \in Nat, b \in Nat : G[<<a, b>>] = a + b /\ G[<<a, b>>] \in Nat
  OBVIOUS
<1> HIDE DEF G
<1>2. PICK f : FoldsIn(Nat, G, 0, s, f)
  BY <1>1, FoldInto
<1>3. (\A m \in 1..Len(s) : s[m] \in Nat) /\ Len(s) \in Nat
  OBVIOUS
<1>4. Adds(s, f)
  <2>1. ASSUME NEW m \in 0..Len(s)
        PROVE  (IF m = 0 THEN 0 ELSE G[<<f[m - 1], s[m]>>])
                 = (IF m = 0 THEN 0 ELSE f[m - 1] + s[m])
    <3>1. CASE m # 0
      <4>1. m - 1 \in 0..Len(s) /\ s[m] \in Nat
        BY <1>3, <3>1
      <4>2. f[m - 1] \in Nat
        BY <1>2, <4>1 DEF FoldsIn
      <4> QED
        BY <1>1, <4>1, <4>2
    <3> QED
      BY <3>1
  <2> QED
    BY <1>2, <2>1 DEF FoldsIn, FoldsOver, Adds
<1>5. Adds(s, g)
  BY <1>4
<1>6. Total(s) = g[Len(s)]
  BY DEF Total, Adds
<1> HIDE DEF g
<1>7. g[0] = 0 /\ \A m \in 1..Len(s) : g[m] = g[m - 1] + s[m]
  BY <1>3, <1>5 DEF Adds
<1>8. \A m \in 1..Len(s) : g[m - 1] \in Nat => g[m] \in Nat
  BY <1>3, <1>7
<1>9. \A m \in 0..Len(s) : g[m] \in Nat
  <2> DEFINE N == Nat
  <2>1. g[0] \in N /\ \A m \in 1..Len(s) : g[m - 1] \in N => g[m] \in N
    BY <1>7, <1>8
  <2> HIDE DEF N
  <2>2. \A m \in 0..Len(s) : g[m] \in N
    BY <1>3, <2>1, StepsKeep
  <2> QED
    BY <2>2 DEF N
<1> QED
  BY <1>6, <1>7, <1>9 DEF SumsOf

\* Sums are numbers.
LEMMA TotalNat == ASSUME NEW s \in Seq(Nat) PROVE Total(s) \in Nat
<1>1. PICK f : SumsOf(s, f)
  BY TotalSteps
<1> QED
  BY <1>1 DEF SumsOf

\* Sums of the same steps are the same.
LEMMA SumsAgree ==
    ASSUME NEW s \in Seq(Nat), NEW t \in Seq(Nat), NEW f, NEW g, SumsOf(s, f), SumsOf(t, g),
           NEW k \in Nat, k <= Len(s), k <= Len(t), \A i \in 1..k : s[i] = t[i]
    PROVE  f[k] = g[k]
<1> DEFINE I == {n \in Nat : n <= k => f[n] = g[n]}
<1>1. 0 \in I
  BY DEF SumsOf
<1>2. ASSUME NEW n \in Nat, n \in I PROVE n + 1 \in I
  <2> SUFFICES ASSUME n + 1 <= k PROVE f[n + 1] = g[n + 1]
    OBVIOUS
  <2>1. n + 1 \in 1..Len(s) /\ n + 1 \in 1..Len(t) /\ (n + 1) - 1 = n /\ n + 1 \in 1..k
    OBVIOUS
  <2>2. f[n + 1] = f[n] + s[n + 1] /\ g[n + 1] = g[n] + t[n + 1]
    BY <2>1 DEF SumsOf
  <2>3. f[n] = g[n] /\ s[n + 1] = t[n + 1]
    BY <1>2, <2>1
  <2> QED
    BY <2>2, <2>3
<1>3. Nat \subseteq I
  <2> HIDE DEF I
  <2> QED
    BY <1>1, <1>2, Induction
<1> QED
  BY <1>3

\* The sum of nothing.
LEMMA TotalEmpty == Total(<<>>) = 0
<1>1. <<>> \in Seq(Nat) /\ Len(<<>>) = 0
  OBVIOUS
<1>2. PICK f : SumsOf(<<>>, f)
  BY <1>1, TotalSteps
<1> QED
  BY <1>1, <1>2 DEF SumsOf

\* One number more.
LEMMA TotalAppend ==
    ASSUME NEW s \in Seq(Nat), NEW c \in Nat
    PROVE  Total(Append(s, c)) = Total(s) + c
<1> DEFINE t == Append(s, c)
           n == Len(s)
<1>1. /\ t \in Seq(Nat) /\ Len(t) = n + 1 /\ t[n + 1] = c /\ n \in Nat
      /\ \A i \in 1..n : s[i] = t[i]
  OBVIOUS
<1> HIDE DEF t
<1>2. PICK f : SumsOf(s, f)
  BY TotalSteps
<1>3. PICK g : SumsOf(t, g)
  BY <1>1, TotalSteps
<1>4. f[n] = g[n]
  <2>1. n <= Len(s) /\ n <= Len(t) /\ \A i \in 1..n : s[i] = t[i]
    BY <1>1
  <2> HIDE DEF n
  <2> QED
    BY <1>1, <1>2, <1>3, <2>1, SumsAgree, SMTT(30)
<1>5. Total(s) = f[n] /\ Total(t) = g[n + 1] /\ g[n + 1] = g[(n + 1) - 1] + t[n + 1]
  BY <1>1, <1>2, <1>3 DEF SumsOf
<1>6. (n + 1) - 1 = n
  BY <1>1
<1> QED
  BY <1>1, <1>4, <1>5, <1>6 DEF t

\* A sum is not less than any of its numbers, and is nothing only if they are.
LEMMA TotalBounds ==
    ASSUME NEW s \in Seq(Nat), NEW i \in 1..Len(s)
    PROVE  s[i] <= Total(s)
<1>1. PICK f : SumsOf(s, f)
  BY TotalSteps
<1>2. (\A m \in 1..Len(s) : s[m] \in Nat) /\ Len(s) \in Nat /\ i \in Nat /\ i <= Len(s)
  OBVIOUS
<1> DEFINE I == {n \in Nat : i + n <= Len(s) => s[i] <= f[i + n]}
<1>3. 0 \in I
  <2>1. f[i] = f[i - 1] + s[i] /\ f[i - 1] \in Nat /\ s[i] \in Nat /\ i + 0 = i
    BY <1>1, <1>2 DEF SumsOf
  <2> QED
    BY <2>1
<1>4. ASSUME NEW n \in Nat, n \in I PROVE n + 1 \in I
  <2> SUFFICES ASSUME i + (n + 1) <= Len(s) PROVE s[i] <= f[i + (n + 1)]
    OBVIOUS
  <2>1. i + (n + 1) \in 1..Len(s) /\ (i + (n + 1)) - 1 = i + n /\ i + n \in 0..Len(s)
    BY <1>2
  <2>2. f[i + (n + 1)] = f[i + n] + s[i + (n + 1)] /\ f[i + n] \in Nat
    BY <1>1, <2>1 DEF SumsOf
  <2>3. s[i + (n + 1)] \in Nat /\ s[i] \in Nat /\ s[i] <= f[i + n]
    BY <1>2, <1>4, <2>1
  <2> QED
    BY <2>2, <2>3
<1>5. Nat \subseteq I
  <2> HIDE DEF I
  <2> QED
    BY <1>3, <1>4, Induction
<1>6. Len(s) - i \in I /\ i + (Len(s) - i) = Len(s)
  BY <1>2, <1>5
<1> QED
  BY <1>1, <1>2, <1>6 DEF SumsOf

\* Where only one number may be more than nothing, the sum is that number.
LEMMA TotalSingle ==
    ASSUME NEW s \in Seq(Nat), NEW k \in 1..Len(s), \A i \in 1..Len(s) : i # k => s[i] = 0
    PROVE  Total(s) = s[k]
<1>1. PICK f : SumsOf(s, f)
  BY TotalSteps
<1>2. (\A m \in 1..Len(s) : s[m] \in Nat) /\ Len(s) \in Nat /\ k \in Nat
  OBVIOUS
<1> DEFINE I == {n \in Nat : n <= Len(s) => f[n] = IF n < k THEN 0 ELSE s[k]}
<1>3. 0 \in I
  BY <1>1, <1>2 DEF SumsOf
<1>4. ASSUME NEW n \in Nat, n \in I PROVE n + 1 \in I
  <2> SUFFICES ASSUME n + 1 <= Len(s) PROVE f[n + 1] = IF n + 1 < k THEN 0 ELSE s[k]
    OBVIOUS
  <2>1. n + 1 \in 1..Len(s) /\ (n + 1) - 1 = n
    BY <1>2
  <2>2. f[n + 1] = f[n] + s[n + 1]
    BY <1>1, <2>1 DEF SumsOf
  <2>3. f[n] = IF n < k THEN 0 ELSE s[k]
    BY <1>2, <1>4, <2>1
  <2>4. n + 1 # k => s[n + 1] = 0
    BY <2>1
  <2>5. s[n + 1] \in Nat /\ s[k] \in Nat
    BY <1>2, <2>1
  <2> QED
    BY <1>2, <2>2, <2>3, <2>4, <2>5
<1>5. Nat \subseteq I
  <2> HIDE DEF I
  <2> QED
    BY <1>3, <1>4, Induction
<1>6. Len(s) \in I /\ ~ (Len(s) < k)
  BY <1>2, <1>5
<1> QED
  BY <1>1, <1>2, <1>6 DEF SumsOf

\* The sum of nothings.
LEMMA TotalZeros ==
    ASSUME NEW s \in Seq(Nat), \A i \in 1..Len(s) : s[i] = 0
    PROVE  Total(s) = 0
<1>1. CASE Len(s) = 0
  <2>1. s = <<>>
    BY <1>1
  <2> QED
    BY <2>1, TotalEmpty
<1>2. CASE Len(s) # 0
  <2>1. 1 \in 1..Len(s)
    BY <1>2
  <2>2. Total(s) = s[1]
    BY <2>1, TotalSingle
  <2> QED
    BY <2>1, <2>2
<1> QED
  BY <1>1, <1>2

\* The sum of two sequences, one after the other.
LEMMA TotalConcat ==
    ASSUME NEW s \in Seq(Nat), NEW t \in Seq(Nat)
    PROVE  Total(s \o t) = Total(s) + Total(t)
<1> DEFINE w == s \o t
           n == Len(s)
<1>1. /\ w \in Seq(Nat) /\ Len(w) = n + Len(t) /\ n \in Nat /\ Len(t) \in Nat
      /\ (\A i \in 1..n : s[i] = w[i]) /\ \A i \in 1..Len(t) : w[n + i] = t[i] /\ t[i] \in Nat
  OBVIOUS
<1> HIDE DEF w
<1>2. PICK f : SumsOf(s, f)
  BY TotalSteps
<1>3. PICK g : SumsOf(t, g)
  BY TotalSteps
<1>4. PICK h : SumsOf(w, h)
  BY <1>1, TotalSteps
<1>5. h[n] = f[n] /\ f[n] \in Nat
  <2>1. f[n] = h[n]
    <3>1. n \in Nat /\ n <= Len(s) /\ n <= Len(w) /\ \A i \in 1..n : s[i] = w[i]
      BY <1>1
    <3> HIDE DEF n
    <3>2. w \in Seq(Nat)
      BY <1>1
    <3> QED
      BY <1>2, <1>4, <3>1, <3>2, SumsAgree, SMTT(30)
  <2> QED
    BY <1>1, <1>2, <2>1 DEF SumsOf
<1> DEFINE I == {m \in Nat : m <= Len(t) => h[n + m] = f[n] + g[m]}
<1>6. 0 \in I
  BY <1>1, <1>3, <1>5 DEF SumsOf
<1>7. ASSUME NEW m \in Nat, m \in I PROVE m + 1 \in I
  <2> SUFFICES ASSUME m + 1 <= Len(t) PROVE h[n + (m + 1)] = f[n] + g[m + 1]
    OBVIOUS
  <2>1. /\ m + 1 \in 1..Len(t) /\ (m + 1) - 1 = m /\ n + (m + 1) \in 1..Len(w)
        /\ (n + (m + 1)) - 1 = n + m /\ m \in 0..Len(t)
    BY <1>1
  <2>2. h[n + (m + 1)] = h[n + m] + w[n + (m + 1)]
    BY <1>4, <2>1 DEF SumsOf
  <2>3. g[m + 1] = g[m] + t[m + 1] /\ g[m] \in Nat
    BY <1>3, <2>1 DEF SumsOf
  <2>4. w[n + (m + 1)] = t[m + 1] /\ t[m + 1] \in Nat
    BY <1>1, <2>1
  <2>5. h[n + m] = f[n] + g[m]
    BY <1>1, <1>7, <2>1
  <2> QED
    BY <1>5, <2>2, <2>3, <2>4, <2>5, SMTT(30)
<1>8. Nat \subseteq I
  <2> HIDE DEF I
  <2> QED
    BY <1>6, <1>7, Induction
<1>9. h[n + Len(t)] = f[n] + g[Len(t)]
  BY <1>1, <1>8
<1> QED
  BY <1>1, <1>2, <1>3, <1>4, <1>9 DEF SumsOf, w

\* The sum of multiples.
LEMMA TotalScaled ==
    ASSUME NEW s \in Seq(Nat), NEW t \in Seq(Nat), NEW c \in Nat, Len(t) = Len(s),
           \A i \in 1..Len(s) : t[i] = s[i] * c
    PROVE  Total(t) = Total(s) * c
<1>1. PICK f : SumsOf(s, f)
  BY TotalSteps
<1>2. PICK g : SumsOf(t, g)
  BY TotalSteps
<1>3. (\A m \in 1..Len(s) : s[m] \in Nat) /\ Len(s) \in Nat
  OBVIOUS
<1> DEFINE I == {n \in Nat : n <= Len(s) => g[n] = f[n] * c}
<1>4. 0 \in I
  <2>1. f[0] = 0 /\ g[0] = 0 /\ 0 * c = 0
    BY <1>1, <1>2 DEF SumsOf
  <2> QED
    BY <2>1
<1>5. ASSUME NEW n \in Nat, n \in I PROVE n + 1 \in I
  <2> SUFFICES ASSUME n + 1 <= Len(s) PROVE g[n + 1] = f[n + 1] * c
    OBVIOUS
  <2>1. n + 1 \in 1..Len(s) /\ (n + 1) - 1 = n /\ n \in 0..Len(s)
    BY <1>3
  <2>2. f[n + 1] = f[n] + s[n + 1] /\ g[n + 1] = g[n] + t[n + 1] /\ f[n] \in Nat
    BY <1>1, <1>2, <2>1 DEF SumsOf
  <2>3. g[n] = f[n] * c /\ t[n + 1] = s[n + 1] * c /\ s[n + 1] \in Nat
    BY <1>3, <1>5, <2>1
  <2>4. \A x, y \in Nat : (x + y) * c = x * c + y * c
    OBVIOUS
  <2> QED
    BY <2>2, <2>3, <2>4
<1>6. Nat \subseteq I
  <2> HIDE DEF I
  <2> QED
    BY <1>4, <1>5, Induction
<1>7. g[Len(s)] = f[Len(s)] * c
  BY <1>3, <1>6
<1> QED
  BY <1>1, <1>2, <1>7 DEF SumsOf

---------------------------------------------------------------------------
(***************************************************************************)
(* Order.                                                                  *)
(***************************************************************************)

\* Of two elements of s the pair is in R, in the order in which they come.
Pairwise(s, R) == \A i, j \in DOMAIN s : i < j => <<s[i], s[j]>> \in R

\* One element more.
LEMMA PairwiseAppend ==
    ASSUME NEW T, NEW R, NEW s \in Seq(T), NEW c \in T, Pairwise(s, R),
           \A x \in ToSet(s) : <<x, c>> \in R
    PROVE  Pairwise(Append(s, c), R)
<1> DEFINE t == Append(s, c)
<1>1. /\ t \in Seq(T) /\ DOMAIN t = 1..(Len(s) + 1) /\ Len(s) \in Nat /\ DOMAIN s = 1..Len(s)
      /\ t[Len(s) + 1] = c /\ \A i \in 1..Len(s) : t[i] = s[i]
  OBVIOUS
<1> HIDE DEF t
<1>2. ASSUME NEW i \in DOMAIN t, NEW j \in DOMAIN t, i < j
      PROVE  <<t[i], t[j]>> \in R
  <2>1. i \in 1..Len(s) /\ t[i] = s[i] /\ s[i] \in ToSet(s)
    BY <1>1, <1>2 DEF ToSet
  <2>2. CASE j \in 1..Len(s)
    <3>1. <<s[i], s[j]>> \in R
      BY <1>1, <1>2, <2>1, <2>2 DEF Pairwise
    <3> QED
      BY <1>1, <2>1, <2>2, <3>1
  <2>3. CASE j = Len(s) + 1
    BY <1>1, <2>1, <2>3
  <2> QED
    BY <1>1, <2>2, <2>3
<1> QED
  BY <1>2 DEF Pairwise, t

\* A sequence after another.
LEMMA PairwiseConcat ==
    ASSUME NEW T, NEW R, NEW s \in Seq(T), NEW t \in Seq(T), Pairwise(s, R), Pairwise(t, R),
           \A x \in ToSet(s), y \in ToSet(t) : <<x, y>> \in R
    PROVE  Pairwise(s \o t, R)
<1> DEFINE w == s \o t
           n == Len(s)
<1>1. /\ DOMAIN w = 1..(n + Len(t)) /\ n \in Nat /\ Len(t) \in Nat
      /\ DOMAIN s = 1..n /\ DOMAIN t = 1..Len(t)
      /\ (\A i \in 1..n : w[i] = s[i]) /\ \A i \in 1..Len(t) : w[n + i] = t[i]
  OBVIOUS
<1> HIDE DEF w, n
<1>2. ASSUME NEW i \in DOMAIN w, NEW j \in DOMAIN w, i < j
      PROVE  <<w[i], w[j]>> \in R
  <2>0. \A k \in DOMAIN w : k \in 1..n \/ (k - n \in 1..Len(t) /\ n + (k - n) = k /\ k > n)
    BY <1>1
  <2>1. CASE j \in 1..n
    <3>1. i \in 1..n
      BY <1>1, <1>2, <2>1
    <3>2. <<s[i], s[j]>> \in R
      BY <1>1, <1>2, <2>1, <3>1 DEF Pairwise
    <3> QED
      BY <1>1, <2>1, <3>1, <3>2
  <2>2. CASE i \in 1..n /\ j - n \in 1..Len(t)
    <3>1. w[i] = s[i] /\ w[j] = t[j - n] /\ s[i] \in ToSet(s) /\ t[j - n] \in ToSet(t)
      <4>1. w[i] = s[i] /\ s[i] \in ToSet(s)
        BY <1>1, <2>2 DEF ToSet
      <4>2. w[j] = t[j - n]
        <5>1. w[n + (j - n)] = t[j - n]
          BY <1>1, <2>2
        <5>2. n + (j - n) = j
          BY <1>1, <2>2
        <5> QED
          BY <5>1, <5>2
      <4>3. t[j - n] \in ToSet(t)
        BY <1>1, <2>2 DEF ToSet
      <4> QED
        BY <4>1, <4>2, <4>3
    <3>2. <<s[i], t[j - n]>> \in R
      BY <3>1
    <3> QED
      BY <3>1, <3>2
  <2>3. CASE i - n \in 1..Len(t) /\ j - n \in 1..Len(t)
    <3>1. n + (j - n) = j /\ n + (i - n) = i /\ i - n < j - n
      BY <1>1, <1>2, <2>3
    <3>2. w[n + (j - n)] = t[j - n] /\ w[n + (i - n)] = t[i - n]
      BY <1>1, <2>3
    <3>3. <<t[i - n], t[j - n]>> \in R
      BY <1>1, <2>3, <3>1 DEF Pairwise
    <3> QED
      BY <3>1, <3>2, <3>3
  <2>4. j \in 1..n \/ (i \in 1..n /\ j - n \in 1..Len(t)) \/ (i - n \in 1..Len(t) /\ j - n \in 1..Len(t))
    <3>1. i \in 1..n \/ (i - n \in 1..Len(t) /\ i > n)
      BY <2>0
    <3>2. j \in 1..n \/ (j - n \in 1..Len(t) /\ j > n)
      BY <2>0
    <3> QED
      BY <3>1, <3>2
  <2> QED
    BY <2>1, <2>2, <2>3, <2>4
<1> QED
  BY <1>2 DEF Pairwise, w

\* What is chosen is in the same order.
LEMMA ChosenOrdered ==
    ASSUME NEW T, NEW S, NEW R, NEW s \in Seq(T), Pairwise(s, R)
    PROVE  Pairwise(Chosen(s, S), R)
<1> DEFINE p(n) == SubSeq(s, 1, n)
           I == {n \in Nat : n <= Len(s) => Pairwise(Chosen(p(n), S), R)}
<1>1. 0 \in I
  <2>1. p(0) = <<>>
    OBVIOUS
  <2>2. Chosen(<<>>, S) = <<>>
    BY ChosenEmpty
  <2>3. Pairwise(<<>>, R)
    BY DEF Pairwise
  <2> QED
    BY <2>1, <2>2, <2>3
<1>2. ASSUME NEW n \in Nat, n \in I PROVE n + 1 \in I
  <2> SUFFICES ASSUME n + 1 <= Len(s) PROVE Pairwise(Chosen(p(n + 1), S), R)
    OBVIOUS
  <2>1. p(n + 1) = Append(p(n), s[n + 1]) /\ p(n) \in Seq(T) /\ s[n + 1] \in T
    <3>1. n < Len(s)
      OBVIOUS
    <3> QED
      BY <3>1, OneMore
  <2>2. Len(p(n)) = n /\ \A i \in 1..n : p(n)[i] = s[i]
    OBVIOUS
  <2>3. Pairwise(Chosen(p(n), S), R)
    BY <1>2
  <2> DEFINE q == p(n)
             c == s[n + 1]
  <2>4. \A x \in ToSet(q) : <<x, c>> \in R
    <3> SUFFICES ASSUME NEW i \in DOMAIN q PROVE <<q[i], c>> \in R
      BY DEF ToSet
    <3>1. i \in 1..n /\ q[i] = s[i]
      BY <2>1, <2>2
    <3>2. i \in DOMAIN s /\ n + 1 \in DOMAIN s /\ i < n + 1
      BY <3>1
    <3> QED
      BY <3>1, <3>2 DEF Pairwise
  <2>5. q \in Seq(T) /\ c \in T /\ p(n + 1) = Append(q, c) /\ Pairwise(Chosen(q, S), R)
    BY <2>1, <2>3
  <2> HIDE DEF p, q, c
  <2>6. Chosen(p(n + 1), S) = IF c \in S THEN Append(Chosen(q, S), c) ELSE Chosen(q, S)
    <3>1. Chosen(Append(q, c), S) = IF c \in S THEN Append(Chosen(q, S), c) ELSE Chosen(q, S)
      BY <2>5, ChosenAppend
    <3> QED
      BY <2>5, <3>1
  <2>7. CASE c \in S
    <3>1. Chosen(q, S) \in Seq(T)
      <4>1. Chosen(q, S) \in Seq(S \cap T)
        BY <2>5, ChosenSeq
      <4> QED
        BY <4>1, SeqOfLarger
    <3>2. \A x \in ToSet(Chosen(q, S)) : <<x, c>> \in R
      <4>1. ToSet(Chosen(q, S)) = ToSet(q) \cap S
        BY <2>5, ChosenSet
      <4> QED
        BY <2>4, <4>1
    <3>3. Pairwise(Append(Chosen(q, S), c), R)
      BY <2>5, <3>1, <3>2, PairwiseAppend
    <3> QED
      BY <2>6, <2>7, <3>3
  <2> QED
    BY <2>5, <2>6, <2>7
<1>3. Nat \subseteq I
  <2> HIDE DEF I
  <2> QED
    BY <1>1, <1>2, Induction
<1>4. Len(s) \in Nat /\ p(Len(s)) = s
  OBVIOUS
<1>5. Pairwise(Chosen(p(Len(s)), S), R)
  BY <1>3, <1>4
<1> QED
  BY <1>4, <1>5

---------------------------------------------------------------------------
(***************************************************************************)
(* Picked.                                                                 *)
(***************************************************************************)

\* The places are places of the sequence, ascending.
LEMMA PlacesAscend ==
    ASSUME NEW T, NEW I, NEW s \in Seq(T)
    PROVE  /\ Places(s, I) \in Seq(I \cap DOMAIN s)
           /\ ToSet(Places(s, I)) = I \cap DOMAIN s
           /\ \A i, j \in DOMAIN Places(s, I) : i < j => Places(s, I)[i] < Places(s, I)[j]
<1> DEFINE d == [i \in DOMAIN s |-> i]
           R == {p \in Nat \X Nat : p[1] < p[2]}
<1>1. d \in Seq(DOMAIN s) /\ ToSet(d) = DOMAIN s
  <2>1. d \in Seq(DOMAIN s)
    OBVIOUS
  <2>2. ToSet(d) = DOMAIN s
    BY DEF ToSet
  <2> QED
    BY <2>1, <2>2
<1>2. Pairwise(d, R)
  <2>1. DOMAIN s \subseteq Nat
    OBVIOUS
  <2> QED
    BY <2>1 DEF Pairwise
<1>3. Places(s, I) = Chosen(d, I)
  BY DEF Places
<1> HIDE DEF d, R
<1>4. Chosen(d, I) \in Seq(I \cap DOMAIN s)
  BY <1>1, ChosenSeq
<1>5. ToSet(Chosen(d, I)) = I \cap DOMAIN s
  <2>1. ToSet(Chosen(d, I)) = ToSet(d) \cap I
    BY <1>1, ChosenSet
  <2> QED
    BY <1>1, <2>1
<1>6. Pairwise(Chosen(d, I), R)
  BY <1>1, <1>2, ChosenOrdered
<1>7. \A i, j \in DOMAIN Chosen(d, I) : i < j => Chosen(d, I)[i] < Chosen(d, I)[j]
  BY <1>6 DEF Pairwise, R
<1> QED
  BY <1>3, <1>4, <1>5, <1>7

\* x and y are at different places of those in D.
TwoPlaces(s, D, x, y) == \E k, l \in D : k # l /\ x = s[k] /\ y = s[l]

\* What is picked is what is at the places, which are different.
LEMMA PickedElements ==
    ASSUME NEW T, NEW I, NEW s \in Seq(T)
    PROVE  /\ Picked(s, I) \in Seq(T)
           /\ ToSet(Picked(s, I)) = {s[i] : i \in I \cap DOMAIN s}
           /\ \A i, j \in DOMAIN Picked(s, I) :
                i # j => TwoPlaces(s, I \cap DOMAIN s, Picked(s, I)[i], Picked(s, I)[j])
<1> DEFINE w == Places(s, I)
           q == Picked(s, I)
           D == I \cap DOMAIN s
<1>1. w \in Seq(D) /\ ToSet(w) = D /\ \A i, j \in DOMAIN w : i < j => w[i] < w[j]
  BY PlacesAscend
<1>2. q = [k \in DOMAIN w |-> s[w[k]]]
  BY DEF Picked
<1> HIDE DEF w, q
<1>3. DOMAIN w = 1..Len(w) /\ Len(w) \in Nat /\ \A k \in 1..Len(w) : w[k] \in D
  BY <1>1
<1>4. \A k \in D : s[k] \in T /\ k \in Nat
  OBVIOUS
<1> HIDE DEF D
<1>5. q \in Seq(T)
  <2>1. q \in [1..Len(w) -> T]
    BY <1>2, <1>3, <1>4
  <2> QED
    BY <1>3, <2>1
<1>6. ToSet(q) = {s[i] : i \in D}
  <2>1. ASSUME NEW x \in ToSet(q) PROVE x \in {s[i] : i \in D}
    BY <1>2, <1>3, <2>1 DEF ToSet
  <2>2. ASSUME NEW i \in D PROVE s[i] \in ToSet(q)
    <3>1. PICK k \in DOMAIN w : w[k] = i
      BY <1>1, <2>2 DEF ToSet
    <3>2. q[k] = s[i] /\ k \in DOMAIN q
      BY <1>2, <3>1
    <3> QED
      BY <3>2 DEF ToSet
  <2> QED
    BY <2>1, <2>2
<1>7. ASSUME NEW i \in DOMAIN q, NEW j \in DOMAIN q, i # j
      PROVE  TwoPlaces(s, D, q[i], q[j])
  <2>1. i \in DOMAIN w /\ j \in DOMAIN w /\ i \in Nat /\ j \in Nat
    BY <1>2, <1>3
  <2>2. w[i] \in D /\ w[j] \in D /\ q[i] = s[w[i]] /\ q[j] = s[w[j]]
    BY <1>2, <1>3, <2>1
  <2>3. w[i] # w[j]
    <3>1. i < j \/ j < i
      BY <1>7, <2>1
    <3>2. w[i] < w[j] \/ w[j] < w[i]
      BY <1>1, <2>1, <3>1
    <3> QED
      BY <1>4, <2>2, <3>2
  <2> QED
    BY <2>2, <2>3 DEF TwoPlaces
<1> QED
  BY <1>5, <1>6, <1>7 DEF q, D

---------------------------------------------------------------------------
(***************************************************************************)
(* Sorted.                                                                 *)
(***************************************************************************)

\* w has the elements of s, and x.
HasAlso(w, s, x) == ToSet(w) = ToSet(s) \cup {x}

\* So has what x is inserted in.
LEMMA InsertedElements ==
    ASSUME NEW T, NEW B, NEW s \in Seq(T), NEW x \in T
    PROVE  Inserted(s, x, B) \in Seq(T) /\ HasAlso(Inserted(s, x, B), s, x)
<1> DEFINE A == {y \in ToSet(s) : <<x, y>> \notin B}
           C == {y \in ToSet(s) : <<x, y>> \in B}
           a == Chosen(s, A)
           c == Chosen(s, C)
           b == <<x>>
<1>1. A \cup C = ToSet(s)
  OBVIOUS
<1>2. Inserted(s, x, B) = (a \o b) \o c
  BY DEF Inserted
<1>3. b \in Seq(T) /\ ToSet(b) = {x}
  BY DEF ToSet
<1> HIDE DEF A, C, b
<1>4. a \in Seq(T) /\ c \in Seq(T)
  <2>1. a \in Seq(A \cap T) /\ c \in Seq(C \cap T)
    BY ChosenSeq
  <2> HIDE DEF a, c
  <2> QED
    BY <2>1, SeqOfLarger
<1>5. ToSet(a) = ToSet(s) \cap A /\ ToSet(c) = ToSet(s) \cap C
  BY ChosenSet
<1> HIDE DEF a, c
<1>6. a \o b \in Seq(T) /\ ToSet(a \o b) = ToSet(a) \cup {x}
  BY <1>3, <1>4, ToSetConcat
<1> DEFINE ab == a \o b
<1>7. ab \in Seq(T) /\ ToSet(ab) = ToSet(a) \cup {x}
  BY <1>6
<1> HIDE DEF ab
<1>8. ab \o c \in Seq(T) /\ ToSet(ab \o c) = ToSet(ab) \cup ToSet(c)
  BY <1>4, <1>7, ToSetConcat
<1> QED
  BY <1>1, <1>2, <1>5, <1>7, <1>8 DEF ab, HasAlso

\* f is the recursive function of Sorted(s, B).
Sorts(s, B, f) ==
  f = [n \in 0..Len(s) |-> IF n = 0 THEN <<>> ELSE Inserted(f[n - 1], s[n], B)]

\* The steps f of a sort in T.
SortsIn(T, s, B, f) ==
  /\ f[0] = <<>> /\ Sorted(s, B) = f[Len(s)]
  /\ \A m \in 1..Len(s) : f[m] = Inserted(f[m - 1], s[m], B)
  /\ \A m \in 0..Len(s) : f[m] \in Seq(T)

\* Sorted is the last step.
LEMMA SortedSteps ==
    ASSUME NEW T, NEW B, NEW s \in Seq(T)
    PROVE  \E f : SortsIn(T, s, B, f)
<1> DEFINE A == Seq(T)
           G == [p \in A \X T |-> Inserted(p[1], p[2], B)]
           g == CHOOSE f : Sorts(s, B, f)
<1>1. \A a \in A, b \in T : Inserted(a, b, B) \in A
  BY InsertedElements
<1>2. \A a \in A, b \in T : G[<<a, b>>] = Inserted(a, b, B)
  OBVIOUS
<1>3. <<>> \in A
  OBVIOUS
<1> HIDE DEF A, G
<1>4. PICK f : FoldsIn(A, G, <<>>, s, f)
  BY <1>1, <1>2, <1>3, FoldInto
<1>5. (\A m \in 1..Len(s) : s[m] \in T) /\ Len(s) \in Nat
  OBVIOUS
<1>6. Sorts(s, B, f)
  <2>1. ASSUME NEW m \in 0..Len(s)
        PROVE  (IF m = 0 THEN <<>> ELSE G[<<f[m - 1], s[m]>>])
                 = (IF m = 0 THEN <<>> ELSE Inserted(f[m - 1], s[m], B))
    <3>1. CASE m # 0
      <4>1. m - 1 \in 0..Len(s) /\ s[m] \in T
        BY <1>5, <3>1
      <4>2. f[m - 1] \in A
        BY <1>4, <4>1 DEF FoldsIn
      <4> QED
        BY <1>2, <4>1, <4>2
    <3> QED
      BY <3>1
  <2> QED
    BY <1>4, <2>1 DEF FoldsIn, FoldsOver, Sorts
<1>7. Sorts(s, B, g)
  BY <1>6
<1>8. Sorted(s, B) = g[Len(s)]
  BY DEF Sorted, Sorts
<1> HIDE DEF g
<1>9. g[0] = <<>> /\ \A m \in 1..Len(s) : g[m] = Inserted(g[m - 1], s[m], B)
  BY <1>5, <1>7 DEF Sorts
<1>10. \A m \in 1..Len(s) : g[m - 1] \in A => g[m] \in A
  BY <1>1, <1>5, <1>9
<1>11. \A m \in 0..Len(s) : g[m] \in A
  BY <1>3, <1>5, <1>9, <1>10, StepsKeep
<1> QED
  BY <1>8, <1>9, <1>11 DEF SortsIn, A

\* The first n elements.
Firsts(s, n) == {s[i] : i \in 1..n}

\* They are those of the nth step of a sort.
LEMMA SortsElements ==
    ASSUME NEW T, NEW B, NEW s \in Seq(T), NEW f, SortsIn(T, s, B, f)
    PROVE  \A n \in 0..Len(s) : ToSet(f[n]) = Firsts(s, n)
<1> DEFINE I == {n \in Nat : n <= Len(s) => ToSet(f[n]) = Firsts(s, n)}
<1>1. 0 \in I
  <2>1. f[0] = <<>> /\ ToSet(<<>>) = {}
    BY DEF SortsIn, ToSet
  <2>2. 1..0 = {}
    OBVIOUS
  <2>3. {s[i] : i \in 1..0} = {}
    BY <2>2
  <2> QED
    BY <2>1, <2>3 DEF Firsts
<1>2. ASSUME NEW n \in Nat, n \in I PROVE n + 1 \in I
  <2> SUFFICES ASSUME n + 1 <= Len(s) PROVE ToSet(f[n + 1]) = Firsts(s, n + 1)
    OBVIOUS
  <2>1. n + 1 \in 1..Len(s) /\ (n + 1) - 1 = n /\ n \in 0..Len(s) /\ s[n + 1] \in T
    OBVIOUS
  <2>2. f[n + 1] = Inserted(f[n], s[n + 1], B) /\ f[n] \in Seq(T)
    BY <2>1 DEF SortsIn
  <2>3. ToSet(f[n + 1]) = ToSet(f[n]) \cup {s[n + 1]}
    <3> DEFINE q == f[n]
               x == s[n + 1]
    <3>1. q \in Seq(T) /\ x \in T
      BY <2>1, <2>2
    <3> HIDE DEF q, x
    <3>2. HasAlso(Inserted(q, x, B), q, x)
      BY <3>1, InsertedElements
    <3> QED
      BY <2>2, <3>2 DEF HasAlso, q, x
  <2>4. 1..(n + 1) = (1..n) \cup {n + 1}
    OBVIOUS
  <2>5. ToSet(f[n]) = Firsts(s, n)
    BY <1>2, <2>1
  <2> QED
    BY <2>3, <2>4, <2>5 DEF Firsts
<1>3. Nat \subseteq I
  <2> HIDE DEF I
  <2> QED
    BY <1>1, <1>2, Induction
<1> QED
  BY <1>3

\* A sequence has the same elements after a sort.
LEMMA SortedElements ==
    ASSUME NEW T, NEW B, NEW s \in Seq(T)
    PROVE  Sorted(s, B) \in Seq(T) /\ ToSet(Sorted(s, B)) = ToSet(s)
<1>1. PICK f : SortsIn(T, s, B, f)
  BY SortedSteps
<1>2. \A n \in 0..Len(s) : ToSet(f[n]) = Firsts(s, n)
  BY <1>1, SortsElements
<1>3. Len(s) \in 0..Len(s) /\ DOMAIN s = 1..Len(s)
  OBVIOUS
<1>4. Sorted(s, B) = f[Len(s)] /\ f[Len(s)] \in Seq(T)
  BY <1>1, <1>3 DEF SortsIn
<1>5. ToSet(f[Len(s)]) = Firsts(s, Len(s))
  BY <1>2, <1>3
<1>6. Firsts(s, Len(s)) = ToSet(s)
  BY <1>3 DEF Firsts, ToSet
<1> QED
  BY <1>4, <1>5, <1>6

\* What is inserted in an ordered sequence leaves it ordered, if what it is put
\* behind and what it is put before may be so.
LEMMA InsertedOrdered ==
    ASSUME NEW T, NEW B, NEW R, NEW s \in Seq(T), NEW x \in T, Pairwise(s, R),
           \A a \in ToSet(s) : <<x, a>> \notin B => <<a, x>> \in R,
           \A b \in ToSet(s) : <<x, b>> \in B => <<x, b>> \in R,
           \A a, b \in ToSet(s) : <<x, a>> \notin B /\ <<x, b>> \in B => <<a, b>> \in R
    PROVE  Pairwise(Inserted(s, x, B), R)
<1> DEFINE A == {y \in ToSet(s) : <<x, y>> \notin B}
           C == {y \in ToSet(s) : <<x, y>> \in B}
           a == Chosen(s, A)
           c == Chosen(s, C)
           b == <<x>>
<1>1. /\ \A y \in A : <<y, x>> \in R
      /\ \A z \in C : <<x, z>> \in R
      /\ \A y \in A, z \in C : <<y, z>> \in R
  OBVIOUS
<1>2. Inserted(s, x, B) = (a \o b) \o c
  BY DEF Inserted
<1>3. b \in Seq(T) /\ ToSet(b) = {x} /\ Pairwise(b, R)
  BY DEF ToSet, Pairwise
<1> HIDE DEF A, C, b
<1>4. a \in Seq(T) /\ c \in Seq(T)
  <2>1. a \in Seq(A \cap T) /\ c \in Seq(C \cap T)
    BY ChosenSeq
  <2> HIDE DEF a, c
  <2> QED
    BY <2>1, SeqOfLarger
<1>5. ToSet(a) \subseteq A /\ ToSet(c) \subseteq C
  BY ChosenSet
<1>6. Pairwise(a, R) /\ Pairwise(c, R)
  BY ChosenOrdered
<1> HIDE DEF a, c
<1> DEFINE ab == a \o b
<1>7. ab \in Seq(T) /\ ToSet(ab) = ToSet(a) \cup {x}
  BY <1>3, <1>4, ToSetConcat
<1>8. Pairwise(ab, R)
  BY <1>1, <1>3, <1>4, <1>5, <1>6, PairwiseConcat
<1> HIDE DEF ab
<1>9. Pairwise(ab \o c, R)
  <2>1. \A y \in ToSet(ab), z \in ToSet(c) : <<y, z>> \in R
    BY <1>1, <1>5, <1>7
  <2> QED
    BY <1>4, <1>6, <1>7, <1>8, <2>1, PairwiseConcat
<1> QED
  BY <1>2, <1>9 DEF ab

\* B is a strict order of T.
StrictOrder(B, T) ==
  /\ \A x, y \in T : <<x, y>> \in B => <<y, x>> \notin B
  /\ \A x, y, z \in T : <<x, y>> \in B /\ <<y, z>> \in B => <<x, z>> \in B

\* After a sort by a strict order none comes behind one it is before.
LEMMA SortedOrder ==
    ASSUME NEW T, NEW B, NEW s \in Seq(T), StrictOrder(B, T)
    PROVE  \A i, j \in DOMAIN Sorted(s, B) : i < j => <<Sorted(s, B)[j], Sorted(s, B)[i]>> \notin B
<1> DEFINE R == {p \in T \X T : <<p[2], p[1]>> \notin B}
<1>0. \A x, y \in T : <<x, y>> \in R <=> <<y, x>> \notin B
  OBVIOUS
<1> HIDE DEF R
<1>1. PICK f : SortsIn(T, s, B, f)
  BY SortedSteps
<1> DEFINE I == {n \in Nat : n <= Len(s) => Pairwise(f[n], R)}
<1>2. 0 \in I
  BY <1>1 DEF SortsIn, Pairwise
<1>3. ASSUME NEW n \in Nat, n \in I PROVE n + 1 \in I
  <2> SUFFICES ASSUME n + 1 <= Len(s) PROVE Pairwise(f[n + 1], R)
    OBVIOUS
  <2>1. n + 1 \in 1..Len(s) /\ (n + 1) - 1 = n /\ n \in 0..Len(s) /\ s[n + 1] \in T
    OBVIOUS
  <2> DEFINE x == s[n + 1]
             q == f[n]
  <2>2. f[n + 1] = Inserted(q, x, B) /\ q \in Seq(T) /\ x \in T /\ Pairwise(q, R)
    BY <1>1, <1>3, <2>1 DEF SortsIn
  <2> HIDE DEF x, q
  <2>3. ToSet(q) \subseteq T
    BY <2>2 DEF ToSet
  <2>4. /\ \A a \in ToSet(q) : <<x, a>> \notin B => <<a, x>> \in R
        /\ \A b \in ToSet(q) : <<x, b>> \in B => <<x, b>> \in R
        /\ \A a, b \in ToSet(q) : <<x, a>> \notin B /\ <<x, b>> \in B => <<a, b>> \in R
    <3>1. \A a \in T : <<x, a>> \notin B => <<a, x>> \in R
      BY <1>0, <2>2
    <3>2. \A b \in T : <<x, b>> \in B => <<x, b>> \in R
      BY <1>0, <2>2 DEF StrictOrder
    <3>3. ASSUME NEW a \in T, NEW b \in T, <<x, a>> \notin B, <<x, b>> \in B PROVE <<a, b>> \in R
      BY <1>0, <2>2, <3>3 DEF StrictOrder
    <3> QED
      BY <2>3, <3>1, <3>2, <3>3
  <2>5. Pairwise(Inserted(q, x, B), R)
    BY <2>2, <2>4, InsertedOrdered
  <2> QED
    BY <2>2, <2>5
<1>4. Nat \subseteq I
  <2> HIDE DEF I
  <2> QED
    BY <1>2, <1>3, Induction
<1>5. Pairwise(f[Len(s)], R)
  BY <1>4
<1>6. Sorted(s, B) = f[Len(s)] /\ f[Len(s)] \in Seq(T)
  BY <1>1 DEF SortsIn
<1> DEFINE w == Sorted(s, B)
<1>7. Pairwise(w, R) /\ w \in Seq(T)
  BY <1>5, <1>6
<1> HIDE DEF w
<1>8. \A i \in DOMAIN w : w[i] \in T
  BY <1>7
<1>9. \A i, j \in DOMAIN w : i < j => <<w[j], w[i]>> \notin B
  BY <1>0, <1>7, <1>8 DEF Pairwise
<1> QED
  BY <1>9 DEF w

\* What comes once in a sequence comes once in it after a sort.
LEMMA SortedOnce ==
    ASSUME NEW T, NEW B, NEW s \in Seq(T), \A i, j \in DOMAIN s : s[i] = s[j] => i = j
    PROVE  \A i, j \in DOMAIN Sorted(s, B) : Sorted(s, B)[i] = Sorted(s, B)[j] => i = j
<1> DEFINE R == {p \in T \X T : p[1] # p[2]}
<1>0. \A x, y \in T : <<x, y>> \in R <=> x # y
  OBVIOUS
<1> HIDE DEF R
<1>1. PICK f : SortsIn(T, s, B, f)
  BY SortedSteps
<1>2. \A n \in 0..Len(s) : ToSet(f[n]) = Firsts(s, n)
  BY <1>1, SortsElements
<1> DEFINE I == {n \in Nat : n <= Len(s) => Pairwise(f[n], R)}
<1>3. 0 \in I
  BY <1>1 DEF SortsIn, Pairwise
<1>4. ASSUME NEW n \in Nat, n \in I PROVE n + 1 \in I
  <2> SUFFICES ASSUME n + 1 <= Len(s) PROVE Pairwise(f[n + 1], R)
    OBVIOUS
  <2>1. n + 1 \in 1..Len(s) /\ (n + 1) - 1 = n /\ n \in 0..Len(s) /\ s[n + 1] \in T
    OBVIOUS
  <2> DEFINE x == s[n + 1]
             q == f[n]
  <2>2. f[n + 1] = Inserted(q, x, B) /\ q \in Seq(T) /\ x \in T /\ Pairwise(q, R)
    BY <1>1, <1>4, <2>1 DEF SortsIn
  <2>3. ToSet(q) = Firsts(s, n)
    BY <1>2, <2>1
  <2>4. x \notin ToSet(q)
    <3>1. ASSUME NEW i \in 1..n PROVE s[i] # s[n + 1]
      <4>1. i \in DOMAIN s /\ n + 1 \in DOMAIN s /\ i # n + 1
        BY <2>1
      <4> QED
        BY <4>1
    <3> QED
      BY <2>3, <3>1 DEF Firsts
  <2> HIDE DEF x, q
  <2>5. ToSet(q) \subseteq T
    BY <2>2 DEF ToSet
  <2>6. /\ \A a \in ToSet(q) : <<x, a>> \notin B => <<a, x>> \in R
        /\ \A b \in ToSet(q) : <<x, b>> \in B => <<x, b>> \in R
        /\ \A a, b \in ToSet(q) : <<x, a>> \notin B /\ <<x, b>> \in B => <<a, b>> \in R
    <3>1. \A a \in ToSet(q) : <<a, x>> \in R /\ <<x, a>> \in R
      BY <1>0, <2>2, <2>4, <2>5
    <3>2. ASSUME NEW a \in ToSet(q), NEW b \in ToSet(q), <<x, a>> \notin B, <<x, b>> \in B
          PROVE  <<a, b>> \in R
      <4>1. a # b
        BY <3>2
      <4> QED
        BY <1>0, <2>5, <4>1
    <3> QED
      BY <3>1, <3>2
  <2>7. Pairwise(Inserted(q, x, B), R)
    BY <2>2, <2>6, InsertedOrdered
  <2> QED
    BY <2>2, <2>7
<1>5. Nat \subseteq I
  <2> HIDE DEF I
  <2> QED
    BY <1>3, <1>4, Induction
<1>6. Pairwise(f[Len(s)], R)
  BY <1>5
<1>7. Sorted(s, B) = f[Len(s)] /\ f[Len(s)] \in Seq(T)
  BY <1>1 DEF SortsIn
<1> DEFINE w == Sorted(s, B)
<1>8. Pairwise(w, R) /\ w \in Seq(T)
  BY <1>6, <1>7
<1> HIDE DEF w
<1>9. \A i \in DOMAIN w : w[i] \in T /\ i \in Nat
  BY <1>8
<1>10. ASSUME NEW i \in DOMAIN w, NEW j \in DOMAIN w, w[i] = w[j] PROVE i = j
  <2>1. ~ (i < j) /\ ~ (j < i)
    BY <1>0, <1>8, <1>9, <1>10 DEF Pairwise
  <2> QED
    BY <1>9, <2>1
<1> QED
  BY <1>10 DEF w

---------------------------------------------------------------------------
(***************************************************************************)
(* Sets in sequence.                                                       *)
(***************************************************************************)

\* SetToSeq lists the elements of a set, each once.
LEMMA SetToSeqLists ==
    ASSUME NEW S, IsFiniteSet(S)
    PROVE  /\ SetToSeq(S) \in Seq(S) /\ ToSet(SetToSeq(S)) = S
           /\ \A i, j \in DOMAIN SetToSeq(S) : SetToSeq(S)[i] = SetToSeq(S)[j] => i = j
<1> DEFINE n == Cardinality(S)
           D == 1..n
           w == SetToSeq(S)
<1>1. n \in Nat /\ ExistsBijection(D, S)
  BY FS_CardinalityType
<1>2. IsFiniteSet(D) /\ Cardinality(D) = Cardinality(S)
  <2>1. 1 \in Int /\ n \in Int /\ (IF 1 > n THEN 0 ELSE n - 1 + 1) = n
    BY <1>1
  <2> HIDE DEF n
  <2>2. IsFiniteSet(1..n) /\ Cardinality(1..n) = n
    BY <2>1, FS_Interval
  <2> QED
    BY <2>2 DEF n
<1>3. PICK g \in [D -> S] : IsInjective(g)
  BY <1>1 DEF ExistsBijection, Bijection, Injection
<1>4. w \in [D -> S] /\ IsInjective(w)
  BY <1>3 DEF SetToSeq
<1> HIDE DEF w, D
<1>5. w \in Surjection(D, S)
  <2>1. w \in Injection(D, S)
    BY <1>4 DEF Injection
  <2> QED
    BY <1>2, <2>1, FS_Injection
<1>6. \A y \in S : \E k \in D : w[k] = y
  BY <1>5 DEF Surjection
<1>7. w \in Seq(S) /\ DOMAIN w = D
  BY <1>1, <1>4 DEF D
<1>8. ToSet(w) = S
  BY <1>4, <1>6, <1>7 DEF ToSet
<1> QED
  BY <1>4, <1>7, <1>8 DEF w, IsInjective

\* The elements of the first n sequences.
Together(s, n) == UNION {ToSet(s[i]) : i \in 1..n}

\* The elements of joined sequences are theirs.
LEMMA JoinedElements ==
    ASSUME NEW A, NEW s \in Seq(Seq(A))
    PROVE  ToSet(Joined(s)) = Together(s, Len(s))
<1> DEFINE p(n) == SubSeq(s, 1, n)
           I == {n \in Nat : n <= Len(s) => ToSet(Joined(p(n))) = Together(s, n)}
<1>1. 0 \in I
  <2>1. p(0) = <<>> /\ ToSet(<<>>) = {}
    BY DEF ToSet
  <2>2. 1..0 = {}
    OBVIOUS
  <2>3. Together(s, 0) = {}
    BY <2>2 DEF Together
  <2> QED
    BY <2>1, <2>3, JoinedEmpty
<1>2. ASSUME NEW n \in Nat, n \in I PROVE n + 1 \in I
  <2> SUFFICES ASSUME n + 1 <= Len(s) PROVE ToSet(Joined(p(n + 1))) = Together(s, n + 1)
    OBVIOUS
  <2> DEFINE T == Seq(A)
             q == p(n)
             x == s[n + 1]
  <2>1. s \in Seq(T) /\ n < Len(s)
    OBVIOUS
  <2> HIDE DEF T
  <2>2. p(n + 1) = Append(q, x) /\ q \in Seq(T) /\ x \in T
    BY <2>1, OneMore
  <2>3. ToSet(Joined(q)) = Together(s, n)
    BY <1>2
  <2>4. Together(s, n + 1) = Together(s, n) \cup ToSet(x)
    <3>1. 1..(n + 1) = (1..n) \cup {n + 1}
      OBVIOUS
    <3> QED
      BY <3>1 DEF Together
  <2> HIDE DEF q, x
  <2>5. Joined(Append(q, x)) = Joined(q) \o x
    BY <2>2, JoinedAppend
  <2>6. Joined(q) \in Seq(A) /\ x \in Seq(A)
    BY <2>2, JoinedSeq DEF T
  <2>7. ToSet(Joined(q) \o x) = ToSet(Joined(q)) \cup ToSet(x)
    BY <2>6, ToSetConcat
  <2> QED
    BY <2>2, <2>3, <2>4, <2>5, <2>7
<1>3. Nat \subseteq I
  <2> HIDE DEF I
  <2> QED
    BY <1>1, <1>2, Induction
<1>4. Len(s) \in Nat /\ p(Len(s)) = s
  OBVIOUS
<1>5. ToSet(Joined(p(Len(s)))) = Together(s, Len(s))
  BY <1>3, <1>4
<1> HIDE DEF p
<1> QED
  BY <1>4, <1>5
=============================================================================
