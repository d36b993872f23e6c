------------------------ MODULE PromptContextProofs ------------------------
(***************************************************************************)
(* Proofs about PromptContext, for any knowledge box and any requests:     *)
(* what the strategies do leaves the user's own texts at the front, what   *)
(* is sent is the beginning of what was built, as long as the limit        *)
(* allows, the text of a retrieved paragraph stays in what is built, and   *)
(* no text is there twice.                                                 *)
(***************************************************************************)
EXTENDS PromptContext, SequenceLemmas

---------------------------------------------------------------------------
(***************************************************************************)
(* Texts and blocks.                                                       *)
(***************************************************************************)
\* What a text is made of.
Piece == AllParagraphs \cup {User(i) : i \in Nat} \cup {Metadata}
Text == Seq(Piece)

\* The ids of the blocks of the knowledge box.
FoundId == {Par(p) : p \in AllParagraphs} \cup {Whole(f) : f \in Fields}
             \cup {Attachment(f) : f \in Fields}

\* What a context is made of, and the part of it that is not the user's.
BlockId == FoundId \cup {User(i) : i \in Nat}
Block == [id : BlockId, text : Text]
Found == [id : FoundId, text : Text]

\* The block of the user's i-th text.
UserBlock(i) == [id |-> User(i), text |-> <<User(i)>>]

\* The contexts that begin with n texts of the user.
UserFirst(n) == {c \in Seq(Block) : n <= Len(c) /\ \A i \in 1..n : c[i] = UserBlock(i)}

\* The steps of build.
StepNames ==
  {"default", "full_resource", "hierarchy", "neighbouring", "extension", "conversation", "metadata",
   "images", "cap"}

\* No two blocks have the same id.
OneEach(c) == \A i, j \in DOMAIN c : c[i].id = c[j].id => i = j

\* "cap" can only be the last of what is left to do.
CapLast == {s \in Seq(StepNames) : \A i \in DOMAIN s : s[i] = "cap" => i = Len(s)}

\* A block of the knowledge box is not one of the user.
LEMMA FoundIsBlock ==
    /\ \A b \in Found : b \in Block /\ b.id[1] # "user"
    /\ \A i : User(i)[1] = "user"
<1>1. \A x \in FoundId : x[1] # "user"
  BY DEF FoundId, Par, Whole, Attachment
<1> QED
  BY <1>1 DEF Found, Block, BlockId, User

\* A text of the user is a block.
LEMMA UserBlockIsBlock == \A i \in Nat : UserBlock(i) \in Block
<1> SUFFICES ASSUME NEW i \in Nat PROVE UserBlock(i) \in Block
  OBVIOUS
<1>1. User(i) \in Piece /\ User(i) \in BlockId
  BY DEF Piece, BlockId
<1>2. <<User(i)>> \in Text
  BY <1>1 DEF Text
<1> QED
  BY <1>1, <1>2 DEF UserBlock, Block

\* Put keeps the user's texts in front.
LEMMA PutKeeps ==
    ASSUME NEW n \in Nat, NEW c \in UserFirst(n), NEW b \in Found
    PROVE  Put(c, b.id, b.text) \in UserFirst(n)
<1>1. /\ c \in Seq(Block) /\ n <= Len(c) /\ \A i \in 1..n : c[i] = UserBlock(i)
      /\ b \in Block /\ b.id[1] # "user" /\ b.id \in BlockId /\ b.text \in Text
  BY FoundIsBlock DEF UserFirst, Block
<1>2. \A i \in 1..n : c[i].id # b.id
  <2>1. \A i : UserBlock(i).id[1] = "user"
    BY FoundIsBlock DEF UserBlock
  <2> QED
    BY <1>1, <2>1
<1>3. CASE b.id \in Ids(c)
  <2> DEFINE d == [i \in DOMAIN c |-> IF c[i].id = b.id THEN [c[i] EXCEPT !.text = b.text] ELSE c[i]]
  <2>1. ASSUME NEW i \in DOMAIN c
        PROVE  c[i] \in Block /\ [c[i] EXCEPT !.text = b.text] \in Block
    <3>1. c[i] \in Block
      BY <1>1
    <3>2. c[i] \in [id : BlockId, text : Text]
      BY <3>1 DEF Block
    <3> QED
      BY <1>1, <3>1, <3>2 DEF Block
  <2>2. d \in Seq(Block) /\ Len(d) = Len(c)
    BY <1>1, <2>1
  <2>3. \A i \in 1..n : d[i] = c[i]
    BY <1>1, <1>2
  <2> HIDE DEF d
  <2>4. d \in UserFirst(n)
    BY <1>1, <2>2, <2>3 DEF UserFirst
  <2> QED
    BY <1>3, <2>4 DEF Put, d
<1>4. CASE b.id \notin Ids(c)
  <2> DEFINE e == [id |-> b.id, text |-> b.text]
             d == Append(c, e)
  <2>1. e \in Block
    BY <1>1 DEF Block
  <2> HIDE DEF e
  <2>2. d \in Seq(Block) /\ Len(d) = Len(c) + 1 /\ \A i \in 1..Len(c) : d[i] = c[i]
    BY <1>1, <2>1
  <2> HIDE DEF d
  <2>3. d \in UserFirst(n)
    BY <1>1, <2>2 DEF UserFirst
  <2> QED
    BY <1>4, <2>3 DEF Put, d, e
<1> QED
  BY <1>3, <1>4

\* The recursive function of PutAll(c, bs).
Puts(c, bs, f) ==
  f = [n \in 0..Len(bs) |-> IF n = 0 THEN c ELSE Put(f[n - 1], bs[n].id, bs[n].text)]

\* The blocks of a context have an id and a text.
LEMMA BlockParts == \A b \in Block : b = [id |-> b.id, text |-> b.text]
BY DEF Block

\* The ids of a context are those of its blocks.
LEMMA IdsOfBlocks ==
    ASSUME NEW G, NEW c \in Seq(G)
    PROVE  Ids(c) = {b.id : b \in ToSet(c)}
BY DEF Ids, ToSet

\* Put leaves the other blocks as they are, and the ids different if they are.
LEMMA PutSet ==
    ASSUME NEW G, NEW c \in Seq(G), NEW b \in G, \A x \in G : x = [id |-> x.id, text |-> x.text]
    PROVE  /\ Put(c, b.id, b.text) \in Seq(G)
           /\ ToSet(Put(c, b.id, b.text)) = {x \in ToSet(c) : x.id # b.id} \cup {b}
           /\ Ids(Put(c, b.id, b.text)) = Ids(c) \cup {b.id}
           /\ OneEach(c) => OneEach(Put(c, b.id, b.text))
<1> DEFINE d == [i \in DOMAIN c |-> IF c[i].id = b.id THEN [c[i] EXCEPT !.text = b.text] ELSE c[i]]
           e == Append(c, [id |-> b.id, text |-> b.text])
<1>1. b = [id |-> b.id, text |-> b.text]
  OBVIOUS
<1>2. ASSUME NEW i \in DOMAIN c
      PROVE  c[i] \in G /\ (c[i].id = b.id => [c[i] EXCEPT !.text = b.text] = b)
  <2>1. c[i] \in G
    OBVIOUS
  <2>2. c[i] = [id |-> c[i].id, text |-> c[i].text]
    BY <2>1
  <2> QED
    BY <1>1, <2>1, <2>2
<1>3. CASE b.id \in Ids(c)
  <2>1. Put(c, b.id, b.text) = d
    BY <1>3 DEF Put
  <2>2. \A i \in DOMAIN c : /\ d[i] \in G /\ d[i].id = c[i].id
                            /\ d[i] = IF c[i].id = b.id THEN b ELSE c[i]
    BY <1>2
  <2>3. d \in Seq(G) /\ DOMAIN d = DOMAIN c
    BY <2>2
  <2> HIDE DEF d
  <2>4. Ids(d) = Ids(c)
    BY <2>2, <2>3 DEF Ids
  <2>5. PICK k \in DOMAIN c : c[k].id = b.id
    BY <1>3 DEF Ids
  <2>6. ToSet(d) = {x \in ToSet(c) : x.id # b.id} \cup {b}
    <3>1. ASSUME NEW x \in ToSet(d) PROVE x \in {y \in ToSet(c) : y.id # b.id} \cup {b}
      <4>1. PICK i \in DOMAIN c : x = d[i]
        BY <2>3 DEF ToSet
      <4> QED
        BY <2>2, <4>1 DEF ToSet
    <3>2. ASSUME NEW x \in ToSet(c), x.id # b.id PROVE x \in ToSet(d)
      <4>1. PICK i \in DOMAIN c : x = c[i]
        BY DEF ToSet
      <4>2. x = d[i]
        BY <2>2, <3>2, <4>1
      <4> QED
        BY <2>3, <4>2 DEF ToSet
    <3>3. b \in ToSet(d)
      <4>1. d[k] = b
        BY <2>2, <2>5
      <4> QED
        BY <2>3, <4>1 DEF ToSet
    <3> QED
      BY <3>1, <3>2, <3>3
  <2>7. OneEach(c) => OneEach(d)
    BY <2>2, <2>3 DEF OneEach
  <2> QED
    BY <1>3, <2>1, <2>3, <2>4, <2>6, <2>7
<1>4. CASE b.id \notin Ids(c)
  <2>1. Put(c, b.id, b.text) = e
    BY <1>4 DEF Put
  <2>2. e = Append(c, b)
    BY <1>1
  <2> HIDE DEF e
  <2>3. /\ e \in Seq(G) /\ DOMAIN e = 1..(Len(c) + 1) /\ DOMAIN c = 1..Len(c) /\ Len(c) \in Nat
        /\ e[Len(c) + 1] = b /\ \A i \in 1..Len(c) : e[i] = c[i]
    BY <2>2
  <2>4. ToSet(e) = ToSet(c) \cup {b}
    BY <2>2, ToSetAppend
  <2>5. Ids(e) = Ids(c) \cup {b.id}
    BY <2>3, <2>4, IdsOfBlocks
  <2>6. \A x \in ToSet(c) : x.id # b.id
    BY <1>4, IdsOfBlocks
  <2>7. ASSUME OneEach(c) PROVE OneEach(e)
    <3> SUFFICES ASSUME NEW i \in DOMAIN e, NEW j \in DOMAIN e, e[i].id = e[j].id PROVE i = j
      BY DEF OneEach
    <3>1. (i \in 1..Len(c) \/ i = Len(c) + 1) /\ (j \in 1..Len(c) \/ j = Len(c) + 1)
      BY <2>3
    <3>2. \A k \in 1..Len(c) : e[k].id # b.id
      BY <2>3, <2>6 DEF ToSet
    <3>3. CASE i \in 1..Len(c) /\ j \in 1..Len(c)
      BY <2>3, <2>7, <3>3 DEF OneEach
    <3> QED
      BY <2>3, <3>1, <3>2, <3>3
  <2> QED
    BY <2>1, <2>3, <2>4, <2>5, <2>6, <2>7
<1> QED
  BY <1>3, <1>4

\* The contexts f, all in A, between c and PutAll(c, bs).
PutsIn(A, c, bs, f) ==
  /\ f[0] = c /\ PutAll(c, bs) = f[Len(bs)]
  /\ \A m \in 1..Len(bs) : f[m] = Put(f[m - 1], bs[m].id, bs[m].text)
  /\ \A m \in 0..Len(bs) : f[m] \in A

\* PutAll is the last value of a function that puts one block after the other.
LEMMA PutAllSteps ==
    ASSUME NEW A, NEW B, NEW c \in A, NEW bs \in Seq(B),
           \A a \in A, b \in B : Put(a, b.id, b.text) \in A
    PROVE  \E f : PutsIn(A, c, bs, f)
<1> DEFINE G == [p \in A \X B |-> Put(p[1], p[2].id, p[2].text)]
           g == CHOOSE f : Puts(c, bs, f)
<1>1. \A a \in A, b \in B : G[<<a, b>>] = Put(a, b.id, b.text)
  OBVIOUS
<1> HIDE DEF G
<1>2. PICK f : FoldsOver(G, c, bs, f)
  BY FoldExists
<1>3. (\A m \in 1..Len(bs) : bs[m] \in B) /\ Len(bs) \in Nat
  OBVIOUS
<1>4. \A m \in 0..Len(bs) : f[m] \in A
  <2>1. f[0] = c /\ \A m \in 1..Len(bs) : f[m] = G[<<f[m - 1], bs[m]>>]
    <3>1. \A m \in 0..Len(bs) : f[m] = IF m = 0 THEN c ELSE G[<<f[m - 1], bs[m]>>]
      BY <1>2 DEF FoldsOver
    <3>2. 0 \in 0..Len(bs) /\ \A m \in 1..Len(bs) : m \in 0..Len(bs) /\ m # 0
      OBVIOUS
    <3> QED
      BY <3>1, <3>2
  <2>2. ASSUME NEW m \in 1..Len(bs), f[m - 1] \in A PROVE f[m] \in A
    <3>1. Put(f[m - 1], bs[m].id, bs[m].text) \in A
      BY <1>3, <2>2
    <3>2. G[<<f[m - 1], bs[m]>>] = Put(f[m - 1], bs[m].id, bs[m].text)
      BY <1>1, <1>3, <2>2
    <3> QED
      BY <2>1, <3>1, <3>2
  <2> QED
    BY <1>3, <2>1, <2>2, StepsKeep
<1>5. Puts(c, bs, f)
  <2>1. ASSUME NEW m \in 0..Len(bs)
        PROVE  (IF m = 0 THEN c ELSE G[<<f[m - 1], bs[m]>>])
                 = (IF m = 0 THEN c ELSE Put(f[m - 1], bs[m].id, bs[m].text))
    BY <1>1, <1>3, <1>4
  <2> QED
    BY <1>2, <2>1 DEF FoldsOver, Puts
<1>6. Puts(c, bs, g)
  BY <1>5
<1>7. PutAll(c, bs) = g[Len(bs)]
  BY DEF PutAll, Puts
<1> HIDE DEF g
<1>8. g[0] = c /\ \A m \in 1..Len(bs) : g[m] = Put(g[m - 1], bs[m].id, bs[m].text)
  BY <1>3, <1>6 DEF Puts
<1>9. \A m \in 1..Len(bs) : g[m - 1] \in A => g[m] \in A
  BY <1>3, <1>8
<1>10. \A m \in 0..Len(bs) : g[m] \in A
  BY <1>3, <1>8, <1>9, StepsKeep
<1> QED
  BY <1>7, <1>8, <1>10 DEF PutsIn

\* What each block put keeps is kept.
LEMMA PutAllStays ==
    ASSUME NEW A, NEW B, NEW c \in A, NEW bs \in Seq(B),
           \A a \in A, b \in B : Put(a, b.id, b.text) \in A
    PROVE  PutAll(c, bs) \in A
<1>1. Len(bs) \in 0..Len(bs)
  OBVIOUS
<1>2. PICK f : PutsIn(A, c, bs, f)
  BY PutAllSteps
<1> QED
  BY <1>1, <1>2 DEF PutsIn

\* The user's texts in front are.
LEMMA PutAllKeeps ==
    ASSUME NEW n \in Nat, NEW c \in UserFirst(n), NEW bs \in Seq(Found)
    PROVE  PutAll(c, bs) \in UserFirst(n)
<1>1. \A a \in UserFirst(n), b \in Found : Put(a, b.id, b.text) \in UserFirst(n)
  BY PutKeeps
<1> QED
  BY <1>1, PutAllStays

\* Blocks of a kind stay of that kind, those put are there, and the ids stay different.
LEMMA PutAllBlocks ==
    ASSUME NEW G, G \subseteq Block, NEW c \in Seq(G), NEW bs \in Seq(G)
    PROVE  /\ PutAll(c, bs) \in Seq(G)
           /\ Ids(PutAll(c, bs)) = Ids(c) \cup Ids(bs)
           /\ OneEach(c) => OneEach(PutAll(c, bs))
<1>1. \A x \in G : x = [id |-> x.id, text |-> x.text]
  BY BlockParts
<1>2. ASSUME NEW a \in Seq(G), NEW b \in G
      PROVE  /\ Put(a, b.id, b.text) \in Seq(G)
             /\ Ids(Put(a, b.id, b.text)) = Ids(a) \cup {b.id}
             /\ OneEach(a) => OneEach(Put(a, b.id, b.text))
  BY <1>1, PutSet
<1>3. PICK f : PutsIn(Seq(G), c, bs, f)
  BY <1>2, PutAllSteps
<1>4. /\ f[0] = c /\ PutAll(c, bs) = f[Len(bs)]
      /\ \A m \in 1..Len(bs) : f[m] = Put(f[m - 1], bs[m].id, bs[m].text)
      /\ \A m \in 0..Len(bs) : f[m] \in Seq(G)
  BY <1>3 DEF PutsIn
<1> DEFINE I == {m \in Nat : m <= Len(bs) =>
                   /\ Ids(f[m]) = Ids(c) \cup {bs[k].id : k \in 1..m}
                   /\ OneEach(c) => OneEach(f[m])}
<1>5. 0 \in I
  <2>1. 1..0 = {}
    OBVIOUS
  <2> QED
    BY <1>4, <2>1
<1>6. ASSUME NEW m \in Nat, m \in I PROVE m + 1 \in I
  <2> SUFFICES ASSUME m + 1 <= Len(bs)
               PROVE  /\ Ids(f[m + 1]) = Ids(c) \cup {bs[k].id : k \in 1..(m + 1)}
                      /\ OneEach(c) => OneEach(f[m + 1])
    OBVIOUS
  <2>1. /\ m + 1 \in 1..Len(bs) /\ (m + 1) - 1 = m /\ m \in 0..Len(bs) /\ bs[m + 1] \in G
        /\ 1..(m + 1) = (1..m) \cup {m + 1}
    OBVIOUS
  <2>2. f[m + 1] = Put(f[m], bs[m + 1].id, bs[m + 1].text) /\ f[m] \in Seq(G)
    BY <1>4, <2>1
  <2>3. /\ Ids(f[m + 1]) = Ids(f[m]) \cup {bs[m + 1].id}
        /\ OneEach(f[m]) => OneEach(f[m + 1])
    <3> DEFINE a == f[m]
               b == bs[m + 1]
    <3>1. a \in Seq(G) /\ b \in G /\ f[m + 1] = Put(a, b.id, b.text)
      BY <2>1, <2>2
    <3> HIDE DEF a, b
    <3>2. /\ Ids(Put(a, b.id, b.text)) = Ids(a) \cup {b.id}
          /\ OneEach(a) => OneEach(Put(a, b.id, b.text))
      BY <1>2, <3>1
    <3> QED
      BY <3>1, <3>2 DEF a, b
  <2>4. /\ Ids(f[m]) = Ids(c) \cup {bs[k].id : k \in 1..m}
        /\ OneEach(c) => OneEach(f[m])
    BY <1>6
  <2> QED
    BY <2>1, <2>3, <2>4
<1>7. Nat \subseteq I
  <2> HIDE DEF I
  <2> QED
    BY <1>5, <1>6, Induction
<1>8. Len(bs) \in Nat /\ Len(bs) \in 0..Len(bs) /\ Ids(bs) = {bs[k].id : k \in 1..Len(bs)}
  BY DEF Ids
<1>9. Len(bs) \in I
  BY <1>7, <1>8
<1> QED
  BY <1>4, <1>8, <1>9

\* Blocks with different ids are chosen with different ids.
LEMMA ChosenOneEach ==
    ASSUME NEW G, NEW c \in Seq(G), NEW S, OneEach(c)
    PROVE  OneEach(Chosen(c, S))
<1>1. \A i, j \in DOMAIN c : c[i] = c[j] => i = j
  BY DEF OneEach
<1>2. \A i, j \in DOMAIN Chosen(c, S) : Chosen(c, S)[i] = Chosen(c, S)[j] => i = j
  BY <1>1, ChosenOnce
<1>3. \A x, y \in ToSet(c) : x.id = y.id => x = y
  BY DEF OneEach, ToSet
<1>4. \A i \in DOMAIN Chosen(c, S) : Chosen(c, S)[i] \in ToSet(c)
  <2>1. ToSet(Chosen(c, S)) = ToSet(c) \cap S
    BY ChosenSet
  <2>2. \A i \in DOMAIN Chosen(c, S) : Chosen(c, S)[i] \in ToSet(Chosen(c, S))
    BY DEF ToSet
  <2> QED
    BY <2>1, <2>2
<1> QED
  BY <1>2, <1>3, <1>4 DEF OneEach

\* The recursive function of ReplaceFields(c, fs).
Replaces(c, fs, f) ==
  f = [n \in 0..Len(fs) |-> IF n = 0 THEN c ELSE ReplaceBlocks(f[n - 1], fs[n])]

\* A text of paragraphs, and the whole text of a field.
LEMMA ParagraphsAreText ==
    /\ Seq(AllParagraphs) \subseteq Text
    /\ \A f \in Fields : Paragraphs[f] \in Seq(AllParagraphs) /\ ToSet(Paragraphs[f]) \subseteq AllParagraphs
<1>1. AllParagraphs \subseteq Piece
  BY DEF Piece
<1>2. Seq(AllParagraphs) \subseteq Text
  BY <1>1 DEF Text
<1>3. ASSUME NEW f \in Fields
      PROVE  Paragraphs[f] \in Seq(AllParagraphs) /\ ToSet(Paragraphs[f]) \subseteq AllParagraphs
  <2>1. ToSet(Paragraphs[f]) \subseteq AllParagraphs
    BY DEF AllParagraphs
  <2>2. Paragraphs[f] \in Seq(ToSet(Paragraphs[f]))
    BY PromptAssumption
  <2> QED
    BY <2>1, <2>2
<1> QED
  BY <1>2, <1>3

\* The blocks that stay when some of the knowledge box go keep the user's in front.
LEMMA ChosenKeeps ==
    ASSUME NEW n \in Nat, NEW c \in UserFirst(n), NEW S, \A i \in 1..n : c[i] \in S
    PROVE  Chosen(c, S) \in UserFirst(n)
<1>1. c \in Seq(Block) /\ n \in 0..Len(c) /\ \A i \in 1..n : c[i] = UserBlock(i)
  BY DEF UserFirst
<1>2. n <= Len(Chosen(c, S)) /\ \A i \in 1..n : Chosen(c, S)[i] = c[i]
  BY <1>1, ChosenFront
<1>3. Chosen(c, S) \in Seq(S \cap Block)
  BY <1>1, ChosenSeq
<1>4. Chosen(c, S) \in Seq(Block)
  BY <1>3
<1> QED
  BY <1>1, <1>2, <1>4 DEF UserFirst

\* The first blocks of a context, those of the user, are elements of it.
LEMMA UserBlocksThere ==
    ASSUME NEW n \in Nat, NEW c \in UserFirst(n), NEW i \in 1..n
    PROVE  c[i] \in ToSet(c) /\ c[i].id[1] = "user"
<1>1. c \in Seq(Block) /\ i \in DOMAIN c /\ c[i] = UserBlock(i)
  BY DEF UserFirst
<1>2. c[i] \in ToSet(c)
  BY <1>1 DEF ToSet
<1>3. UserBlock(i).id = User(i)
  BY DEF UserBlock
<1> QED
  BY <1>1, <1>2, <1>3, FoundIsBlock

\* Blocks of a field give way to its whole text.
LEMMA ReplaceBlocksKeeps ==
    ASSUME NEW n \in Nat, NEW c \in UserFirst(n), NEW f \in Fields
    PROVE  ReplaceBlocks(c, f) \in UserFirst(n)
<1> DEFINE S == {b \in ToSet(c) : ~ BeginsWith(b.id, f)}
           b == [id |-> Whole(f), text |-> WholeText(f)]
<1>1. \A i \in 1..n : c[i] \in S
  BY UserBlocksThere DEF BeginsWith
<1> HIDE DEF S
<1>2. Chosen(c, S) \in UserFirst(n)
  BY <1>1, ChosenKeeps
<1>3. b \in Found
  BY ParagraphsAreText DEF Found, FoundId, WholeText
<1>4. Put(Chosen(c, S), b.id, b.text) \in UserFirst(n)
  BY <1>2, <1>3, PutKeeps
<1> QED
  BY <1>4 DEF ReplaceBlocks, S

\* ReplaceFields does so for one field after the other.
LEMMA ReplaceFieldsStays ==
    ASSUME NEW A, NEW B, NEW c \in A, NEW fs \in Seq(B), \A a \in A, f \in B : ReplaceBlocks(a, f) \in A
    PROVE  ReplaceFields(c, fs) \in A
<1> DEFINE G == [p \in A \X B |-> ReplaceBlocks(p[1], p[2])]
           g == CHOOSE f : Replaces(c, fs, f)
<1>1. \A a \in A, f \in B : G[<<a, f>>] = ReplaceBlocks(a, f)
  OBVIOUS
<1> HIDE DEF G
<1>2. PICK f : FoldsOver(G, c, fs, f)
  BY FoldExists
<1>3. (\A m \in 1..Len(fs) : fs[m] \in B) /\ Len(fs) \in Nat
  OBVIOUS
<1>4. \A m \in 0..Len(fs) : f[m] \in A
  <2>1. f[0] = c /\ \A m \in 1..Len(fs) : f[m] = G[<<f[m - 1], fs[m]>>]
    <3>1. \A m \in 0..Len(fs) : f[m] = IF m = 0 THEN c ELSE G[<<f[m - 1], fs[m]>>]
      BY <1>2 DEF FoldsOver
    <3>2. 0 \in 0..Len(fs) /\ \A m \in 1..Len(fs) : m \in 0..Len(fs) /\ m # 0
      OBVIOUS
    <3> QED
      BY <3>1, <3>2
  <2>2. ASSUME NEW m \in 1..Len(fs), f[m - 1] \in A PROVE f[m] \in A
    <3>1. ReplaceBlocks(f[m - 1], fs[m]) \in A
      BY <1>3, <2>2
    <3>2. G[<<f[m - 1], fs[m]>>] = ReplaceBlocks(f[m - 1], fs[m])
      BY <1>1, <1>3, <2>2
    <3> QED
      BY <2>1, <3>1, <3>2
  <2> QED
    BY <1>3, <2>1, <2>2, StepsKeep
<1>5. Replaces(c, fs, f)
  <2>1. ASSUME NEW m \in 0..Len(fs)
        PROVE  (IF m = 0 THEN c ELSE G[<<f[m - 1], fs[m]>>])
                 = (IF m = 0 THEN c ELSE ReplaceBlocks(f[m - 1], fs[m]))
    BY <1>1, <1>3, <1>4
  <2> QED
    BY <1>2, <2>1 DEF FoldsOver, Replaces
<1>6. Replaces(c, fs, g)
  BY <1>5
<1>7. ReplaceFields(c, fs) = g[Len(fs)]
  BY DEF ReplaceFields, Replaces
<1> HIDE DEF g
<1>8. g[0] = c /\ \A m \in 1..Len(fs) : g[m] = ReplaceBlocks(g[m - 1], fs[m])
  BY <1>3, <1>6 DEF Replaces
<1>9. \A m \in 1..Len(fs) : g[m - 1] \in A => g[m] \in A
  BY <1>3, <1>8
<1>10. \A m \in 0..Len(fs) : g[m] \in A
  BY <1>3, <1>8, <1>9, StepsKeep
<1> QED
  BY <1>3, <1>7, <1>10

\* So the user's texts stay in front.
LEMMA ReplaceFieldsKeeps ==
    ASSUME NEW n \in Nat, NEW c \in UserFirst(n), NEW fs \in Seq(Fields)
    PROVE  ReplaceFields(c, fs) \in UserFirst(n)
<1>1. \A a \in UserFirst(n), f \in Fields : ReplaceBlocks(a, f) \in UserFirst(n)
  BY ReplaceBlocksKeeps
<1> QED
  BY <1>1, ReplaceFieldsStays

\* A sequence of what is chosen is one over the set of the whole.
LEMMA ChosenOf ==
    ASSUME NEW T, NEW S, NEW s \in Seq(T)
    PROVE  Chosen(s, S) \in Seq(T)
<1>1. Chosen(s, S) \in Seq(S \cap T)
  BY ChosenSeq
<1> QED
  BY <1>1

\* The blocks of paragraphs.
LEMMA ParagraphBlocks ==
    ASSUME NEW ps \in Seq(AllParagraphs)
    PROVE  [i \in DOMAIN ps |-> [id |-> Par(ps[i]), text |-> <<ps[i]>>]] \in Seq(Found)
<1> DEFINE bs == [i \in DOMAIN ps |-> [id |-> Par(ps[i]), text |-> <<ps[i]>>]]
<1>1. ASSUME NEW i \in DOMAIN ps PROVE [id |-> Par(ps[i]), text |-> <<ps[i]>>] \in Found
  <2>1. ps[i] \in AllParagraphs
    OBVIOUS
  <2>2. <<ps[i]>> \in Seq(AllParagraphs)
    BY <2>1
  <2> QED
    BY <2>1, <2>2, ParagraphsAreText DEF Found, FoundId
<1>2. bs \in Seq(Found)
  BY <1>1
<1> QED
  BY <1>2

\* Paragraphs are put behind the user's texts.
LEMMA AddParagraphsKeeps ==
    ASSUME NEW n \in Nat, NEW c \in UserFirst(n), NEW ps \in Seq(AllParagraphs)
    PROVE  AddParagraphs(c, ps) \in UserFirst(n)
BY ParagraphBlocks, PutAllKeeps DEF AddParagraphs

\* So are those that are missing.
LEMMA AddMissingKeeps ==
    ASSUME NEW n \in Nat, NEW c \in UserFirst(n), NEW ps \in Seq(AllParagraphs)
    PROVE  AddMissing(c, ps) \in UserFirst(n)
BY ChosenOf, AddParagraphsKeeps DEF AddMissing

\* Whether paragraphs are put, or those that are missing: blocks of a kind stay of that
\* kind, the paragraphs are there, and the ids stay different.
LEMMA AddParagraphsIn ==
    ASSUME NEW G, G \subseteq Block, \A p \in AllParagraphs : [id |-> Par(p), text |-> <<p>>] \in G,
           NEW c \in Seq(G), NEW ps \in Seq(AllParagraphs)
    PROVE  /\ AddParagraphs(c, ps) \in Seq(G)
           /\ Ids(AddParagraphs(c, ps)) = Ids(c) \cup {Par(p) : p \in ToSet(ps)}
           /\ OneEach(c) => OneEach(AddParagraphs(c, ps))
<1> DEFINE bs == [i \in DOMAIN ps |-> [id |-> Par(ps[i]), text |-> <<ps[i]>>]]
<1>1. bs \in Seq(G)
  OBVIOUS
<1>2. Ids(bs) = {Par(p) : p \in ToSet(ps)}
  BY DEF Ids, ToSet
<1> HIDE DEF bs
<1>3. /\ PutAll(c, bs) \in Seq(G)
      /\ Ids(PutAll(c, bs)) = Ids(c) \cup Ids(bs)
      /\ OneEach(c) => OneEach(PutAll(c, bs))
  BY <1>1, PutAllBlocks
<1> QED
  BY <1>2, <1>3 DEF AddParagraphs, bs

\* The paragraphs that are missing are put, and then all of them are there.
LEMMA AddMissingIn ==
    ASSUME NEW G, G \subseteq Block, \A p \in AllParagraphs : [id |-> Par(p), text |-> <<p>>] \in G,
           NEW c \in Seq(G), NEW ps \in Seq(AllParagraphs)
    PROVE  /\ AddMissing(c, ps) \in Seq(G)
           /\ Ids(AddMissing(c, ps)) = Ids(c) \cup {Par(p) : p \in ToSet(ps)}
           /\ OneEach(c) => OneEach(AddMissing(c, ps))
<1> DEFINE S == {p \in ToSet(ps) : Par(p) \notin Ids(c)}
           qs == Chosen(ps, S)
<1>1. qs \in Seq(AllParagraphs) /\ ToSet(qs) = ToSet(ps) \cap S
  BY ChosenOf, ChosenSet
<1> HIDE DEF qs
<1>2. Ids(c) \cup {Par(p) : p \in ToSet(qs)} = Ids(c) \cup {Par(p) : p \in ToSet(ps)}
  BY <1>1
<1>3. /\ AddParagraphs(c, qs) \in Seq(G)
      /\ Ids(AddParagraphs(c, qs)) = Ids(c) \cup {Par(p) : p \in ToSet(qs)}
      /\ OneEach(c) => OneEach(AddParagraphs(c, qs))
  BY <1>1, AddParagraphsIn
<1> QED
  BY <1>2, <1>3 DEF AddMissing, qs

\* What ReplaceBlocks leaves: the blocks that are not of the field, and its whole text.
LEMMA ReplaceBlocksIn ==
    ASSUME NEW G, G \subseteq Block, NEW f \in Fields, [id |-> Whole(f), text |-> WholeText(f)] \in G,
           NEW c \in Seq(G)
    PROVE  /\ ReplaceBlocks(c, f) \in Seq(G)
           /\ ToSet(ReplaceBlocks(c, f)) = {b \in ToSet(c) : ~ BeginsWith(b.id, f) /\ b.id # Whole(f)}
                                              \cup {[id |-> Whole(f), text |-> WholeText(f)]}
           /\ OneEach(c) => OneEach(ReplaceBlocks(c, f))
<1> DEFINE S == {b \in ToSet(c) : ~ BeginsWith(b.id, f)}
           d == Chosen(c, S)
           b == [id |-> Whole(f), text |-> WholeText(f)]
<1>1. d \in Seq(G) /\ ToSet(d) = ToSet(c) \cap S
  BY ChosenOf, ChosenSet
<1>2. \A x \in G : x = [id |-> x.id, text |-> x.text]
  BY BlockParts
<1>3. OneEach(c) => OneEach(d)
  BY ChosenOneEach
<1> HIDE DEF d
<1>4. b \in G /\ b.id = Whole(f) /\ b.text = WholeText(f)
  OBVIOUS
<1> HIDE DEF b
<1>5. /\ Put(d, b.id, b.text) \in Seq(G)
      /\ ToSet(Put(d, b.id, b.text)) = {x \in ToSet(d) : x.id # b.id} \cup {b}
      /\ OneEach(d) => OneEach(Put(d, b.id, b.text))
  BY <1>1, <1>2, <1>4, PutSet
<1>6. ReplaceBlocks(c, f) = Put(d, b.id, b.text)
  BY <1>4 DEF ReplaceBlocks, d
<1> QED
  BY <1>1, <1>3, <1>4, <1>5, <1>6 DEF b

---------------------------------------------------------------------------
(***************************************************************************)
(* The steps: each leaves the user's texts in front.                       *)
(***************************************************************************)

\* A paragraph has a field, and a place in it.
LEMMA FieldOfParagraph ==
    ASSUME NEW p \in AllParagraphs
    PROVE  /\ FieldOf(p) \in Fields
           /\ p \in ToSet(Paragraphs[FieldOf(p)])
           /\ PlaceOf(p) \in 1..Len(Paragraphs[FieldOf(p)])
<1>1. \E f \in Fields : p \in ToSet(Paragraphs[f])
  BY DEF AllParagraphs
<1>2. FieldOf(p) \in Fields /\ p \in ToSet(Paragraphs[FieldOf(p)])
  BY <1>1 DEF FieldOf
<1>3. \E i \in DOMAIN Paragraphs[FieldOf(p)] : Paragraphs[FieldOf(p)][i] = p
  BY <1>2 DEF ToSet
<1>4. PlaceOf(p) \in DOMAIN Paragraphs[FieldOf(p)]
  BY <1>3 DEF PlaceOf
<1>5. Paragraphs[FieldOf(p)] \in Seq(AllParagraphs)
  BY <1>2, ParagraphsAreText
<1> QED
  BY <1>2, <1>4, <1>5

\* The messages that follow one.
LEMMA MessagesAfterSeq ==
    ASSUME NEW p \in AllParagraphs
    PROVE  MessagesAfter(p) \in Seq(AllParagraphs)
<1> DEFINE s == Paragraphs[FieldOf(p)]
<1>1. FieldOf(p) \in Fields /\ PlaceOf(p) \in 1..Len(s)
  BY FieldOfParagraph
<1>2. s \in Seq(AllParagraphs) /\ PlaceOf(p) + 1 \in Nat \ {0} /\ Len(s) \in Int
  BY <1>1, ParagraphsAreText
<1> HIDE DEF s
<1>3. SubSeq(s, PlaceOf(p) + 1, Len(s)) \in Seq(AllParagraphs)
  BY <1>2, PartSeq
<1> QED
  BY <1>3 DEF MessagesAfter, s

\* The paragraphs around one.
LEMMA NeighboursSeq ==
    ASSUME request \in RequestOptions, NEW p \in AllParagraphs
    PROVE  Neighbours(p) \in Seq(AllParagraphs)
<1> DEFINE s == Paragraphs[FieldOf(p)]
           i == PlaceOf(p)
           m == IF i > request.before THEN i - request.before ELSE 1
           n == IF i + request.after < Len(s) THEN i + request.after ELSE Len(s)
<1>1. FieldOf(p) \in Fields /\ i \in 1..Len(s)
  BY FieldOfParagraph
<1>2. s \in Seq(AllParagraphs) /\ Len(s) \in Nat
  BY <1>1, ParagraphsAreText
<1>3. request.before \in Nat /\ request.after \in Nat
  BY DEF RequestOptions
<1> HIDE DEF s, i
<1>4. m \in Nat \ {0} /\ n \in Int /\ n <= Len(s) /\ i - 1 \in Int /\ i - 1 <= Len(s) /\ i + 1 \in Nat \ {0}
  BY <1>1, <1>2, <1>3
<1> HIDE DEF m, n
<1>5. SubSeq(s, m, i - 1) \in Seq(AllParagraphs) /\ SubSeq(s, i + 1, n) \in Seq(AllParagraphs)
  BY <1>2, <1>4, PartSeq
<1>6. SubSeq(s, m, i - 1) \o SubSeq(s, i + 1, n) \in Seq(AllParagraphs)
  BY <1>5
<1> QED
  BY <1>6 DEF Neighbours, s, i, m, n

\* What is chosen of the retrieved paragraphs.
LEMMA ChosenRetrieved ==
    ASSUME request \in RequestOptions, NEW S
    PROVE  /\ Chosen(request.retrieved, S) \in Seq(S \cap AllParagraphs)
           /\ Chosen(request.retrieved, S) \in Seq(AllParagraphs)
<1>1. request.retrieved \in Seq(AllParagraphs)
  BY DEF RequestOptions
<1>2. Chosen(request.retrieved, S) \in Seq(S \cap AllParagraphs)
  BY <1>1, ChosenSeq
<1> QED
  BY <1>2

\* The default puts the retrieved paragraphs, and perhaps messages that follow some.
LEMMA DefaultShape ==
    ASSUME request \in RequestOptions, DefaultStep
    PROVE  \E ps \in Seq(AllParagraphs) :
             context' = AddParagraphs(AddParagraphs(context, request.retrieved), ps)
<1> DEFINE base == AddParagraphs(context, request.retrieved)
           questions == {p \in ToSet(request.retrieved) \cap request.semantic :
                           FieldOf(p) \in Conversations /\ Live(FieldOf(p))}
           answered == Chosen(request.retrieved, questions)
<1>1. PICK asked \in [{FieldOf(p) : p \in questions} -> questions] :
        context' = AddParagraphs(base, Joined([i \in DOMAIN answered |->
                                                 MessagesAfter(asked[FieldOf(answered[i])])]))
  BY DEF DefaultStep
<1>2. answered \in Seq(questions) /\ questions \subseteq AllParagraphs
  <2>1. questions \subseteq AllParagraphs
    BY DEF RequestOptions
  <2>2. questions \cap AllParagraphs = questions
    BY <2>1
  <2> HIDE DEF questions
  <2> QED
    BY <2>1, <2>2, ChosenRetrieved
<1> DEFINE told == [i \in DOMAIN answered |-> MessagesAfter(asked[FieldOf(answered[i])])]
<1> HIDE DEF answered, questions
<1>3. ASSUME NEW i \in DOMAIN answered
      PROVE  MessagesAfter(asked[FieldOf(answered[i])]) \in Seq(AllParagraphs)
  <2>1. answered[i] \in questions
    BY <1>2
  <2>2. asked[FieldOf(answered[i])] \in questions
    BY <2>1
  <2> QED
    BY <1>2, <2>2, MessagesAfterSeq
<1>4. told \in Seq(Seq(AllParagraphs))
  <2>1. DOMAIN answered = 1..Len(answered) /\ Len(answered) \in Nat
    BY <1>2
  <2>2. told \in [1..Len(answered) -> Seq(AllParagraphs)]
    BY <1>3, <2>1
  <2> HIDE DEF told
  <2> QED
    BY <2>1, <2>2
<1>5. Joined(told) \in Seq(AllParagraphs)
  BY <1>4, JoinedSeq
<1> QED
  BY <1>1, <1>5

\* Any order of some fields.
LEMMA AnswersFields ==
    ASSUME NEW fs \in SUBSET Fields, NEW order, order \in Answers(fs)
    PROVE  order \in Seq(fs)
<1>1. ASSUME NEW S \in SUBSET fs, NEW s \in SetToSeqs(S) PROVE s \in Seq(fs)
  <2>1. IsFiniteSet(S)
    BY PromptAssumption, FS_Subset
  <2>2. Cardinality(S) \in Nat
    BY <2>1, FS_CardinalityType
  <2>3. s \in [1..Cardinality(S) -> S]
    BY DEF SetToSeqs
  <2>4. s \in [1..Cardinality(S) -> fs]
    BY <2>3
  <2> QED
    BY <2>2, <2>4
<1>2. PICK a \in SetToSeqs(fs \cap Titles) \X SetToSeqs(fs \ Titles) : order = a[1] \o a[2]
  BY DEF Answers
<1>3. a[1] \in Seq(fs) /\ a[2] \in Seq(fs)
  BY <1>1
<1> QED
  BY <1>2, <1>3

\* full_resource replaces fields, and puts what remains.
LEMMA FullResourceShape ==
    ASSUME FullResourceStep
    PROVE  \E fs \in SUBSET Fields : \E order \in Seq(fs) :
             /\ augmented' = augmented \cup {Whole(f) : f \in fs}
             /\ context' = IF request.remaining
                           THEN AddParagraphs(ReplaceFields(context, order),
                                              Chosen(request.retrieved,
                                                     {p \in AllParagraphs : IsRemaining(p, fs)}))
                           ELSE ReplaceFields(context, order)
<1> DEFINE fs == {f \in Fields : Live(f) /\ ResourceOf[f] \in FullResources(request)}
<1>1. /\ augmented' = augmented \cup {Whole(f) : f \in fs}
      /\ \E order \in Answers(fs) :
           context' = IF request.remaining
                      THEN AddParagraphs(ReplaceFields(context, order),
                                         Chosen(request.retrieved,
                                                {p \in AllParagraphs : IsRemaining(p, fs)}))
                      ELSE ReplaceFields(context, order)
  BY DEF FullResourceStep
<1>2. fs \in SUBSET Fields
  OBVIOUS
<1> HIDE DEF fs
<1> QED
  BY <1>1, <1>2, AnswersFields

\* field_extension replaces fields, and puts the retrieved paragraphs that are missing.
LEMMA ExtensionShape ==
    ASSUME request \in RequestOptions, ExtensionStep
    PROVE  \E fs \in Seq(Fields) : context' = AddMissing(ReplaceFields(context, fs), request.retrieved)
<1> DEFINE fs == {f \in request.extend :
                    Live(f) /\ ResourceOf[f] \in ToSet(RetrievedResources(request.retrieved))}
<1>1. \E order \in Answers(fs) : context' = AddMissing(ReplaceFields(context, order), request.retrieved)
  BY DEF ExtensionStep
<1>2. fs \in SUBSET Fields
  BY DEF RequestOptions
<1> HIDE DEF fs
<1> QED
  BY <1>1, <1>2, AnswersFields

\* A retrieved paragraph is the first of its resource, and a resource's text is of paragraphs.
LEMMA RetrievedOfResource ==
    ASSUME request \in RequestOptions, NEW r \in ToSet(RetrievedResources(request.retrieved))
    PROVE  /\ RetrievedOf(r)[1] \in AllParagraphs /\ HierarchyText(r) \in Seq(AllParagraphs)
           /\ RetrievedOf(r)[1] \in ToSet(HierarchyText(r)) \/ Home(RetrievedOf(r)[1]) \in deleted
<1> DEFINE ps == request.retrieved
           homes == [i \in DOMAIN ps |-> Home(ps[i])]
           T == {Home(ps[i]) : i \in DOMAIN ps}
           S == {p \in AllParagraphs : Home(p) = r}
<1>1. ps \in Seq(AllParagraphs)
  BY DEF RequestOptions
<1>2. r \in T
  <2>1. homes \in Seq(T)
    BY <1>1
  <2> HIDE DEF homes, T
  <2>2. Distinct(homes) \in Seq(T)
    BY <2>1, DistinctSeq
  <2>3. r \in ToSet(Distinct(homes))
    BY DEF RetrievedResources, homes
  <2> QED
    BY <2>2, <2>3 DEF ToSet
<1>3. PICK i \in DOMAIN ps : Home(ps[i]) = r
  BY <1>2
<1>4. ps[i] \in S
  BY <1>1, <1>3
<1>5. RetrievedOf(r) = Chosen(ps, S) /\ Chosen(ps, S) \in Seq(AllParagraphs)
  BY ChosenRetrieved DEF RetrievedOf
<1>6. ps[i] \in ToSet(Chosen(ps, S))
  <2> HIDE DEF S, ps
  <2> QED
    BY <1>1, <1>3, <1>4, ChosenElements
<1>7. /\ Chosen(ps, S)[1] \in AllParagraphs /\ Home(Chosen(ps, S)[1]) = r
      /\ Chosen(ps, S)[1] \in ToSet(Chosen(ps, S))
  <2> DEFINE w == Chosen(ps, S)
  <2>1. w \in Seq(S \cap AllParagraphs)
    BY ChosenRetrieved
  <2>2. \E j \in DOMAIN w : TRUE
    BY <1>6 DEF ToSet
  <2> HIDE DEF w
  <2>3. w[1] \in S \cap AllParagraphs /\ 1 \in DOMAIN w
    BY <2>1, <2>2
  <2> QED
    BY <2>3 DEF w, ToSet
<1>8. TitleText(r) \in Seq(AllParagraphs)
  <2> DEFINE F == {f \in Titles : ResourceOf[f] = r}
             titles == SetToSeq(F)
             texts == [j \in DOMAIN titles |-> Paragraphs[titles[j]]]
  <2>1. IsFiniteSet(F) /\ F \subseteq Fields
    BY PromptAssumption, FS_Subset
  <2> HIDE DEF F
  <2>2. titles \in Seq(F)
    BY <2>1, SetToSeqElements
  <2> HIDE DEF titles
  <2>3. \A j \in DOMAIN titles : Paragraphs[titles[j]] \in Seq(AllParagraphs)
    BY <2>1, <2>2, ParagraphsAreText
  <2>4. texts \in Seq(Seq(AllParagraphs))
    BY <2>2, <2>3
  <2>5. Joined(texts) \in Seq(AllParagraphs)
    BY <2>4, JoinedSeq
  <2> QED
    BY <2>5 DEF TitleText, texts, titles, F
<1>9. HierarchyText(r) \in Seq(AllParagraphs)
  <2>1. TitleText(r) \o RetrievedOf(r) \in Seq(AllParagraphs)
    BY <1>5, <1>8
  <2> QED
    BY <2>1 DEF HierarchyText
<1>10. RetrievedOf(r)[1] \in ToSet(HierarchyText(r)) \/ Home(RetrievedOf(r)[1]) \in deleted
  <2> DEFINE t == TitleText(r)
             w == RetrievedOf(r)
  <2>1. w[1] \in ToSet(w) /\ Home(w[1]) = r
    BY <1>5, <1>7
  <2>3. r \notin deleted => HierarchyText(r) = t \o w
    BY DEF HierarchyText
  <2>4. t \in Seq(AllParagraphs) /\ w \in Seq(AllParagraphs)
    BY <1>5, <1>8
  <2> HIDE DEF t, w
  <2>2. ToSet(t \o w) = ToSet(t) \cup ToSet(w)
    BY <2>4, ToSetConcat
  <2> QED
    BY <2>1, <2>2, <2>3 DEF w
<1> QED
  BY <1>5, <1>7, <1>9, <1>10

\* hierarchy puts the text of a resource in the place of its first paragraph.
LEMMA HierarchyShape ==
    ASSUME request \in RequestOptions, HierarchyStep
    PROVE  \E bs \in Seq(Found) :
             /\ context' = PutAll(context, bs)
             /\ \A i \in DOMAIN bs : \E p \in AllParagraphs :
                  bs[i].id = Par(p) /\ (p \in ToSet(bs[i].text) \/ Home(p) \in deleted)
<1> DEFINE rs == RetrievedResources(request.retrieved)
           bs == [i \in DOMAIN rs |-> [id |-> Par(RetrievedOf(rs[i])[1]), text |-> HierarchyText(rs[i])]]
<1>1. request.retrieved \in Seq(AllParagraphs)
  BY DEF RequestOptions
<1>2. context' = PutAll(context, bs)
  BY DEF HierarchyStep
<1>3. rs \in Seq(ToSet(rs))
  <2> DEFINE homes == [i \in DOMAIN request.retrieved |-> Home(request.retrieved[i])]
             T == {Home(request.retrieved[i]) : i \in DOMAIN request.retrieved}
  <2>1. homes \in Seq(T)
    BY <1>1
  <2> HIDE DEF homes, T
  <2>2. Distinct(homes) \in Seq(T)
    BY <2>1, DistinctSeq
  <2>3. rs = Distinct(homes)
    BY DEF RetrievedResources, homes
  <2> HIDE DEF rs
  <2> QED
    BY <2>2, <2>3 DEF ToSet
<1>4. \A r \in ToSet(rs) :
        /\ RetrievedOf(r)[1] \in AllParagraphs /\ HierarchyText(r) \in Seq(AllParagraphs)
        /\ RetrievedOf(r)[1] \in ToSet(HierarchyText(r)) \/ Home(RetrievedOf(r)[1]) \in deleted
  BY RetrievedOfResource
<1> HIDE DEF rs
<1>5. ASSUME NEW i \in DOMAIN rs
      PROVE  [id |-> Par(RetrievedOf(rs[i])[1]), text |-> HierarchyText(rs[i])] \in Found
  <2>1. rs[i] \in ToSet(rs)
    BY DEF ToSet
  <2>2. RetrievedOf(rs[i])[1] \in AllParagraphs /\ HierarchyText(rs[i]) \in Text
    BY <1>4, <2>1, ParagraphsAreText
  <2> QED
    BY <2>2 DEF Found, FoundId
<1>6. bs \in Seq(Found)
  BY <1>3, <1>5
<1>7. ASSUME NEW i \in DOMAIN bs
      PROVE  \E p \in AllParagraphs :
               bs[i].id = Par(p) /\ (p \in ToSet(bs[i].text) \/ Home(p) \in deleted)
  <2>1. i \in DOMAIN rs /\ rs[i] \in ToSet(rs)
    BY DEF ToSet
  <2>2. bs[i].id = Par(RetrievedOf(rs[i])[1]) /\ bs[i].text = HierarchyText(rs[i])
    BY <2>1
  <2> QED
    BY <1>4, <2>1, <2>2
<1> HIDE DEF bs
<1> QED
  BY <1>2, <1>6, <1>7

\* neighbouring_paragraphs puts paragraphs that are missing.
LEMMA NeighbouringShape ==
    ASSUME request \in RequestOptions, NeighbouringStep
    PROVE  \E ps \in Seq(AllParagraphs) : context' = AddMissing(context, ps)
<1> DEFINE anchors == Chosen(request.retrieved, {p \in AllParagraphs : Live(FieldOf(p))})
           extra(p) == Chosen(Neighbours(p), AllParagraphs \ ToSet(request.retrieved))
           ps == [i \in DOMAIN anchors |-> <<anchors[i]>> \o extra(anchors[i])]
<1>2. context' = AddMissing(context, Joined(ps))
  BY DEF NeighbouringStep
<1>3. anchors \in Seq(AllParagraphs)
  BY ChosenRetrieved
<1>4. ASSUME NEW p \in AllParagraphs PROVE <<p>> \o extra(p) \in Seq(AllParagraphs)
  <2> DEFINE S == AllParagraphs \ ToSet(request.retrieved)
  <2>1. Neighbours(p) \in Seq(AllParagraphs)
    BY NeighboursSeq
  <2>2. Chosen(Neighbours(p), S) \in Seq(S \cap AllParagraphs)
    BY <2>1, ChosenSeq
  <2>3. Chosen(Neighbours(p), S) \in Seq(AllParagraphs)
    BY <2>2
  <2> HIDE DEF S
  <2> QED
    BY <2>3 DEF S
<1> HIDE DEF anchors, extra
<1>5. ps \in Seq(Seq(AllParagraphs))
  <2>1. ASSUME NEW i \in DOMAIN anchors
        PROVE  <<anchors[i]>> \o extra(anchors[i]) \in Seq(AllParagraphs)
    <3>1. anchors[i] \in AllParagraphs
      BY <1>3
    <3> QED
      BY <1>4, <3>1
  <2>2. ps \in [1..Len(anchors) -> Seq(AllParagraphs)] /\ Len(anchors) \in Nat
    <3>1. DOMAIN anchors = 1..Len(anchors) /\ Len(anchors) \in Nat
      BY <1>3
    <3> QED
      BY <2>1, <3>1
  <2> HIDE DEF ps
  <2> QED
    BY <2>2
<1>6. Joined(ps) \in Seq(AllParagraphs)
  BY <1>5, JoinedSeq
<1> HIDE DEF ps
<1> QED
  BY <1>2, <1>6

\* What is attached is put behind the user's texts.
LEMMA AddAttachmentsKeeps ==
    ASSUME NEW n \in Nat, NEW c \in UserFirst(n), NEW fs \in Seq(Fields)
    PROVE  AddAttachments(c, fs) \in UserFirst(n)
<1> DEFINE S == {f \in ToSet(fs) : Attachment(f) \notin Ids(c)}
           new == Chosen(fs, S)
           bs == [i \in DOMAIN new |-> [id |-> Attachment(new[i]), text |-> WholeText(new[i])]]
<1>1. new \in Seq(S \cap Fields)
  BY ChosenSeq
<1>2. new \in Seq(Fields)
  BY <1>1
<1>3. AddAttachments(c, fs) = PutAll(c, bs)
  BY DEF AddAttachments
<1> HIDE DEF new
<1>4. ASSUME NEW i \in DOMAIN new
      PROVE  [id |-> Attachment(new[i]), text |-> WholeText(new[i])] \in Found
  <2>1. new[i] \in Fields
    BY <1>2
  <2> QED
    BY <2>1, ParagraphsAreText DEF Found, FoundId, WholeText
<1>5. bs \in Seq(Found)
  BY <1>2, <1>4
<1> HIDE DEF bs
<1> QED
  BY <1>3, <1>5, PutAllKeeps

\* conversation puts messages that are missing, and what is attached to conversations.
LEMMA ConversationShape ==
    ASSUME request \in RequestOptions, ConversationStep
    PROVE  \E ps \in Seq(AllParagraphs), fs \in Seq(Fields) :
             LET talks == AddMissing(AddMissing(context, request.retrieved), ps)
             IN  context' = IF request.attachments THEN AddAttachments(talks, fs) ELSE talks
<1> DEFINE base == AddMissing(context, request.retrieved)
           fs == Chosen(ConversationsOf(request.retrieved), {f \in Fields : Live(f)})
<1>1. request.retrieved \in Seq(AllParagraphs)
  BY DEF RequestOptions
<1>2. PICK window \in [ToSet(fs) -> UNION {Windows(f) : f \in ToSet(fs)}] :
        /\ \A f \in ToSet(fs) : window[f] \in Windows(f)
        /\ LET talks == AddMissing(base, Joined([i \in DOMAIN fs |-> window[fs[i]]]))
               new == Chosen(fs, {f \in ToSet(fs) : \E p \in ToSet(window[f]) : Par(p) \notin Ids(base)})
               files == Joined([i \in DOMAIN new |-> Attached[new[i]]])
           IN  context' = IF request.attachments THEN AddAttachments(talks, files) ELSE talks
  BY DEF ConversationStep
<1>3. fs \in Seq(Conversations) /\ Conversations \subseteq Fields
  <2> DEFINE ps == request.retrieved
             of == [i \in DOMAIN ps |-> FieldOf(ps[i])]
  <2>1. of \in Seq(Fields)
    BY <1>1, FieldOfParagraph
  <2> HIDE DEF of
  <2>2. Distinct(of) \in Seq(Fields)
    BY <2>1, DistinctSeq
  <2>3. Chosen(Distinct(of), Conversations) \in Seq(Conversations \cap Fields)
    BY <2>2, ChosenSeq
  <2>4. ConversationsOf(ps) \in Seq(Conversations)
    BY <2>3 DEF ConversationsOf, of
  <2>5. fs \in Seq({f \in Fields : Live(f)} \cap Conversations)
    BY <2>4, ChosenSeq
  <2> HIDE DEF fs
  <2> QED
    BY <2>5, PromptAssumption
<1> DEFINE S == {f \in ToSet(fs) : \E p \in ToSet(window[f]) : Par(p) \notin Ids(base)}
           said == [i \in DOMAIN fs |-> window[fs[i]]]
           talks == AddMissing(base, Joined(said))
           new == Chosen(fs, S)
           files == [i \in DOMAIN new |-> Attached[new[i]]]
<1>5. context' = IF request.attachments THEN AddAttachments(talks, Joined(files)) ELSE talks
  BY <1>2
<1> HIDE DEF fs
<1>6. ASSUME NEW f \in ToSet(fs) PROVE window[f] \in Seq(AllParagraphs)
  <2> DEFINE s == Paragraphs[f]
             k == IF request.messages < Len(s) THEN request.messages ELSE Len(s)
  <2>1. f \in Fields
    BY <1>3 DEF ToSet
  <2>2. s \in Seq(AllParagraphs) /\ Len(s) \in Nat /\ request.messages \in Nat
    BY <2>1, ParagraphsAreText DEF RequestOptions
  <2>3. window[f] \in {SubSeq(s, i, i + k - 1) : i \in 1..(Len(s) - k + 1)}
    BY <1>2 DEF Windows
  <2> HIDE DEF s
  <2>4. k \in Nat /\ k <= Len(s)
    BY <2>2
  <2> HIDE DEF k
  <2>5. PICK i \in 1..(Len(s) - k + 1) : window[f] = SubSeq(s, i, i + k - 1)
    BY <2>3
  <2>6. i \in Nat \ {0} /\ i + k - 1 \in Int /\ i + k - 1 <= Len(s)
    BY <2>2, <2>4
  <2> QED
    BY <2>2, <2>5, <2>6, PartSeq
<1>7. Joined(said) \in Seq(AllParagraphs)
  <2>1. said \in Seq(Seq(AllParagraphs))
    BY <1>3, <1>6 DEF ToSet
  <2> QED
    BY <2>1, JoinedSeq
<1>8. Joined(files) \in Seq(Fields)
  <2>1. new \in Seq(S \cap Conversations)
    BY <1>3, ChosenSeq
  <2> HIDE DEF new, S
  <2>2. \A i \in DOMAIN new : Attached[new[i]] \in Seq(Fields)
    BY <2>1, PromptAssumption
  <2>3. files \in Seq(Seq(Fields))
    BY <2>1, <2>2
  <2> QED
    BY <2>3, JoinedSeq
<1> HIDE DEF files, said
<1> QED
  BY <1>5, <1>7, <1>8

\* Each of these leaves the user's texts in front.
LEMMA StepsKeepUser ==
    ASSUME request \in RequestOptions, context \in UserFirst(request.userTexts),
           \/ DefaultStep \/ FullResourceStep \/ HierarchyStep \/ NeighbouringStep \/ ExtensionStep
           \/ ConversationStep
    PROVE  context' \in UserFirst(request.userTexts)
<1> DEFINE n == request.userTexts
<1>1. n \in Nat /\ request.retrieved \in Seq(AllParagraphs) /\ context \in UserFirst(n)
  BY DEF RequestOptions
<1> HIDE DEF n
<1>2. CASE DefaultStep
  <2>1. PICK ps \in Seq(AllParagraphs) :
          context' = AddParagraphs(AddParagraphs(context, request.retrieved), ps)
    BY <1>2, DefaultShape
  <2>2. AddParagraphs(context, request.retrieved) \in UserFirst(n)
    BY <1>1, AddParagraphsKeeps
  <2> QED
    BY <1>1, <2>1, <2>2, AddParagraphsKeeps DEF n
<1>3. CASE FullResourceStep
  <2>1. PICK fs \in SUBSET Fields : \E order \in Seq(fs) :
          context' = IF request.remaining
                     THEN AddParagraphs(ReplaceFields(context, order),
                                        Chosen(request.retrieved,
                                               {p \in AllParagraphs : IsRemaining(p, fs)}))
                     ELSE ReplaceFields(context, order)
    BY <1>3, FullResourceShape
  <2>2. PICK order \in Seq(fs) :
          context' = IF request.remaining
                     THEN AddParagraphs(ReplaceFields(context, order),
                                        Chosen(request.retrieved,
                                               {p \in AllParagraphs : IsRemaining(p, fs)}))
                     ELSE ReplaceFields(context, order)
    BY <2>1
  <2>3. order \in Seq(Fields)
    BY <2>2
  <2>4. ReplaceFields(context, order) \in UserFirst(n)
    BY <1>1, <2>3, ReplaceFieldsKeeps
  <2>5. Chosen(request.retrieved, {p \in AllParagraphs : IsRemaining(p, fs)}) \in Seq(AllParagraphs)
    BY ChosenRetrieved
  <2> QED
    BY <1>1, <2>2, <2>4, <2>5, AddParagraphsKeeps DEF n
<1>4. CASE HierarchyStep
  <2>1. PICK bs \in Seq(Found) : context' = PutAll(context, bs)
    BY <1>4, HierarchyShape
  <2> QED
    BY <1>1, <2>1, PutAllKeeps DEF n
<1>5. CASE NeighbouringStep
  <2>1. PICK ps \in Seq(AllParagraphs) : context' = AddMissing(context, ps)
    BY <1>5, NeighbouringShape
  <2> QED
    BY <1>1, <2>1, AddMissingKeeps DEF n
<1>6. CASE ExtensionStep
  <2>1. PICK fs \in Seq(Fields) : context' = AddMissing(ReplaceFields(context, fs), request.retrieved)
    BY <1>6, ExtensionShape
  <2>2. ReplaceFields(context, fs) \in UserFirst(n)
    BY <1>1, ReplaceFieldsKeeps
  <2> QED
    BY <1>1, <2>1, <2>2, AddMissingKeeps DEF n
<1>7. CASE ConversationStep
  <2>1. PICK ps \in Seq(AllParagraphs), fs \in Seq(Fields) :
          LET talks == AddMissing(AddMissing(context, request.retrieved), ps)
          IN  context' = IF request.attachments THEN AddAttachments(talks, fs) ELSE talks
    BY <1>7, ConversationShape
  <2>2. AddMissing(context, request.retrieved) \in UserFirst(n)
    BY <1>1, AddMissingKeeps
  <2>3. AddMissing(AddMissing(context, request.retrieved), ps) \in UserFirst(n)
    BY <1>1, <2>2, AddMissingKeeps
  <2>4. AddAttachments(AddMissing(AddMissing(context, request.retrieved), ps), fs) \in UserFirst(n)
    BY <1>1, <2>3, AddAttachmentsKeeps
  <2> QED
    BY <2>1, <2>3, <2>4 DEF n
<1> QED
  BY <1>2, <1>3, <1>4, <1>5, <1>6, <1>7

\* So does extend_prompt_context_with_metadata: it moves no block of the user.
LEMMA MetadataKeeps ==
    ASSUME request \in RequestOptions, context \in UserFirst(request.userTexts), MetadataStep
    PROVE  context' \in UserFirst(request.userTexts)
<1> DEFINE n == request.userTexts
           S == {b \in ToSet(context) : ~ IsDescribed(b.id)}
           D == {b \in ToSet(context) : IsDescribed(b.id)}
           described == Chosen(context, D)
           moved == [i \in DOMAIN described |-> [described[i] EXCEPT !.text = Append(@, Metadata)]]
<1>1. n \in Nat /\ context \in Seq(Block)
  BY DEF RequestOptions, UserFirst
<1>2. context' = Chosen(context, S) \o moved
  BY DEF MetadataStep
<1>3. \A i \in 1..n : context[i] \in S
  BY <1>1, UserBlocksThere DEF IsDescribed
<1>4. described \in Seq(D \cap Block)
  BY <1>1, ChosenSeq
<1> HIDE DEF S, D, described
<1>5. Chosen(context, S) \in UserFirst(n)
  BY <1>1, <1>3, ChosenKeeps
<1>6. ASSUME NEW b \in Block PROVE [b EXCEPT !.text = Append(@, Metadata)] \in Block
  <2>1. b.text \in Seq(Piece) /\ Metadata \in Piece
    BY DEF Block, Text, Piece
  <2>2. Append(b.text, Metadata) \in Text
    BY <2>1 DEF Text
  <2> QED
    BY <2>2 DEF Block
<1>7. moved \in Seq(Block)
  BY <1>4, <1>6
<1> HIDE DEF moved
<1> DEFINE c == Chosen(context, S)
           d == c \o moved
<1>8. c \in Seq(Block) /\ n <= Len(c) /\ \A i \in 1..n : c[i] = UserBlock(i)
  BY <1>5 DEF UserFirst
<1> HIDE DEF c
<1>9. d \in Seq(Block) /\ n <= Len(d) /\ \A i \in 1..n : d[i] = c[i]
  BY <1>1, <1>7, <1>8
<1> HIDE DEF d
<1>10. d \in UserFirst(n)
  BY <1>8, <1>9 DEF UserFirst
<1> QED
  BY <1>2, <1>10 DEF d, c, n

---------------------------------------------------------------------------
(***************************************************************************)
(* The cap.                                                                *)
(***************************************************************************)

\* The length of the first n blocks together.
UpTo(c, n) == Size(SubSeq(c, 1, n))

\* It grows by each block.
LEMMA SizeGrows ==
    ASSUME NEW c \in Seq(Block)
    PROVE  /\ UpTo(c, 0) = 0
           /\ \A n \in 1..Len(c) : /\ UpTo(c, n - 1) \in Nat /\ UpTo(c, n) \in Nat
                                   /\ UpTo(c, n) = UpTo(c, n - 1) + Len(c[n].text)
           /\ UpTo(c, Len(c)) = Size(c) /\ Size(c) \in Nat
<1> DEFINE texts == [i \in DOMAIN c |-> c[i].text]
<1>1. texts \in Seq(Text) /\ Len(texts) = Len(c) /\ Len(c) \in Nat
      /\ \A i \in 1..Len(c) : texts[i] = c[i].text
  <2>1. ASSUME NEW i \in DOMAIN c PROVE c[i].text \in Text
    <3>1. c[i] \in Block
      OBVIOUS
    <3> QED
      BY <3>1 DEF Block
  <2> QED
    BY <2>1
<1>2. ASSUME NEW n \in 0..Len(c)
      PROVE  UpTo(c, n) = Len(Joined(SubSeq(texts, 1, n)))
  <2> DEFINE a == SubSeq(c, 1, n)
             b == [i \in DOMAIN a |-> a[i].text]
             t == SubSeq(texts, 1, n)
  <2>1. a \in Seq(Block) /\ Len(a) = n /\ \A i \in 1..n : a[i] = c[i]
    OBVIOUS
  <2>2. t \in Seq(Text) /\ Len(t) = n /\ \A i \in 1..n : t[i] = texts[i]
    <3> HIDE DEF texts
    <3> QED
      BY <1>1
  <2> HIDE DEF a, t
  <2>3. t = b
    <3>1. DOMAIN t = DOMAIN a /\ DOMAIN a = 1..n
      BY <2>1, <2>2
    <3>2. ASSUME NEW i \in 1..n PROVE t[i] = a[i].text
      <4>1. i \in 1..Len(c)
        OBVIOUS
      <4>2. texts[i] = c[i].text
        BY <1>1, <4>1
      <4> HIDE DEF texts
      <4> QED
        BY <2>1, <2>2, <4>2
    <3> QED
      BY <2>2, <3>1, <3>2
  <2>4. UpTo(c, n) = Len(Joined(b))
    BY DEF UpTo, Size, a
  <2> QED
    BY <2>3, <2>4 DEF t
<1> HIDE DEF texts
<1>3. UpTo(c, 0) = 0
  <2>1. SubSeq(texts, 1, 0) = <<>>
    BY <1>1
  <2>2. UpTo(c, 0) = Len(Joined(SubSeq(texts, 1, 0)))
    <3>1. 0 \in 0..Len(c)
      BY <1>1
    <3> QED
      BY <1>2, <3>1
  <2>3. Len(Joined(<<>>)) = 0
    BY JoinedEmpty
  <2> QED
    BY <2>1, <2>2, <2>3
<1>4. ASSUME NEW n \in 1..Len(c)
      PROVE  /\ UpTo(c, n - 1) \in Nat /\ UpTo(c, n) \in Nat
             /\ UpTo(c, n) = UpTo(c, n - 1) + Len(c[n].text)
  <2>1. n \in 1..Len(texts) /\ texts \in Seq(Seq(Piece)) /\ n \in 0..Len(c) /\ n - 1 \in 0..Len(c)
    BY <1>1 DEF Text
  <2>2. /\ Joined(SubSeq(texts, 1, n - 1)) \in Seq(Piece)
        /\ Joined(SubSeq(texts, 1, n)) \in Seq(Piece)
        /\ Len(Joined(SubSeq(texts, 1, n))) = Len(Joined(SubSeq(texts, 1, n - 1))) + Len(texts[n])
    BY <2>1, ConcatLength
  <2>3. /\ UpTo(c, n) = Len(Joined(SubSeq(texts, 1, n)))
        /\ UpTo(c, n - 1) = Len(Joined(SubSeq(texts, 1, n - 1)))
    BY <1>2, <2>1
  <2>4. Len(Joined(SubSeq(texts, 1, n - 1))) \in Nat /\ Len(Joined(SubSeq(texts, 1, n))) \in Nat
    BY <2>2
  <2> QED
    BY <1>1, <2>2, <2>3, <2>4
<1>5. UpTo(c, Len(c)) = Size(c)
  <2>1. SubSeq(c, 1, Len(c)) = c
    OBVIOUS
  <2> QED
    BY <2>1 DEF UpTo
<1>6. Size(c) \in Nat
  <2>1. Joined(texts) \in Seq(Piece)
    BY <1>1, JoinedSeq DEF Text
  <2>2. Size(c) = Len(Joined(texts))
    BY DEF Size, texts
  <2> QED
    BY <2>1, <2>2
<1> QED
  BY <1>3, <1>4, <1>5, <1>6

\* Contexts that begin alike are as long so far.
LEMMA UpToSame ==
    ASSUME NEW c \in Seq(Block), NEW d \in Seq(Block), NEW n \in Nat, n <= Len(c), n <= Len(d),
           \A i \in 1..n : d[i] = c[i]
    PROVE  UpTo(d, n) = UpTo(c, n)
<1>1. SubSeq(d, 1, n) = SubSeq(c, 1, n)
  BY SameBeginning
<1> QED
  BY <1>1 DEF UpTo

\* What cap returns: the first of what it was given, the last of them perhaps cut,
\* and as much as the limit allows.
Capped(c, d, limit) ==
  /\ d \in Seq(Block) /\ Len(d) <= Len(c)
  /\ Size(d) = IF Size(c) < limit THEN Size(c) ELSE limit
  /\ \A i \in 1..(Len(d) - 1) : d[i] = c[i]
  /\ d # <<>> => d[Len(d)].id = c[Len(d)].id /\ IsPrefix(d[Len(d)].text, c[Len(d)].text)

\* Entry n of c, cut at the limit, when those before it are of length u.
CutEntry(c, n, u, limit) == [c[n] EXCEPT !.text = SubSeq(@, 1, limit - u)]

\* One entry of the loop of cap: what is left of the first n entries, if d is left of
\* the first n - 1.
CapEntry(c, n, limit, d) ==
  IF UpTo(c, n) <= limit THEN SubSeq(c, 1, n)
  ELSE IF UpTo(c, n - 1) >= limit THEN d
  ELSE Append(SubSeq(c, 1, n - 1), CutEntry(c, n, UpTo(c, n - 1), limit))

\* The recursive function of Cap(c, limit).
Caps(c, limit, f) ==
  f = [n \in 0..Len(c) |-> IF n = 0 THEN <<>> ELSE CapEntry(c, n, limit, f[n - 1])]

\* An entry that is cut is the beginning of what it was.
LEMMA CutEntryCut ==
    ASSUME NEW c \in Seq(Block), NEW n \in 1..Len(c), NEW u \in Nat, NEW limit \in Nat,
           u < limit, limit < u + Len(c[n].text)
    PROVE  /\ CutEntry(c, n, u, limit) \in Block
           /\ CutEntry(c, n, u, limit).id = c[n].id
           /\ IsPrefix(CutEntry(c, n, u, limit).text, c[n].text)
           /\ Len(CutEntry(c, n, u, limit).text) = limit - u
<1> DEFINE t == c[n].text
           k == limit - u
           e == SubSeq(t, 1, k)
<1>1. c[n] \in Block
  OBVIOUS
<1>2. t \in Seq(Piece) /\ c[n] = [id |-> c[n].id, text |-> t] /\ c[n].id \in BlockId
  BY <1>1 DEF Block, Text
<1>3. CutEntry(c, n, u, limit) = [id |-> c[n].id, text |-> e]
  <2> DEFINE b == c[n]
  <2>1. b = [id |-> b.id, text |-> b.text] /\ CutEntry(c, n, u, limit) = [b EXCEPT !.text = e]
    BY <1>2 DEF CutEntry
  <2> HIDE DEF b, e
  <2>2. [b EXCEPT !.text = e] = [id |-> b.id, text |-> e]
    BY <2>1
  <2> QED
    BY <2>1, <2>2 DEF b
<1>4. k \in Nat \ {0} /\ k <= Len(t)
  BY <1>2
<1> HIDE DEF t, k
<1>5. e \in Seq(Piece) /\ Len(e) = k /\ \A i \in 1..k : e[i] = t[i]
  BY <1>2, <1>4
<1>6. IsPrefix(e, t)
  <2> HIDE DEF e
  <2> QED
    BY <1>2, <1>4, <1>5 DEF IsPrefix
<1> HIDE DEF e
<1> QED
  BY <1>2, <1>3, <1>5, <1>6 DEF Block, Text, t, k

\* What is left of the first n entries of c.
CappedTo(c, n, limit, d) ==
  /\ d \in Seq(Block) /\ Len(d) <= n
  /\ Size(d) = IF UpTo(c, n) < limit THEN UpTo(c, n) ELSE limit
  /\ \A i \in 1..(Len(d) - 1) : d[i] = c[i]
  /\ d # <<>> => d[Len(d)].id = c[Len(d)].id /\ IsPrefix(d[Len(d)].text, c[Len(d)].text)

\* The loop of cap leaves as much of the first n entries as the limit allows, if it does
\* of the first n - 1.
LEMMA CapEntryCaps ==
    ASSUME NEW c \in Seq(Block), NEW n \in 1..Len(c), NEW limit \in Nat, NEW d \in Seq(Block)
    PROVE  /\ CapEntry(c, n, limit, d) \in Seq(Block)
           /\ CappedTo(c, n - 1, limit, d) => CappedTo(c, n, limit, CapEntry(c, n, limit, d))
<1> DEFINE u == UpTo(c, n - 1)
           v == UpTo(c, n)
           first == SubSeq(c, 1, n)
           before == SubSeq(c, 1, n - 1)
           e == CutEntry(c, n, u, limit)
           cut == Append(before, e)
<1>1. u \in Nat /\ v \in Nat /\ v = u + Len(c[n].text)
  BY SizeGrows
<1>2. /\ first \in Seq(Block) /\ Len(first) = n /\ \A i \in 1..n : first[i] = c[i]
      /\ before \in Seq(Block) /\ Len(before) = n - 1 /\ \A i \in 1..(n - 1) : before[i] = c[i]
  OBVIOUS
<1>3. Size(first) = v /\ Size(before) = u
  BY DEF UpTo
<1>4. c[n] \in Block /\ c[n].text \in Seq(Piece)
  <2>1. c[n] \in Block
    OBVIOUS
  <2> QED
    BY <2>1 DEF Block, Text
<1> HIDE DEF u, v, first, before
<1>5. CASE v <= limit
  <2>1. CapEntry(c, n, limit, d) = first
    BY <1>5 DEF CapEntry, first, v
  <2>2. IsPrefix(c[n].text, c[n].text)
    <3> DEFINE t == c[n].text
    <3>1. t \in Seq(Piece)
      BY <1>4
    <3> HIDE DEF t
    <3> QED
      BY <3>1 DEF IsPrefix
  <2>3. Size(first) = IF v < limit THEN v ELSE limit
    BY <1>1, <1>3, <1>5
  <2>4. CappedTo(c, n, limit, first)
    BY <1>2, <2>2, <2>3 DEF CappedTo, v
  <2> QED
    BY <1>2, <2>1, <2>4
<1>6. CASE ~(v <= limit) /\ u >= limit
  <2>1. CapEntry(c, n, limit, d) = d
    BY <1>6 DEF CapEntry, u, v
  <2>2. ASSUME CappedTo(c, n - 1, limit, d) PROVE CappedTo(c, n, limit, d)
    <3>1. (IF u < limit THEN u ELSE limit) = (IF v < limit THEN v ELSE limit)
      BY <1>1, <1>6
    <3>2. Len(d) <= n - 1 => Len(d) <= n
      OBVIOUS
    <3> QED
      BY <2>2, <3>1, <3>2 DEF CappedTo, u, v
  <2> QED
    BY <2>1, <2>2
<1>7. CASE ~(v <= limit) /\ u < limit
  <2>1. CapEntry(c, n, limit, d) = cut
    BY <1>1, <1>7 DEF CapEntry, u, v, before
  <2>2. /\ e \in Block /\ e.id = c[n].id /\ IsPrefix(e.text, c[n].text) /\ Len(e.text) = limit - u
    BY <1>1, <1>7, CutEntryCut
  <2> HIDE DEF e
  <2>3. /\ cut \in Seq(Block) /\ Len(cut) = n /\ cut[n] = e
        /\ \A i \in 1..(n - 1) : cut[i] = c[i]
    BY <1>2, <2>2
  <2> HIDE DEF cut
  <2>4. Size(cut) = limit
    <3>1. UpTo(cut, n) = UpTo(cut, n - 1) + Len(cut[n].text) /\ UpTo(cut, n) = Size(cut)
      <4>1. n \in 1..Len(cut)
        BY <2>3
      <4> QED
        BY <2>3, <4>1, SizeGrows
    <3>2. UpTo(cut, n - 1) = u
      <4>1. n - 1 \in Nat /\ n - 1 <= Len(c) /\ n - 1 <= Len(cut)
        BY <2>3
      <4> QED
        BY <2>3, <4>1, UpToSame DEF u
    <3> QED
      BY <1>1, <1>7, <2>2, <2>3, <3>1, <3>2
  <2>5. Size(cut) = IF v < limit THEN v ELSE limit
    BY <1>1, <1>7, <2>4
  <2>6. CappedTo(c, n, limit, cut)
    BY <2>2, <2>3, <2>5 DEF CappedTo, v
  <2> QED
    BY <2>1, <2>3, <2>6
<1> QED
  BY <1>1, <1>5, <1>6, <1>7

\* The loop of cap has a value for each entry.
LEMMA CapSteps ==
    ASSUME NEW c \in Seq(Block), NEW limit \in Nat
    PROVE  \E f : /\ f[0] = <<>> /\ Cap(c, limit) = f[Len(c)]
                  /\ \A n \in 1..Len(c) : f[n] = CapEntry(c, n, limit, f[n - 1])
<1> DEFINE A == Seq(Block)
           N == 1..Len(c)
           ns == [n \in N |-> n]
           G == [p \in A \X N |-> CapEntry(c, p[2], limit, p[1])]
           g == CHOOSE f : Caps(c, limit, f)
<1>1. Len(c) \in Nat /\ ns \in Seq(N) /\ Len(ns) = Len(c) /\ \A n \in N : ns[n] = n
  OBVIOUS
<1>2. \A d \in A, n \in N : G[<<d, n>>] = CapEntry(c, n, limit, d)
  OBVIOUS
<1>3. \A d \in A, n \in N : CapEntry(c, n, limit, d) \in A
  BY CapEntryCaps
<1> HIDE DEF G, ns
<1>4. PICK f : FoldsOver(G, <<>>, ns, f)
  BY <1>1, FoldExists
<1>5. \A n \in 0..Len(c) : f[n] = IF n = 0 THEN <<>> ELSE G[<<f[n - 1], ns[n]>>]
  BY <1>1, <1>4 DEF FoldsOver
<1>6. \A n \in 0..Len(c) : f[n] \in A
  <2>1. f[0] \in A
    <3>1. 0 \in 0..Len(c) /\ <<>> \in Seq(Block)
      BY <1>1
    <3> QED
      BY <1>5, <3>1
  <2>2. ASSUME NEW n \in N, f[n - 1] \in A PROVE f[n] \in A
    <3>1. f[n] = G[<<f[n - 1], n>>]
      <4>1. n \in 0..Len(c) /\ n # 0 /\ ns[n] = n
        BY <1>1
      <4> QED
        BY <1>5, <4>1
    <3> QED
      BY <1>2, <1>3, <2>2, <3>1
  <2> QED
    BY <1>1, <2>1, <2>2, StepsKeep
<1>7. Caps(c, limit, f)
  <2>1. ASSUME NEW n \in 0..Len(c)
        PROVE  (IF n = 0 THEN <<>> ELSE G[<<f[n - 1], ns[n]>>])
                 = (IF n = 0 THEN <<>> ELSE CapEntry(c, n, limit, f[n - 1]))
    <3>1. CASE n # 0
      <4>1. n \in N /\ n - 1 \in 0..Len(c)
        BY <1>1, <3>1
      <4> QED
        BY <1>1, <1>2, <1>6, <4>1
    <3> QED
      BY <3>1
  <2> QED
    BY <1>1, <1>4, <2>1 DEF FoldsOver, Caps
<1>8. Caps(c, limit, g)
  BY <1>7
<1>9. Cap(c, limit) = g[Len(c)]
  BY DEF Cap, Caps, CapEntry, CutEntry, UpTo
<1> HIDE DEF g
<1>10. g[0] = <<>> /\ \A n \in N : g[n] = CapEntry(c, n, limit, g[n - 1])
  <2>1. \A n \in 0..Len(c) : g[n] = IF n = 0 THEN <<>> ELSE CapEntry(c, n, limit, g[n - 1])
    BY <1>8 DEF Caps
  <2>2. 0 \in 0..Len(c) /\ \A n \in N : n \in 0..Len(c) /\ n # 0
    BY <1>1
  <2> QED
    BY <2>1, <2>2
<1> QED
  BY <1>9, <1>10

\* cap leaves the beginning of a context, as much as the limit allows.
LEMMA CapCaps ==
    ASSUME NEW c \in Seq(Block), NEW limit \in Nat
    PROVE  Capped(c, Cap(c, limit), limit)
<1>1. PICK f : /\ f[0] = <<>> /\ Cap(c, limit) = f[Len(c)]
               /\ \A n \in 1..Len(c) : f[n] = CapEntry(c, n, limit, f[n - 1])
  BY CapSteps
<1>2. UpTo(c, 0) = 0 /\ UpTo(c, Len(c)) = Size(c) /\ Len(c) \in Nat
  BY SizeGrows
<1> DEFINE I == {n \in Nat : n <= Len(c) => CappedTo(c, n, limit, f[n])}
<1>3. 0 \in I
  <2>1. <<>> \in Seq(Block) /\ Len(<<>>) = 0
    OBVIOUS
  <2>2. Size(<<>>) = 0
    <3>1. SubSeq(c, 1, 0) = <<>>
      OBVIOUS
    <3> QED
      BY <1>2, <3>1 DEF UpTo
  <2>3. CappedTo(c, 0, limit, <<>>)
    <3>1. Size(<<>>) = IF UpTo(c, 0) < limit THEN UpTo(c, 0) ELSE limit
      BY <1>2, <2>2
    <3> QED
      BY <2>1, <3>1 DEF CappedTo
  <2> QED
    BY <1>1, <2>3
<1>4. ASSUME NEW n \in Nat, n \in I PROVE n + 1 \in I
  <2> SUFFICES ASSUME n + 1 <= Len(c) PROVE CappedTo(c, n + 1, limit, f[n + 1])
    OBVIOUS
  <2>1. n + 1 \in 1..Len(c) /\ (n + 1) - 1 = n
    OBVIOUS
  <2>2. CappedTo(c, n, limit, f[n]) /\ f[n] \in Seq(Block)
    BY <1>4 DEF CappedTo
  <2>3. f[n + 1] = CapEntry(c, n + 1, limit, f[n])
    BY <1>1, <2>1
  <2> QED
    BY <2>1, <2>2, <2>3, CapEntryCaps
<1>5. Nat \subseteq I
  <2> HIDE DEF I
  <2> QED
    BY <1>3, <1>4, Induction
<1>6. CappedTo(c, Len(c), limit, Cap(c, limit))
  BY <1>1, <1>2, <1>5
<1> QED
  BY <1>2, <1>6 DEF CappedTo, Capped

---------------------------------------------------------------------------
(***************************************************************************)
(* The inductive invariant, and what follows from it.                      *)
(***************************************************************************)

\* Before the cap the user's texts are in front, and after it nothing is left to do and
\* what is sent is the cap of what was built.
PromptInv ==
  /\ request \in RequestOptions
  /\ steps \in CapLast
  /\ context \in Seq(Block)
  /\ built = <<>> => context \in UserFirst(request.userTexts)
  /\ built # <<>> => /\ steps = <<>>
                     /\ built \in UserFirst(request.userTexts)
                     /\ Capped(built, context, request.limit)

\* What is left to do when a step is taken.
LEMMA TailCapLast ==
    ASSUME steps \in CapLast, steps # <<>>
    PROVE  Tail(steps) \in CapLast /\ (Head(steps) = "cap" => Tail(steps) = <<>>)
<1> DEFINE s == steps
           t == Tail(steps)
<1>1. s \in Seq(StepNames) /\ Len(s) \in Nat \ {0} /\ \A i \in 1..Len(s) : s[i] = "cap" => i = Len(s)
  BY DEF CapLast
<1>2. /\ t \in Seq(StepNames) /\ Len(t) = Len(s) - 1 /\ Head(s) = s[1]
      /\ \A i \in 1..(Len(s) - 1) : t[i] = s[i + 1]
  BY <1>1
<1> HIDE DEF s, t
<1>3. ASSUME NEW i \in DOMAIN t, t[i] = "cap" PROVE i = Len(t)
  <2>1. DOMAIN t = 1..Len(t)
    BY <1>2
  <2>2. i \in 1..(Len(s) - 1)
    BY <1>2, <1>3, <2>1
  <2>3. i + 1 \in 1..Len(s) /\ s[i + 1] = "cap"
    BY <1>1, <1>2, <1>3, <2>2
  <2> QED
    BY <1>1, <1>2, <2>2, <2>3
<1>4. Head(s) = "cap" => t = <<>>
  <2> SUFFICES ASSUME Head(s) = "cap" PROVE t = <<>>
    OBVIOUS
  <2>1. 1 \in 1..Len(s) /\ s[1] = "cap"
    BY <1>1, <1>2
  <2>2. Len(t) = 0
    BY <1>1, <1>2, <2>1
  <2> QED
    BY <1>2, <2>2
<1>5. t \in CapLast
  BY <1>2, <1>3 DEF CapLast
<1> QED
  BY <1>4, <1>5 DEF s, t

\* What an ask has to do ends with the cap.
LEMMA StepsCapLast ==
    ASSUME NEW r
    PROVE  StepsOf(r) \o <<"images", "cap">> \in CapLast
<1> DEFINE Names == StepNames \ {"cap"}
           s == StepsOf(r)
           t == s \o <<"images", "cap">>
<1>1. StepOrder \in Seq(Names) /\ <<"default">> \in Seq(Names)
  <2>1. /\ "full_resource" \in Names /\ "hierarchy" \in Names /\ "neighbouring" \in Names
        /\ "extension" \in Names /\ "conversation" \in Names /\ "metadata" \in Names
        /\ "default" \in Names
    BY DEF StepNames
  <2> HIDE DEF Names
  <2> QED
    BY <2>1 DEF StepOrder
<1>2. ASSUME NEW S PROVE Chosen(StepOrder, S) \in Seq(Names)
  <2> HIDE DEF Names
  <2>1. Chosen(StepOrder, S) \in Seq(S \cap Names)
    BY <1>1, ChosenSeq
  <2> QED
    BY <2>1
<1>3. s \in Seq(Names)
  BY <1>1, <1>2 DEF StepsOf
<1> HIDE DEF s
<1>4. /\ t \in Seq(StepNames) /\ Len(t) = Len(s) + 2 /\ Len(s) \in Nat
      /\ \A i \in 1..Len(s) : t[i] = s[i] /\ s[i] # "cap"
      /\ t[Len(s) + 1] = "images"
  <2> DEFINE e == <<"images", "cap">>
  <2>1. e \in Seq(StepNames) /\ Len(e) = 2 /\ e[1] = "images"
    BY DEF StepNames
  <2>2. s \in Seq(StepNames) /\ Len(s) \in Nat
    BY <1>3
  <2>3. \A i \in 1..Len(s) : s[i] \in Names
    BY <1>3
  <2> HIDE DEF e
  <2>4. /\ s \o e \in Seq(StepNames) /\ Len(s \o e) = Len(s) + Len(e)
        /\ \A i \in 1..Len(s) : (s \o e)[i] = s[i]
        /\ \A i \in 1..Len(e) : (s \o e)[Len(s) + i] = e[i]
    <3>1. s \in Seq(StepNames) /\ e \in Seq(StepNames)
      BY <2>1, <2>2
    <3> QED
      BY <3>1
  <2>5. 1 \in 1..Len(e)
    BY <2>1
  <2> QED
    BY <2>1, <2>2, <2>3, <2>4, <2>5 DEF e
<1> HIDE DEF t
<1>5. ASSUME NEW i \in DOMAIN t, t[i] = "cap" PROVE i = Len(t)
  <2>1. i \in 1..(Len(s) + 2)
    BY <1>4
  <2>2. i \notin 1..Len(s) /\ i # Len(s) + 1
    BY <1>4, <1>5
  <2> QED
    BY <1>4, <2>1, <2>2
<1>6. t \in CapLast
  BY <1>4, <1>5 DEF CapLast
<1> QED
  BY <1>6 DEF t, s

\* The invariant holds of the paragraphs the steps start from.
LEMMA InitPrompt == PromptInit => PromptInv
<1> SUFFICES ASSUME PromptInit PROVE PromptInv
  OBVIOUS
<1>1. request \in RequestOptions
  BY PromptAssumption DEF PromptInit
<1>2. request.userTexts \in Nat /\ request.retrieved \in Seq(AllParagraphs)
  BY <1>1 DEF RequestOptions
<1>3. steps \in CapLast
  BY StepsCapLast DEF PromptInit
<1>4. UserContext(request) \in UserFirst(request.userTexts)
  <2> DEFINE n == request.userTexts
             c == [i \in 1..n |-> UserBlock(i)]
  <2>1. c \in Seq(Block) /\ Len(c) = n
    BY <1>2, UserBlockIsBlock
  <2>2. \A i \in 1..n : c[i] = UserBlock(i)
    OBVIOUS
  <2>3. UserContext(request) = c
    BY DEF UserContext, UserBlock
  <2> HIDE DEF c
  <2> QED
    BY <1>2, <2>1, <2>2, <2>3 DEF UserFirst
<1>5. AddParagraphs(UserContext(request), request.retrieved) \in UserFirst(request.userTexts)
  BY <1>2, <1>4, AddParagraphsKeeps
<1>6. context \in UserFirst(request.userTexts)
  BY <1>4, <1>5 DEF PromptInit
<1> QED
  BY <1>1, <1>3, <1>6 DEF PromptInit, PromptInv, UserFirst

\* Every step, every failure and every deletion keeps the invariant.
LEMMA NextPrompt == PromptInv /\ [PromptNext]_promptVars => PromptInv'
<1> SUFFICES ASSUME PromptInv, [PromptNext]_promptVars PROVE PromptInv'
  OBVIOUS
<1>1. /\ request \in RequestOptions /\ steps \in CapLast /\ context \in Seq(Block)
      /\ (built = <<>> => context \in UserFirst(request.userTexts))
      /\ (built # <<>> => steps = <<>>)
  BY DEF PromptInv
<1>2. ASSUME request' = request, steps # <<>>, steps' = Tail(steps), built' = built,
             context \in UserFirst(request.userTexts) => context' \in UserFirst(request.userTexts)
      PROVE  PromptInv'
  <2>1. built = <<>> /\ context' \in UserFirst(request.userTexts)
    BY <1>1, <1>2
  <2>2. steps' \in CapLast
    BY <1>1, <1>2, TailCapLast
  <2> QED
    BY <1>1, <1>2, <2>1, <2>2 DEF PromptInv, UserFirst
<1>3. CASE UNCHANGED promptVars
  BY <1>3 DEF promptVars, PromptInv
<1>4. CASE FailBuild
  <2>1. <<>> \in CapLast
    BY DEF CapLast
  <2> QED
    BY <1>4, <2>1 DEF FailBuild, PromptInv
<1>5. ASSUME NEW r \in Resources, DeleteResource(r) PROVE PromptInv'
  BY <1>5 DEF DeleteResource, PromptInv
<1>6. CASE \/ DefaultStep \/ FullResourceStep \/ HierarchyStep \/ NeighbouringStep \/ ExtensionStep
           \/ ConversationStep
  <2>1. request' = request /\ steps # <<>> /\ steps' = Tail(steps) /\ built' = built
    BY <1>6 DEF DefaultStep, FullResourceStep, HierarchyStep, NeighbouringStep, ExtensionStep,
           ConversationStep, At, Proceed
  <2> QED
    BY <1>1, <1>2, <1>6, <2>1, StepsKeepUser
<1>12. CASE MetadataStep
  BY <1>1, <1>2, <1>12, MetadataKeeps DEF MetadataStep, At, Proceed
<1>13. CASE ImagesStep
  BY <1>1, <1>2, <1>13 DEF ImagesStep, At, Proceed
<1>14. CASE CapStep
  <2>1. /\ steps # <<>> /\ Head(steps) = "cap" /\ steps' = Tail(steps) /\ request' = request
        /\ built' = context /\ context' = Cap(context, request.limit)
    BY <1>14 DEF CapStep, At, Proceed
  <2>2. steps' = <<>> /\ steps' \in CapLast
    BY <1>1, <2>1, TailCapLast
  <2>3. context \in UserFirst(request.userTexts) /\ request.limit \in Nat
    BY <1>1, <2>1 DEF RequestOptions
  <2>4. Capped(context, context', request.limit)
    BY <1>1, <2>1, <2>3, CapCaps
  <2>5. context' \in Seq(Block) /\ Len(context') <= Len(context)
    BY <2>4 DEF Capped
  <2>6. context = <<>> => context' = <<>>
    BY <2>5
  <2>7. built' # <<>> => /\ steps' = <<>> /\ built' \in UserFirst(request'.userTexts)
                         /\ Capped(built', context', request'.limit)
    BY <2>1, <2>2, <2>3, <2>4
  <2>8. built' = <<>> => context' \in UserFirst(request'.userTexts)
    BY <2>1, <2>3, <2>6
  <2> QED
    BY <1>1, <2>1, <2>2, <2>5, <2>7, <2>8 DEF PromptInv
<1> QED
  BY <1>3, <1>4, <1>5, <1>6, <1>12, <1>13, <1>14 DEF PromptNext

\* What holds of a prompt while it is built, and when it is sent.
THEOREM PromptInvariant == PromptSpec => []PromptInv
BY InitPrompt, NextPrompt, PTL DEF PromptSpec

\* UserContextFirst: the texts of the user are in front of what the strategies add, and
\* are cut only when nothing follows, for any knowledge box, strategies and deletions.
THEOREM UserTextsFirst == PromptSpec => []UserContextFirst
<1>1. PromptInv => UserContextFirst
  <2> SUFFICES ASSUME PromptInv PROVE UserContextFirst
    OBVIOUS
  <2> DEFINE n == request.userTexts
  <2>1. n \in Nat
    BY DEF PromptInv, RequestOptions
  <2>2. \A i \in Nat : UserBlock(i).id = User(i) /\ UserBlock(i).text = <<User(i)>>
    BY DEF UserBlock
  <2>3. CASE built = <<>>
    <3>1. /\ context \in Seq(Block) /\ n <= Len(context)
          /\ \A i \in 1..n : context[i] = UserBlock(i)
      BY <2>3 DEF PromptInv, UserFirst
    <3>2. ASSUME NEW i \in DOMAIN context, i <= n
          PROVE  context[i].id = User(i) /\ context[i].text = <<User(i)>>
      <4>1. i \in 1..n /\ i \in Nat
        BY <2>1, <3>1, <3>2
      <4> QED
        BY <2>2, <3>1, <4>1
    <3> QED
      BY <3>1, <3>2 DEF UserContextFirst
  <2>4. CASE built # <<>>
    <3> DEFINE m == Len(context)
    <3>1. /\ context \in Seq(Block) /\ m <= Len(built)
          /\ \A i \in 1..(m - 1) : context[i] = built[i]
          /\ (context # <<>> => context[m].id = built[m].id)
          /\ n <= Len(built) /\ \A i \in 1..n : built[i] = UserBlock(i)
      BY <2>4 DEF PromptInv, Capped, UserFirst
    <3>2. ASSUME NEW i \in DOMAIN context, i <= n
          PROVE  context[i].id = User(i) /\ (i < m => context[i].text = <<User(i)>>)
      <4>1. i \in 1..n /\ i \in Nat /\ i \in 1..m /\ context # <<>>
        BY <2>1, <3>1, <3>2
      <4>2. CASE i = m
        BY <2>2, <3>1, <4>1, <4>2
      <4>3. CASE i \in 1..(m - 1)
        BY <2>2, <3>1, <4>1, <4>3
      <4> QED
        BY <3>1, <4>1, <4>2, <4>3
    <3> QED
      BY <2>4, <3>2 DEF UserContextFirst
  <2> QED
    BY <2>3, <2>4
<1> QED
  BY <1>1, PromptInvariant, PTL

\* PromptCapped: what is sent is the beginning of what was built, as long as the limit
\* allows and cut in its last block only, for any limit and any texts.
THEOREM PromptsCapped == PromptSpec => []PromptCapped
<1>1. PromptInv => PromptCapped
  <2> SUFFICES ASSUME PromptInv, built # <<>> PROVE PromptCapped
    BY DEF PromptCapped, Finished
  <2>1. Capped(built, context, request.limit)
    BY DEF PromptInv
  <2>2. context \in Seq(Block) /\ (Len(context) > 0 => context # <<>>)
    BY <2>1 DEF Capped
  <2> QED
    BY <2>1, <2>2 DEF PromptCapped, Capped
<1> QED
  BY <1>1, PromptInvariant, PTL

---------------------------------------------------------------------------
(***************************************************************************)
(* What was retrieved is kept.                                             *)
(***************************************************************************)

\* The blocks that have the text they are named for: that of a paragraph has it, unless its
\* resource is among gone, and that of a field has all its paragraphs.
Telling(gone) ==
  {b \in Block :
     /\ \A p \in AllParagraphs : b.id = Par(p) => p \in ToSet(b.text) \/ Home(p) \in gone
     /\ \A f \in Fields : b.id = Whole(f) => ToSet(Paragraphs[f]) \subseteq ToSet(b.text)}

\* hierarchy leaves an empty text of a resource that was deleted.
Gone == IF "hierarchy" \in request.strategies THEN deleted ELSE {}

\* p may have gone with the text of its field, when that of one whose id begins its own
\* was added.
Hidden(p, ids) ==
  "full_resource" \in request.strategies
    /\ \E f \in Fields : Whole(f) \in ids /\ <<f, FieldOf(p)>> \in PrefixOf

\* Every retrieved paragraph has a block in c, its own or its field's.
RetrievedIn(c, ids) ==
  \A p \in ToSet(request.retrieved) :
    Par(p) \in Ids(c) \/ Whole(FieldOf(p)) \in Ids(c) \/ Hidden(p, ids)

\* Blocks that steps put, but for those of hierarchy, have the text they are named for.
LEMMA PutTell ==
    ASSUME NEW gone
    PROVE  /\ Telling(gone) \subseteq Block
           /\ \A p \in AllParagraphs : [id |-> Par(p), text |-> <<p>>] \in Telling(gone)
           /\ \A f \in Fields : /\ [id |-> Whole(f), text |-> WholeText(f)] \in Telling(gone)
                                /\ [id |-> Attachment(f), text |-> WholeText(f)] \in Telling(gone)
           /\ \A i \in Nat : UserBlock(i) \in Telling(gone)
<1>1. ASSUME NEW p \in AllParagraphs PROVE [id |-> Par(p), text |-> <<p>>] \in Telling(gone)
  <2> DEFINE b == [id |-> Par(p), text |-> <<p>>]
  <2>1. b \in Found
    <3>1. <<p>> \in Seq(AllParagraphs)
      OBVIOUS
    <3> QED
      BY <3>1, ParagraphsAreText DEF Found, FoundId
  <2>2. p \in ToSet(b.text)
    BY DEF ToSet
  <2>3. \A q \in AllParagraphs : b.id = Par(q) => q = p
    BY DEF Par
  <2>4. \A f \in Fields : b.id # Whole(f)
    BY DEF Par, Whole
  <2> HIDE DEF b
  <2>5. b \in Telling(gone)
    BY <2>1, <2>2, <2>3, <2>4, FoundIsBlock DEF Telling
  <2> QED
    BY <2>5 DEF b
<1>2. ASSUME NEW f \in Fields
      PROVE  /\ [id |-> Whole(f), text |-> WholeText(f)] \in Telling(gone)
             /\ [id |-> Attachment(f), text |-> WholeText(f)] \in Telling(gone)
  <2> DEFINE b == [id |-> Whole(f), text |-> WholeText(f)]
             a == [id |-> Attachment(f), text |-> WholeText(f)]
  <2>1. a \in Found /\ b \in Found
    BY ParagraphsAreText DEF Found, FoundId, WholeText
  <2>2. ToSet(Paragraphs[f]) \subseteq ToSet(b.text)
    BY DEF WholeText
  <2>3. \A p \in AllParagraphs : b.id # Par(p) /\ a.id # Par(p)
    BY DEF Par, Whole, Attachment
  <2>4. \A g \in Fields : (b.id = Whole(g) => g = f) /\ a.id # Whole(g)
    BY DEF Whole, Attachment
  <2> HIDE DEF a, b
  <2>5. a \in Telling(gone) /\ b \in Telling(gone)
    BY <2>1, <2>2, <2>3, <2>4, FoundIsBlock DEF Telling
  <2> QED
    BY <2>5 DEF a, b
<1>3. ASSUME NEW i \in Nat PROVE UserBlock(i) \in Telling(gone)
  <2> DEFINE b == UserBlock(i)
  <2>1. b \in Block
    BY UserBlockIsBlock
  <2>2. \A p \in AllParagraphs : b.id # Par(p)
    BY DEF UserBlock, User, Par
  <2>3. \A g \in Fields : b.id # Whole(g)
    BY DEF UserBlock, User, Whole
  <2> HIDE DEF b
  <2>4. b \in Telling(gone)
    BY <2>1, <2>2, <2>3 DEF Telling
  <2> QED
    BY <2>4 DEF b
<1> QED
  BY <1>1, <1>2, <1>3 DEF Telling

\* More may be gone, and metadata may be added.
LEMMA TellStays ==
    ASSUME NEW gone, NEW more, gone \subseteq more
    PROVE  /\ Telling(gone) \subseteq Telling(more)
           /\ \A b \in Telling(gone) : [b EXCEPT !.text = Append(@, Metadata)] \in Telling(gone)
<1>1. Telling(gone) \subseteq Telling(more)
  BY DEF Telling
<1>2. ASSUME NEW b \in Telling(gone) PROVE [b EXCEPT !.text = Append(@, Metadata)] \in Telling(gone)
  <2> DEFINE d == [b EXCEPT !.text = Append(@, Metadata)]
  <2>1. b \in Block /\ b.text \in Seq(Piece) /\ Metadata \in Piece
    BY DEF Telling, Block, Text, Piece
  <2>2. d \in Block /\ d.id = b.id /\ d.text = Append(b.text, Metadata)
    <3>1. Append(b.text, Metadata) \in Text
      BY <2>1 DEF Text
    <3> QED
      BY <2>1, <3>1 DEF Block
  <2>3. ToSet(d.text) = ToSet(b.text) \cup {Metadata}
    BY <2>1, <2>2, ToSetAppend
  <2> HIDE DEF d
  <2>4. d \in Telling(gone)
    BY <2>2, <2>3 DEF Telling
  <2> QED
    BY <2>4 DEF d
<1> QED
  BY <1>1, <1>2

\* The text of a field in the place of its blocks loses no retrieved paragraph, but those of
\* a field whose id it begins.
LEMMA ReplaceRetrieved ==
    ASSUME "full_resource" \in request.strategies, request \in RequestOptions,
           NEW gone, NEW ids, NEW c \in Seq(Telling(gone)), NEW f \in Fields,
           Whole(f) \in ids, RetrievedIn(c, ids)
    PROVE  RetrievedIn(ReplaceBlocks(c, f), ids)
<1> DEFINE d == ReplaceBlocks(c, f)
           w == [id |-> Whole(f), text |-> WholeText(f)]
<1>1. /\ d \in Seq(Telling(gone))
      /\ ToSet(d) = {b \in ToSet(c) : ~ BeginsWith(b.id, f) /\ b.id # Whole(f)} \cup {w}
  BY PutTell, ReplaceBlocksIn
<1> HIDE DEF d
<1>2. Ids(d) = {b.id : b \in ToSet(d)} /\ Ids(c) = {b.id : b \in ToSet(c)}
  BY <1>1, IdsOfBlocks
<1>3. Whole(f) \in Ids(d)
  <2>1. w \in ToSet(d) /\ w.id = Whole(f)
    BY <1>1
  <2> QED
    BY <1>2, <2>1
<1>4. \A id \in Ids(c) : id \in Ids(d) \/ id = Whole(f) \/ BeginsWith(id, f)
  BY <1>1, <1>2
<1>5. ASSUME NEW p \in ToSet(request.retrieved)
      PROVE  Par(p) \in Ids(d) \/ Whole(FieldOf(p)) \in Ids(d) \/ Hidden(p, ids)
  <2>1. p \in AllParagraphs
    BY DEF RequestOptions, ToSet
  <2>2. FieldOf(p) \in Fields
    BY <2>1, FieldOfParagraph
  <2>3. BlockField(Par(p)) = FieldOf(p) /\ BlockField(Whole(FieldOf(p))) = FieldOf(p)
    BY DEF BlockField, Par, Whole
  <2>4. ASSUME FieldOf(p) = f \/ <<f, FieldOf(p)>> \in PrefixOf
        PROVE  Whole(FieldOf(p)) \in Ids(d) \/ Hidden(p, ids)
    BY <1>3, <2>4 DEF Hidden
  <2>5. BeginsWith(Par(p), f) \/ BeginsWith(Whole(FieldOf(p)), f)
          => FieldOf(p) = f \/ <<f, FieldOf(p)>> \in PrefixOf
    BY <2>3 DEF BeginsWith
  <2>6. Par(p) # Whole(f)
    BY DEF Par, Whole
  <2>7. Par(p) \in Ids(c) \/ Whole(FieldOf(p)) \in Ids(c) \/ Hidden(p, ids)
    BY DEF RetrievedIn
  <2> QED
    BY <1>3, <1>4, <2>4, <2>5, <2>6, <2>7
<1> QED
  BY <1>5 DEF RetrievedIn, d

\* More blocks, and more fields added, have the retrieved paragraphs still.
LEMMA RetrievedStays ==
    ASSUME NEW c, NEW d, NEW ids, NEW more, RetrievedIn(c, ids), Ids(c) \subseteq Ids(d), ids \subseteq more
    PROVE  RetrievedIn(d, more)
BY DEF RetrievedIn, Hidden

\* The metadata of a resource is put behind the texts of its blocks, which have the ids
\* they had.
LEMMA MetadataIn ==
    ASSUME NEW G, G \subseteq Block, \A b \in G : [b EXCEPT !.text = Append(@, Metadata)] \in G,
           context \in Seq(G), MetadataStep
    PROVE  /\ context' \in Seq(G) /\ Ids(context') = Ids(context)
           /\ OneEach(context) => OneEach(context')
<1> DEFINE S == {b \in ToSet(context) : ~ IsDescribed(b.id)}
           D == {b \in ToSet(context) : IsDescribed(b.id)}
           kept == Chosen(context, S)
           described == Chosen(context, D)
           more(b) == [b EXCEPT !.text = Append(@, Metadata)]
           moved == [i \in DOMAIN described |-> more(described[i])]
<1>1. context' = kept \o moved
  BY DEF MetadataStep
<1>2. /\ kept \in Seq(G) /\ ToSet(kept) = S
      /\ described \in Seq(G) /\ ToSet(described) = D
  BY ChosenOf, ChosenSet
<1>3. \A b \in G : more(b).id = b.id /\ more(b) \in G
  BY DEF Block
<1>4. OneEach(context) => OneEach(kept) /\ OneEach(described)
  BY ChosenOneEach
<1>5. /\ \A b \in S : b.id \in Ids(context) /\ ~ IsDescribed(b.id)
      /\ \A b \in D : b.id \in Ids(context) /\ IsDescribed(b.id)
      /\ \A id \in Ids(context) : \E b \in S \cup D : b.id = id
  BY DEF Ids, ToSet
<1> HIDE DEF S, D, kept, described, more
<1>6. moved \in Seq(G) /\ DOMAIN moved = DOMAIN described
      /\ \A i \in DOMAIN moved : moved[i].id = described[i].id
  <2>1. DOMAIN described = 1..Len(described) /\ Len(described) \in Nat
    BY <1>2
  <2>2. \A i \in DOMAIN described : described[i] \in G
    BY <1>2
  <2>3. moved \in [1..Len(described) -> G] /\ DOMAIN moved = DOMAIN described
    BY <1>3, <2>1, <2>2
  <2>4. \A i \in DOMAIN moved : moved[i].id = described[i].id
    BY <1>3, <2>2
  <2> HIDE DEF moved
  <2> QED
    BY <2>1, <2>3, <2>4
<1> HIDE DEF moved
<1> DEFINE d == kept \o moved
<1>7. /\ d \in Seq(G) /\ DOMAIN d = 1..(Len(kept) + Len(moved))
      /\ DOMAIN kept = 1..Len(kept) /\ DOMAIN moved = 1..Len(moved)
      /\ Len(kept) \in Nat /\ Len(moved) \in Nat
      /\ \A i \in 1..Len(kept) : d[i] = kept[i]
      /\ \A i \in 1..Len(moved) : d[Len(kept) + i] = moved[i]
  BY <1>2, <1>6
<1> HIDE DEF d
<1>8. \A i \in DOMAIN d : \/ i \in DOMAIN kept /\ d[i].id = kept[i].id
                          \/ /\ i - Len(kept) \in DOMAIN described
                             /\ d[i].id = described[i - Len(kept)].id
  <2> SUFFICES ASSUME NEW i \in DOMAIN d, i \notin DOMAIN kept
               PROVE  i - Len(kept) \in DOMAIN described /\ d[i].id = described[i - Len(kept)].id
    BY <1>7
  <2>1. i - Len(kept) \in 1..Len(moved) /\ Len(kept) + (i - Len(kept)) = i
    BY <1>7
  <2>2. d[i] = moved[i - Len(kept)]
    BY <1>7, <2>1
  <2> QED
    BY <1>6, <1>7, <2>1, <2>2
<1>9. /\ \A i \in DOMAIN kept : kept[i] \in S
      /\ \A i \in DOMAIN described : described[i] \in D
  BY <1>2 DEF ToSet
<1>10. Ids(d) = Ids(context)
  <2>1. ASSUME NEW i \in DOMAIN d PROVE d[i].id \in Ids(context)
    BY <1>5, <1>8, <1>9
  <2>2. ASSUME NEW id \in Ids(context) PROVE \E i \in DOMAIN d : d[i].id = id
    <3>1. PICK b \in S \cup D : b.id = id
      BY <1>5
    <3>2. CASE b \in S
      <4>1. PICK i \in DOMAIN kept : kept[i] = b
        BY <1>2, <3>2 DEF ToSet
      <4>2. i \in DOMAIN d /\ d[i] = b
        BY <1>7, <4>1
      <4> QED
        BY <3>1, <4>2
    <3>3. CASE b \in D
      <4>1. PICK i \in DOMAIN described : described[i] = b
        BY <1>2, <3>3 DEF ToSet
      <4>2. i \in 1..Len(moved)
        BY <1>6, <1>7
      <4>3. Len(kept) + i \in DOMAIN d /\ d[Len(kept) + i] = moved[i]
        BY <1>7, <4>2
      <4> QED
        BY <1>6, <3>1, <4>1, <4>3
    <3> QED
      BY <3>2, <3>3
  <2> QED
    BY <2>1, <2>2 DEF Ids
<1>11. ASSUME OneEach(context) PROVE OneEach(d)
  <2>1. OneEach(kept) /\ OneEach(described)
    BY <1>4, <1>11
  <2> SUFFICES ASSUME NEW i \in DOMAIN d, NEW j \in DOMAIN d, d[i].id = d[j].id PROVE i = j
    BY DEF OneEach
  <2>2. CASE i \in DOMAIN kept /\ d[i].id = kept[i].id
    <3>1. ~ IsDescribed(d[j].id)
      BY <1>5, <1>9, <2>2
    <3>2. j \in DOMAIN kept /\ d[j].id = kept[j].id
      BY <1>5, <1>8, <1>9, <3>1
    <3> QED
      BY <2>1, <2>2, <3>2 DEF OneEach
  <2>3. CASE i - Len(kept) \in DOMAIN described /\ d[i].id = described[i - Len(kept)].id
    <3>1. IsDescribed(d[j].id)
      BY <1>5, <1>9, <2>3
    <3>2. j - Len(kept) \in DOMAIN described /\ d[j].id = described[j - Len(kept)].id
      BY <1>5, <1>8, <1>9, <3>1
    <3>3. i - Len(kept) = j - Len(kept)
      BY <2>1, <2>3, <3>2 DEF OneEach
    <3> QED
      BY <1>7, <3>3
  <2> QED
    BY <1>8, <2>2, <2>3
<1> QED
  BY <1>1, <1>7, <1>10, <1>11 DEF d

\* Attachments are put among the blocks, and none goes.
LEMMA AddAttachmentsIn ==
    ASSUME NEW G, G \subseteq Block,
           \A f \in Fields : [id |-> Attachment(f), text |-> WholeText(f)] \in G,
           NEW c \in Seq(G), NEW fs \in Seq(Fields)
    PROVE  AddAttachments(c, fs) \in Seq(G) /\ Ids(c) \subseteq Ids(AddAttachments(c, fs))
<1> DEFINE S == {f \in ToSet(fs) : Attachment(f) \notin Ids(c)}
           new == Chosen(fs, S)
           bs == [i \in DOMAIN new |-> [id |-> Attachment(new[i]), text |-> WholeText(new[i])]]
<1>1. new \in Seq(Fields)
  BY ChosenOf
<1>2. AddAttachments(c, fs) = PutAll(c, bs)
  BY DEF AddAttachments
<1> HIDE DEF new
<1>3. bs \in Seq(G)
  BY <1>1
<1> HIDE DEF bs
<1> QED
  BY <1>2, <1>3, PutAllBlocks

\* Each step of the strategies keeps the retrieved paragraphs, and the default puts them.
LEMMA StepsRetrieved ==
    ASSUME request \in RequestOptions, context \in Seq(Telling(Gone)),
           \/ DefaultStep \/ NeighbouringStep \/ ExtensionStep \/ ConversationStep \/ MetadataStep
           \/ FullResourceStep /\ "full_resource" \in request.strategies
           \/ HierarchyStep /\ "hierarchy" \in request.strategies
    PROVE  /\ context' \in Seq(Telling(Gone))
           /\ DefaultStep \/ RetrievedIn(context, augmented) => RetrievedIn(context', augmented')
<1> DEFINE G == Telling(Gone)
           ps == request.retrieved
<1>1. /\ G \subseteq Block /\ ps \in Seq(AllParagraphs)
      /\ \A p \in AllParagraphs : [id |-> Par(p), text |-> <<p>>] \in G
      /\ \A f \in Fields : /\ [id |-> Whole(f), text |-> WholeText(f)] \in G
                           /\ [id |-> Attachment(f), text |-> WholeText(f)] \in G
  BY PutTell DEF RequestOptions
<1>2. augmented \subseteq augmented'
  BY DEF DefaultStep, NeighbouringStep, ExtensionStep, ConversationStep, MetadataStep,
         FullResourceStep, HierarchyStep
<1>3. \A b \in G : [b EXCEPT !.text = Append(@, Metadata)] \in G
  BY TellStays
<1> HIDE DEF G
<1>5. ASSUME context' \in Seq(G), {Par(p) : p \in ToSet(ps)} \subseteq Ids(context')
      PROVE  /\ context' \in Seq(G)
             /\ DefaultStep \/ RetrievedIn(context, augmented) => RetrievedIn(context', augmented')
  <2>1. RetrievedIn(context', augmented')
    BY <1>5 DEF RetrievedIn
  <2> QED
    BY <1>5, <2>1
<1>6. context \in Seq(G)
  BY DEF G
<1>7. CASE DefaultStep
  <2>1. PICK qs \in Seq(AllParagraphs) : context' = AddParagraphs(AddParagraphs(context, ps), qs)
    BY <1>7, DefaultShape
  <2> DEFINE base == AddParagraphs(context, ps)
  <2>2. base \in Seq(G) /\ {Par(p) : p \in ToSet(ps)} \subseteq Ids(base)
    BY <1>1, <1>6, AddParagraphsIn
  <2>3. context' = AddParagraphs(base, qs)
    BY <2>1
  <2> HIDE DEF base
  <2>4. context' \in Seq(G) /\ Ids(base) \subseteq Ids(context')
    BY <1>1, <2>2, <2>3, AddParagraphsIn
  <2> QED
    BY <1>5, <2>2, <2>4 DEF G
<1>8. CASE NeighbouringStep
  <2>1. PICK qs \in Seq(AllParagraphs) : context' = AddMissing(context, qs)
    BY <1>8, NeighbouringShape
  <2>2. context' \in Seq(G) /\ Ids(context) \subseteq Ids(context')
    BY <1>1, <1>6, <2>1, AddMissingIn
  <2>3. RetrievedIn(context, augmented) => RetrievedIn(context', augmented')
    BY <1>2, <2>2, RetrievedStays
  <2>4. ~ DefaultStep
    BY <1>8 DEF NeighbouringStep, DefaultStep, At
  <2> QED
    BY <2>2, <2>3, <2>4 DEF G
<1>9. CASE ExtensionStep
  <2>1. PICK fs \in Seq(Fields) : context' = AddMissing(ReplaceFields(context, fs), ps)
    BY <1>9, ExtensionShape
  <2>2. \A a \in Seq(G), f \in Fields : ReplaceBlocks(a, f) \in Seq(G)
    BY <1>1, ReplaceBlocksIn
  <2>3. ReplaceFields(context, fs) \in Seq(G)
    BY <1>6, <2>2, ReplaceFieldsStays
  <2>4. context' \in Seq(G) /\ {Par(p) : p \in ToSet(ps)} \subseteq Ids(context')
    BY <1>1, <2>1, <2>3, AddMissingIn
  <2> QED
    BY <1>5, <2>4 DEF G
<1>10. CASE ConversationStep
  <2>1. PICK qs \in Seq(AllParagraphs), fs \in Seq(Fields) :
          LET talks == AddMissing(AddMissing(context, ps), qs)
          IN  context' = IF request.attachments THEN AddAttachments(talks, fs) ELSE talks
    BY <1>10, ConversationShape
  <2> DEFINE base == AddMissing(context, ps)
             talks == AddMissing(base, qs)
  <2>2. base \in Seq(G) /\ {Par(p) : p \in ToSet(ps)} \subseteq Ids(base)
    BY <1>1, <1>6, AddMissingIn
  <2> HIDE DEF base
  <2>3. talks \in Seq(G) /\ Ids(base) \subseteq Ids(talks)
    BY <1>1, <2>2, AddMissingIn
  <2>4. context' = IF request.attachments THEN AddAttachments(talks, fs) ELSE talks
    BY <2>1 DEF base
  <2> HIDE DEF talks
  <2>5. AddAttachments(talks, fs) \in Seq(G) /\ Ids(talks) \subseteq Ids(AddAttachments(talks, fs))
    BY <1>1, <2>3, AddAttachmentsIn
  <2>6. context' \in Seq(G) /\ {Par(p) : p \in ToSet(ps)} \subseteq Ids(context')
    BY <2>2, <2>3, <2>4, <2>5
  <2> QED
    BY <1>5, <2>6 DEF G
<1>11. CASE MetadataStep
  <2>1. context' \in Seq(G) /\ Ids(context') = Ids(context)
    BY <1>1, <1>3, <1>6, <1>11, MetadataIn
  <2>2. RetrievedIn(context, augmented) => RetrievedIn(context', augmented')
    BY <1>2, <2>1, RetrievedStays
  <2>3. ~ DefaultStep
    BY <1>11 DEF MetadataStep, DefaultStep, At
  <2> QED
    BY <2>1, <2>2, <2>3 DEF G
<1>12. CASE HierarchyStep /\ "hierarchy" \in request.strategies
  <2>1. PICK bs \in Seq(Found) :
          /\ context' = PutAll(context, bs)
          /\ \A i \in DOMAIN bs : \E p \in AllParagraphs :
               bs[i].id = Par(p) /\ (p \in ToSet(bs[i].text) \/ Home(p) \in deleted)
    BY <1>12, HierarchyShape
  <2>2. ASSUME NEW i \in DOMAIN bs PROVE bs[i] \in G
    <3> DEFINE b == bs[i]
    <3>1. b \in Found
      OBVIOUS
    <3>2. PICK p \in AllParagraphs : b.id = Par(p) /\ (p \in ToSet(b.text) \/ Home(p) \in deleted)
      BY <2>1
    <3>3. Gone = deleted
      BY <1>12 DEF Gone
    <3>4. /\ \A q \in AllParagraphs : b.id = Par(q) => q = p
          /\ \A f \in Fields : b.id # Whole(f)
      BY <3>2 DEF Par, Whole
    <3>5. b \in Block
      BY <3>1, FoundIsBlock
    <3> HIDE DEF b
    <3>6. b \in Telling(Gone)
      BY <3>2, <3>3, <3>4, <3>5 DEF Telling
    <3> QED
      BY <3>6 DEF b, G
  <2>3. bs \in Seq(G)
    BY <2>2
  <2>4. context' \in Seq(G) /\ Ids(context) \subseteq Ids(context')
    BY <1>1, <1>6, <2>1, <2>3, PutAllBlocks
  <2>5. RetrievedIn(context, augmented) => RetrievedIn(context', augmented')
    BY <1>2, <2>4, RetrievedStays
  <2>6. ~ DefaultStep
    BY <1>12 DEF HierarchyStep, DefaultStep, At
  <2> QED
    BY <2>4, <2>5, <2>6 DEF G
<1>13. CASE FullResourceStep /\ "full_resource" \in request.strategies
  <2>1. PICK fs \in SUBSET Fields : \E order \in Seq(fs) :
          /\ augmented' = augmented \cup {Whole(f) : f \in fs}
          /\ context' = IF request.remaining
                        THEN AddParagraphs(ReplaceFields(context, order),
                                           Chosen(ps, {p \in AllParagraphs : IsRemaining(p, fs)}))
                        ELSE ReplaceFields(context, order)
    BY <1>13, FullResourceShape
  <2>2. PICK order \in Seq(fs) :
          context' = IF request.remaining
                     THEN AddParagraphs(ReplaceFields(context, order),
                                        Chosen(ps, {p \in AllParagraphs : IsRemaining(p, fs)}))
                     ELSE ReplaceFields(context, order)
    BY <2>1
  <2> DEFINE whole == ReplaceFields(context, order)
             rest == Chosen(ps, {p \in AllParagraphs : IsRemaining(p, fs)})
             A == Seq(G)
             B == {c \in A : RetrievedIn(c, augmented')}
  <2>3. \A f \in fs : Whole(f) \in augmented' /\ f \in Fields
    BY <2>1
  <2>4. \A a \in A, f \in fs : ReplaceBlocks(a, f) \in A
    BY <1>1, <2>3, ReplaceBlocksIn
  <2>5. whole \in A
    BY <1>6, <2>4, ReplaceFieldsStays
  <2>6. RetrievedIn(context, augmented) => RetrievedIn(whole, augmented')
    <3> SUFFICES ASSUME RetrievedIn(context, augmented) PROVE RetrievedIn(whole, augmented')
      OBVIOUS
    <3>1. context \in B
      <4>1. Ids(context) \subseteq Ids(context)
        OBVIOUS
      <4>2. RetrievedIn(context, augmented')
        BY <1>2, <4>1, RetrievedStays
      <4> QED
        BY <1>6, <4>2
    <3>2. \A a \in B, f \in fs : ReplaceBlocks(a, f) \in B
      <4> SUFFICES ASSUME NEW a \in B, NEW f \in fs PROVE ReplaceBlocks(a, f) \in B
        OBVIOUS
      <4>1. a \in Seq(Telling(Gone)) /\ RetrievedIn(a, augmented') /\ f \in Fields /\ Whole(f) \in augmented'
        BY <2>3 DEF G
      <4>2. RetrievedIn(ReplaceBlocks(a, f), augmented')
        BY <1>13, <4>1, ReplaceRetrieved
      <4> QED
        BY <2>4, <4>2
    <3> HIDE DEF B
    <3>3. whole \in B
      BY <3>1, <3>2, ReplaceFieldsStays
    <3> QED
      BY <3>3 DEF B
  <2>7. rest \in Seq(AllParagraphs)
    BY ChosenRetrieved
  <2> HIDE DEF whole, rest
  <2>8. /\ AddParagraphs(whole, rest) \in Seq(G)
        /\ Ids(whole) \subseteq Ids(AddParagraphs(whole, rest))
    BY <1>1, <2>5, <2>7, AddParagraphsIn
  <2>9. context' = IF request.remaining THEN AddParagraphs(whole, rest) ELSE whole
    BY <2>2 DEF whole, rest
  <2>10. context' \in Seq(G) /\ Ids(whole) \subseteq Ids(context')
    BY <2>5, <2>8, <2>9
  <2>11. RetrievedIn(context, augmented) => RetrievedIn(context', augmented')
    <3>1. augmented' \subseteq augmented'
      OBVIOUS
    <3> QED
      BY <2>6, <2>10, <3>1, RetrievedStays
  <2>12. ~ DefaultStep
    BY <1>13 DEF FullResourceStep, DefaultStep, At
  <2> QED
    BY <2>10, <2>11, <2>12 DEF G
<1> QED
  BY <1>7, <1>8, <1>9, <1>10, <1>11, <1>12, <1>13

\* The texts of a context whose blocks are so many are together longer than the place of
\* any of their pieces.
LEMMA PlaceInSize ==
    ASSUME NEW c \in Seq(Block), NEW i \in DOMAIN c
    PROVE  c[i].text \in Seq(Piece) /\ Len(c[i].text) <= Size(c) /\ Size(c) \in Nat
<1>1. Len(c) \in Nat /\ i \in 1..Len(c)
  OBVIOUS
<1>2. /\ UpTo(c, Len(c)) = Size(c) /\ Size(c) \in Nat
      /\ \A n \in 1..Len(c) : /\ UpTo(c, n - 1) \in Nat /\ UpTo(c, n) \in Nat
                              /\ UpTo(c, n) = UpTo(c, n - 1) + Len(c[n].text)
  BY SizeGrows
<1>3. \A n \in 1..Len(c) : c[n].text \in Seq(Piece)
  <2> SUFFICES ASSUME NEW n \in 1..Len(c) PROVE c[n].text \in Seq(Piece)
    OBVIOUS
  <2>1. c[n] \in Block
    OBVIOUS
  <2> QED
    BY <2>1 DEF Block, Text
<1>4. \A n \in 1..Len(c) : Len(c[n].text) \in Nat
  BY <1>3
<1> DEFINE I == {k \in Nat : i + k <= Len(c) => Len(c[i].text) <= UpTo(c, i + k)}
<1>5. 0 \in I
  BY <1>1, <1>2, <1>4
<1>6. ASSUME NEW k \in Nat, k \in I PROVE k + 1 \in I
  <2> SUFFICES ASSUME i + (k + 1) <= Len(c) PROVE Len(c[i].text) <= UpTo(c, i + (k + 1))
    OBVIOUS
  <2> DEFINE n == i + (k + 1)
  <2>1. n \in 1..Len(c) /\ n - 1 = i + k
    BY <1>1
  <2>2. Len(c[i].text) <= UpTo(c, n - 1)
    BY <1>1, <1>6, <2>1
  <2>3. UpTo(c, n - 1) <= UpTo(c, n) /\ UpTo(c, n - 1) \in Nat /\ UpTo(c, n) \in Nat
    <3>1. n \in 1..Len(c)
      BY <2>1
    <3> HIDE DEF n
    <3>2. UpTo(c, n) = UpTo(c, n - 1) + Len(c[n].text) /\ UpTo(c, n - 1) \in Nat /\ UpTo(c, n) \in Nat
      BY <1>2, <3>1
    <3>3. Len(c[n].text) \in Nat
      BY <1>4, <3>1
    <3> QED
      BY <3>2, <3>3
  <2> HIDE DEF n
  <2>4. Len(c[i].text) <= UpTo(c, n)
    BY <1>1, <1>4, <2>2, <2>3
  <2> QED
    BY <2>4 DEF n
<1>7. Nat \subseteq I
  <2> HIDE DEF I
  <2> QED
    BY <1>5, <1>6, Induction
<1>8. Len(c) - i \in Nat /\ i + (Len(c) - i) = Len(c)
  BY <1>1
<1>9. Len(c[i].text) <= UpTo(c, Len(c))
  BY <1>7, <1>8
<1> QED
  BY <1>1, <1>2, <1>3, <1>9

\* What a block of what was built has occurs in what was built.
LEMMA HeldOccurs ==
    ASSUME built \in Seq(Block), NEW b \in ToSet(built), NEW p \in ToSet(b.text)
    PROVE  Occurrences(p) # {}
<1>1. PICK i \in DOMAIN built : built[i] = b
  BY DEF ToSet
<1>2. b.text \in Seq(Piece) /\ Len(b.text) <= Size(built) /\ Size(built) \in Nat
  BY <1>1, PlaceInSize
<1>3. PICK j \in DOMAIN b.text : b.text[j] = p
  BY DEF ToSet
<1>4. j \in 1..Size(built)
  BY <1>2, <1>3
<1> DEFINE o == <<i, j>>
<1>5. o \in (DOMAIN built) \X (1..Size(built)) /\ o[1] = i /\ o[2] = j
  BY <1>1, <1>4
<1>6. o \in Occurrences(p)
  BY <1>1, <1>3, <1>5 DEF Occurrences
<1> QED
  BY <1>6

\* While it is built a context has every retrieved paragraph, once the default has put them,
\* and so has what was built; and only steps that the strategies ask for are left to do.
KeptInv ==
  /\ ToSet(steps) \subseteq request.strategies \cup {"default", "images", "cap"}
  /\ built = <<>> => /\ context \in Seq(Telling(Gone))
                     /\ \/ steps = <<>> \/ "default" \in ToSet(steps)
                        \/ RetrievedIn(context, augmented)
  /\ built # <<>> => built \in Seq(Telling(Gone)) /\ RetrievedIn(built, augmented)

\* The steps an ask asks for.
LEMMA StepsAsked ==
    ASSUME request \in RequestOptions, steps = StepsOf(request) \o <<"images", "cap">>
    PROVE  /\ ToSet(steps) \subseteq request.strategies \cup {"default", "images", "cap"}
           /\ request.strategies = {} => "default" \in ToSet(steps)
<1> DEFINE s == StepsOf(request)
           e == <<"images", "cap">>
           N == request.strategies \cup {"default"}
           T == Strategies
<1>1. StepOrder \in Seq(T)
  <2>1. /\ "full_resource" \in T /\ "hierarchy" \in T /\ "neighbouring" \in T
        /\ "extension" \in T /\ "conversation" \in T /\ "metadata" \in T
    BY DEF Strategies
  <2> HIDE DEF T
  <2> QED
    BY <2>1 DEF StepOrder
<1>2. ASSUME NEW S, S \subseteq request.strategies PROVE Chosen(StepOrder, S) \in Seq(N)
  <2>1. Chosen(StepOrder, S) \in Seq(S \cap T)
    BY <1>1, ChosenSeq
  <2>2. S \cap T \subseteq N
    BY <1>2
  <2> QED
    BY <2>1, <2>2
<1>3. <<"default">> \in Seq(N) /\ ToSet(<<"default">>) = {"default"}
  BY DEF ToSet
<1>4. s \in Seq(N) /\ (request.strategies = {} => s = <<"default">>)
  BY <1>2, <1>3 DEF StepsOf
<1>5. e \in Seq({"images", "cap"})
  OBVIOUS
<1> HIDE DEF s, e
<1>6. ToSet(s) \subseteq N /\ ToSet(e) \subseteq {"images", "cap"}
  BY <1>4, <1>5 DEF ToSet
<1>7. ToSet(s \o e) = ToSet(s) \cup ToSet(e)
  <2> DEFINE M == N \cup {"images", "cap"}
  <2>1. s \in Seq(M) /\ e \in Seq(M)
    BY <1>4, <1>5
  <2> HIDE DEF M
  <2> QED
    BY <2>1, ToSetConcat
<1>8. steps = s \o e
  BY DEF s, e
<1> QED
  BY <1>3, <1>4, <1>6, <1>7, <1>8

\* What is left to do, and the step that is taken.
LEMMA StepTaken ==
    ASSUME steps \in CapLast, steps # <<>>
    PROVE  /\ ToSet(steps) = {Head(steps)} \cup ToSet(Tail(steps))
           /\ Head(steps) = "cap" => steps = <<"cap">>
<1> DEFINE s == steps
           t == Tail(steps)
<1>1. s \in Seq(StepNames) /\ s # <<>>
  BY DEF CapLast
<1> HIDE DEF s
<1>2. /\ Len(s) \in Nat \ {0} /\ DOMAIN s = 1..Len(s)
      /\ Head(s) = s[1] /\ DOMAIN Tail(s) = 1..(Len(s) - 1)
      /\ \A i \in 1..(Len(s) - 1) : Tail(s)[i] = s[i + 1]
  BY <1>1
<1>3. ASSUME NEW x \in ToSet(s) PROVE x \in {Head(s)} \cup ToSet(Tail(s))
  <2>1. PICK i \in DOMAIN s : s[i] = x
    BY DEF ToSet
  <2>2. CASE i # 1
    <3>1. i - 1 \in 1..(Len(s) - 1) /\ (i - 1) + 1 = i
      BY <1>2, <2>1, <2>2
    <3>2. Tail(s)[i - 1] = x
      BY <1>2, <2>1, <3>1
    <3> QED
      BY <1>2, <3>1, <3>2 DEF ToSet
  <2> QED
    BY <1>2, <2>1, <2>2
<1>4. ASSUME NEW x \in {Head(s)} \cup ToSet(Tail(s)) PROVE x \in ToSet(s)
  <2>1. CASE x = Head(s)
    BY <1>2, <2>1 DEF ToSet
  <2>2. CASE x \in ToSet(Tail(s))
    <3>1. PICK i \in 1..(Len(s) - 1) : Tail(s)[i] = x
      BY <1>2, <2>2 DEF ToSet
    <3>2. i + 1 \in DOMAIN s /\ s[i + 1] = x
      BY <1>2, <3>1
    <3> QED
      BY <3>2 DEF ToSet
  <2> QED
    BY <2>1, <2>2
<1>5. Head(s) = "cap" => s = <<"cap">>
  <2> SUFFICES ASSUME Head(s) = "cap" PROVE s = <<"cap">>
    OBVIOUS
  <2>1. Len(s) = 1 /\ s[1] = "cap"
    BY <1>2 DEF CapLast, s
  <2>2. s = <<s[1]>>
    BY <1>1, <2>1
  <2> QED
    BY <2>1, <2>2
<1> QED
  BY <1>3, <1>4, <1>5 DEF s

\* Before an ask starts its steps the retrieved paragraphs are there, or the default will
\* put them.
LEMMA InitKept == PromptInit => KeptInv
<1> SUFFICES ASSUME PromptInit PROVE KeptInv
  OBVIOUS
<1> DEFINE G == Telling(Gone)
           n == request.userTexts
           ps == request.retrieved
           c == [i \in 1..n |-> UserBlock(i)]
           d == AddParagraphs(c, ps)
<1>1. request \in RequestOptions
  BY PromptAssumption DEF PromptInit
<1>2. n \in Nat /\ ps \in Seq(AllParagraphs)
  BY <1>1 DEF RequestOptions
<1>3. /\ ToSet(steps) \subseteq request.strategies \cup {"default", "images", "cap"}
      /\ request.strategies = {} => "default" \in ToSet(steps)
  BY <1>1, StepsAsked DEF PromptInit
<1>4. /\ G \subseteq Block
      /\ \A p \in AllParagraphs : [id |-> Par(p), text |-> <<p>>] \in G
      /\ \A i \in Nat : UserBlock(i) \in G
  BY PutTell
<1> HIDE DEF G
<1>5. c \in Seq(G) /\ UserContext(request) = c
  BY <1>2, <1>4 DEF UserContext, UserBlock
<1> HIDE DEF c
<1>6. d \in Seq(G) /\ {Par(p) : p \in ToSet(ps)} \subseteq Ids(d)
  BY <1>2, <1>4, <1>5, AddParagraphsIn
<1>7. context = IF request.strategies = {} THEN c ELSE d
  BY <1>5 DEF PromptInit
<1> HIDE DEF d
<1>8. context \in Seq(G)
  BY <1>5, <1>6, <1>7
<1>9. request.strategies # {} => RetrievedIn(context, augmented)
  BY <1>6, <1>7 DEF RetrievedIn
<1> QED
  BY <1>3, <1>8, <1>9 DEF KeptInv, PromptInit, G

\* No step loses what was retrieved.
LEMMA NextKept == PromptInv /\ KeptInv /\ [PromptNext]_promptVars => KeptInv'
<1> SUFFICES ASSUME PromptInv, KeptInv, [PromptNext]_promptVars PROVE KeptInv'
  OBVIOUS
<1>1. /\ request \in RequestOptions /\ steps \in CapLast /\ context \in Seq(Block)
      /\ (built # <<>> => steps = <<>>)
  BY DEF PromptInv
<1>2. /\ ToSet(steps) \subseteq request.strategies \cup {"default", "images", "cap"}
      /\ built = <<>> => context \in Seq(Telling(Gone))
      /\ built = <<>> => \/ steps = <<>> \/ "default" \in ToSet(steps)
                         \/ RetrievedIn(context, augmented)
      /\ built # <<>> => built \in Seq(Telling(Gone)) /\ RetrievedIn(built, augmented)
  BY DEF KeptInv
<1>3. steps # <<>> => ToSet(steps) = {Head(steps)} \cup ToSet(Tail(steps))
  BY <1>1, StepTaken
<1>4. ASSUME request' = request, deleted' = deleted, steps # <<>>, steps' = Tail(steps), built' = built,
             context' \in Seq(Telling(Gone)),
             \/ RetrievedIn(context', augmented') \/ "default" \in ToSet(steps')
             \/ Head(steps) # "default" /\ (RetrievedIn(context, augmented) => RetrievedIn(context', augmented'))
      PROVE  KeptInv'
  <2>1. built = <<>> /\ Gone' = Gone
    BY <1>1, <1>4 DEF Gone
  <2>2. ToSet(steps') \subseteq request'.strategies \cup {"default", "images", "cap"}
    BY <1>2, <1>3, <1>4
  <2>3. RetrievedIn(context, augmented)' = RetrievedIn(context', augmented')
    BY <1>4 DEF RetrievedIn, Hidden
  <2>4. RetrievedIn(context', augmented') \/ "default" \in ToSet(steps')
    BY <1>2, <1>3, <1>4, <2>1
  <2>5. context' \in Seq(Telling(Gone'))
    BY <1>4, <2>1
  <2> QED
    BY <1>4, <2>1, <2>2, <2>3, <2>4, <2>5 DEF KeptInv
<1>5. CASE UNCHANGED promptVars
  BY <1>5 DEF promptVars, KeptInv, Gone, RetrievedIn, Hidden
<1>6. CASE FailBuild
  <2>1. built = <<>> /\ steps' = <<>> /\ UNCHANGED <<request, deleted, context, augmented, built>>
    BY <1>1, <1>6 DEF FailBuild
  <2>2. ToSet(<<>>) = {}
    BY DEF ToSet
  <2> QED
    BY <1>2, <2>1, <2>2 DEF KeptInv, Gone
<1>7. ASSUME NEW r \in Resources, DeleteResource(r) PROVE KeptInv'
  <2>1. /\ built = <<>> /\ deleted = {} /\ deleted' = {r}
        /\ UNCHANGED <<request, steps, context, augmented, built>>
    BY <1>1, <1>7 DEF DeleteResource
  <2>2. Gone \subseteq Gone'
    BY <2>1 DEF Gone
  <2> DEFINE G == Telling(Gone)
             H == Telling(Gone')
  <2>3. G \subseteq H
    BY <2>2, TellStays
  <2>4. context \in Seq(G)
    BY <1>2, <2>1
  <2> HIDE DEF G, H
  <2>5. context \in Seq(H)
    BY <2>3, <2>4
  <2>6. RetrievedIn(context, augmented)' <=> RetrievedIn(context, augmented)
    BY <2>1 DEF RetrievedIn, Hidden
  <2> QED
    BY <1>2, <2>1, <2>5, <2>6 DEF KeptInv, H
<1>8. CASE \/ DefaultStep \/ NeighbouringStep \/ ExtensionStep \/ ConversationStep \/ MetadataStep
           \/ FullResourceStep \/ HierarchyStep
  <2>1. /\ request' = request /\ deleted' = deleted /\ steps # <<>> /\ steps' = Tail(steps)
        /\ built' = built
    BY <1>8 DEF DefaultStep, FullResourceStep, HierarchyStep, NeighbouringStep, ExtensionStep,
           ConversationStep, MetadataStep, At, Proceed
  <2>2. built = <<>> /\ context \in Seq(Telling(Gone))
    BY <1>1, <1>2, <2>1
  <2>3. Head(steps) \in request.strategies \cup {"default", "images", "cap"}
    BY <1>2, <1>3, <2>1
  <2>4. /\ FullResourceStep => "full_resource" \in request.strategies
        /\ HierarchyStep => "hierarchy" \in request.strategies
        /\ Head(steps) = "default" => DefaultStep
    BY <1>8, <2>3 DEF DefaultStep, FullResourceStep, HierarchyStep, NeighbouringStep, ExtensionStep,
           ConversationStep, MetadataStep, At
  <2>5. /\ context' \in Seq(Telling(Gone))
        /\ DefaultStep \/ RetrievedIn(context, augmented) => RetrievedIn(context', augmented')
    BY <1>1, <1>8, <2>2, <2>4, StepsRetrieved
  <2> QED
    BY <1>4, <2>1, <2>4, <2>5
<1>9. CASE ImagesStep
  <2>1. /\ request' = request /\ deleted' = deleted /\ steps # <<>> /\ steps' = Tail(steps)
        /\ built' = built /\ context' = context /\ augmented' = augmented /\ Head(steps) = "images"
    BY <1>9 DEF ImagesStep, At, Proceed
  <2>2. built = <<>> /\ context \in Seq(Telling(Gone))
    BY <1>1, <1>2, <2>1
  <2> QED
    BY <1>4, <2>1, <2>2
<1>10. CASE CapStep
  <2>1. /\ steps # <<>> /\ Head(steps) = "cap" /\ steps' = Tail(steps) /\ request' = request
        /\ built' = context /\ deleted' = deleted /\ augmented' = augmented
        /\ context' = Cap(context, request.limit)
    BY <1>10 DEF CapStep, At, Proceed
  <2>2. steps = <<"cap">> /\ steps' = <<>> /\ ToSet(steps) = {"cap"} /\ ToSet(steps') = {}
    <3>1. steps = <<"cap">>
      BY <1>1, <2>1, StepTaken
    <3> QED
      BY <2>1, <3>1 DEF ToSet
  <2>3. built = <<>> /\ context \in Seq(Telling(Gone)) /\ RetrievedIn(context, augmented)
    BY <1>1, <1>2, <2>1, <2>2
  <2>4. Gone' = Gone /\ RetrievedIn(built', augmented') = RetrievedIn(built, augmented)'
    BY <2>1 DEF Gone, RetrievedIn, Hidden
  <2>5. built' = <<>> => context' \in Seq(Telling(Gone'))
    <3> SUFFICES ASSUME context = <<>> PROVE context' \in Seq(Telling(Gone'))
      BY <2>1
    <3>1. Capped(context, context', request.limit)
      BY <1>1, <2>1, CapCaps DEF RequestOptions
    <3>2. context' = <<>>
      BY <3>1 DEF Capped
    <3> QED
      BY <3>2
  <2> QED
    BY <2>1, <2>2, <2>3, <2>4, <2>5 DEF KeptInv
<1> QED
  BY <1>5, <1>6, <1>7, <1>8, <1>9, <1>10 DEF PromptNext

\* RetrievedKept: no strategy or deletion loses the text of a retrieved paragraph, but the
\* text that hierarchy leaves of a deleted resource, and that of a field whose id begins
\* with another's, for any knowledge box and any strategies.
THEOREM RetrievedStaysIn == PromptSpec => []RetrievedKept
<1>1. PromptInv /\ KeptInv => RetrievedKept
  <2> SUFFICES ASSUME PromptInv, KeptInv, built # <<>>, NEW p \in ToSet(request.retrieved)
               PROVE  \/ Occurrences(p) # {}
                      \/ Home(p) \in deleted /\ "hierarchy" \in request.strategies
                      \/ "full_resource" \in request.strategies
                           /\ \E f \in Fields : Whole(f) \in augmented /\ <<f, FieldOf(p)>> \in PrefixOf
    BY DEF RetrievedKept, Finished
  <2>1. built \in Seq(Telling(Gone)) /\ RetrievedIn(built, augmented)
    BY DEF KeptInv
  <2>2. p \in AllParagraphs
    BY DEF PromptInv, RequestOptions, ToSet
  <2>3. FieldOf(p) \in Fields /\ p \in ToSet(Paragraphs[FieldOf(p)])
    BY <2>2, FieldOfParagraph
  <2>4. built \in Seq(Block)
    BY DEF PromptInv, UserFirst
  <2>5. CASE Par(p) \in Ids(built) \/ Whole(FieldOf(p)) \in Ids(built)
    <3>1. PICK b \in ToSet(built) : b.id = Par(p) \/ b.id = Whole(FieldOf(p))
      BY <2>5 DEF Ids, ToSet
    <3>2. b \in Telling(Gone)
      BY <2>1 DEF ToSet
    <3>3. p \in ToSet(b.text) \/ Home(p) \in Gone
      BY <2>2, <2>3, <3>1, <3>2 DEF Telling
    <3>4. CASE p \in ToSet(b.text)
      BY <2>4, <3>4, HeldOccurs
    <3>5. CASE Home(p) \in Gone
      BY <3>5 DEF Gone
    <3> QED
      BY <3>3, <3>4, <3>5
  <2>6. CASE Hidden(p, augmented)
    BY <2>6 DEF Hidden
  <2> QED
    BY <2>1, <2>5, <2>6 DEF RetrievedIn
<1> QED
  BY <1>1, InitKept, NextKept, PromptInvariant, PTL DEF PromptSpec

---------------------------------------------------------------------------
(***************************************************************************)
(* No text twice.                                                          *)
(***************************************************************************)

\* The asks of which this is said.
TwiceCase == request.strategies \cap {"hierarchy", "extension"} = {} /\ ~ request.attachments

\* The blocks that have each paragraph once, and only a paragraph they are named for or
\* whose field they are named for.
Singly ==
  {b \in Block :
     \A i \in DOMAIN b.text : b.text[i] \in AllParagraphs =>
       /\ b.id = Par(b.text[i]) \/ b.id = Whole(FieldOf(b.text[i]))
       /\ \A j \in DOMAIN b.text : b.text[i] = b.text[j] => i = j}

\* A paragraph beside the whole text of its field, in c.
Doubled(c, p) == Par(p) \in Ids(c) /\ Whole(FieldOf(p)) \in Ids(c)

\* In c no paragraph is beside the whole text of its field, but for the messages among the
\* remaining text blocks.
Apart(c) ==
  \A p \in AllParagraphs : Doubled(c, p) => request.remaining /\ FieldOf(p) \in Conversations

\* No whole text has been put.
NoWhole(c) == \A f \in Fields : Whole(f) \notin Ids(c)

\* Where a paragraph of a field is, is one place.
LEMMA PlacesDiffer ==
    ASSUME NEW f \in Fields
    PROVE  /\ DOMAIN Paragraphs[f] = 1..Len(Paragraphs[f])
           /\ \A i \in DOMAIN Paragraphs[f] :
                /\ Paragraphs[f][i] \in AllParagraphs => FieldOf(Paragraphs[f][i]) = f
                /\ \A j \in DOMAIN Paragraphs[f] : Paragraphs[f][i] = Paragraphs[f][j] => i = j
<1>1. Paragraphs[f] \in Seq(AllParagraphs)
  BY ParagraphsAreText
<1>2. \A i, j \in DOMAIN Paragraphs[f] : Paragraphs[f][i] = Paragraphs[f][j] => i = j
  BY PromptAssumption
<1>3. ASSUME NEW i \in DOMAIN Paragraphs[f] PROVE FieldOf(Paragraphs[f][i]) = f
  <2> DEFINE p == Paragraphs[f][i]
  <2>1. p \in ToSet(Paragraphs[f])
    BY DEF ToSet
  <2>2. p \in AllParagraphs
    BY <2>1 DEF AllParagraphs
  <2> HIDE DEF p
  <2>3. FieldOf(p) \in Fields /\ p \in ToSet(Paragraphs[FieldOf(p)])
    BY <2>2, FieldOfParagraph
  <2>4. \A g \in Fields : f # g => ToSet(Paragraphs[f]) \cap ToSet(Paragraphs[g]) = {}
    BY PromptAssumption
  <2>5. FieldOf(p) = f
    BY <2>1, <2>3, <2>4
  <2> QED
    BY <2>5 DEF p
<1> QED
  BY <1>1, <1>2, <1>3

\* The blocks that steps put have each paragraph once, but for those of hierarchy and
\* attachments; so have the user's, and those that are given metadata.
LEMMA PutSingly ==
    /\ Singly \subseteq Block
    /\ \A p \in AllParagraphs : [id |-> Par(p), text |-> <<p>>] \in Singly
    /\ \A f \in Fields : [id |-> Whole(f), text |-> WholeText(f)] \in Singly
    /\ \A i \in Nat : User(i) \notin AllParagraphs => UserBlock(i) \in Singly
    /\ \A b \in Singly : [b EXCEPT !.text = Append(@, Metadata)] \in Singly
<1>1. Singly \subseteq Block
  BY DEF Singly
<1>2. ASSUME NEW p \in AllParagraphs PROVE [id |-> Par(p), text |-> <<p>>] \in Singly
  <2> DEFINE b == [id |-> Par(p), text |-> <<p>>]
  <2>1. b \in Block
    BY PutTell
  <2>2. DOMAIN b.text = {1} /\ b.text[1] = p /\ b.id = Par(p)
    OBVIOUS
  <2> HIDE DEF b
  <2>3. b \in Singly
    BY <2>1, <2>2 DEF Singly
  <2> QED
    BY <2>3 DEF b
<1>3. ASSUME NEW f \in Fields PROVE [id |-> Whole(f), text |-> WholeText(f)] \in Singly
  <2> DEFINE b == [id |-> Whole(f), text |-> WholeText(f)]
  <2>1. b \in Block
    BY PutTell
  <2>2. b.text = Paragraphs[f] /\ b.id = Whole(f)
    BY DEF WholeText
  <2> HIDE DEF b
  <2>3. b \in Singly
    BY <2>1, <2>2, PlacesDiffer DEF Singly
  <2> QED
    BY <2>3 DEF b
<1>4. ASSUME NEW i \in Nat, User(i) \notin AllParagraphs PROVE UserBlock(i) \in Singly
  <2> DEFINE b == UserBlock(i)
  <2>1. b \in Block
    BY UserBlockIsBlock
  <2>2. DOMAIN b.text = {1} /\ b.text[1] = User(i)
    BY DEF UserBlock
  <2> HIDE DEF b
  <2>3. b \in Singly
    BY <1>4, <2>1, <2>2 DEF Singly
  <2> QED
    BY <2>3 DEF b
<1>5. ASSUME NEW b \in Singly PROVE [b EXCEPT !.text = Append(@, Metadata)] \in Singly
  <2> DEFINE d == [b EXCEPT !.text = Append(@, Metadata)]
             t == b.text
             u == Append(t, Metadata)
  <2>1. b \in Block /\ t \in Seq(Piece)
    BY DEF Singly, Block, Text
  <2>2. d \in Block /\ d.id = b.id /\ d.text = u
    BY <2>1 DEF Block, Text, Piece
  <2>3. \A i \in DOMAIN t : t[i] \in AllParagraphs =>
          /\ b.id = Par(t[i]) \/ b.id = Whole(FieldOf(t[i]))
          /\ \A j \in DOMAIN t : t[i] = t[j] => i = j
    BY DEF Singly
  <2>4. Metadata \notin AllParagraphs
    BY TextsAssumption
  <2> HIDE DEF t, d
  <2>5. /\ DOMAIN u = (DOMAIN t) \cup {Len(t) + 1} /\ u[Len(t) + 1] = Metadata
        /\ \A i \in DOMAIN t : u[i] = t[i]
    BY <2>1
  <2> HIDE DEF u
  <2>6. \A i \in DOMAIN u : u[i] \in AllParagraphs =>
          /\ b.id = Par(u[i]) \/ b.id = Whole(FieldOf(u[i]))
          /\ \A j \in DOMAIN u : u[i] = u[j] => i = j
    <3> SUFFICES ASSUME NEW i \in DOMAIN u, u[i] \in AllParagraphs
                 PROVE  /\ b.id = Par(u[i]) \/ b.id = Whole(FieldOf(u[i]))
                        /\ \A j \in DOMAIN u : u[i] = u[j] => i = j
      OBVIOUS
    <3>1. i \in DOMAIN t /\ u[i] = t[i]
      BY <2>4, <2>5
    <3>2. \A j \in DOMAIN u : u[i] = u[j] => j \in DOMAIN t /\ u[j] = t[j]
      BY <2>4, <2>5
    <3> QED
      BY <2>3, <3>1, <3>2
  <2>7. d \in Singly
    BY <2>2, <2>6 DEF Singly
  <2> QED
    BY <2>7 DEF d
<1> QED
  BY <1>1, <1>2, <1>3, <1>4, <1>5

\* The whole text of a field takes the place of its paragraphs.
LEMMA ReplaceApart ==
    ASSUME NEW c \in Seq(Singly), NEW f \in Fields, OneEach(c), \A p \in AllParagraphs : ~ Doubled(c, p)
    PROVE  /\ ReplaceBlocks(c, f) \in Seq(Singly) /\ OneEach(ReplaceBlocks(c, f))
           /\ Ids(ReplaceBlocks(c, f)) \subseteq Ids(c) \cup {Whole(f)}
           /\ \A p \in AllParagraphs : ~ Doubled(ReplaceBlocks(c, f), p)
<1> DEFINE d == ReplaceBlocks(c, f)
           w == [id |-> Whole(f), text |-> WholeText(f)]
<1>1. /\ d \in Seq(Singly) /\ OneEach(d)
      /\ ToSet(d) = {b \in ToSet(c) : ~ BeginsWith(b.id, f) /\ b.id # Whole(f)} \cup {w}
  BY PutSingly, ReplaceBlocksIn
<1> HIDE DEF d
<1>2. Ids(d) = {b.id : b \in ToSet(d)} /\ Ids(c) = {b.id : b \in ToSet(c)}
  BY <1>1, IdsOfBlocks
<1>3. w.id = Whole(f)
  OBVIOUS
<1> HIDE DEF w
<1>4. Ids(d) \subseteq Ids(c) \cup {Whole(f)}
  BY <1>1, <1>2, <1>3
<1>5. \A id \in Ids(d) : id = Whole(f) \/ (id \in Ids(c) /\ ~ BeginsWith(id, f))
  BY <1>1, <1>2, <1>3
<1>6. ASSUME NEW p \in AllParagraphs, Doubled(d, p) PROVE FALSE
  <2>1. Par(p) \in Ids(d) /\ Whole(FieldOf(p)) \in Ids(d)
    BY <1>6 DEF Doubled
  <2>2. Par(p) # Whole(f) /\ (Whole(FieldOf(p)) = Whole(f) => FieldOf(p) = f)
    BY DEF Par, Whole
  <2>3. Par(p) \in Ids(c) /\ ~ BeginsWith(Par(p), f)
    BY <1>5, <2>1, <2>2
  <2>4. FieldOf(p) # f
    BY <2>3 DEF BeginsWith, BlockField, Par
  <2>5. Whole(FieldOf(p)) \in Ids(c)
    BY <1>5, <2>1, <2>2, <2>4
  <2> QED
    BY <2>3, <2>5 DEF Doubled
<1> QED
  BY <1>1, <1>4, <1>6 DEF d

\* What the steps but hierarchy and field_extension do to a context that has no text twice.
LEMMA StepsApart ==
    ASSUME request \in RequestOptions, TwiceCase, context \in Seq(Singly), OneEach(context),
           \/ DefaultStep \/ NeighbouringStep \/ ConversationStep \/ MetadataStep
           \/ FullResourceStep /\ NoWhole(context)
    PROVE  /\ context' \in Seq(Singly) /\ OneEach(context')
           /\ FullResourceStep \/ NoWhole(context) => Apart(context')
           /\ ~ FullResourceStep => (NoWhole(context) => NoWhole(context'))
           /\ MetadataStep => (Apart(context) => Apart(context'))
<1> DEFINE ps == request.retrieved
           G == Singly
<1>1. /\ G \subseteq Block
      /\ \A p \in AllParagraphs : [id |-> Par(p), text |-> <<p>>] \in G
      /\ \A b \in G : [b EXCEPT !.text = Append(@, Metadata)] \in G
  BY PutSingly
<1>2. ps \in Seq(AllParagraphs) /\ context \in Seq(G)
  BY DEF RequestOptions
<1>3. ASSUME NEW c, NEW d, NEW qs, Ids(d) = Ids(c) \cup {Par(p) : p \in qs}, NoWhole(c)
      PROVE  NoWhole(d)
  <2>1. \A f \in Fields : \A p \in qs : Whole(f) # Par(p)
    BY DEF Whole, Par
  <2> QED
    BY <1>3, <2>1 DEF NoWhole
<1>4. ASSUME NEW c, NoWhole(c) PROVE Apart(c)
  BY <1>4, FieldOfParagraph DEF NoWhole, Apart, Doubled
<1> HIDE DEF G
<1>5. CASE DefaultStep
  <2>1. PICK qs \in Seq(AllParagraphs) : context' = AddParagraphs(AddParagraphs(context, ps), qs)
    BY <1>5, DefaultShape
  <2> DEFINE d == AddParagraphs(context, ps)
             e == AddParagraphs(d, qs)
  <2>2. d \in Seq(G) /\ OneEach(d) /\ Ids(d) = Ids(context) \cup {Par(p) : p \in ToSet(ps)}
    BY <1>1, <1>2, AddParagraphsIn
  <2> HIDE DEF d
  <2>3. e \in Seq(G) /\ OneEach(e) /\ Ids(e) = Ids(d) \cup {Par(p) : p \in ToSet(qs)}
    BY <1>1, <2>2, AddParagraphsIn
  <2> HIDE DEF e
  <2>4. context' = e
    BY <2>1 DEF d, e
  <2>5. NoWhole(context) => NoWhole(e)
    BY <1>3, <2>2, <2>3
  <2>6. ~ FullResourceStep /\ ~ MetadataStep
    BY <1>5 DEF DefaultStep, FullResourceStep, MetadataStep, At
  <2> QED
    BY <1>4, <2>3, <2>4, <2>5, <2>6 DEF G
<1>6. CASE NeighbouringStep
  <2>1. PICK qs \in Seq(AllParagraphs) : context' = AddMissing(context, qs)
    BY <1>6, NeighbouringShape
  <2> DEFINE d == AddMissing(context, qs)
  <2>2. d \in Seq(G) /\ OneEach(d) /\ Ids(d) = Ids(context) \cup {Par(p) : p \in ToSet(qs)}
    BY <1>1, <1>2, AddMissingIn
  <2> HIDE DEF d
  <2>3. context' = d
    BY <2>1 DEF d
  <2>4. NoWhole(context) => NoWhole(d)
    BY <1>3, <2>2
  <2>5. ~ FullResourceStep /\ ~ MetadataStep
    BY <1>6 DEF NeighbouringStep, FullResourceStep, MetadataStep, At
  <2> QED
    BY <1>4, <2>2, <2>3, <2>4, <2>5 DEF G
<1>7. CASE ConversationStep
  <2>1. PICK qs \in Seq(AllParagraphs), fs \in Seq(Fields) :
          LET talks == AddMissing(AddMissing(context, ps), qs)
          IN  context' = IF request.attachments THEN AddAttachments(talks, fs) ELSE talks
    BY <1>7, ConversationShape
  <2> DEFINE d == AddMissing(context, ps)
             e == AddMissing(d, qs)
  <2>2. d \in Seq(G) /\ OneEach(d) /\ Ids(d) = Ids(context) \cup {Par(p) : p \in ToSet(ps)}
    BY <1>1, <1>2, AddMissingIn
  <2>3. context' = e
    BY <2>1 DEF TwiceCase
  <2> HIDE DEF d
  <2>4. e \in Seq(G) /\ OneEach(e) /\ Ids(e) = Ids(d) \cup {Par(p) : p \in ToSet(qs)}
    BY <1>1, <2>2, AddMissingIn
  <2> HIDE DEF e
  <2>5. NoWhole(context) => NoWhole(e)
    BY <1>3, <2>2, <2>4
  <2>6. ~ FullResourceStep /\ ~ MetadataStep
    BY <1>7 DEF ConversationStep, FullResourceStep, MetadataStep, At
  <2> QED
    BY <1>4, <2>3, <2>4, <2>5, <2>6 DEF G
<1>8. CASE MetadataStep
  <2>1. context' \in Seq(G) /\ OneEach(context') /\ Ids(context') = Ids(context)
    BY <1>1, <1>2, <1>8, MetadataIn
  <2>2. NoWhole(context) => NoWhole(context')
    BY <2>1 DEF NoWhole
  <2>3. Apart(context) => Apart(context')
    BY <2>1 DEF Apart, Doubled
  <2>4. ~ FullResourceStep
    BY <1>8 DEF FullResourceStep, MetadataStep, At
  <2> QED
    BY <1>4, <2>1, <2>2, <2>3, <2>4 DEF G
<1>9. CASE FullResourceStep /\ NoWhole(context)
  <2>1. PICK fs \in SUBSET Fields : \E order \in Seq(fs) :
          context' = IF request.remaining
                     THEN AddParagraphs(ReplaceFields(context, order),
                                        Chosen(ps, {p \in AllParagraphs : IsRemaining(p, fs)}))
                     ELSE ReplaceFields(context, order)
    BY <1>9, FullResourceShape
  <2>2. PICK order \in Seq(fs) :
          context' = IF request.remaining
                     THEN AddParagraphs(ReplaceFields(context, order),
                                        Chosen(ps, {p \in AllParagraphs : IsRemaining(p, fs)}))
                     ELSE ReplaceFields(context, order)
    BY <2>1
  <2> DEFINE R == {p \in AllParagraphs : IsRemaining(p, fs)}
             whole == ReplaceFields(context, order)
             rest == Chosen(ps, R)
             more == AddParagraphs(whole, rest)
             A == {c \in Seq(Singly) : /\ OneEach(c)
                                       /\ \A p \in AllParagraphs : ~ Doubled(c, p)
                                       /\ \A f \in Fields : Whole(f) \in Ids(c) => f \in fs}
  <2>3. \A a \in A, f \in fs : ReplaceBlocks(a, f) \in A
    <3> SUFFICES ASSUME NEW a \in A, NEW f \in fs PROVE ReplaceBlocks(a, f) \in A
      OBVIOUS
    <3> DEFINE d == ReplaceBlocks(a, f)
    <3>1. /\ d \in Seq(Singly) /\ OneEach(d) /\ Ids(d) \subseteq Ids(a) \cup {Whole(f)}
          /\ \A p \in AllParagraphs : ~ Doubled(d, p)
      BY <2>1, ReplaceApart
    <3> HIDE DEF d
    <3>2. \A g \in Fields : Whole(g) = Whole(f) => g = f
      BY DEF Whole
    <3>3. \A g \in Fields : Whole(g) \in Ids(d) => g \in fs
      BY <3>1, <3>2
    <3> QED
      BY <3>1, <3>3 DEF d
  <2>4. context \in A
    BY <1>9, FieldOfParagraph DEF NoWhole, Doubled
  <2> HIDE DEF A
  <2>5. whole \in A
    BY <2>3, <2>4, ReplaceFieldsStays
  <2>6. rest \in Seq(R \cap AllParagraphs) /\ rest \in Seq(AllParagraphs)
    BY ChosenRetrieved
  <2>7. context' = IF request.remaining THEN more ELSE whole
    BY <2>2
  <2> HIDE DEF whole, rest, more
  <2>8. /\ whole \in Seq(G) /\ OneEach(whole) /\ \A p \in AllParagraphs : ~ Doubled(whole, p)
        /\ \A f \in Fields : Whole(f) \in Ids(whole) => f \in fs
    BY <2>5 DEF A, G
  <2>9. more \in Seq(G) /\ OneEach(more) /\ Ids(more) = Ids(whole) \cup {Par(p) : p \in ToSet(rest)}
    BY <1>1, <2>6, <2>8, AddParagraphsIn DEF more
  <2>10. ToSet(rest) \subseteq R
    BY <2>6 DEF ToSet
  <2>11. ASSUME NEW p \in AllParagraphs, Doubled(more, p) PROVE FieldOf(p) \in Conversations
    <3>1. Par(p) \in Ids(more) /\ Whole(FieldOf(p)) \in Ids(more) /\ FieldOf(p) \in Fields
      BY <2>11, FieldOfParagraph DEF Doubled
    <3>2. /\ \A q \in ToSet(rest) : Whole(FieldOf(p)) # Par(q)
          /\ \A q \in ToSet(rest) : Par(p) = Par(q) => p = q
      BY DEF Whole, Par
    <3>3. Whole(FieldOf(p)) \in Ids(whole) /\ FieldOf(p) \in fs
      BY <2>8, <2>9, <3>1, <3>2
    <3>4. Par(p) \notin Ids(whole)
      BY <2>8, <3>3 DEF Doubled
    <3>5. p \in R
      BY <2>9, <2>10, <3>1, <3>2, <3>4
    <3> QED
      BY <3>3, <3>5 DEF IsRemaining
  <2>12. Apart(context')
    BY <2>7, <2>8, <2>11 DEF Apart
  <2>13. ~ MetadataStep
    BY <1>9 DEF FullResourceStep, MetadataStep, At
  <2> QED
    BY <1>9, <2>7, <2>8, <2>9, <2>12, <2>13 DEF G
<1> QED
  BY <1>5, <1>6, <1>7, <1>8, <1>9

\* full_resource is at most once in what is left to do, s.
FullOnce(s) == \A i, j \in DOMAIN s : s[i] = "full_resource" /\ s[j] = "full_resource" => i = j

\* The steps that may follow full_resource.
AfterFull == {"full_resource", "metadata", "images", "cap"}

\* A context that has each text once, in one block.
OnceIn(c) == c \in Seq(Singly) /\ OneEach(c) /\ Apart(c)

\* No whole text is put before full_resource is taken, which is once, if it is asked for, and
\* is followed by nothing that puts paragraphs.
TwiceInv ==
  /\ request \in Requests
  /\ FullOnce(steps)
  /\ "full_resource" \in request.strategies => ToSet(steps) \subseteq AfterFull
  /\ TwiceCase =>
       /\ built = <<>> => /\ OnceIn(context)
                          /\ \/ NoWhole(context)
                             \/ "full_resource" \in request.strategies /\ "full_resource" \notin ToSet(steps)
       /\ built # <<>> => OnceIn(built)

\* An ask asks for full_resource once, and then for little else.
LEMMA StepsOnce ==
    ASSUME request \in RequestOptions, steps = StepsOf(request) \o <<"images", "cap">>
    PROVE  /\ FullOnce(steps)
           /\ "full_resource" \in request.strategies => ToSet(steps) \subseteq AfterFull
<1> DEFINE s == StepsOf(request)
           e == <<"images", "cap">>
           T == Strategies \cup {"default"}
<1>1. StepOrder \in Seq(T)
  <2>1. /\ "full_resource" \in T /\ "hierarchy" \in T /\ "neighbouring" \in T
        /\ "extension" \in T /\ "conversation" \in T /\ "metadata" \in T
    BY DEF Strategies
  <2> HIDE DEF T
  <2> QED
    BY <2>1 DEF StepOrder
<1>2. \A i, j \in DOMAIN StepOrder : StepOrder[i] = StepOrder[j] => i = j
  BY DEF StepOrder
<1>3. <<"default">> \in Seq(T) /\ FullOnce(<<"default">>)
  BY DEF FullOnce
<1> HIDE DEF T
<1>4. ASSUME NEW S PROVE Chosen(StepOrder, S) \in Seq(T) /\ FullOnce(Chosen(StepOrder, S))
  BY <1>1, <1>2, ChosenOf, ChosenOnce DEF FullOnce
<1>5. s \in Seq(T) /\ FullOnce(s)
  BY <1>3, <1>4 DEF StepsOf
<1>6. "full_resource" \in request.strategies => ToSet(s) \subseteq AfterFull
  <2> SUFFICES ASSUME "full_resource" \in request.strategies PROVE ToSet(s) \subseteq AfterFull
    OBVIOUS
  <2> DEFINE S == request.strategies \cap {"full_resource", "metadata"}
  <2>1. s = Chosen(StepOrder, S)
    BY DEF StepsOf
  <2>2. ToSet(Chosen(StepOrder, S)) = ToSet(StepOrder) \cap S
    BY <1>1, ChosenSet
  <2> QED
    BY <2>1, <2>2 DEF AfterFull
<1>7. steps = s \o e
  BY DEF s, e
<1>8. Len(e) = 2 /\ e[1] = "images" /\ e[2] = "cap" /\ e \in Seq({"images", "cap"})
  OBVIOUS
<1> HIDE DEF s, e
<1>9. /\ Len(s) \in Nat /\ DOMAIN s = 1..Len(s) /\ DOMAIN steps = 1..(Len(s) + 2)
      /\ \A i \in 1..Len(s) : steps[i] = s[i]
      /\ steps[Len(s) + 1] = "images" /\ steps[Len(s) + 2] = "cap"
  <2> DEFINE M == T \cup {"images", "cap"}
  <2>1. s \in Seq(M) /\ e \in Seq(M)
    BY <1>5, <1>8
  <2> HIDE DEF M
  <2>2. /\ s \o e \in Seq(M) /\ Len(s) \in Nat /\ Len(s \o e) = Len(s) + Len(e)
        /\ \A i \in 1..Len(s) : (s \o e)[i] = s[i]
        /\ \A i \in 1..Len(e) : (s \o e)[Len(s) + i] = e[i]
    BY <2>1
  <2>3. 1 \in 1..Len(e) /\ 2 \in 1..Len(e) /\ Len(e) = 2
    BY <1>8
  <2>4. DOMAIN s = 1..Len(s) /\ DOMAIN (s \o e) = 1..(Len(s) + 2)
    BY <2>1, <2>2, <2>3
  <2> QED
    BY <1>7, <1>8, <2>2, <2>3, <2>4
<1>10. \A i \in DOMAIN steps : i \in 1..Len(s) \/ i = Len(s) + 1 \/ i = Len(s) + 2
  BY <1>9
<1>11. FullOnce(steps)
  BY <1>5, <1>9, <1>10, SMTT(30) DEF FullOnce
<1>12. ToSet(steps) \subseteq ToSet(s) \cup {"images", "cap"}
  BY <1>9, <1>10 DEF ToSet
<1> QED
  BY <1>6, <1>11, <1>12 DEF AfterFull

\* A step that is taken is not left to do, if it is there once.
LEMMA FullTaken ==
    ASSUME steps \in CapLast, steps # <<>>, FullOnce(steps)
    PROVE  /\ FullOnce(Tail(steps))
           /\ Head(steps) = "full_resource" => "full_resource" \notin ToSet(Tail(steps))
<1> DEFINE s == steps
<1>1. s \in Seq(StepNames) /\ s # <<>>
  BY DEF CapLast
<1> HIDE DEF s
<1>2. /\ Len(s) \in Nat \ {0} /\ DOMAIN s = 1..Len(s)
      /\ Head(s) = s[1] /\ DOMAIN Tail(s) = 1..(Len(s) - 1)
      /\ \A i \in 1..(Len(s) - 1) : Tail(s)[i] = s[i + 1] /\ i + 1 \in DOMAIN s /\ i + 1 # 1
  BY <1>1
<1>3. FullOnce(s)
  BY DEF s
<1>4. FullOnce(Tail(s))
  <2> SUFFICES ASSUME NEW i \in 1..(Len(s) - 1), NEW j \in 1..(Len(s) - 1),
                      Tail(s)[i] = "full_resource", Tail(s)[j] = "full_resource"
               PROVE  i = j
    BY <1>2 DEF FullOnce
  <2>1. i + 1 = j + 1
    BY <1>2, <1>3 DEF FullOnce
  <2> QED
    BY <2>1
<1>5. Head(s) = "full_resource" => "full_resource" \notin ToSet(Tail(s))
  <2> SUFFICES ASSUME Head(s) = "full_resource", NEW i \in DOMAIN Tail(s), Tail(s)[i] = "full_resource"
               PROVE  FALSE
    BY DEF ToSet
  <2> QED
    BY <1>2, <1>3 DEF FullOnce
<1> QED
  BY <1>4, <1>5 DEF s

\* An ask begins with each retrieved paragraph once.
LEMMA InitTwice == PromptInit => TwiceInv
<1> SUFFICES ASSUME PromptInit PROVE TwiceInv
  OBVIOUS
<1> DEFINE n == request.userTexts
           ps == request.retrieved
           c == [i \in 1..n |-> UserBlock(i)]
           d == AddParagraphs(c, ps)
<1>1. request \in Requests /\ request \in RequestOptions
  BY PromptAssumption DEF PromptInit
<1>2. n \in Nat /\ ps \in Seq(AllParagraphs)
  BY <1>1 DEF RequestOptions
<1>3. /\ FullOnce(steps)
      /\ "full_resource" \in request.strategies => ToSet(steps) \subseteq AfterFull
  BY <1>1, StepsOnce DEF PromptInit
<1>4. \A i \in 1..n : UserBlock(i) \in Singly
  <2>1. \A i \in 1..n : i \in Nat /\ User(i) \notin AllParagraphs
    BY <1>1, <1>2, TextsAssumption
  <2> QED
    BY <2>1, PutSingly
<1>5. c \in Seq(Singly) /\ UserContext(request) = c /\ DOMAIN c = 1..n
  BY <1>2, <1>4 DEF UserContext, UserBlock
<1>6. \A i \in 1..n : c[i].id = User(i)
  BY DEF UserBlock
<1> HIDE DEF c
<1>7. Ids(c) = {User(i) : i \in 1..n}
  BY <1>5, <1>6 DEF Ids
<1>8. OneEach(c) /\ NoWhole(c)
  <2>1. /\ \A i, j \in 1..n : User(i) = User(j) => i = j
        /\ \A f \in Fields : \A i \in 1..n : Whole(f) # User(i)
    BY DEF User, Whole
  <2> QED
    BY <1>5, <1>6, <1>7, <2>1 DEF OneEach, NoWhole
<1>9. d \in Seq(Singly) /\ OneEach(d) /\ Ids(d) = Ids(c) \cup {Par(p) : p \in ToSet(ps)}
  BY <1>2, <1>5, <1>8, PutSingly, AddParagraphsIn
<1> HIDE DEF d
<1>10. NoWhole(d)
  <2>1. \A f \in Fields : \A p \in ToSet(ps) : Whole(f) # Par(p)
    BY DEF Whole, Par
  <2> QED
    BY <1>8, <1>9, <2>1 DEF NoWhole
<1>11. context = IF request.strategies = {} THEN c ELSE d
  BY <1>5 DEF PromptInit, d
<1>12. context \in Seq(Singly) /\ OneEach(context) /\ NoWhole(context)
  BY <1>5, <1>8, <1>9, <1>10, <1>11
<1>13. Apart(context)
  BY <1>12, FieldOfParagraph DEF NoWhole, Apart, Doubled
<1> QED
  BY <1>1, <1>3, <1>12, <1>13 DEF TwiceInv, OnceIn, PromptInit

\* No step puts a text that is there.
LEMMA NextTwice == PromptInv /\ KeptInv /\ TwiceInv /\ [PromptNext]_promptVars => TwiceInv'
<1> SUFFICES ASSUME PromptInv, KeptInv, TwiceInv, [PromptNext]_promptVars PROVE TwiceInv'
  OBVIOUS
<1>1. /\ request \in RequestOptions /\ steps \in CapLast /\ context \in Seq(Block)
      /\ (built # <<>> => steps = <<>>)
  BY DEF PromptInv
<1>2. ToSet(steps) \subseteq request.strategies \cup {"default", "images", "cap"}
  BY DEF KeptInv
<1>3. /\ request \in Requests /\ FullOnce(steps)
      /\ "full_resource" \in request.strategies => ToSet(steps) \subseteq AfterFull
      /\ TwiceCase /\ built = <<>> =>
           /\ OnceIn(context)
           /\ \/ NoWhole(context)
              \/ "full_resource" \in request.strategies /\ "full_resource" \notin ToSet(steps)
      /\ TwiceCase /\ built # <<>> => OnceIn(built)
  BY DEF TwiceInv
<1>4. steps # <<>> => /\ ToSet(steps) = {Head(steps)} \cup ToSet(Tail(steps))
                      /\ FullOnce(Tail(steps))
                      /\ Head(steps) = "full_resource" => "full_resource" \notin ToSet(Tail(steps))
  BY <1>1, <1>3, StepTaken, FullTaken
<1>5. ASSUME request' = request, steps # <<>>, steps' = Tail(steps), built' = built,
             TwiceCase => /\ OnceIn(context')
                          /\ \/ NoWhole(context')
                             \/ "full_resource" \in request.strategies
                                  /\ "full_resource" \notin ToSet(steps')
      PROVE  TwiceInv'
  <2>1. built = <<>>
    BY <1>1, <1>5
  <2>2. /\ FullOnce(steps')
        /\ "full_resource" \in request'.strategies => ToSet(steps') \subseteq AfterFull
    BY <1>3, <1>4, <1>5
  <2>3. TwiceCase' = TwiceCase /\ OnceIn(context)' = OnceIn(context')
    BY <1>5 DEF TwiceCase, OnceIn, Apart
  <2> QED
    BY <1>3, <1>5, <2>1, <2>2, <2>3 DEF TwiceInv
<1>6. CASE UNCHANGED promptVars
  BY <1>6 DEF promptVars, TwiceInv, TwiceCase, OnceIn, Apart
<1>7. CASE FailBuild
  <2>1. built = <<>> /\ steps' = <<>> /\ UNCHANGED <<request, context, built>>
    BY <1>1, <1>7 DEF FailBuild
  <2>2. ToSet(<<>>) = {} /\ FullOnce(<<>>)
    BY DEF ToSet, FullOnce
  <2>3. TwiceCase' = TwiceCase /\ OnceIn(context)' = OnceIn(context)
    BY <2>1 DEF TwiceCase, OnceIn, Apart
  <2> QED
    BY <1>3, <2>1, <2>2, <2>3 DEF TwiceInv
<1>8. ASSUME NEW r \in Resources, DeleteResource(r) PROVE TwiceInv'
  BY <1>3, <1>8 DEF DeleteResource, TwiceInv, TwiceCase, OnceIn, Apart
<1>9. CASE \/ DefaultStep \/ NeighbouringStep \/ ExtensionStep \/ ConversationStep \/ MetadataStep
           \/ FullResourceStep \/ HierarchyStep
  <2>1. request' = request /\ steps # <<>> /\ steps' = Tail(steps) /\ built' = built
    BY <1>9 DEF DefaultStep, FullResourceStep, HierarchyStep, NeighbouringStep, ExtensionStep,
           ConversationStep, MetadataStep, At, Proceed
  <2>2. Head(steps) \in ToSet(steps) /\ built = <<>>
    BY <1>1, <1>4, <2>1
  <2>3. /\ DefaultStep => Head(steps) = "default"
        /\ NeighbouringStep => Head(steps) = "neighbouring"
        /\ ExtensionStep => Head(steps) = "extension"
        /\ ConversationStep => Head(steps) = "conversation"
        /\ MetadataStep => Head(steps) = "metadata"
        /\ FullResourceStep => Head(steps) = "full_resource"
        /\ HierarchyStep => Head(steps) = "hierarchy"
    BY DEF DefaultStep, FullResourceStep, HierarchyStep, NeighbouringStep, ExtensionStep,
           ConversationStep, MetadataStep, At
  <2>4. ASSUME TwiceCase
        PROVE  /\ OnceIn(context')
               /\ \/ NoWhole(context')
                  \/ "full_resource" \in request.strategies /\ "full_resource" \notin ToSet(steps')
    <3>1. context \in Seq(Singly) /\ OneEach(context) /\ Apart(context)
      BY <1>3, <2>2, <2>4 DEF OnceIn
    <3>2. ~ ExtensionStep /\ ~ HierarchyStep
      BY <1>2, <2>2, <2>3, <2>4 DEF TwiceCase
    <3>3. FullResourceStep =>
            /\ NoWhole(context) /\ "full_resource" \in request.strategies
            /\ "full_resource" \notin ToSet(steps')
      BY <1>2, <1>3, <1>4, <2>1, <2>2, <2>3, <2>4
    <3>4. /\ context' \in Seq(Singly) /\ OneEach(context')
          /\ FullResourceStep \/ NoWhole(context) => Apart(context')
          /\ ~ FullResourceStep => (NoWhole(context) => NoWhole(context'))
          /\ MetadataStep => (Apart(context) => Apart(context'))
      BY <1>1, <1>9, <2>4, <3>1, <3>2, <3>3, StepsApart
    <3>5. NoWhole(context) \/ MetadataStep \/ FullResourceStep
      <4> SUFFICES ASSUME ~ NoWhole(context), ~ FullResourceStep PROVE MetadataStep
        OBVIOUS
      <4>1. "full_resource" \in request.strategies
        BY <1>3, <2>2, <2>4
      <4>2. Head(steps) \in AfterFull
        BY <1>3, <2>2, <4>1
      <4> QED
        BY <1>9, <2>3, <3>2, <4>2 DEF AfterFull
    <3>6. Apart(context')
      BY <3>1, <3>4, <3>5
    <3>7. \/ NoWhole(context')
          \/ "full_resource" \in request.strategies /\ "full_resource" \notin ToSet(steps')
      BY <1>3, <1>4, <2>1, <2>2, <2>4, <3>3, <3>4
    <3> QED
      BY <3>4, <3>6, <3>7 DEF OnceIn
  <2> QED
    BY <1>5, <2>1, <2>4
<1>10. CASE ImagesStep
  <2>1. /\ request' = request /\ steps # <<>> /\ steps' = Tail(steps) /\ built' = built
        /\ context' = context
    BY <1>10 DEF ImagesStep, At, Proceed
  <2>2. built = <<>>
    BY <1>1, <2>1
  <2> QED
    BY <1>3, <1>4, <1>5, <2>1, <2>2
<1>11. CASE CapStep
  <2>1. /\ steps # <<>> /\ Head(steps) = "cap" /\ steps' = Tail(steps) /\ request' = request
        /\ built' = context /\ context' = Cap(context, request.limit)
    BY <1>11 DEF CapStep, At, Proceed
  <2>2. built = <<>>
    BY <1>1, <2>1
  <2>3. /\ FullOnce(steps')
        /\ "full_resource" \in request'.strategies => ToSet(steps') \subseteq AfterFull
    BY <1>3, <1>4, <2>1
  <2>4. TwiceCase' = TwiceCase /\ OnceIn(context)' = OnceIn(context') /\ OnceIn(built)' = OnceIn(built')
    BY <2>1 DEF TwiceCase, OnceIn, Apart
  <2>5. built' = <<>> => OnceIn(context') /\ NoWhole(context')
    <3> SUFFICES ASSUME context = <<>> PROVE OnceIn(context') /\ NoWhole(context')
      BY <2>1
    <3>1. Capped(context, context', request.limit)
      BY <1>1, <2>1, CapCaps DEF RequestOptions
    <3>2. context' = <<>>
      BY <3>1 DEF Capped
    <3>3. Ids(<<>>) = {}
      BY DEF Ids
    <3> QED
      BY <3>2, <3>3 DEF OnceIn, OneEach, Apart, Doubled, NoWhole
  <2> QED
    BY <1>3, <2>1, <2>2, <2>3, <2>4, <2>5 DEF TwiceInv
<1> QED
  BY <1>6, <1>7, <1>8, <1>9, <1>10, <1>11 DEF PromptNext

\* NoTextTwice: without hierarchy, field_extension and attachments no paragraph is in two
\* places of what is built, but for a message among the remaining text blocks, for any
\* knowledge box and any strategies.
THEOREM TextsOnce == PromptSpec => []NoTextTwice
<1>1. PromptInv /\ TwiceInv => NoTextTwice
  <2> SUFFICES ASSUME PromptInv, TwiceInv, built # <<>>, TwiceCase, NEW p \in AllParagraphs,
                      ~ (request.remaining /\ FieldOf(p) \in Conversations)
               PROVE  Cardinality(Occurrences(p)) <= 1
    BY DEF NoTextTwice, Finished, TwiceCase
  <2>1. built \in Seq(Singly) /\ OneEach(built) /\ Apart(built)
    BY DEF TwiceInv, OnceIn
  <2>2. ASSUME NEW o \in Occurrences(p)
        PROVE  /\ o = <<o[1], o[2]>> /\ o[1] \in DOMAIN built
               /\ o[2] \in DOMAIN built[o[1]].text /\ built[o[1]].text[o[2]] = p
               /\ built[o[1]].id = Par(p) \/ built[o[1]].id = Whole(FieldOf(p))
               /\ \A j \in DOMAIN built[o[1]].text : built[o[1]].text[j] = p => j = o[2]
    <3>1. /\ o = <<o[1], o[2]>> /\ o[1] \in DOMAIN built
          /\ o[2] \in DOMAIN built[o[1]].text /\ built[o[1]].text[o[2]] = p
      BY DEF Occurrences
    <3>2. built[o[1]] \in Singly
      BY <2>1, <3>1
    <3> QED
      BY <3>1, <3>2 DEF Singly
  <2>3. ASSUME NEW o \in Occurrences(p), NEW q \in Occurrences(p) PROVE o = q
    <3>1. built[o[1]].id = built[q[1]].id
      BY <2>1, <2>2 DEF Apart, Doubled, Ids
    <3>2. o[1] = q[1]
      BY <2>1, <2>2, <3>1 DEF OneEach
    <3>3. o[2] = q[2]
      BY <2>2, <3>2
    <3> QED
      BY <2>2, <3>2, <3>3
  <2>4. Occurrences(p) = {} \/ \E o : Occurrences(p) = {o}
    BY <2>3
  <2>5. Cardinality(Occurrences(p)) = 0 \/ Cardinality(Occurrences(p)) = 1
    <3> HIDE DEF Occurrences
    <3> QED
      BY <2>4, FS_EmptySet, FS_Singleton, Zenon
  <2> QED
    BY <2>5
<1> QED
  BY <1>1, InitKept, NextKept, InitTwice, NextTwice, PromptInvariant, PTL DEF PromptSpec

=============================================================================
