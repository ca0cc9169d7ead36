----------------------------- MODULE WireProofs -----------------------------
(***************************************************************************)
(* Theorems about the wire, the session that reads it and the recording of *)
(* it, for every stream of bytes and every way the network cuts it.        *)
(*                                                                         *)
(* What an operator computes by recursion is known here as what its        *)
(* recursion says of it, once it is shown to be defined: the least number  *)
(* for which something fails stands for an induction.  The leftovers of a  *)
(* buffer are then the one chain, from the buffer, that cannot be          *)
(* continued.  The chain of a longer buffer begins with the chain of its   *)
(* front and goes on from what that left, so that cutting a stream changes *)
(* nothing, and neither does what a session has read before.               *)
(***************************************************************************)
EXTENDS TracedLink, TLAPS, WellFoundedInduction, SequenceTheorems

-----------------------------------------------------------------------------
(* Numbers and sets of numbers.                                            *)

LEMMA LeastNumber ==
    ASSUME NEW T \in SUBSET Nat, T # {}
    PROVE  \E x \in T : \A y \in T : x <= y
<1>1. \E x \in T : \A y \in T : ~ (<<y, x>> \in OpToRel(<, Nat))
  BY NatLessThanWellFounded, WFMin
<1>2. ASSUME NEW x \in T, NEW y \in T, ~ (<<y, x>> \in OpToRel(<, Nat))
      PROVE  x <= y
  <2>1. ~ (y < x)
    BY <1>2 DEF OpToRel
  <2>2. QED
    BY <2>1
<1>3. QED
  BY <1>1, <1>2

LEMMA MinIsLeast ==
    ASSUME NEW T \in SUBSET Nat, T # {}
    PROVE  Min(T) \in T /\ \A y \in T : Min(T) <= y
BY LeastNumber DEF Min

LEMMA MaxIsGreatest ==
    ASSUME NEW k \in Nat, NEW T \in SUBSET (1 .. k), T # {}
    PROVE  Max(T) \in T /\ \A y \in T : Max(T) >= y
<1> DEFINE Below == {k - x : x \in T}
<1>1. Below \in SUBSET Nat /\ Below # {}
  <2>1. \A x \in T : k - x \in Nat
    <3>1. \A x \in T : x \in 1 .. k
      OBVIOUS
    <3>2. QED
      BY <3>1
  <2>2. QED
    BY <2>1
<1>2. PICK b \in Below : \A y \in Below : b <= y
  <2> HIDE DEF Below
  <2>1. QED
    BY <1>1, LeastNumber
<1>3. PICK m \in T : b = k - m
  BY <1>2
<1>4. \A y \in T : m >= y
  <2> SUFFICES ASSUME NEW y \in T PROVE m >= y
    OBVIOUS
  <2>1. k - m <= k - y
    BY <1>2, <1>3
  <2>2. m \in Int /\ y \in Int
    OBVIOUS
  <2>3. QED
    BY <2>1, <2>2
<1>5. \E x \in T : \A y \in T : x >= y
  BY <1>4
<1>6. QED
  BY <1>5 DEF Max

\* One digit after the other: the number a text of digits stands for.
Folds(iter, text, D) ==
    iter = [s \in SUBSET D |->
              IF s = {} THEN 0 ELSE 10 * iter[s \ {Max(s)}] + (text[Max(s)] - Zero)]

LEMMA FoldExists ==
    ASSUME NEW text, NEW n \in Nat
    PROVE  \E iter : Folds(iter, text, 1 .. n)
<1> DEFINE Bad == {k \in 0 .. n : ~ \E iter : Folds(iter, text, 1 .. k)}
<1> SUFFICES ASSUME Bad # {} PROVE FALSE
  OBVIOUS
<1>1. PICK k \in Bad : \A j \in Bad : k <= j
  <2>1. Bad \in SUBSET Nat
    OBVIOUS
  <2> HIDE DEF Bad
  <2>2. QED
    BY <2>1, LeastNumber
<1>2. k # 0
  <2> SUFFICES ASSUME k = 0 PROVE FALSE
    OBVIOUS
  <2> DEFINE g == [s \in SUBSET (1 .. 0) |-> 0]
  <2>1. g = [s \in SUBSET (1 .. 0) |->
               IF s = {} THEN 0 ELSE 10 * g[s \ {Max(s)}] + (text[Max(s)] - Zero)]
    OBVIOUS
  <2>2. Folds(g, text, 1 .. 0)
    BY <2>1 DEF Folds
  <2>3. QED
    BY <1>1, <2>2
<1>3. PICK g : Folds(g, text, 1 .. k - 1)
  <2>1. k - 1 \in 0 .. n /\ k - 1 \notin Bad
    BY <1>1, <1>2
  <2>2. QED
    BY <2>1
<1> DEFINE h == [s \in SUBSET (1 .. k) |->
                   IF s = {} THEN 0 ELSE 10 * g[s \ {Max(s)}] + (text[Max(s)] - Zero)]
<1>4. ASSUME NEW s \in SUBSET (1 .. k), s # {}
      PROVE  s \ {Max(s)} \in SUBSET (1 .. k - 1)
  <2>1. k \in Nat
    OBVIOUS
  <2>2. Max(s) \in s /\ \A y \in s : Max(s) >= y
    BY <1>4, <2>1, MaxIsGreatest
  <2>3. ASSUME NEW y \in s \ {Max(s)} PROVE y \in 1 .. k - 1
    <3>1. y \in 1 .. k /\ Max(s) \in 1 .. k /\ Max(s) >= y /\ y # Max(s)
      BY <2>2, <2>3
    <3>2. QED
      BY <3>1, <2>1
  <2>4. QED
    BY <2>3
<1>5. \A s \in SUBSET (1 .. k - 1) : h[s] = g[s]
  <2> SUFFICES ASSUME NEW s \in SUBSET (1 .. k - 1) PROVE h[s] = g[s]
    OBVIOUS
  <2>1. g[s] = IF s = {} THEN 0 ELSE 10 * g[s \ {Max(s)}] + (text[Max(s)] - Zero)
    BY <1>3 DEF Folds
  <2>2. s \in SUBSET (1 .. k)
    OBVIOUS
  <2>3. QED
    BY <2>1, <2>2
<1>6. h = [s \in SUBSET (1 .. k) |->
             IF s = {} THEN 0 ELSE 10 * h[s \ {Max(s)}] + (text[Max(s)] - Zero)]
  <2>1. \A s \in SUBSET (1 .. k) : s # {} => h[s \ {Max(s)}] = g[s \ {Max(s)}]
    BY <1>4, <1>5
  <2>2. QED
    BY <2>1
<1>7. QED
  BY <1>1, <1>6 DEF Folds

LEMMA NumberTyped ==
    ASSUME NEW S, NEW text \in Seq(S), IsDigits(text)
    PROVE  NumberOf(text) \in Nat
<1> DEFINE n == Len(text)
<1>1. n \in Nat /\ DOMAIN text = 1 .. n
  OBVIOUS
<1>2. NumberOf(text) = (CHOOSE iter : Folds(iter, text, 1 .. n))[1 .. n]
  BY <1>1 DEF NumberOf, FoldLeft, MapThenFoldSet, Folds
<1>3. PICK iter : Folds(iter, text, 1 .. n) /\ NumberOf(text) = iter[1 .. n]
  <2>1. \E i : Folds(i, text, 1 .. n)
    BY <1>1, FoldExists
  <2>2. QED
    BY <2>1, <1>2
<1> DEFINE Bad == {k \in 0 .. n : \E s \in SUBSET (1 .. k) : iter[s] \notin Nat}
<1>4. Bad = {}
  <2> SUFFICES ASSUME Bad # {} PROVE FALSE
    OBVIOUS
  <2>1. PICK k \in Bad : \A j \in Bad : k <= j
    <3>1. Bad \in SUBSET Nat
      BY <1>1
    <3> HIDE DEF Bad
    <3>2. QED
      BY <3>1, LeastNumber
  <2>2. PICK s \in SUBSET (1 .. k) : iter[s] \notin Nat
    BY <2>1
  <2>3. k \in 0 .. n /\ s \in SUBSET (1 .. n)
    BY <1>1
  <2>4. iter[s] = IF s = {} THEN 0 ELSE 10 * iter[s \ {Max(s)}] + (text[Max(s)] - Zero)
    BY <1>3, <2>3 DEF Folds
  <2>5. s # {}
    BY <2>2, <2>4
  <2>6. Max(s) \in s /\ \A y \in s : Max(s) >= y
    BY <2>3, <2>5, <1>1, MaxIsGreatest
  <2>7. k # 0 /\ k - 1 \in 0 .. n /\ k - 1 \notin Bad
    <3>1. k # 0
      <4>1. 1 .. 0 = {}
        OBVIOUS
      <4>2. QED
        BY <4>1, <2>5
    <3>2. k \in 0 .. n /\ n \in Nat
      BY <1>1, <2>3
    <3>3. k - 1 \in 0 .. n /\ ~ (k <= k - 1)
      BY <3>1, <3>2
    <3>4. QED
      BY <2>1, <3>1, <3>3
  <2>8. s \ {Max(s)} \in SUBSET (1 .. k - 1)
    <3>1. ASSUME NEW y \in s \ {Max(s)} PROVE y \in 1 .. k - 1
      <4>1. y \in 1 .. k /\ Max(s) \in 1 .. k /\ Max(s) >= y /\ y # Max(s)
        BY <2>6, <3>1
      <4>2. QED
        BY <4>1, <2>3, <1>1
    <3>2. QED
      BY <3>1
  <2>9. iter[s \ {Max(s)}] \in Nat
    BY <2>7, <2>8
  <2>10. text[Max(s)] - Zero \in Nat
    <3>1. Max(s) \in DOMAIN text
      BY <2>3, <2>6, <1>1
    <3>2. QED
      BY <3>1 DEF IsDigits, IsDigit, Zero
  <2> HIDE DEF Bad
  <2>11. 10 * iter[s \ {Max(s)}] + (text[Max(s)] - Zero) \in Nat
    BY <2>9, <2>10
  <2>12. QED
    BY <2>2, <2>4, <2>5, <2>11
<1>5. n \notin Bad
  BY <1>4
<1>6. iter[1 .. n] \in Nat
  BY <1>1, <1>5
<1>7. QED
  BY <1>3, <1>6
-----------------------------------------------------------------------------
(* The framer: what is left of a buffer after each of its frames.          *)

LEMMA PartOfFront ==
    ASSUME NEW S, NEW b \in Seq(S), NEW to \in Nat, to <= Len(b)
    PROVE  /\ Part(b, 0, to) = SubSeq(b, 1, to)
           /\ Part(b, 0, to) \in Seq(S)
<1>1. {to, Len(b)} \in SUBSET Nat /\ {to, Len(b)} # {}
  OBVIOUS
<1>2. Min({to, Len(b)}) \in {to, Len(b)} /\ Min({to, Len(b)}) <= to
  BY <1>1, MinIsLeast
<1>3. Min({to, Len(b)}) = to
  <2>1. CASE Min({to, Len(b)}) = Len(b)
    BY <2>1, <1>2
  <2>2. QED
    BY <1>2, <2>1
<1>4. Part(b, 0, to) = SubSeq(b, 1, to)
  <2>1. Part(b, 0, to) = SubSeq(b, 0 + 1, Min({to, Len(b)}))
    BY DEF Part
  <2>2. 0 + 1 = 1
    OBVIOUS
  <2>3. QED
    BY <2>1, <2>2, <1>3
<1>5. \A i \in 1 .. to : b[i] \in S
  OBVIOUS
<1>6. SubSeq(b, 1, to) \in Seq(S)
  BY <1>5, SubSeqProperties
<1>7. QED
  BY <1>4, <1>6

LEMMA FrontStays ==
    ASSUME NEW S, NEW b \in Seq(S), NEW x \in Seq(S), NEW to \in Nat, to <= Len(b)
    PROVE  Part(b \o x, 0, to) = Part(b, 0, to)
<1>1. b \o x \in Seq(S) /\ Len(b \o x) = Len(b) + Len(x)
  OBVIOUS
<1>2. to <= Len(b \o x)
  BY <1>1
<1>3. Part(b \o x, 0, to) = SubSeq(b \o x, 1, to) /\ Part(b, 0, to) = SubSeq(b, 1, to)
  BY <1>1, <1>2, PartOfFront
<1>4. SubSeq(b \o x, 1, to) = SubSeq(b, 1, to)
  OBVIOUS
<1>5. QED
  BY <1>3, <1>4

LEMMA LengthIsNumber ==
    ASSUME NEW S, NEW b \in Seq(S), Len(b) >= 4, NamesALength(b)
    PROVE  LengthOf(b) \in Nat /\ LengthOf(b) >= 20
<1>1. LengthField(b) \in Seq(S)
  BY PartOfFront DEF LengthField
<1>2. QED
  BY <1>1, NumberTyped DEF NamesALength, LengthOf, HeaderLength

LEMMA LengthStays ==
    ASSUME NEW S, NEW b \in Seq(S), NEW x \in Seq(S), Len(b) >= 4
    PROVE  LengthField(b \o x) = LengthField(b) /\ LengthOf(b \o x) = LengthOf(b)
           /\ (NamesALength(b \o x) <=> NamesALength(b))
BY FrontStays DEF LengthField, LengthOf, NamesALength

HoldsFrame(b) == IsWhole(b) /\ ~IsMalformed(b)

LEMMA RestShrinks ==
    ASSUME NEW S, NEW b \in Seq(S)
    PROVE  /\ Rest(b) \in Seq(S)
           /\ Rest(b) # b => HoldsFrame(b)
           /\ HoldsFrame(b) => /\ Rest(b) = SubSeq(b, LengthOf(b) + 2, Len(b))
                               /\ LengthOf(b) \in Nat /\ LengthOf(b) >= 20 /\ LengthOf(b) < Len(b)
                               /\ Len(Rest(b)) + 21 <= Len(b)
                               /\ Rest(b) # b
<1>1. CASE ~HoldsFrame(b)
  BY <1>1 DEF HoldsFrame, Rest
<1>2. CASE HoldsFrame(b)
  <2>1. Len(b) >= 4 /\ NamesALength(b) /\ Len(b) > LengthOf(b)
    BY <1>2 DEF HoldsFrame, IsWhole
  <2>2. LengthOf(b) \in Nat /\ LengthOf(b) >= 20
    BY <2>1, LengthIsNumber
  <2>3. Rest(b) = SubSeq(b, LengthOf(b) + 2, Len(b))
    BY <1>2 DEF HoldsFrame, Rest, AfterFrame
  <2> DEFINE m == LengthOf(b) + 2
  <2>4. m \in Nat /\ m >= 22 /\ m <= Len(b) + 1
    BY <2>1, <2>2
  <2> HIDE DEF m
  <2>5. SubSeq(b, m, Len(b)) \in Seq(S) /\ Len(SubSeq(b, m, Len(b))) = Len(b) + 1 - m
    <3>1. \A i \in m .. Len(b) : b[i] \in S
      BY <2>4
    <3>2. SubSeq(b, m, Len(b)) \in Seq(S)
          /\ Len(SubSeq(b, m, Len(b))) = IF m <= Len(b) THEN Len(b) - m + 1 ELSE 0
      BY <3>1, <2>4, SubSeqProperties
    <3>3. QED
      BY <3>2, <2>4
  <2>6. Rest(b) \in Seq(S) /\ Len(Rest(b)) + 21 <= Len(b)
    BY <2>3, <2>4, <2>5 DEF m
  <2>7. Rest(b) # b
    <3>1. Len(b) \in Nat
      OBVIOUS
    <3>2. QED
      BY <2>6, <3>1
  <2>8. QED
    BY <1>2, <2>1, <2>2, <2>3, <2>6, <2>7
<1>3. QED
  BY <1>1, <1>2

\* What comes behind a frame does not change it.
LEMMA FrameStays ==
    ASSUME NEW S, NEW b \in Seq(S), NEW x \in Seq(S), HoldsFrame(b)
    PROVE  /\ HoldsFrame(b \o x)
           /\ Rest(b \o x) = Rest(b) \o x
           /\ Part(b \o x, 0, LengthOf(b \o x)) = Part(b, 0, LengthOf(b))
<1>1. Len(b) >= 4 /\ NamesALength(b)
  BY DEF HoldsFrame, IsWhole
<1>2. /\ LengthOf(b) \in Nat /\ LengthOf(b) >= 20 /\ LengthOf(b) < Len(b)
      /\ Rest(b) = SubSeq(b, LengthOf(b) + 2, Len(b))
  BY RestShrinks
<1>3. LengthOf(b \o x) = LengthOf(b) /\ NamesALength(b \o x)
  BY <1>1, LengthStays
<1>4. b \o x \in Seq(S) /\ Len(b \o x) = Len(b) + Len(x) /\ Len(x) \in Nat
  OBVIOUS
<1>5. (b \o x)[LengthOf(b) + 1] = b[LengthOf(b) + 1]
  <2>1. LengthOf(b) + 1 \in 1 .. Len(b)
    BY <1>2
  <2>2. QED
    BY <2>1
<1>6. b[LengthOf(b) + 1] = Terminator
  BY <1>1 DEF HoldsFrame, IsMalformed
<1>7. HoldsFrame(b \o x)
  BY <1>1, <1>2, <1>3, <1>4, <1>5, <1>6 DEF HoldsFrame, IsWhole, IsMalformed
<1>8. Rest(b \o x) = SubSeq(b \o x, LengthOf(b) + 2, Len(b) + Len(x))
  BY <1>7, <1>4, <1>3 DEF HoldsFrame, Rest, AfterFrame
<1> DEFINE m == LengthOf(b) + 2
<1>9. m \in Nat /\ m >= 1 /\ m <= Len(b) + 1
  BY <1>2
<1> HIDE DEF m
<1>10. SubSeq(b \o x, m, Len(b) + Len(x)) = SubSeq(b, m, Len(b)) \o x
  BY <1>9, <1>4, SMTT(30)
<1>11. Rest(b \o x) = Rest(b) \o x
  BY <1>2, <1>8, <1>10 DEF m
<1>12. Part(b \o x, 0, LengthOf(b)) = Part(b, 0, LengthOf(b))
  BY <1>2, FrontStays
<1>13. QED
  BY <1>3, <1>7, <1>11, <1>12

\* What no frame begins with stays so, and what is too short may wait.
LEMMA MalformedStays ==
    ASSUME NEW S, NEW b \in Seq(S), NEW x \in Seq(S), IsMalformed(b)
    PROVE  IsMalformed(b \o x)
<1>1. Len(b) >= 4 /\ Len(b \o x) >= 4
  BY DEF IsMalformed
<1>2. CASE ~NamesALength(b)
  BY <1>1, <1>2, LengthStays DEF IsMalformed
<1>3. CASE IsWhole(b) /\ b[LengthOf(b) + 1] # Terminator
  <2>1. LengthOf(b) \in Nat /\ LengthOf(b) < Len(b)
    BY <1>3, LengthIsNumber DEF IsWhole
  <2>2. (b \o x)[LengthOf(b) + 1] = b[LengthOf(b) + 1]
    <3>1. LengthOf(b) + 1 \in 1 .. Len(b)
      BY <2>1
    <3>2. QED
      BY <3>1
  <2>3. LengthOf(b \o x) = LengthOf(b) /\ NamesALength(b \o x)
    BY <1>1, <1>3, LengthStays DEF IsWhole
  <2>4. Len(b \o x) > LengthOf(b)
    BY <2>1
  <2>5. QED
    BY <1>1, <1>3, <2>2, <2>3, <2>4 DEF IsMalformed, IsWhole
<1>4. QED
  BY <1>2, <1>3 DEF IsMalformed
-----------------------------------------------------------------------------
(* takeFrames: what is left of a buffer, frame by frame, is one chain, and *)
(* the only one that cannot be continued.                                  *)

Chain(c, b) ==
    /\ c[1] = b
    /\ \A i \in 1 .. Len(c) - 1 : c[i + 1] = Rest(c[i]) /\ Rest(c[i]) # c[i]

Complete(c, b) == Chain(c, b) /\ Rest(c[Len(c)]) = c[Len(c)]

\* The recursion of takeFrames, up to its n-th step.
Taken(taken, b, n) ==
    taken = [k \in 0 .. n |-> IF k = 0 THEN <<b>> ELSE Further(taken[k - 1])]

LEMMA TakenExists ==
    ASSUME NEW b, NEW n \in Nat
    PROVE  \E taken : Taken(taken, b, n)
<1> DEFINE Bad == {k \in 0 .. n : ~ \E taken : Taken(taken, b, k)}
<1> SUFFICES ASSUME Bad # {} PROVE FALSE
  OBVIOUS
<1>1. PICK k \in Bad : \A j \in Bad : k <= j
  <2>1. Bad \in SUBSET Nat
    OBVIOUS
  <2> HIDE DEF Bad
  <2>2. QED
    BY <2>1, LeastNumber
<1>2. k # 0
  <2> SUFFICES ASSUME k = 0 PROVE FALSE
    OBVIOUS
  <2> DEFINE g == [j \in 0 .. 0 |-> <<b>>]
  <2>1. g = [j \in 0 .. 0 |-> IF j = 0 THEN <<b>> ELSE Further(g[j - 1])]
    OBVIOUS
  <2>2. Taken(g, b, 0)
    BY <2>1 DEF Taken
  <2>3. QED
    BY <1>1, <2>2
<1>3. PICK g : Taken(g, b, k - 1)
  <2>1. k - 1 \in 0 .. n /\ k - 1 \notin Bad
    BY <1>1, <1>2
  <2>2. QED
    BY <2>1
<1> DEFINE h == [j \in 0 .. k |-> IF j = 0 THEN <<b>> ELSE Further(g[j - 1])]
<1>4. \A j \in 0 .. k - 1 : h[j] = g[j]
  <2> SUFFICES ASSUME NEW j \in 0 .. k - 1 PROVE h[j] = g[j]
    OBVIOUS
  <2>1. g[j] = IF j = 0 THEN <<b>> ELSE Further(g[j - 1])
    BY <1>3 DEF Taken
  <2>2. j \in 0 .. k
    OBVIOUS
  <2>3. QED
    BY <2>1, <2>2
<1>5. h = [j \in 0 .. k |-> IF j = 0 THEN <<b>> ELSE Further(h[j - 1])]
  <2>1. \A j \in 0 .. k : j # 0 => h[j - 1] = g[j - 1]
    BY <1>4
  <2>2. QED
    BY <2>1
<1>6. QED
  BY <1>1, <1>5 DEF Taken

\* One more step keeps a chain a chain.
LEMMA FurtherKeepsChain ==
    ASSUME NEW S, NEW b \in Seq(S), NEW c \in Seq(Seq(S)), c # <<>>, Chain(c, b)
    PROVE  /\ Further(c) \in Seq(Seq(S)) /\ Further(c) # <<>>
           /\ Chain(Further(c), b)
           /\ \/ Len(Further(c)) = Len(c) + 1
              \/ Further(c) = c /\ Rest(c[Len(c)]) = c[Len(c)]
<1>1. Len(c) \in Nat /\ Len(c) >= 1 /\ c[Len(c)] \in Seq(S)
  OBVIOUS
<1>2. Last(c) = c[Len(c)]
  BY DEF Last
<1>3. CASE Rest(c[Len(c)]) = c[Len(c)]
  BY <1>2, <1>3 DEF Further
<1>4. CASE Rest(c[Len(c)]) # c[Len(c)]
  <2> DEFINE r == Rest(c[Len(c)])
             d == Append(c, r)
  <2>1. Further(c) = d
    BY <1>2, <1>4 DEF Further
  <2>2. r \in Seq(S)
    BY <1>1, RestShrinks
  <2> HIDE DEF r
  <2>3. /\ d \in Seq(Seq(S)) /\ d # <<>> /\ Len(d) = Len(c) + 1
        /\ \A i \in 1 .. Len(c) : d[i] = c[i]
        /\ d[Len(c) + 1] = r
    <3> DEFINE T == Seq(S)
    <3>1. c \in Seq(T) /\ r \in T
      BY <2>2
    <3> HIDE DEF T
    <3>2. /\ Append(c, r) \in Seq(T) /\ Append(c, r) # <<>> /\ Len(Append(c, r)) = Len(c) + 1
          /\ \A i \in 1 .. Len(c) : Append(c, r)[i] = c[i]
          /\ Append(c, r)[Len(c) + 1] = r
      BY <3>1, AppendProperties, SMTT(30)
    <3>3. QED
      BY <3>2 DEF T
  <2> HIDE DEF d
  <2>4. d[1] = b
    BY <1>1, <2>3 DEF Chain
  <2>5. ASSUME NEW i \in 1 .. Len(d) - 1
        PROVE  d[i + 1] = Rest(d[i]) /\ Rest(d[i]) # d[i]
    <3>1. i \in 1 .. Len(c) /\ d[i] = c[i]
      BY <2>3, <1>1
    <3>2. CASE i = Len(c)
      BY <1>4, <2>3, <3>1, <3>2 DEF r
    <3>3. CASE i # Len(c)
      <4>1. i \in 1 .. Len(c) - 1 /\ i + 1 \in 1 .. Len(c)
        BY <1>1, <3>1, <3>3
      <4>2. c[i + 1] = Rest(c[i]) /\ Rest(c[i]) # c[i]
        BY <4>1 DEF Chain
      <4>3. QED
        BY <2>3, <3>1, <4>1, <4>2
    <3>4. QED
      BY <3>2, <3>3
  <2>6. Chain(d, b)
    BY <2>4, <2>5 DEF Chain
  <2>7. QED
    BY <2>1, <2>3, <2>6
<1>5. QED
  BY <1>3, <1>4

\* A frame is at least 21 bytes long, which bounds a chain.
LEMMA ChainShrinks ==
    ASSUME NEW S, NEW b \in Seq(S), NEW c \in Seq(Seq(S)), Chain(c, b), NEW n \in 1 .. Len(c)
    PROVE  Len(c[n]) + 21 * (n - 1) <= Len(b)
<1> DEFINE Bad == {k \in 1 .. Len(c) : ~ (Len(c[k]) + 21 * (k - 1) <= Len(b))}
<1> SUFFICES ASSUME Bad # {} PROVE FALSE
  OBVIOUS
<1>1. PICK k \in Bad : \A j \in Bad : k <= j
  <2>1. Bad \in SUBSET Nat
    OBVIOUS
  <2> HIDE DEF Bad
  <2>2. QED
    BY <2>1, LeastNumber
<1>2. k \in 1 .. Len(c) /\ ~ (Len(c[k]) + 21 * (k - 1) <= Len(b))
  OBVIOUS
<1>3. Len(b) \in Nat /\ \A i \in 1 .. Len(c) : c[i] \in Seq(S) /\ Len(c[i]) \in Nat
  BY SMTT(30)
<1>4. k # 1
  <2> SUFFICES ASSUME k = 1 PROVE FALSE
    OBVIOUS
  <2>1. c[1] = b
    BY DEF Chain
  <2>2. Len(c[k]) + 21 * (k - 1) = Len(b)
    BY <2>1, <1>3
  <2>3. QED
    BY <1>2, <1>3, <2>2
<1>5. k - 1 \in 1 .. Len(c) /\ k - 1 \in 1 .. Len(c) - 1 /\ k - 1 \notin Bad
  <2>1. Len(c) \in Nat /\ k \in 1 .. Len(c)
    BY <1>2
  <2>2. k - 1 \in 1 .. Len(c) /\ k - 1 \in 1 .. Len(c) - 1 /\ ~ (k <= k - 1)
    BY <2>1, <1>4
  <2>3. QED
    BY <1>1, <2>2
<1>6. Len(c[k - 1]) + 21 * ((k - 1) - 1) <= Len(b)
  BY <1>5
<1> HIDE DEF Bad
<1>7. c[k] = Rest(c[k - 1]) /\ Rest(c[k - 1]) # c[k - 1]
  <2> DEFINE j == k - 1
  <2>1. j \in 1 .. Len(c) - 1 /\ j + 1 = k
    BY <1>5, <1>2
  <2> HIDE DEF j
  <2>2. c[j + 1] = Rest(c[j]) /\ Rest(c[j]) # c[j]
    BY <2>1 DEF Chain
  <2>3. QED
    BY <2>1, <2>2 DEF j
<1>8. Len(c[k]) + 21 <= Len(c[k - 1])
  BY <1>3, <1>5, <1>7, RestShrinks
<1>9. Len(c[k]) + 21 * (k - 1) <= Len(b)
  <2> DEFINE x == Len(c[k - 1])
             y == Len(c[k])
             z == Len(b)
  <2>1. x \in Nat /\ y \in Nat /\ k \in Nat /\ z \in Nat
    BY <1>2, <1>3, <1>5
  <2>2. x + 21 * ((k - 1) - 1) <= z /\ y + 21 <= x
    BY <1>6, <1>8
  <2> HIDE DEF x, y, z
  <2>3. y + 21 * (k - 1) <= z
    BY <2>1, <2>2
  <2>4. QED
    BY <2>3 DEF y, z
<1>10. QED
  BY <1>2, <1>9

LEMMA LeftoversComplete ==
    ASSUME NEW S, NEW b \in Seq(S)
    PROVE  /\ Leftovers(b) \in Seq(Seq(S)) /\ Leftovers(b) # <<>>
           /\ Complete(Leftovers(b), b)
<1> DEFINE most == Len(b) \div (HeaderLength + 1)
<1>1. most \in Nat /\ Len(b) < 21 * (most + 1) /\ Len(b) \in Nat
  BY DEF HeaderLength
<1>2. Leftovers(b) = (CHOOSE taken : Taken(taken, b, most))[most]
  BY DEF Leftovers, Taken
<1> HIDE DEF most
<1>3. PICK taken : Taken(taken, b, most) /\ Leftovers(b) = taken[most]
  <2>1. \E t : Taken(t, b, most)
    BY <1>1, TakenExists
  <2>2. QED
    BY <2>1, <1>2
<1> DEFINE Good(c, n) ==
             /\ c \in Seq(Seq(S)) /\ c # <<>> /\ Chain(c, b)
             /\ Len(c) = n + 1 \/ Rest(c[Len(c)]) = c[Len(c)]
           Bad == {n \in 0 .. most : ~Good(taken[n], n)}
<1>4. Bad = {}
  <2> SUFFICES ASSUME Bad # {} PROVE FALSE
    OBVIOUS
  <2>1. PICK n \in Bad : \A j \in Bad : n <= j
    <3>1. Bad \in SUBSET Nat
      BY <1>1
    <3> HIDE DEF Bad
    <3>2. QED
      BY <3>1, LeastNumber
  <2>2. n \in 0 .. most /\ ~Good(taken[n], n)
    OBVIOUS
  <2>3. taken[n] = IF n = 0 THEN <<b>> ELSE Further(taken[n - 1])
    BY <1>3, <2>2 DEF Taken
  <2>4. n # 0
    <3> SUFFICES ASSUME n = 0 PROVE FALSE
      OBVIOUS
    <3>1. taken[n] = <<b>>
      BY <2>3
    <3>2. <<b>> \in Seq(Seq(S)) /\ <<b>> # <<>> /\ Len(<<b>>) = 1 /\ <<b>>[1] = b
      OBVIOUS
    <3>3. Chain(<<b>>, b)
      BY <3>2 DEF Chain
    <3>4. QED
      BY <2>2, <3>1, <3>2, <3>3
  <2>5. n - 1 \in 0 .. most /\ n - 1 \notin Bad
    BY <2>1, <2>2, <2>4, <1>1
  <2>6. Good(taken[n - 1], n - 1)
    BY <2>5
  <2> DEFINE c == taken[n - 1]
  <2>7. /\ c \in Seq(Seq(S)) /\ c # <<>> /\ Chain(c, b)
        /\ Len(c) = n \/ Rest(c[Len(c)]) = c[Len(c)]
    BY <2>6, <2>2, <1>1
  <2> HIDE DEF Bad
  <2>8. taken[n] = Further(c)
    BY <2>3, <2>4
  <2> HIDE DEF c
  <2>9. Good(Further(c), n)
    <3>1. /\ Further(c) \in Seq(Seq(S)) /\ Further(c) # <<>>
          /\ Chain(Further(c), b)
          /\ \/ Len(Further(c)) = Len(c) + 1
             \/ Further(c) = c /\ Rest(c[Len(c)]) = c[Len(c)]
      BY <2>7, FurtherKeepsChain
    <3>2. Len(Further(c)) = n + 1 \/ Rest(Further(c)[Len(Further(c))]) = Further(c)[Len(Further(c))]
      <4>1. CASE Rest(c[Len(c)]) = c[Len(c)]
        <5>1. Further(c) = c
          BY <4>1 DEF Further, Last
        <5>2. QED
          BY <4>1, <5>1
      <4>2. CASE Len(c) = n /\ Rest(c[Len(c)]) # c[Len(c)]
        BY <3>1, <4>2
      <4>3. QED
        BY <2>7, <4>1, <4>2
    <3>3. QED
      BY <3>1, <3>2
  <2>10. QED
    BY <2>2, <2>8, <2>9
<1>5. Good(taken[most], most)
  <2>1. most \in 0 .. most /\ most \notin Bad
    BY <1>1, <1>4
  <2>2. QED
    BY <2>1
<1> DEFINE c == Leftovers(b)
<1>6. /\ c \in Seq(Seq(S)) /\ c # <<>> /\ Chain(c, b)
      /\ Len(c) = most + 1 \/ Rest(c[Len(c)]) = c[Len(c)]
  BY <1>3, <1>5
<1> HIDE DEF c
<1>7. Rest(c[Len(c)]) = c[Len(c)]
  <2> SUFFICES ASSUME Len(c) = most + 1, Rest(c[Len(c)]) # c[Len(c)] PROVE FALSE
    BY <1>6
  <2>1. Len(c) \in 1 .. Len(c) /\ c[Len(c)] \in Seq(S)
    BY <1>6
  <2>2. Len(c[Len(c)]) + 21 * (Len(c) - 1) <= Len(b)
    BY <2>1, <1>6, ChainShrinks
  <2>3. Len(Rest(c[Len(c)])) + 21 <= Len(c[Len(c)]) /\ Rest(c[Len(c)]) \in Seq(S)
    BY <2>1, RestShrinks
  <2>4. Len(Rest(c[Len(c)])) \in Nat /\ Len(c[Len(c)]) \in Nat
    BY <2>1, <2>3
  <2>5. Len(c[Len(c)]) + 21 * most <= Len(b)
    <3>1. Len(c) - 1 = most
      BY <1>1
    <3>2. QED
      BY <2>2, <3>1
  <2>6. Len(c[Len(c)]) >= 21
    BY <2>3, <2>4
  <2> DEFINE x == Len(c[Len(c)])
             z == Len(b)
  <2>7. x \in Nat /\ x >= 21 /\ x + 21 * most <= z /\ z < 21 * (most + 1) /\ z \in Nat /\ most \in Nat
    BY <1>1, <2>4, <2>5, <2>6
  <2> HIDE DEF x, z
  <2>8. QED
    BY <2>7
<1>8. QED
  BY <1>6, <1>7 DEF c, Complete

LEMMA CompleteIsUnique ==
    ASSUME NEW S, NEW b, NEW c \in Seq(Seq(S)), NEW d \in Seq(Seq(S)), c # <<>>, d # <<>>,
           Complete(c, b), Complete(d, b)
    PROVE  c = d
<1>1. Len(c) \in Nat /\ Len(c) >= 1 /\ Len(d) \in Nat /\ Len(d) >= 1
  OBVIOUS
<1> DEFINE Bad == {k \in 1 .. Len(c) : k <= Len(d) /\ c[k] # d[k]}
<1>2. Bad = {}
  <2> SUFFICES ASSUME Bad # {} PROVE FALSE
    OBVIOUS
  <2>1. PICK k \in Bad : \A j \in Bad : k <= j
    <3>1. Bad \in SUBSET Nat
      OBVIOUS
    <3> HIDE DEF Bad
    <3>2. QED
      BY <3>1, LeastNumber
  <2>2. k \in 1 .. Len(c) /\ k <= Len(d) /\ c[k] # d[k]
    OBVIOUS
  <2>3. k # 1
    BY <2>2 DEF Complete, Chain
  <2> DEFINE j == k - 1
  <2>4. j \in 1 .. Len(c) /\ j \in 1 .. Len(c) - 1 /\ j \in 1 .. Len(d) - 1 /\ j + 1 = k /\ j <= Len(d)
        /\ ~ (k <= j)
    BY <2>2, <2>3, <1>1
  <2> HIDE DEF j
  <2>5. c[j] = d[j]
    BY <2>1, <2>4
  <2>6. c[j + 1] = Rest(c[j]) /\ d[j + 1] = Rest(d[j])
    BY <2>4 DEF Complete, Chain
  <2>7. QED
    BY <2>2, <2>4, <2>5, <2>6
<1>3. \A k \in 1 .. Len(c) : k <= Len(d) => c[k] = d[k]
  BY <1>2
<1>4. ~ (Len(c) < Len(d))
  <2> SUFFICES ASSUME Len(c) < Len(d) PROVE FALSE
    OBVIOUS
  <2>1. Len(c) \in 1 .. Len(d) - 1 /\ Len(c) \in 1 .. Len(c)
    BY <1>1
  <2>2. Rest(d[Len(c)]) # d[Len(c)]
    BY <2>1 DEF Complete, Chain
  <2>3. c[Len(c)] = d[Len(c)]
    <3>1. Len(c) \in 1 .. Len(c) /\ Len(c) <= Len(d)
      BY <2>1, <1>1
    <3>2. \A k \in 1 .. Len(c) : k <= Len(d) => c[k] = d[k]
      BY <1>3
    <3>3. QED
      BY <3>1, <3>2
  <2>4. QED
    BY <2>2, <2>3 DEF Complete
<1>5. ~ (Len(d) < Len(c))
  <2> SUFFICES ASSUME Len(d) < Len(c) PROVE FALSE
    OBVIOUS
  <2>1. Len(d) \in 1 .. Len(c) - 1 /\ Len(d) \in 1 .. Len(c) /\ Len(d) <= Len(d)
    BY <1>1
  <2>2. Rest(c[Len(d)]) # c[Len(d)]
    BY <2>1 DEF Complete, Chain
  <2>3. c[Len(d)] = d[Len(d)]
    <3>1. \A k \in 1 .. Len(c) : k <= Len(d) => c[k] = d[k]
      BY <1>3
    <3>2. QED
      BY <2>1, <3>1
  <2>4. QED
    BY <2>2, <2>3 DEF Complete
<1>6. Len(c) = Len(d)
  BY <1>1, <1>4, <1>5
<1>7. \A k \in 1 .. Len(c) : c[k] = d[k]
  BY <1>1, <1>3, <1>6
<1>8. QED
  BY <1>6, <1>7, SeqEqual
\* What a step of the framer makes of a buffer.
LEMMA TakeFramesTyped ==
    ASSUME NEW S, NEW b \in Seq(S)
    PROVE  /\ TakeFrames(b).buffer \in Seq(S)
           /\ TakeFrames(b).frames \in Seq(Seq(S))
           /\ Len(TakeFrames(b).frames) = Len(Leftovers(b)) - 1
           /\ \A n \in 1 .. Len(Leftovers(b)) - 1 :
                 TakeFrames(b).frames[n] = Part(Leftovers(b)[n], 0, LengthOf(Leftovers(b)[n]))
           /\ TakeFrames(b).buffer = Leftovers(b)[Len(Leftovers(b))]
           /\ TakeFrames(b).error = IsMalformed(Leftovers(b)[Len(Leftovers(b))])
<1> DEFINE c == Leftovers(b)
           F == TakeFrames(b)
<1>1. c \in Seq(Seq(S)) /\ c # <<>> /\ Complete(c, b)
  BY LeftoversComplete
<1>2. F = [error |-> IsMalformed(Last(c)), buffer |-> Last(c),
           frames |-> [n \in 1 .. Len(c) - 1 |-> Part(c[n], 0, LengthOf(c[n]))]]
  BY DEF TakeFrames, Framed
<1> HIDE DEF c, F
<1>3. Len(c) \in Nat /\ Len(c) >= 1 /\ Last(c) = c[Len(c)] /\ c[Len(c)] \in Seq(S)
  BY <1>1 DEF Last
<1>4. \A n \in 1 .. Len(c) - 1 : Part(c[n], 0, LengthOf(c[n])) \in Seq(S)
  <2> SUFFICES ASSUME NEW n \in 1 .. Len(c) - 1 PROVE Part(c[n], 0, LengthOf(c[n])) \in Seq(S)
    OBVIOUS
  <2>1. c[n] \in Seq(S) /\ Rest(c[n]) # c[n]
    BY <1>1, <1>3 DEF Complete, Chain
  <2>2. LengthOf(c[n]) \in Nat /\ LengthOf(c[n]) <= Len(c[n])
    BY <2>1, RestShrinks
  <2>3. QED
    BY <2>1, <2>2, PartOfFront
<1> DEFINE N == Len(c) - 1
           G == [n \in 1 .. N |-> Part(c[n], 0, LengthOf(c[n]))]
<1>5. N \in Nat
  BY <1>3
<1>6. G \in Seq(Seq(S)) /\ Len(G) = N
  <2>1. \A n \in 1 .. N : Part(c[n], 0, LengthOf(c[n])) \in Seq(S)
    BY <1>4
  <2> HIDE DEF N
  <2>2. QED
    BY <2>1, <1>5
<1>7. F.frames = G /\ F.buffer = c[Len(c)] /\ F.error = IsMalformed(c[Len(c)])
  BY <1>2, <1>3
<1>8. \A n \in 1 .. N : F.frames[n] = Part(c[n], 0, LengthOf(c[n]))
  BY <1>7
<1>9. QED
  BY <1>3, <1>6, <1>7, <1>8 DEF c, F

\* The leftovers of a longer buffer: those of the front with the rest behind
\* each, then those of what the front left, with the rest behind it.
LEMMA LeftoversOfConcat ==
    ASSUME NEW S, NEW a \in Seq(S), NEW x \in Seq(S)
    PROVE  LET c == Leftovers(a)
               e == Leftovers(c[Len(c)] \o x)
           IN  Leftovers(a \o x) =
                 [i \in 1 .. Len(c) - 1 + Len(e) |->
                    IF i < Len(c) THEN c[i] \o x ELSE e[i - Len(c) + 1]]
<1> DEFINE c == Leftovers(a)
           e == Leftovers(c[Len(c)] \o x)
<1>1. c \in Seq(Seq(S)) /\ c # <<>> /\ Complete(c, a)
  BY LeftoversComplete
<1>2. Len(c) \in Nat /\ Len(c) >= 1 /\ \A i \in 1 .. Len(c) : c[i] \in Seq(S)
  BY <1>1
<1>3. c[Len(c)] \in Seq(S) /\ c[Len(c)] \o x \in Seq(S)
  BY <1>2
<1>4. e \in Seq(Seq(S)) /\ e # <<>> /\ Complete(e, c[Len(c)] \o x)
  BY <1>3, LeftoversComplete
<1>5. Len(e) \in Nat /\ Len(e) >= 1 /\ \A i \in 1 .. Len(e) : e[i] \in Seq(S)
  BY <1>4
<1> HIDE DEF c, e
<1> DEFINE D(i) == IF i < Len(c) THEN c[i] \o x ELSE e[i - Len(c) + 1]
           N == Len(c) - 1 + Len(e)
           d == [i \in 1 .. N |-> D(i)]
<1>6. N \in Nat /\ N >= 1 /\ N >= Len(c)
  BY <1>2, <1>5
<1>7. \A i \in 1 .. N : D(i) \in Seq(S)
  <2> SUFFICES ASSUME NEW i \in 1 .. N PROVE D(i) \in Seq(S)
    OBVIOUS
  <2>1. CASE i < Len(c)
    <3>1. i \in 1 .. Len(c)
      BY <2>1, <1>2
    <3>2. c[i] \o x \in Seq(S)
      BY <3>1, <1>2
    <3>3. QED
      BY <2>1, <3>2
  <2>2. CASE ~ (i < Len(c))
    <3>1. i - Len(c) + 1 \in 1 .. Len(e)
      BY <2>2, <1>2, <1>5, <1>6
    <3>2. QED
      BY <2>2, <3>1, <1>5
  <2>3. QED
    BY <2>1, <2>2
<1>8. d \in Seq(Seq(S)) /\ Len(d) = N /\ d # <<>> /\ \A i \in 1 .. N : d[i] = D(i)
  <2> DEFINE T == Seq(S)
  <2>1. \A i \in 1 .. N : d[i] = D(i)
    OBVIOUS
  <2>2. \A i \in 1 .. N : d[i] \in T
    BY <1>7, <2>1
  <2>3. d = [i \in 1 .. N |-> d[i]]
    OBVIOUS
  <2> HIDE DEF N, D, d, T
  <2>4. d \in Seq(T) /\ Len(d) = N
    <3>1. d \in [1 .. N -> T]
      BY <2>2, <2>3
    <3>2. QED
      BY <3>1, <1>6
  <2>5. d # <<>>
    BY <2>4, <1>6
  <2>6. QED
    BY <2>1, <2>4, <2>5 DEF T
<1>9. \A i \in 1 .. Len(c) - 1 : d[i] = c[i] \o x
  <2> SUFFICES ASSUME NEW i \in 1 .. Len(c) - 1 PROVE d[i] = c[i] \o x
    OBVIOUS
  <2>1. i \in 1 .. N /\ i < Len(c)
    BY <1>2, <1>6
  <2> HIDE DEF N, d
  <2>2. QED
    BY <2>1, <1>8
<1>10. \A i \in 1 .. Len(e) : Len(c) - 1 + i \in 1 .. N /\ d[Len(c) - 1 + i] = e[i]
  <2> SUFFICES ASSUME NEW i \in 1 .. Len(e)
               PROVE  Len(c) - 1 + i \in 1 .. N /\ d[Len(c) - 1 + i] = e[i]
    OBVIOUS
  <2>1. /\ Len(c) - 1 + i \in 1 .. N /\ ~ (Len(c) - 1 + i < Len(c))
        /\ (Len(c) - 1 + i) - Len(c) + 1 = i
    BY <1>2, <1>5
  <2> HIDE DEF N, d
  <2>2. QED
    BY <2>1, <1>8
<1>11. e[1] = c[Len(c)] \o x
  BY <1>4 DEF Complete, Chain
<1>12. d[Len(c)] = c[Len(c)] \o x
  <2>1. 1 \in 1 .. Len(e) /\ Len(c) - 1 + 1 = Len(c)
    BY <1>2, <1>5
  <2> HIDE DEF N, d
  <2>2. QED
    BY <2>1, <1>10, <1>11
<1> HIDE DEF N, D, d
<1>13. d[1] = a \o x
  <2>1. c[1] = a
    BY <1>1 DEF Complete, Chain
  <2>2. CASE Len(c) = 1
    BY <2>1, <2>2, <1>12
  <2>3. CASE Len(c) # 1
    <3>1. Len(c) \in Nat /\ Len(c) >= 1
      BY <1>2
    <3>2. 1 \in 1 .. Len(c) - 1
      <4> DEFINE l == Len(c)
      <4>1. l \in Nat /\ l >= 1 /\ l # 1
        BY <2>3, <3>1
      <4> HIDE DEF l
      <4>2. 1 \in 1 .. l - 1
        BY <4>1
      <4>3. QED
        BY <4>2 DEF l
    <3>3. QED
      BY <2>1, <3>2, <1>9
  <2>4. QED
    BY <2>2, <2>3
<1>14. \A i \in 1 .. Len(c) : d[i] = c[i] \o x
  <2> SUFFICES ASSUME NEW i \in 1 .. Len(c) PROVE d[i] = c[i] \o x
    OBVIOUS
  <2>1. CASE i = Len(c)
    BY <2>1, <1>12
  <2>2. CASE i # Len(c)
    <3>1. i \in 1 .. Len(c) - 1
      BY <2>2, <1>2
    <3>2. QED
      BY <3>1, <1>9
  <2>3. QED
    BY <2>1, <2>2
<1>15. ASSUME NEW i \in 1 .. N - 1
       PROVE  d[i + 1] = Rest(d[i]) /\ Rest(d[i]) # d[i]
  <2>1. CASE i < Len(c)
    <3>1. i \in 1 .. Len(c) - 1 /\ i \in 1 .. Len(c) /\ i + 1 \in 1 .. Len(c)
      BY <2>1, <1>2
    <3>2. c[i + 1] = Rest(c[i]) /\ Rest(c[i]) # c[i] /\ c[i] \in Seq(S)
      BY <3>1, <1>1, <1>2 DEF Complete, Chain
    <3>3. HoldsFrame(c[i])
      BY <3>2, RestShrinks
    <3>4. Rest(c[i] \o x) = Rest(c[i]) \o x /\ HoldsFrame(c[i] \o x)
      BY <3>2, <3>3, FrameStays
    <3>5. c[i] \o x \in Seq(S)
      BY <3>2
    <3>6. Rest(c[i] \o x) # c[i] \o x
      BY <3>4, <3>5, RestShrinks
    <3>7. d[i] = c[i] \o x /\ d[i + 1] = c[i + 1] \o x
      BY <3>1, <1>14
    <3>8. QED
      BY <3>2, <3>4, <3>6, <3>7
  <2>2. CASE ~ (i < Len(c))
    <3> DEFINE j == i - Len(c) + 1
    <3>1. j \in 1 .. Len(e) - 1 /\ j \in 1 .. Len(e) /\ j + 1 \in 1 .. Len(e)
          /\ Len(c) - 1 + j = i /\ Len(c) - 1 + (j + 1) = i + 1
      BY <2>2, <1>2, <1>5, <1>6 DEF N
    <3> HIDE DEF j
    <3>2. e[j + 1] = Rest(e[j]) /\ Rest(e[j]) # e[j]
      BY <3>1, <1>4 DEF Complete, Chain
    <3>3. d[Len(c) - 1 + j] = e[j] /\ d[Len(c) - 1 + (j + 1)] = e[j + 1]
      BY <3>1, <1>10
    <3>4. QED
      BY <3>1, <3>2, <3>3
  <2>3. QED
    BY <2>1, <2>2
<1>16. Rest(d[N]) = d[N]
  <2>1. Len(e) \in 1 .. Len(e) /\ Len(c) - 1 + Len(e) = N
    BY <1>5 DEF N
  <2>2. d[Len(c) - 1 + Len(e)] = e[Len(e)]
    BY <2>1, <1>10
  <2>3. QED
    BY <2>1, <2>2, <1>4 DEF Complete
<1>17. Complete(d, a \o x)
  <2>1. Chain(d, a \o x)
    BY <1>13, <1>15, <1>8 DEF Chain
  <2>2. QED
    BY <2>1, <1>16, <1>8 DEF Complete
<1>18. a \o x \in Seq(S)
  OBVIOUS
<1>19. /\ Leftovers(a \o x) \in Seq(Seq(S)) /\ Leftovers(a \o x) # <<>>
       /\ Complete(Leftovers(a \o x), a \o x)
  BY <1>18, LeftoversComplete
<1>20. Leftovers(a \o x) = d
  BY <1>8, <1>17, <1>19, CompleteIsUnique
<1>21. QED
  BY <1>20 DEF d, D, N, c, e

\* Frames do not depend on where the stream is cut (takeFrames, step,
\* Framer.ts:3-9): to frame a stream is to frame the first part of it, and
\* then what that left with the second part behind it.
THEOREM FramesIgnoreCuts ==
    ASSUME NEW S, NEW a \in Seq(S), NEW x \in Seq(S)
    PROVE  LET first == TakeFrames(a)
               second == Step(first.buffer, x)
               whole == TakeFrames(a \o x)
           IN  /\ whole.frames = first.frames \o second.frames
               /\ whole.buffer = second.buffer
               /\ whole.error = second.error
               /\ first.error => second.error
<1> DEFINE c == Leftovers(a)
           r == c[Len(c)]
           e == Leftovers(r \o x)
           d == Leftovers(a \o x)
           N == Len(c) - 1 + Len(e)
<1>1. d = [i \in 1 .. N |-> IF i < Len(c) THEN c[i] \o x ELSE e[i - Len(c) + 1]]
  BY LeftoversOfConcat
<1>2. c \in Seq(Seq(S)) /\ c # <<>> /\ Complete(c, a)
  BY LeftoversComplete
<1>3. r \in Seq(S) /\ r \o x \in Seq(S) /\ a \o x \in Seq(S)
  BY <1>2
<1>4. e \in Seq(Seq(S)) /\ e # <<>>
  BY <1>3, LeftoversComplete
<1>5. d \in Seq(Seq(S)) /\ d # <<>>
  BY <1>3, LeftoversComplete
<1> DEFINE first == TakeFrames(a)
           second == TakeFrames(r \o x)
           whole == TakeFrames(a \o x)
<1>6. /\ first.frames \in Seq(Seq(S)) /\ Len(first.frames) = Len(c) - 1
      /\ \A n \in 1 .. Len(c) - 1 : first.frames[n] = Part(c[n], 0, LengthOf(c[n]))
      /\ first.buffer = r
      /\ first.error = IsMalformed(r)
  BY TakeFramesTyped
<1>7. /\ second.frames \in Seq(Seq(S)) /\ Len(second.frames) = Len(e) - 1
      /\ \A n \in 1 .. Len(e) - 1 : second.frames[n] = Part(e[n], 0, LengthOf(e[n]))
      /\ second.buffer = e[Len(e)]
      /\ second.error = IsMalformed(e[Len(e)])
  BY <1>3, TakeFramesTyped
<1>8. /\ whole.frames \in Seq(Seq(S)) /\ Len(whole.frames) = Len(d) - 1
      /\ \A n \in 1 .. Len(d) - 1 : whole.frames[n] = Part(d[n], 0, LengthOf(d[n]))
      /\ whole.buffer = d[Len(d)]
      /\ whole.error = IsMalformed(d[Len(d)])
  BY <1>3, TakeFramesTyped
<1>9. Step(first.buffer, x) = second
  BY <1>6 DEF Step
<1>10. IsMalformed(r) => second.error
  <2> SUFFICES ASSUME IsMalformed(r) PROVE second.error
    OBVIOUS
  <2>1. IsMalformed(r \o x)
    BY <1>3, MalformedStays
  <2>2. Rest(r \o x) = r \o x
    BY <2>1 DEF Rest
  <2>3. Complete(e, r \o x)
    BY <1>3, LeftoversComplete
  <2> HIDE DEF e, second
  <2>4. Len(e) \in Nat /\ Len(e) >= 1
    BY <1>4
  <2>5. Len(e) = 1
    <3> SUFFICES ASSUME Len(e) # 1 PROVE FALSE
      OBVIOUS
    <3>1. 1 \in 1 .. Len(e) - 1
      <4> DEFINE l == Len(e)
      <4>1. l \in Nat /\ l >= 1 /\ l # 1
        BY <2>4
      <4> HIDE DEF l
      <4>2. 1 \in 1 .. l - 1
        BY <4>1
      <4>3. QED
        BY <4>2 DEF l
    <3>2. e[1] = r \o x /\ Rest(e[1]) # e[1]
      BY <3>1, <2>3 DEF Complete, Chain
    <3>3. QED
      BY <2>2, <3>2
  <2>6. e[Len(e)] = r \o x
    BY <2>3, <2>5 DEF Complete, Chain
  <2>7. QED
    BY <1>7, <2>1, <2>6
<1> HIDE DEF first, second, whole, c, e, d
<1>11. Len(c) \in Nat /\ Len(c) >= 1 /\ Len(e) \in Nat /\ Len(e) >= 1 /\ N \in Nat /\ N >= 1 /\ N >= Len(c)
  BY <1>2, <1>4
<1>12. Len(d) = N
  BY <1>1, <1>11
<1>13. d[N] = e[Len(e)]
  <2>1. N \in 1 .. N /\ ~ (N < Len(c)) /\ N - Len(c) + 1 = Len(e)
    BY <1>11
  <2>2. QED
    BY <1>1, <2>1
<1> DEFINE T == Seq(S)
           f == first.frames \o second.frames
<1>14. first.frames \in Seq(T) /\ second.frames \in Seq(T)
  BY <1>6, <1>7
<1> HIDE DEF T
<1>15. /\ f \in Seq(T)
       /\ Len(f) = Len(first.frames) + Len(second.frames)
       /\ \A i \in 1 .. Len(first.frames) + Len(second.frames) :
             f[i] = IF i <= Len(first.frames) THEN first.frames[i]
                    ELSE second.frames[i - Len(first.frames)]
  BY <1>14, ConcatProperties
<1> HIDE DEF f
<1>16. Len(f) = N - 1
  BY <1>6, <1>7, <1>11, <1>15
<1>17. ASSUME NEW n \in 1 .. N - 1
       PROVE  whole.frames[n] = f[n]
  <2>1. whole.frames[n] = Part(d[n], 0, LengthOf(d[n]))
    BY <1>8, <1>12
  <2>2. CASE n < Len(c)
    <3>1. n \in 1 .. N /\ n \in 1 .. Len(c) /\ n \in 1 .. Len(c) - 1
      BY <2>2, <1>11
    <3>2. d[n] = c[n] \o x
      BY <1>1, <2>2, <3>1
    <3>3. c[n] \in Seq(S) /\ Rest(c[n]) # c[n]
      BY <1>2, <3>1 DEF Complete, Chain
    <3>4. Part(c[n] \o x, 0, LengthOf(c[n] \o x)) = Part(c[n], 0, LengthOf(c[n]))
      BY <3>3, RestShrinks, FrameStays
    <3>5. f[n] = first.frames[n]
      <4>1. n \in 1 .. Len(first.frames) + Len(second.frames) /\ n <= Len(first.frames)
        BY <1>6, <1>7, <1>11, <3>1
      <4>2. QED
        BY <4>1, <1>15
    <3>6. QED
      BY <1>6, <2>1, <3>1, <3>2, <3>4, <3>5
  <2>3. CASE ~ (n < Len(c))
    <3> DEFINE m == n - Len(c) + 1
    <3>1. n \in 1 .. N /\ m \in 1 .. Len(e) - 1 /\ n = Len(c) - 1 + m
      BY <2>3, <1>11
    <3>2. d[n] = e[m]
      BY <1>1, <2>3, <3>1
    <3> HIDE DEF m
    <3>3. f[n] = second.frames[m]
      <4>1. /\ n \in 1 .. Len(first.frames) + Len(second.frames)
            /\ ~ (n <= Len(first.frames)) /\ n - Len(first.frames) = m
        BY <1>6, <1>7, <1>11, <3>1
      <4>2. QED
        BY <4>1, <1>15
    <3>4. QED
      BY <1>7, <2>1, <3>1, <3>2, <3>3
  <2>4. QED
    BY <2>2, <2>3
<1>18. whole.frames = f
  <2>1. Len(whole.frames) = N - 1
    BY <1>8, <1>12
  <2>2. whole.frames \in Seq(T)
    BY <1>8 DEF T
  <2> HIDE DEF N
  <2>3. QED
    BY <1>17, <1>15, <1>16, <2>1, <2>2, SeqEqual
<1>19. QED
  BY <1>6, <1>7, <1>8, <1>9, <1>10, <1>12, <1>13, <1>18 DEF first, second, whole, f

-----------------------------------------------------------------------------
(* The messages: which MIDs have a definition, and what replies to them.   *)

LEMMA Definitions ==
    /\ "UnknownMessage" \notin DOMAIN ByTag
    /\ {"CommunicationStop", "AcknowledgeResult", "CommandAccepted", "CommandError"} \subseteq DOMAIN ByTag
    /\ \A tag \in DOMAIN ByTag : ByTag[tag].reply # "CommandError"
    /\ ByTag["CommunicationStop"].layout = <<>>
    /\ ByTag["AcknowledgeResult"].layout = <<>>
<1> DEFINE All == Beside(Beside(SessionMids, ResultMids), KeepAliveMids)
<1>1. DOMAIN All = DOMAIN SessionMids \cup DOMAIN ResultMids \cup DOMAIN KeepAliveMids
  BY DEF Beside
<1>2. /\ DOMAIN SessionMids = {"CommunicationStart", "CommunicationStartAccepted",
                               "CommunicationStop", "CommandError", "CommandAccepted"}
      /\ DOMAIN ResultMids = {"SubscribeResults", "LastResult", "AcknowledgeResult",
                              "UnsubscribeResults", "RequestOldResult", "OldResult"}
      /\ DOMAIN KeepAliveMids = {"KeepAlive"}
  BY DEF SessionMids, ResultMids, KeepAliveMids
<1>3. /\ \A tag \in DOMAIN SessionMids : All[tag] = SessionMids[tag]
      /\ \A tag \in DOMAIN ResultMids : All[tag] = ResultMids[tag]
      /\ \A tag \in DOMAIN KeepAliveMids : All[tag] = KeepAliveMids[tag]
  BY <1>2 DEF Beside
<1>4. /\ DOMAIN ByTag = DOMAIN All
      /\ \A tag \in DOMAIN All : ByTag[tag] = [All[tag] EXCEPT !.layout = Layout(All[tag].layout)]
  BY DEF ByTag, Placed
<1> HIDE DEF All
<1> DEFINE Replies == {"none", "CommunicationStartAccepted", "CommandAccepted", "OldResult", "KeepAlive"}
           Defined(d) == d \in [mid : Nat, layout : {d.layout}, reply : Replies]
<1>5. /\ \A tag \in DOMAIN SessionMids : Defined(SessionMids[tag])
      /\ \A tag \in DOMAIN ResultMids : Defined(ResultMids[tag])
      /\ \A tag \in DOMAIN KeepAliveMids : Defined(KeepAliveMids[tag])
  BY <1>2 DEF SessionMids, ResultMids, KeepAliveMids, Define, Request
<1>6. \A tag \in DOMAIN All : Defined(All[tag])
  BY <1>1, <1>3, <1>5
<1>7. ASSUME NEW tag \in DOMAIN All
      PROVE  /\ ByTag[tag].reply = All[tag].reply /\ All[tag].reply \in Replies
             /\ ByTag[tag].layout = Layout(All[tag].layout)
  <2> DEFINE d == All[tag]
  <2>1. d \in [mid : Nat, layout : {d.layout}, reply : Replies]
    BY <1>6
  <2>2. ByTag[tag] = [d EXCEPT !.layout = Layout(d.layout)]
    BY <1>4
  <2> HIDE DEF d
  <2>3. /\ ByTag[tag].reply = d.reply /\ d.reply \in Replies
        /\ ByTag[tag].layout = Layout(d.layout)
    BY <2>1, <2>2
  <2>4. QED
    BY <2>3 DEF d
<1>8. Layout(<<>>) = <<>>
  BY DEF Layout
<1>9. SessionMids["CommunicationStop"].layout = <<>> /\ ResultMids["AcknowledgeResult"].layout = <<>>
  BY DEF SessionMids, ResultMids, Define, Request
<1>10. /\ "CommunicationStop" \in DOMAIN All /\ All["CommunicationStop"] = SessionMids["CommunicationStop"]
       /\ "AcknowledgeResult" \in DOMAIN All /\ All["AcknowledgeResult"] = ResultMids["AcknowledgeResult"]
  BY <1>1, <1>2, <1>3
<1>11. DOMAIN All = {"CommunicationStart", "CommunicationStartAccepted",
                     "CommunicationStop", "CommandError", "CommandAccepted",
                     "SubscribeResults", "LastResult", "AcknowledgeResult",
                     "UnsubscribeResults", "RequestOldResult", "OldResult", "KeepAlive"}
  BY <1>1, <1>2
<1>12. ByTag["CommunicationStop"].layout = <<>> /\ ByTag["AcknowledgeResult"].layout = <<>>
  BY <1>7, <1>8, <1>9, <1>10
<1>13. \A tag \in DOMAIN ByTag : ByTag[tag].reply # "CommandError"
  BY <1>4, <1>7
<1>14. QED
  BY <1>4, <1>11, <1>12, <1>13

\* Whatever its elements are.
IsSequence(s) == \E S : s \in Seq(S)

LEMMA ConcatIsSequence ==
    ASSUME NEW s, NEW t, IsSequence(s), IsSequence(t)
    PROVE  /\ IsSequence(s \o t)
           /\ Len(s) \in Nat /\ Len(t) \in Nat /\ Len(s \o t) = Len(s) + Len(t)
           /\ DOMAIN s = 1 .. Len(s) /\ DOMAIN t = 1 .. Len(t)
           /\ DOMAIN (s \o t) = 1 .. Len(s) + Len(t)
           /\ \A i \in 1 .. Len(s) : (s \o t)[i] = s[i]
           /\ \A i \in 1 .. Len(t) : (s \o t)[Len(s) + i] = t[i]
<1>1. PICK S, T : s \in Seq(S) /\ t \in Seq(T)
  BY DEF IsSequence
<1> DEFINE U == S \cup T
<1>2. s \in Seq(U) /\ t \in Seq(U)
  BY <1>1, SeqMonotonic
<1> HIDE DEF U
<1>3. s \o t \in Seq(U)
  BY <1>2, ConcatProperties
<1>4. QED
  BY <1>2, <1>3 DEF IsSequence

\* padNumber always makes a text.
LEMMA PadIsText ==
    ASSUME NEW number, NEW width \in Nat
    PROVE  IsSequence(PadNumber(number, width))
<1> DEFINE K == {k \in 1 .. 10 : k = 10 \/ number < TenTo(k)}
           needs == Needs(number)
<1>1. needs \in 1 .. 10
  <2>1. 10 \in K
    OBVIOUS
  <2>2. K \in SUBSET Nat /\ K # {}
    BY <2>1
  <2>3. needs = Min(K)
    BY DEF Needs
  <2> DEFINE k == K
  <2>4. k \in SUBSET (1 .. 10) /\ k \in SUBSET Nat /\ k # {} /\ needs = Min(k)
    BY <2>2, <2>3
  <2> HIDE DEF k
  <2>5. QED
    BY <2>4, MinIsLeast
<1> HIDE DEF needs
<1> DEFINE n == Max({width, needs})
<1>2. n \in Nat
  <2>1. width + needs \in Nat /\ {width, needs} \in SUBSET (0 .. width + needs)
    BY <1>1
  <2>2. \E x \in {width, needs} : \A y \in {width, needs} : x >= y
    BY <1>1
  <2>3. n \in {width, needs}
    BY <2>2 DEF Max
  <2>4. QED
    BY <2>3, <1>1
<1>3. PadNumber(number, width) = DigitsOf(number, n)
  BY DEF PadNumber, needs
<1> HIDE DEF n
<1> DEFINE t == DigitsOf(number, n)
<1>4. t = [i \in 1 .. n |-> t[i]]
  BY DEF DigitsOf
<1> HIDE DEF t
<1>5. DOMAIN t = 1 .. n /\ t \in [1 .. n -> Range(t)]
  BY <1>4 DEF Range
<1>6. t \in Seq(Range(t))
  BY <1>2, <1>5
<1>7. QED
  BY <1>3, <1>6 DEF t, IsSequence

LEMMA FrameIsText ==
    ASSUME NEW mid, NEW data, IsSequence(data)
    PROVE  IsSequence(EncodeFrame(mid, 1, data))
<1> DEFINE header == [length |-> HeaderLength + Len(data), mid |-> mid, revision |-> 1,
                      noAck |-> FALSE, stationId |-> 1, spindleId |-> 1]
<1> HIDE DEF header
<1>1. /\ IsSequence(PadNumber(header.length, 4)) /\ IsSequence(PadNumber(header.mid, 4))
      /\ IsSequence(PadNumber(header.revision, 3))
      /\ IsSequence(PadNumber(header.stationId, 2)) /\ IsSequence(PadNumber(header.spindleId, 2))
  BY PadIsText
<1>2. IsSequence(IF header.noAck THEN <<Zero + 1>> ELSE <<Zero>>)
  <2>1. <<Zero + 1>> \in Seq({Zero + 1}) /\ <<Zero>> \in Seq({Zero})
    BY DEF Zero
  <2>2. QED
    BY <2>1 DEF IsSequence
<1>3. IsSequence(Zeroes(4)) /\ IsSequence(<<Terminator>>)
  <2>1. Zeroes(4) \in Seq({Zero})
    BY DEF Zeroes
  <2>2. <<Terminator>> \in Seq({Terminator})
    BY DEF Terminator
  <2>3. QED
    BY <2>1, <2>2 DEF IsSequence
<1>4. IsSequence(EncodeHeader(header))
  BY <1>1, <1>2, <1>3, ConcatIsSequence DEF EncodeHeader
<1>5. IsSequence(EncodeHeader(header) \o data \o <<Terminator>>)
  BY <1>3, <1>4, ConcatIsSequence
<1>6. QED
  BY <1>5 DEF EncodeFrame, header

\* The messages without fields: what an acknowledgement and the goodbye are.
LEMMA PlainFrames ==
    ASSUME NEW tag \in {"CommunicationStop", "AcknowledgeResult"},
           NEW frame \in EncodeMessage([tag |-> tag, revision |-> 1])
    PROVE  IsSequence(frame)
<1> DEFINE message == [tag |-> tag, revision |-> 1]
<1>1. message.tag = tag /\ tag # "UnknownMessage"
  OBVIOUS
<1> HIDE DEF message
<1>2. EncodeMessage(message) = Encode(ByTag[tag], message)
  BY <1>1 DEF EncodeMessage
<1>3. ByTag[tag].layout = <<>>
  BY Definitions
<1>4. PICK data \in EncodeLayout(<<>>, message) : frame = EncodeFrame(ByTag[tag].mid, 1, data)
  BY <1>2, <1>3 DEF Encode, message
<1>5. data = <<>>
  <2>1. \A write : [i \in DOMAIN <<>> |-> <<>>[i].id \o CHOOSE t \in write[i] : TRUE] = <<>>
    OBVIOUS
  <2>2. Joined(<<>>) = <<>>
    BY DEF Joined
  <2>3. QED
    BY <1>4, <2>1, <2>2 DEF EncodeLayout
<1>6. IsSequence(data)
  BY <1>5 DEF IsSequence
<1>7. QED
  BY <1>4, <1>6, FrameIsText

\* The tracer tells a socket operation in a sequence of events.
LEMMA ObserveTyped ==
    ASSUME NEW S, NEW buffer \in Seq(S), NEW bytes \in Seq(S), NEW direction
    PROVE  /\ IsSequence(Observe(direction, buffer, bytes).events)
           /\ Observe(direction, buffer, bytes).buffer \in Seq(S)
<1> DEFINE n == Step(buffer, bytes)
           next == IF n.error THEN [buffer |-> <<>>, frames |-> <<>>] ELSE n
           events == <<ChunkEvent(direction, bytes)>> \o
                       [i \in DOMAIN next.frames |-> FrameEvent(direction, next.frames[i])]
<1>1. buffer \o bytes \in Seq(S)
  OBVIOUS
<1>2. n.buffer \in Seq(S) /\ n.frames \in Seq(Seq(S))
  BY <1>1, TakeFramesTyped DEF Step
<1>3. next.buffer \in Seq(S) /\ next.frames \in Seq(Seq(S))
  <2> HIDE DEF n
  <2>1. QED
    BY <1>2
<1>4. Observe(direction, buffer, bytes) = Tells(direction, bytes, next)
  BY DEF Observe
<1> HIDE DEF next
<1>5. Observe(direction, buffer, bytes) = [events |-> events, buffer |-> next.buffer]
  BY <1>4 DEF Tells
<1> DEFINE l == Len(next.frames)
           g == [i \in DOMAIN next.frames |-> FrameEvent(direction, next.frames[i])]
<1>6. l \in Nat /\ DOMAIN next.frames = 1 .. l
  BY <1>3
<1>7. g \in [1 .. l -> Range(g)]
  BY <1>6 DEF Range
<1> HIDE DEF g, l
<1>8. IsSequence(g)
  <2>1. g \in Seq(Range(g))
    BY <1>6, <1>7
  <2>2. QED
    BY <2>1 DEF IsSequence
<1>9. IsSequence(<<ChunkEvent(direction, bytes)>>)
  <2> DEFINE e == ChunkEvent(direction, bytes)
  <2> HIDE DEF e
  <2>1. <<e>> \in Seq({e})
    OBVIOUS
  <2>2. QED
    BY <2>1 DEF IsSequence, e
<1>10. IsSequence(events)
  BY <1>8, <1>9, ConcatIsSequence DEF g
<1>11. QED
  BY <1>3, <1>5, <1>10

-----------------------------------------------------------------------------
(* The recording: what was traced is waiting, being written, stored or     *)
(* lost by a failed statement.                                             *)

Kept == Stored \cup dropped

RecordingInv ==
    /\ IsSequence(rows) /\ IsSequence(traced)
    /\ queue \in Seq(Nat) /\ batch \in Seq(Nat)
    /\ due \in 0 .. Len(traced)
    /\ stage \in Stages
    /\ stage \notin {"off", "killed"} =>
         1 .. Len(traced) \subseteq Kept \cup Range(queue) \cup Range(batch)
    /\ stage = "flushing" => 1 .. due \subseteq Kept \cup Range(batch)
    /\ EndedRunIsComplete

\* A row that is appended is stored, and nothing that was stored goes.
LEMMA RowsAppended ==
    ASSUME IsSequence(rows), NEW more, IsSequence(more), rows' = rows \o more
    PROVE  /\ IsSequence(rows)'
           /\ Stored' = Stored \cup {more[i].event : i \in {j \in DOMAIN more : more[j].run = ThisRun}}
<1>1. /\ IsSequence(rows') /\ Len(rows) \in Nat /\ Len(more) \in Nat
      /\ DOMAIN rows = 1 .. Len(rows) /\ DOMAIN more = 1 .. Len(more)
      /\ DOMAIN rows' = 1 .. Len(rows) + Len(more)
      /\ \A i \in 1 .. Len(rows) : rows'[i] = rows[i]
      /\ \A i \in 1 .. Len(more) : rows'[Len(rows) + i] = more[i]
  BY ConcatIsSequence
<1> DEFINE New == {more[i].event : i \in {j \in DOMAIN more : more[j].run = ThisRun}}
<1>2. ASSUME NEW x \in Stored'
      PROVE  x \in Stored \cup New
  <2>1. PICK i \in 1 .. Len(rows) + Len(more) : rows'[i].run = ThisRun /\ x = rows'[i].event
    BY <1>1, <1>2 DEF Stored
  <2>2. CASE i <= Len(rows)
    <3>1. i \in DOMAIN rows /\ rows'[i] = rows[i]
      BY <1>1, <2>2
    <3>2. QED
      BY <2>1, <3>1 DEF Stored
  <2>3. CASE ~(i <= Len(rows))
    <3>1. i - Len(rows) \in 1 .. Len(more) /\ i = Len(rows) + (i - Len(rows))
      BY <1>1, <2>3
    <3>2. i - Len(rows) \in DOMAIN more /\ rows'[i] = more[i - Len(rows)]
      BY <1>1, <3>1
    <3>3. QED
      BY <2>1, <3>2
  <2>4. QED
    BY <2>2, <2>3
<1>3. ASSUME NEW x \in Stored
      PROVE  x \in Stored'
  <2>1. PICK i \in DOMAIN rows : rows[i].run = ThisRun /\ x = rows[i].event
    BY <1>3 DEF Stored
  <2>2. i \in DOMAIN rows' /\ rows'[i] = rows[i]
    BY <1>1
  <2>3. QED
    BY <2>1, <2>2 DEF Stored
<1>4. ASSUME NEW x \in New
      PROVE  x \in Stored'
  <2>1. PICK i \in DOMAIN more : more[i].run = ThisRun /\ x = more[i].event
    BY <1>4
  <2>2. Len(rows) + i \in DOMAIN rows' /\ rows'[Len(rows) + i] = more[i]
    BY <1>1
  <2>3. QED
    BY <2>1, <2>2 DEF Stored
<1>5. QED
  BY <1>1, <1>2, <1>3, <1>4

\* insertEvents stores the events of its batch.
LEMMA BatchStored ==
    ASSUME IsSequence(rows), batch \in Seq(Nat), InsertEvents(batch)
    PROVE  IsSequence(rows)' /\ Stored' = Stored \cup Range(batch)
<1> DEFINE more == [i \in DOMAIN batch |-> RowOf(batch[i])]
<1>1. /\ DOMAIN more = DOMAIN batch
      /\ \A i \in DOMAIN batch : more[i].run = ThisRun /\ more[i].event = batch[i]
  BY DEF RowOf
<1>2. IsSequence(more)
  <2>1. Len(batch) \in Nat /\ DOMAIN more = 1 .. Len(batch)
    BY <1>1
  <2> DEFINE l == Len(batch)
  <2>2. more \in [1 .. l -> Range(more)]
    BY <2>1 DEF Range
  <2> HIDE DEF more, l
  <2>3. more \in Seq(Range(more))
    BY <2>1, <2>2 DEF l
  <2>4. QED
    BY <2>3 DEF IsSequence
<1>3. rows' = rows \o more
  BY DEF InsertEvents
<1> HIDE DEF more
<1>4. {more[i].event : i \in {j \in DOMAIN more : more[j].run = ThisRun}} = Range(batch)
  BY <1>1 DEF Range
<1>5. QED
  BY <1>2, <1>3, <1>4, RowsAppended

\* The sink.
LEMMA OffersKeeps ==
    ASSUME RecordingInv, NEW events, IsSequence(events), Offers(events)
    PROVE  RecordingInv'
<1> USE DEF RecordingInv
<1> DEFINE n == Len(traced)
           m == Len(events)
           numbers == [i \in DOMAIN events |-> Len(traced) + i]
<1>1. /\ IsSequence(traced') /\ n \in Nat /\ m \in Nat /\ Len(traced') = n + m
      /\ DOMAIN events = 1 .. m
  BY ConcatIsSequence DEF Offers
<1>2. numbers \in Seq(Nat) /\ Range(numbers) = n + 1 .. n + m
  <2> HIDE DEF n, m
  <2>1. numbers = [i \in 1 .. m |-> n + i]
    BY <1>1 DEF n
  <2> DEFINE k == numbers
  <2> HIDE DEF numbers
  <2>2. numbers \in [1 .. m -> Nat]
    BY <1>1, <2>1
  <2>3. \A j \in n + 1 .. n + m : j - n \in 1 .. m /\ numbers[j - n] = j
    BY <1>1, <2>1
  <2>4. \A i \in 1 .. m : numbers[i] \in n + 1 .. n + m
    BY <1>1, <2>1
  <2>5. numbers \in Seq(Nat)
    BY <1>1, <2>2
  <2>6. QED
    BY <2>2, <2>3, <2>4, <2>5 DEF Range
<1>3. /\ stage' = stage /\ due' = due /\ batch' = batch /\ dropped' = dropped /\ rows' = rows
      /\ Stored' = Stored /\ Kept' = Kept
      /\ queue' = IF stage = "off" THEN queue ELSE queue \o numbers
  BY DEF Offers, Stored, Kept
<1> HIDE DEF numbers, n, m
<1>4. queue' \in Seq(Nat)
  BY <1>2, <1>3
<1>5. Range(queue \o numbers) = Range(queue) \cup (n + 1 .. n + m)
  <2>1. queue \in Seq(Nat)
    OBVIOUS
  <2>2. \A k \in Seq(Nat) : Range(queue \o k) = Range(queue) \cup Range(k)
    BY <2>1, RangeConcatenation
  <2>3. QED
    BY <1>2, <2>2
<1>6. stage \notin {"off", "killed"} =>
        1 .. n + m \subseteq Kept \cup Range(queue') \cup Range(batch)
  <2> SUFFICES ASSUME stage \notin {"off", "killed"}, NEW j \in 1 .. n + m
               PROVE  j \in Kept \cup Range(queue') \cup Range(batch)
    OBVIOUS
  <2>1. j \in 1 .. n \/ j \in n + 1 .. n + m
    BY <1>1
  <2>2. Range(queue') = Range(queue) \cup (n + 1 .. n + m)
    BY <1>3, <1>5
  <2>3. 1 .. n \subseteq Kept \cup Range(queue) \cup Range(batch)
    BY DEF n
  <2>4. QED
    BY <2>1, <2>2, <2>3
<1>7. due' \in 0 .. Len(traced')
  BY <1>1, <1>3 DEF n
<1>8. EndedRunIsComplete'
  BY <1>3 DEF EndedRunIsComplete
<1>9. QED
  BY <1>1, <1>3, <1>4, <1>6, <1>7, <1>8

\* What the writer takes is in its batch, the rest still in the queue.
LEMMA TakesBatchKeeps ==
    ASSUME RecordingInv, TakesBatch
    PROVE  RecordingInv'
<1> USE DEF RecordingInv
<1>1. PICK n \in 1 .. Min({BatchSize, Len(queue)}) :
         /\ batch' = SubSeq(queue, 1, n)
         /\ queue' = SubSeq(queue, n + 1, Len(queue))
  BY DEF TakesBatch
<1>2. n \in Nat /\ n <= Len(queue)
  <2>1. {BatchSize, Len(queue)} \in SUBSET Nat /\ {BatchSize, Len(queue)} # {}
    BY BatchSizeAssumption
  <2>2. /\ Min({BatchSize, Len(queue)}) \in Nat
        /\ Min({BatchSize, Len(queue)}) <= Len(queue)
    BY <2>1, MinIsLeast
  <2>3. QED
    BY <2>2
<1>3. /\ batch' \in Seq(Nat) /\ queue' \in Seq(Nat)
      /\ queue = batch' \o queue'
  <2>1. queue \in Seq(Nat) /\ Len(queue) \in Nat
    OBVIOUS
  <2>2. queue = SubSeq(queue, 1, Len(queue))
    BY <2>1, SubSeqFull
  <2>3. SubSeq(queue, 1, n) \o SubSeq(queue, n + 1, Len(queue)) = SubSeq(queue, 1, Len(queue))
    BY <1>2, <2>1, ConcatAdjacentSubSeq
  <2>4. SubSeq(queue, 1, n) \in Seq(Nat) /\ SubSeq(queue, n + 1, Len(queue)) \in Seq(Nat)
    BY <1>2, <2>1, SMTT(30)
  <2>5. QED
    BY <1>1, <2>2, <2>3, <2>4
<1>4. Range(queue) = Range(batch') \cup Range(queue')
  BY <1>3, RangeConcatenation
<1>5. /\ stage' = "recording" /\ stage = "recording" /\ Range(batch) = {}
      /\ UNCHANGED <<rows, ended, traced, dropped, due>>
  BY DEF TakesBatch, Range
<1>6. Stored' = Stored /\ Kept' = Kept
  BY <1>5 DEF Stored, Kept
<1>7. IsSequence(rows)' /\ IsSequence(traced)' /\ due' \in 0 .. Len(traced')
  BY <1>5
<1>8. 1 .. Len(traced') \subseteq Kept' \cup Range(queue') \cup Range(batch')
  BY <1>4, <1>5, <1>6
<1>9. QED
  BY <1>3, <1>5, <1>7, <1>8 DEF EndedRunIsComplete

\* What is written is stored or, when the statement fails, dropped.
LEMMA WritesBatchKeeps ==
    ASSUME RecordingInv, WritesBatch
    PROVE  RecordingInv'
<1> USE DEF RecordingInv
<1>1. /\ UNCHANGED <<ended, traced, queue, stage, due>> /\ batch' = <<>>
      /\ \/ InsertEvents(batch) /\ UNCHANGED dropped
         \/ dropped' = dropped \cup Range(batch) /\ UNCHANGED rows
  BY DEF WritesBatch
<1>2. IsSequence(rows)' /\ Kept' = Kept \cup Range(batch)
  <2>1. CASE InsertEvents(batch) /\ UNCHANGED dropped
    <3>1. IsSequence(rows)' /\ Stored' = Stored \cup Range(batch)
      BY <2>1, BatchStored
    <3>2. QED
      BY <2>1, <3>1 DEF Kept
  <2>2. CASE dropped' = dropped \cup Range(batch) /\ UNCHANGED rows
    BY <2>2 DEF Kept, Stored
  <2>3. QED
    BY <1>1, <2>1, <2>2
<1>3. Range(batch') = {} /\ batch' \in Seq(Nat)
  BY <1>1 DEF Range
<1>4. IsSequence(traced)' /\ due' \in 0 .. Len(traced') /\ Range(queue') = Range(queue)
  BY <1>1
<1>5. QED
  BY <1>1, <1>2, <1>3, <1>4 DEF EndedRunIsComplete, Kept

\* The finalizer takes what is in the queue, not what comes behind it.
LEMMA ClearsQueueKeeps ==
    ASSUME RecordingInv, ClearsQueue
    PROVE  RecordingInv'
<1> USE DEF RecordingInv
<1>1. /\ stage = "stopping" /\ batch = <<>> /\ stage' = "flushing" /\ batch' = queue /\ queue' = <<>>
      /\ UNCHANGED <<rows, ended, traced, dropped, due>>
  BY DEF ClearsQueue
<1>2. Range(batch) = {} /\ Range(queue') = {} /\ Kept' = Kept /\ Range(batch') = Range(queue)
  BY <1>1 DEF Range, Kept, Stored
<1>3. 1 .. Len(traced) \subseteq Kept \cup Range(queue)
  BY <1>1, <1>2
<1>4. 1 .. due \subseteq 1 .. Len(traced)
  <2>1. Len(traced) \in Nat
    BY ConcatIsSequence
  <2>2. QED
    BY <2>1
<1>5. QED
  BY <1>1, <1>2, <1>3, <1>4 DEF EndedRunIsComplete, Stages

LEMMA EndsRunKeeps ==
    ASSUME RecordingInv, EndsRun
    PROVE  RecordingInv'
<1> USE DEF RecordingInv
<1>1. /\ stage = "flushing" /\ batch = <<>> /\ stage' = "ended"
      /\ UNCHANGED <<rows, traced, queue, batch, dropped, due>>
  BY DEF EndsRun
<1>2. Range(batch) = {} /\ Kept' = Kept
  BY <1>1 DEF Range, Kept, Stored
<1>3. QED
  BY <1>1, <1>2 DEF EndedRunIsComplete, Stages, Kept

LEMMA ScopeClosesKeeps ==
    ASSUME RecordingInv, ScopeCloses
    PROVE  RecordingInv'
<1> USE DEF RecordingInv
<1>1. /\ stage = "recording" /\ stage' = "stopping" /\ due' = Len(traced)
      /\ UNCHANGED <<rows, ended, traced, queue, batch, dropped>>
  BY DEF ScopeCloses
<1>2. Len(traced) \in Nat /\ Kept' = Kept
  BY <1>1, ConcatIsSequence DEF Kept, Stored
<1>3. QED
  BY <1>1, <1>2 DEF EndedRunIsComplete, Stages

\* A process that is killed never ends its run.
LEMMA IsKilledKeeps ==
    ASSUME RecordingInv, IsKilled
    PROVE  RecordingInv'
<1> USE DEF RecordingInv
<1>1. /\ stage' = "killed" /\ queue' = <<>> /\ batch' = <<>>
      /\ UNCHANGED <<rows, ended, traced, due>>
  BY DEF IsKilled
<1>2. queue' \in Seq(Nat) /\ batch' \in Seq(Nat)
  BY <1>1
<1>3. QED
  BY <1>1, <1>2 DEF EndedRunIsComplete, Stages

\* Rows of another run.
LEMMA OtherInsertsKeeps ==
    ASSUME RecordingInv, OtherInserts, UNCHANGED <<traced, queue, batch, dropped, stage, due>>
    PROVE  RecordingInv'
<1> USE DEF RecordingInv
<1> DEFINE row == [run |-> OtherRun, event |-> 1]
<1>1. rows' = Append(rows, row) /\ row.run = OtherRun /\ row.event = 1
  BY DEF OtherInserts
<1> HIDE DEF row
<1>2. IsSequence(<<row>>) /\ rows' = rows \o <<row>>
  <2>1. <<row>> \in Seq({row})
    OBVIOUS
  <2>2. PICK S : rows \in Seq(S)
    BY DEF IsSequence
  <2>3. rows \in Seq(S \cup {row}) /\ row \in S \cup {row}
    BY <2>2, SeqMonotonic
  <2>4. Append(rows, row) = rows \o <<row>>
    BY <2>3, AppendIsConcat
  <2>5. QED
    BY <1>1, <2>1, <2>4 DEF IsSequence
<1>3. IsSequence(rows)' /\ Stored \subseteq Stored'
  BY <1>2, RowsAppended
<1>4. Kept \subseteq Kept'
  BY <1>3 DEF Kept
<1>5. QED
  BY <1>3, <1>4 DEF EndedRunIsComplete, Kept

LEMMA RecordsKeeps ==
    ASSUME RecordingInv, Records
    PROVE  RecordingInv'
<1>1. TakesBatch \/ WritesBatch \/ ClearsQueue \/ EndsRun
  BY DEF Records
<1>2. QED
  BY <1>1, TakesBatchKeeps, WritesBatchKeeps, ClearsQueueKeeps, EndsRunKeeps

-----------------------------------------------------------------------------
(* The session: the frames it read, and what each of them means.           *)

\* The message of a frame.
Meaning(frame) == (CHOOSE incomingFrame \in DecodeFrame(frame) : TRUE).message

\* onFrame decodes in order, and stops at the first header it refuses.
LEMMA DecodedInOrder ==
    ASSUME NEW frames, IsSequence(frames)
    PROVE  LET decoded == DecodedUntil([i \in DOMAIN frames |-> DecodeFrame(frames[i])])
           IN  /\ IsSequence(decoded) /\ Len(decoded) \in 0 .. Len(frames)
               /\ DOMAIN decoded = 1 .. Len(decoded)
               /\ \A i \in 1 .. Len(decoded) :
                    /\ decoded[i] \in DecodeFrame(frames[i])
                    /\ decoded[i].message = Meaning(frames[i])
               /\ Len(decoded) < Len(frames) => DecodeFrame(frames[Len(decoded) + 1]) = {}
<1> DEFINE n == Len(frames)
           reads == [i \in DOMAIN frames |-> DecodeFrame(frames[i])]
           refused == {i \in DOMAIN reads : reads[i] = {}}
           ends == refused \cup {n + 1}
           decoded == DecodedUntil(reads)
<1>1. n \in Nat /\ DOMAIN frames = 1 .. n
  BY DEF IsSequence
<1>2. reads \in [1 .. n -> Range(reads)] /\ \A i \in 1 .. n : reads[i] = DecodeFrame(frames[i])
  BY <1>1 DEF Range
<1>3. Len(reads) = n /\ DOMAIN reads = 1 .. n
  <2> DEFINE r == reads
  <2> HIDE DEF r, n
  <2>1. r \in Seq(Range(r)) /\ DOMAIN r = 1 .. n
    BY <1>1, <1>2 DEF r
  <2>2. QED
    BY <1>1, <2>1 DEF r
<1> HIDE DEF reads, n
<1> DEFINE k == Min(ends) - 1
<1>4. k \in 0 .. n /\ (\A i \in 1 .. k : reads[i] # {}) /\ (k < n => reads[k + 1] = {})
  <2>1. ends \in SUBSET Nat /\ ends # {} /\ ends \subseteq 1 .. n + 1 /\ n + 1 \in ends
    BY <1>1, <1>3
  <2>2. Min(ends) \in ends /\ \A e \in ends : Min(ends) <= e
    BY <2>1, MinIsLeast
  <2> DEFINE m == Min(ends)
  <2>3. m \in ends /\ m \in 1 .. n + 1 /\ \A e \in ends : m <= e
    BY <2>1, <2>2
  <2>4. \A i \in 1 .. n : reads[i] = {} => m <= i
    BY <1>3, <2>3
  <2> HIDE DEF m
  <2>5. m < n + 1 => reads[m] = {}
    BY <1>1, <2>3
  <2>6. m - 1 \in 0 .. n /\ (\A i \in 1 .. m - 1 : i \in 1 .. n /\ ~(m <= i))
    BY <1>1, <2>3
  <2>7. m - 1 < n => m < n + 1 /\ (m - 1) + 1 = m
    BY <1>1, <2>3
  <2>8. QED
    BY <2>4, <2>5, <2>6, <2>7 DEF m
<1>5. decoded = [i \in 1 .. k |-> CHOOSE incomingFrame \in reads[i] : TRUE]
  BY <1>3 DEF DecodedUntil
<1> HIDE DEF k, decoded
<1>6. decoded \in [1 .. k -> Range(decoded)] /\ DOMAIN decoded = 1 .. k
  BY <1>5 DEF Range
<1>7. decoded \in Seq(Range(decoded)) /\ Len(decoded) = k
  BY <1>4, <1>6
<1>8. ASSUME NEW i \in 1 .. k
      PROVE  decoded[i] \in DecodeFrame(frames[i]) /\ decoded[i].message = Meaning(frames[i])
  <2>1. i \in 1 .. n /\ reads[i] # {} /\ reads[i] = DecodeFrame(frames[i])
    BY <1>1, <1>2, <1>4
  <2>2. decoded[i] = CHOOSE incomingFrame \in DecodeFrame(frames[i]) : TRUE
    BY <1>5, <2>1
  <2>3. QED
    BY <2>1, <2>2 DEF Meaning
<1>9. k < n => DecodeFrame(frames[k + 1]) = {}
  <2>1. k < n => k + 1 \in 1 .. n
    BY <1>1, <1>4
  <2>2. QED
    BY <1>2, <1>4, <2>1
<1>10. IsSequence(decoded)
  BY <1>7 DEF IsSequence
<1>11. QED
  BY <1>4, <1>6, <1>7, <1>8, <1>9, <1>10 DEF decoded, reads, n

\* Wherever the network cut the stream, what the session read are the frames
\* of what arrived, framed in one piece, one message for each and in their
\* order; a session that is up holds what those frames left, and missed none
\* (readLoop and onFrame of Session.ts, step of Framer.ts).
ReadsTheFrames ==
    LET whole == TakeFrames(SubSeq(stream, 1, arrived))
    IN  /\ Len(got) <= Len(whole.frames)
        /\ \A i \in DOMAIN got :
              DecodeFrame(whole.frames[i]) # {} /\ got[i] = Meaning(whole.frames[i])
        /\ session = "up" => ~whole.error /\ framed = whole.buffer
        /\ session # "lost" => Len(got) = Len(whole.frames)

LinkTyped ==
    /\ scenario \in Scenarios
    /\ arrived \in 0 .. Len(stream)
    /\ framed \in Seq(0 .. 255) /\ incoming \in Seq(0 .. 255)
    /\ IsSequence(got)

LinkInv == LinkTyped /\ RecordingInv /\ ReadsTheFrames

LEMMA ScenarioTyped ==
    ASSUME scenario \in Scenarios
    PROVE  /\ stream \in Seq(0 .. 255) /\ Len(stream) \in Nat
           /\ scenario.cuts \subseteq 0 .. Len(stream)
           /\ request \in {NoRequest} \cup {tag \in DOMAIN ByTag : IsRequest(ByTag[tag])}
<1>1. stream = StreamOf(scenario.script)
  BY DEF stream, Streams
<1> DEFINE text == StreamOf(scenario.script)
<1>2. /\ text \in Seq(0 .. 255) /\ scenario.cuts \subseteq 0 .. Len(text)
      /\ scenario.request \in {NoRequest} \cup {tag \in DOMAIN ByTag : IsRequest(ByTag[tag])}
  BY ScenariosAssumption
<1> HIDE DEF text
<1>3. Len(text) \in Nat
  BY <1>2
<1>4. QED
  BY <1>1, <1>2, <1>3 DEF text, request

LEMMA LinkInit == Init => LinkInv
<1> SUFFICES ASSUME Init PROVE LinkInv
  OBVIOUS
<1>1. scenario \in Scenarios /\ stream \in Seq(0 .. 255) /\ Len(stream) \in Nat
  BY ScenarioTyped DEF Init
<1>2. /\ arrived = 0 /\ incoming = <<>> /\ framed = <<>> /\ got = <<>> /\ session = "up"
      /\ rows = <<>> /\ traced = <<>> /\ queue = <<>> /\ batch = <<>> /\ due = 0
      /\ stage \in {"recording", "off"}
  BY DEF Init, RecordingInit, StoreInit
<1>3. LinkTyped
  BY <1>1, <1>2 DEF LinkTyped, IsSequence
<1>4. RecordingInv
  BY <1>2 DEF RecordingInv, Stages, EndedRunIsComplete, IsSequence
<1>5. ReadsTheFrames
  <2> DEFINE none == SubSeq(stream, 1, 0)
             whole == TakeFrames(none)
  <2>1. none = <<>> /\ none \in Seq(0 .. 255) /\ Len(none) = 0
    BY <1>1
  <2> HIDE DEF none
  <2>2. /\ whole.frames \in Seq(Seq(0 .. 255))
        /\ Len(whole.frames) = Len(Leftovers(none)) - 1
        /\ whole.buffer = Leftovers(none)[Len(Leftovers(none))]
        /\ whole.error = IsMalformed(Leftovers(none)[Len(Leftovers(none))])
    BY <2>1, TakeFramesTyped
  <2> DEFINE c == Leftovers(none)
  <2>3. c \in Seq(Seq(0 .. 255)) /\ c # <<>> /\ Chain(c, none)
    BY <2>1, LeftoversComplete DEF Complete
  <2>4. Len(c) \in Nat /\ Len(c) >= 1
    <3> DEFINE T == Seq(0 .. 255)
    <3>1. c \in Seq(T) /\ c # <<>>
      BY <2>3
    <3> HIDE DEF T, c
    <3>2. QED
      BY <3>1
  <2>5. Len(c) = 1
    <3> DEFINE l == Len(c)
    <3>1. Len(c[l]) + 21 * (l - 1) <= 0
      <4>1. l \in 1 .. Len(c)
        BY <2>4
      <4>2. Len(c[l]) + 21 * (l - 1) <= Len(none)
        BY <2>1, <2>3, <4>1, ChainShrinks
      <4>3. QED
        BY <2>1, <4>2
    <3>2. c[l] \in Seq(0 .. 255)
      <4> DEFINE T == Seq(0 .. 255)
      <4>1. c \in Seq(T)
        BY <2>3
      <4> HIDE DEF T
      <4>2. c[l] \in T
        <5> HIDE DEF c
        <5>1. QED
          BY <2>4, <4>1
      <4>3. QED
        BY <4>2 DEF T
    <3> DEFINE z == Len(c[l])
    <3>3. z \in Nat
      BY <3>2
    <3> HIDE DEF l, z
    <3>4. l \in Nat /\ l >= 1 /\ z + 21 * (l - 1) <= 0
      BY <2>4, <3>1 DEF l, z
    <3>5. l = 1
      BY <3>3, <3>4
    <3>6. QED
      BY <3>5 DEF l
  <2>6. c[1] = <<>>
    BY <2>1, <2>3 DEF Chain
  <2>7. ~IsMalformed(<<>>)
    BY DEF IsMalformed
  <2>8. /\ Len(whole.frames) = 0 /\ whole.buffer = <<>> /\ ~whole.error
    BY <2>2, <2>5, <2>6, <2>7
  <2>9. Len(got) = 0 /\ DOMAIN got = {}
    BY <1>2
  <2> HIDE DEF whole
  <2>10. whole = TakeFrames(SubSeq(stream, 1, arrived))
    BY <1>2 DEF whole, none
  <2>11. QED
    BY <1>2, <2>8, <2>9, <2>10 DEF ReadsTheFrames
<1>6. QED
  BY <1>3, <1>4, <1>5 DEF LinkInv

\* A cut of a stream.
LEMMA CutInTwo ==
    ASSUME NEW S, NEW s \in Seq(S), NEW a \in Nat, NEW b \in Nat, a <= b, b <= Len(s)
    PROVE  /\ SubSeq(s, 1, a) \in Seq(S) /\ SubSeq(s, a + 1, b) \in Seq(S)
           /\ SubSeq(s, 1, b) \in Seq(S)
           /\ SubSeq(s, 1, a) \o SubSeq(s, a + 1, b) = SubSeq(s, 1, b)
<1>1. Len(s) \in Nat /\ \A i \in 1 .. Len(s) : s[i] \in S
  OBVIOUS
<1>2. SubSeq(s, 1, a) \in Seq(S)
  <2>1. \A i \in 1 .. a : s[i] \in S
    BY <1>1
  <2>2. QED
    BY <2>1, SubSeqProperties
<1>3. SubSeq(s, 1, b) \in Seq(S)
  <2>1. \A i \in 1 .. b : s[i] \in S
    BY <1>1
  <2>2. QED
    BY <2>1, SubSeqProperties
<1>4. SubSeq(s, a + 1, b) \in Seq(S)
  <2>1. \A i \in a + 1 .. b : s[i] \in S
    BY <1>1
  <2>2. QED
    BY <2>1, SubSeqProperties
<1>5. SubSeq(s, 1, a) \o SubSeq(s, a + 1, b) = SubSeq(s, 1, b)
  <2>1. 1 \in 1 .. Len(s) + 1 /\ a \in 1 - 1 .. Len(s) /\ b \in a .. Len(s)
    BY <1>1
  <2>2. QED
    BY <2>1, ConcatAdjacentSubSeq
<1>6. QED
  BY <1>2, <1>3, <1>4, <1>5

\* A chunk: what the session reads are the frames of the longer stream.
LEMMA ChunkKeeps ==
    ASSUME LinkInv, ChunkArrives
    PROVE  LinkInv'
<1> DEFINE B == 0 .. 255
<1>1. /\ scenario \in Scenarios /\ arrived \in 0 .. Len(stream)
      /\ framed \in Seq(B) /\ incoming \in Seq(B) /\ IsSequence(got)
      /\ RecordingInv
  BY DEF LinkInv, LinkTyped
<1>2. stream \in Seq(B) /\ Len(stream) \in Nat /\ scenario.cuts \subseteq 0 .. Len(stream)
  BY <1>1, ScenarioTyped
<1>3. PICK upTo \in scenario.cuts \cup {Len(stream)} :
        /\ session = "up" /\ arrived < upTo /\ arrived' = upTo
        /\ \E chunk \in {SubSeq(stream, arrived + 1, upTo)} :
              /\ \E observed \in {Observe("recv", incoming, chunk)} :
                    incoming' = observed.buffer /\ Offers(observed.events)
              /\ \E next \in {Step(framed, chunk)} : Reads(next)
        /\ UNCHANGED <<scenario, viewVars>>
  BY DEF ChunkArrives
<1> DEFINE before == SubSeq(stream, 1, arrived)
           chunk == SubSeq(stream, arrived + 1, upTo)
           after == SubSeq(stream, 1, upTo)
           observed == Observe("recv", incoming, chunk)
           next == Step(framed, chunk)
<1>4. incoming' = observed.buffer /\ Offers(observed.events) /\ Reads(next)
  BY <1>3
<1>5. upTo \in 0 .. Len(stream) /\ arrived \in Nat /\ upTo \in Nat /\ arrived < upTo
      /\ arrived \in 0 .. upTo
  BY <1>1, <1>2, <1>3
<1>6. before \in Seq(B) /\ chunk \in Seq(B) /\ after \in Seq(B) /\ before \o chunk = after
  <2>1. arrived <= upTo /\ upTo <= Len(stream)
    BY <1>2, <1>5
  <2>2. QED
    <3> DEFINE s == stream
    <3>1. s \in Seq(B) /\ arrived \in Nat /\ upTo \in Nat /\ arrived <= upTo /\ upTo <= Len(s)
      BY <1>2, <1>5, <2>1
    <3> HIDE DEF s, B
    <3>2. /\ SubSeq(s, 1, arrived) \in Seq(B) /\ SubSeq(s, arrived + 1, upTo) \in Seq(B)
          /\ SubSeq(s, 1, upTo) \in Seq(B)
          /\ SubSeq(s, 1, arrived) \o SubSeq(s, arrived + 1, upTo) = SubSeq(s, 1, upTo)
      BY <3>1, CutInTwo
    <3>3. QED
      BY <3>2 DEF s
<1>7. stream' = stream
  BY <1>3 DEF stream
<1> HIDE DEF B, before, chunk, after, observed, next
<1>8. IsSequence(observed.events) /\ observed.buffer \in Seq(B)
  BY <1>1, <1>6, ObserveTyped DEF observed
<1>9. RecordingInv'
  BY <1>1, <1>4, <1>8, OffersKeeps
<1>10. next.buffer \in Seq(B) /\ next.frames \in Seq(Seq(B))
  <2>1. framed \o chunk \in Seq(B)
    BY <1>1, <1>6
  <2>2. QED
    BY <2>1, TakeFramesTyped DEF next, Step
<1> DEFINE first == TakeFrames(before)
           whole == TakeFrames(after)
           frames == IF next.error THEN <<>> ELSE next.frames
           decoded == DecodedUntil([i \in DOMAIN frames |-> DecodeFrame(frames[i])])
           new == [i \in DOMAIN decoded |-> decoded[i].message]
<1>11. /\ framed' = next.buffer /\ got' = got \o new
       /\ session' = IF next.error \/ Len(decoded) < Len(frames) THEN "lost" ELSE session
  BY <1>4 DEF Reads
<1>12. /\ Len(got) = Len(first.frames) /\ framed = first.buffer /\ ~first.error
       /\ \A i \in DOMAIN got :
             DecodeFrame(first.frames[i]) # {} /\ got[i] = Meaning(first.frames[i])
  BY <1>3 DEF LinkInv, ReadsTheFrames, first, before
<1>13. /\ whole.frames = first.frames \o next.frames
       /\ whole.buffer = next.buffer /\ whole.error = next.error
  <2>1. before \in Seq(B) /\ chunk \in Seq(B)
    BY <1>6
  <2>2. next = Step(first.buffer, chunk)
    BY <1>12 DEF next
  <2>3. /\ TakeFrames(before \o chunk).frames = first.frames \o Step(first.buffer, chunk).frames
        /\ TakeFrames(before \o chunk).buffer = Step(first.buffer, chunk).buffer
        /\ TakeFrames(before \o chunk).error = Step(first.buffer, chunk).error
    BY <2>1, FramesIgnoreCuts
  <2>4. whole = TakeFrames(before \o chunk)
    BY <1>6
  <2> HIDE DEF first, whole
  <2>5. QED
    BY <2>2, <2>3, <2>4
<1>14. first.frames \in Seq(Seq(B))
  BY <1>6, TakeFramesTyped
<1> HIDE DEF first, whole
<1>15. frames \in Seq(Seq(B)) /\ (~next.error => frames = next.frames) /\ (next.error => frames = <<>>)
  BY <1>10
<1> HIDE DEF frames
<1>16. /\ IsSequence(decoded) /\ Len(decoded) \in 0 .. Len(frames)
       /\ DOMAIN decoded = 1 .. Len(decoded)
       /\ \A i \in 1 .. Len(decoded) :
            /\ decoded[i] \in DecodeFrame(frames[i])
            /\ decoded[i].message = Meaning(frames[i])
  <2>1. IsSequence(frames)
    BY <1>15 DEF IsSequence
  <2>2. QED
    BY <2>1, DecodedInOrder
<1> HIDE DEF decoded
<1> DEFINE k == Len(decoded)
           f == Len(first.frames)
           n == Len(next.frames)
           l == Len(frames)
<1>17. /\ k \in Nat /\ f \in Nat /\ n \in Nat /\ l \in Nat /\ k <= l /\ l <= n
       /\ Len(whole.frames) = f + n
       /\ \A i \in 1 .. f : whole.frames[i] = first.frames[i]
       /\ \A i \in 1 .. k : whole.frames[f + i] = frames[i]
  <2> DEFINE T == Seq(B)
  <2>1. first.frames \in Seq(T) /\ next.frames \in Seq(T) /\ frames \in Seq(T)
    BY <1>10, <1>14, <1>15
  <2> HIDE DEF T
  <2>2. f \in Nat /\ n \in Nat /\ l \in Nat
    BY <2>1
  <2>3. l <= n
    BY <1>15, <2>1
  <2>4. k \in Nat /\ k <= l
    BY <1>16, <2>2
  <2>5. /\ Len(whole.frames) = f + n
        /\ \A i \in 1 .. f : whole.frames[i] = first.frames[i]
        /\ \A i \in 1 .. n : whole.frames[f + i] = next.frames[i]
    <3> DEFINE a == first.frames
               b == next.frames
               g == a \o b
    <3>1. IsSequence(a) /\ IsSequence(b)
      BY <2>1 DEF IsSequence
    <3> HIDE DEF a, b
    <3>2. /\ Len(g) = Len(a) + Len(b)
          /\ \A i \in 1 .. Len(a) : g[i] = a[i]
          /\ \A i \in 1 .. Len(b) : g[Len(a) + i] = b[i]
      BY <3>1, ConcatIsSequence
    <3> HIDE DEF g
    <3>3. g = whole.frames
      BY <1>13 DEF g, a, b
    <3>4. QED
      BY <3>2, <3>3 DEF a, b
  <2> HIDE DEF k, f, n, l
  <2>6. ASSUME NEW i \in 1 .. k
        PROVE  whole.frames[f + i] = frames[i]
    <3>1. ~next.error
      <4>1. next.error => l = 0
        BY <1>15 DEF l
      <4>2. QED
        BY <2>2, <2>4, <4>1
    <3>2. i \in 1 .. n
      BY <2>2, <2>3, <2>4
    <3>3. QED
      BY <1>15, <2>5, <3>1, <3>2
  <2>7. QED
    BY <2>2, <2>3, <2>4, <2>5, <2>6
<1>18. /\ IsSequence(new) /\ Len(new) = k /\ DOMAIN new = 1 .. k
       /\ \A i \in 1 .. k : new[i] = Meaning(frames[i])
  <2>1. new \in [1 .. k -> Range(new)] /\ \A i \in 1 .. k : new[i] = decoded[i].message
    BY <1>16 DEF Range
  <2> HIDE DEF new, k
  <2>2. new \in Seq(Range(new)) /\ Len(new) = k
    BY <1>17, <2>1
  <2>3. QED
    BY <1>16, <2>1, <2>2 DEF IsSequence, k
<1> HIDE DEF new, k, n, l
<1>19. /\ IsSequence(got') /\ Len(got) = f /\ Len(got') = f + k
       /\ DOMAIN got = 1 .. f /\ DOMAIN got' = 1 .. f + k
       /\ \A i \in 1 .. f : got'[i] = got[i]
       /\ \A i \in 1 .. k : got'[f + i] = new[i]
  <2> DEFINE g == got \o new
  <2>1. /\ IsSequence(g)
        /\ Len(got) \in Nat /\ Len(new) \in Nat /\ Len(g) = Len(got) + Len(new)
        /\ DOMAIN got = 1 .. Len(got) /\ DOMAIN g = 1 .. Len(got) + Len(new)
        /\ \A i \in 1 .. Len(got) : g[i] = got[i]
        /\ \A i \in 1 .. Len(new) : g[Len(got) + i] = new[i]
    BY <1>1, <1>18, ConcatIsSequence
  <2>2. Len(got) = f /\ Len(new) = k /\ got' = g
    BY <1>11, <1>12, <1>18
  <2> HIDE DEF g, f
  <2>3. QED
    BY <2>1, <2>2
<1> HIDE DEF f
<1>20. ASSUME NEW i \in DOMAIN got'
       PROVE  DecodeFrame(whole.frames[i]) # {} /\ got'[i] = Meaning(whole.frames[i])
  <2>1. i \in 1 .. f + k /\ f \in Nat /\ k \in Nat
    BY <1>17, <1>19
  <2>2. CASE i <= f
    <3>1. i \in 1 .. f /\ i \in DOMAIN got
      BY <1>19, <2>1, <2>2
    <3>2. QED
      BY <1>12, <1>17, <1>19, <3>1
  <2>3. CASE ~(i <= f)
    <3>1. i - f \in 1 .. k /\ i = f + (i - f)
      BY <2>1, <2>3
    <3> DEFINE j == i - f
    <3> HIDE DEF j
    <3>2. j \in 1 .. k /\ i = f + j
      BY <3>1 DEF j
    <3>3. whole.frames[i] = frames[j] /\ got'[i] = new[j] /\ new[j] = Meaning(frames[j])
      BY <1>17, <1>18, <1>19, <3>2
    <3>4. decoded[j] \in DecodeFrame(frames[j])
      BY <1>16, <3>2 DEF k
    <3>5. QED
      BY <3>3, <3>4
  <2>4. QED
    BY <2>2, <2>3
<1>21. whole = TakeFrames(SubSeq(stream', 1, arrived'))
  BY <1>3, <1>7 DEF whole, after
<1>22. Len(got') <= Len(whole.frames)
  <2>1. Len(got') = f + k /\ Len(whole.frames) = f + n /\ k <= l /\ l <= n
        /\ f \in Nat /\ k \in Nat /\ l \in Nat /\ n \in Nat
    BY <1>17, <1>19 DEF f, n, k, l
  <2>2. QED
    BY <2>1
<1>23. session' # "lost" => ~next.error /\ k = l /\ l = n
  <2>1. session' # "lost" => ~next.error /\ ~(k < l)
    BY <1>11 DEF k, l
  <2>2. ~next.error => l = n
    BY <1>15 DEF l, n
  <2>3. QED
    BY <1>17, <2>1, <2>2
<1>24. session' # "lost" =>
         /\ Len(got') = Len(whole.frames)
         /\ ~whole.error /\ framed' = whole.buffer
  BY <1>11, <1>13, <1>17, <1>19, <1>23
<1>25. ReadsTheFrames'
  BY <1>20, <1>21, <1>22, <1>24 DEF ReadsTheFrames
<1>26. LinkTyped'
  <2>1. scenario' \in Scenarios /\ arrived' \in 0 .. Len(stream')
    BY <1>1, <1>3, <1>5, <1>7
  <2>2. framed' \in Seq(0 .. 255) /\ incoming' \in Seq(0 .. 255)
    BY <1>4, <1>8, <1>10, <1>11 DEF B
  <2>3. QED
    BY <1>19, <2>1, <2>2 DEF LinkTyped
<1>27. QED
  BY <1>9, <1>25, <1>26 DEF LinkInv

\* Every other step leaves what was read alone.
LEMMA LinkRests ==
    ASSUME LinkInv, UNCHANGED <<scenario, arrived, incoming, framed, got>>,
           session' = session \/ (session' = "closed" /\ session = "up")
    PROVE  LinkTyped' /\ ReadsTheFrames'
<1>1. stream' = stream
  BY DEF stream
<1>2. QED
  BY <1>1 DEF LinkInv, LinkTyped, ReadsTheFrames, IsSequence

LEMMA LinkStays ==
    ASSUME LinkInv, UNCHANGED linkVars, RecordingInv'
    PROVE  LinkInv'
<1>1. UNCHANGED <<scenario, arrived, incoming, framed, got>>
  BY DEF linkVars
<1>2. session' = session
  BY DEF linkVars
<1>3. session' = session \/ (session' = "closed" /\ session = "up")
  BY <1>2
<1>4. LinkTyped' /\ ReadsTheFrames'
  BY <1>1, <1>3, LinkRests
<1>5. QED
  BY <1>4 DEF LinkInv

LEMMA LinkStep ==
    ASSUME LinkInv, [Next]_vars
    PROVE  LinkInv'
<1>1. RecordingInv
  BY DEF LinkInv
<1>2. CASE ChunkArrives
  BY <1>2, ChunkKeeps
<1>3. CASE AcksResult
  <2>1. PICK frame \in EncodeMessage([tag |-> LastResults.ack, revision |-> 1]) :
          Offers(Observe("send", <<>>, frame).events)
    BY <1>3 DEF AcksResult
  <2>2. LastResults.ack = "AcknowledgeResult"
    BY DEF LastResults, Subscription
  <2>3. IsSequence(frame)
    BY <2>1, <2>2, PlainFrames
  <2>4. PICK S : frame \in Seq(S)
    BY <2>3 DEF IsSequence
  <2>5. IsSequence(Observe("send", <<>>, frame).events)
    <3>1. <<>> \in Seq(S)
      OBVIOUS
    <3>2. QED
      BY <2>4, <3>1, ObserveTyped
  <2>6. RecordingInv'
    BY <1>1, <2>1, <2>5, OffersKeeps
  <2>7. UNCHANGED linkVars
    BY <1>3 DEF AcksResult
  <2>8. QED
    BY <2>6, <2>7, LinkStays
<1>4. CASE SaysGoodbye
  <2>1. PICK frame \in EncodeMessage([tag |-> "CommunicationStop", revision |-> 1]) :
          Offers(Observe("send", <<>>, frame).events)
    BY <1>4 DEF SaysGoodbye
  <2>2. IsSequence(frame)
    BY <2>1, PlainFrames
  <2>3. PICK S : frame \in Seq(S)
    BY <2>2 DEF IsSequence
  <2>4. IsSequence(Observe("send", <<>>, frame).events)
    <3>1. <<>> \in Seq(S)
      OBVIOUS
    <3>2. QED
      BY <2>3, <3>1, ObserveTyped
  <2>5. RecordingInv'
    BY <1>1, <2>1, <2>4, OffersKeeps
  <2>6. /\ UNCHANGED <<scenario, arrived, incoming, framed, got>>
        /\ session = "up" /\ session' = "closed"
    BY <1>4 DEF SaysGoodbye
  <2>7. QED
    BY <2>5, <2>6, LinkRests DEF LinkInv
<1>5. CASE Exits
  <2>1. /\ stage = "ended" /\ stage' = "exited"
        /\ UNCHANGED <<linkVars, rows, ended, traced, queue, batch, dropped, due>>
    BY <1>5 DEF Exits
  <2>2. RecordingInv'
    BY <1>1, <2>1 DEF RecordingInv, EndedRunIsComplete, Kept, Stored, Stages, IsSequence
  <2>3. QED
    BY <2>1, <2>2, LinkStays
<1>6. CASE Writes
  <2>1. Records /\ UNCHANGED linkVars
    BY <1>6 DEF Writes
  <2>2. QED
    BY <1>1, <2>1, RecordsKeeps, LinkStays
<1>7. CASE Stops
  <2>1. (ScopeCloses \/ IsKilled) /\ UNCHANGED linkVars
    BY <1>7 DEF Stops
  <2>2. QED
    BY <1>1, <2>1, ScopeClosesKeeps, IsKilledKeeps, LinkStays
<1>8. CASE OtherWrites
  <2>1. OtherInserts /\ UNCHANGED <<traced, queue, batch, dropped, stage, due>> /\ UNCHANGED linkVars
    BY <1>8 DEF OtherWrites
  <2>2. QED
    BY <1>1, <2>1, OtherInsertsKeeps, LinkStays
<1>9. CASE UNCHANGED <<linkVars, recordingVars>>
  <2>1. RecordingInv'
    BY <1>1, <1>9
    DEF RecordingInv, EndedRunIsComplete, Kept, Stored, IsSequence, recordingVars
  <2>2. QED
    BY <1>9, <2>1, LinkStays
<1>10. QED
  BY <1>2, <1>3, <1>4, <1>5, <1>6, <1>7, <1>8, <1>9 DEF Next, Looks, LosesFeed, vars

\* Whatever the sink was offered before the scope of the recording closed is in
\* the store when the run is over, but for what a failed statement lost: the
\* writer, its interruption and the last batch of the finalizer leave nothing
\* between them (Recording.ts:81-90).
THEOREM EndedRunsAreComplete == Spec => []EndedRunIsComplete
<1>1. LinkInv => EndedRunIsComplete
  BY DEF LinkInv, RecordingInv
<1>2. LinkInv /\ [Next]_vars => LinkInv'
  BY LinkStep
<1>3. QED
  BY <1>1, <1>2, LinkInit, PTL DEF Spec

\* ReadsTheFrames holds of every stream, every way to cut it and any way the
\* session ends.
THEOREM SessionReadsTheFrames == Spec => []ReadsTheFrames
<1>1. LinkInv => ReadsTheFrames
  BY DEF LinkInv
<1>2. LinkInv /\ [Next]_vars => LinkInv'
  BY LinkStep
<1>3. QED
  BY <1>1, <1>2, LinkInit, PTL DEF Spec

-----------------------------------------------------------------------------
(* What settles a request.                                                 *)

\* The message of a frame keeps the MID of its header: under the tag that has
\* it, or as an unknown message.
LEMMA MessageNamesItsMid ==
    ASSUME NEW text, NEW incomingFrame \in DecodeFrame(text)
    PROVE  LET header == incomingFrame.header
               message == incomingFrame.message
           IN  /\ MidOf(message) = header.mid
               /\ \/ message.tag = "UnknownMessage"
                  \/ /\ message.tag \in DOMAIN ByTag /\ header.revision = 1
                     /\ ByTag[message.tag].mid = header.mid
<1> DEFINE data == Part(text, HeaderLength, Len(text))
<1>1. PICK header \in DecodeHeader(text) :
        incomingFrame = [header |-> header, data |-> data, message |-> MessageOf(header, data)]
  BY DEF DecodeFrame
<1> HIDE DEF data
<1> DEFINE message == MessageOf(header, data)
           known == UNION {DecodeAs(tag, data) : tag \in TagsOf(header.mid, header.revision)}
<1>2. incomingFrame.header = header /\ incomingFrame.message = message
  BY <1>1
<1>3. message = OrElse(known, UnknownOf(header, data))
  BY DEF MessageOf
<1> HIDE DEF message
<1>4. CASE known = {}
  <2>1. message = UnknownOf(header, data)
    BY <1>3, <1>4 DEF OrElse
  <2>2. message.tag = "UnknownMessage" /\ message.mid = header.mid
    BY <2>1 DEF UnknownOf
  <2>3. QED
    BY <1>2, <2>2 DEF MidOf
<1>5. CASE known # {}
  <2>1. message \in known
    BY <1>3, <1>5 DEF OrElse
  <2>2. PICK tag \in TagsOf(header.mid, header.revision) : message \in DecodeAs(tag, data)
    BY <2>1
  <2>3. tag \in DOMAIN ByTag /\ ByTag[tag].mid = header.mid /\ header.revision = 1
    BY <2>2 DEF TagsOf
  <2>4. PICK fields : message = Beside([tag |-> tag, revision |-> 1], fields)
    BY <2>2 DEF DecodeAs
  <2>5. message.tag = tag
    BY <2>4 DEF Beside
  <2>6. tag # "UnknownMessage"
    BY <2>3, Definitions
  <2>7. MidOf(message) = header.mid
    BY <2>3, <2>5, <2>6 DEF MidOf
  <2>8. QED
    BY <1>2, <2>3, <2>5, <2>7
<1>6. QED
  BY <1>4, <1>5

\* What a message that concerns a request makes of it.
VerdictOf(message) ==
    IF message.tag = "CommandError" THEN "rejected"
    ELSE IF message.tag = "UnknownMessage" THEN "failed" ELSE "answered"

\* offer: a frame settles the request exactly when its message concerns it,
\* and settles it as that message says.
LEMMA SettlesIsConcern ==
    ASSUME NEW text, NEW incomingFrame \in DecodeFrame(text),
           NEW tag \in DOMAIN ByTag, IsRequest(ByTag[tag])
    PROVE  Settles(ByTag[tag], incomingFrame) =
             {VerdictOf(m) : m \in {n \in {incomingFrame.message} : Concerns(n, ByTag[tag])}}
<1> DEFINE asked == ByTag[tag]
           message == incomingFrame.message
           header == incomingFrame.header
           reply == asked.reply
<1>1. /\ MidOf(message) = header.mid
      /\ \/ message.tag = "UnknownMessage"
         \/ /\ message.tag \in DOMAIN ByTag /\ header.revision = 1
            /\ ByTag[message.tag].mid = header.mid
  BY MessageNamesItsMid
<1>2. /\ "UnknownMessage" \notin DOMAIN ByTag
      /\ "CommandError" \in DOMAIN ByTag /\ "CommandAccepted" \in DOMAIN ByTag
      /\ reply # "CommandError"
  BY Definitions
<1>3. /\ reply \in DOMAIN ByTag
      /\ \A one, other \in DOMAIN ByTag : ByTag[one].mid = ByTag[other].mid => one = other
  BY MidsAssumption
<1> HIDE DEF asked, message, header
<1> SUFFICES Settles(asked, incomingFrame) =
               {VerdictOf(m) : m \in {n \in {message} : Concerns(n, asked)}}
  BY DEF asked, message
<1>4. CASE message.tag = "CommandError" /\ message.mid = asked.mid
  <2>1. Settles(asked, incomingFrame) = {"rejected"}
    BY <1>4 DEF Settles, Acknowledges, message
  <2>2. Concerns(message, asked) /\ VerdictOf(message) = "rejected"
    BY <1>4 DEF Concerns, VerdictOf
  <2>3. QED
    BY <2>1, <2>2
<1>5. CASE ~(message.tag = "CommandError" /\ message.mid = asked.mid) /\ reply = "CommandAccepted"
  <2>1. Settles(asked, incomingFrame) =
          {"answered" : m \in {n \in {message} : Acknowledges(n, "CommandAccepted", asked.mid)}}
    BY <1>5 DEF Settles, Acknowledges, message
  <2>2. Concerns(message, asked) <=> Acknowledges(message, "CommandAccepted", asked.mid)
    BY <1>5 DEF Concerns, Acknowledges
  <2>3. Concerns(message, asked) => VerdictOf(message) = "answered"
    BY <2>2 DEF VerdictOf, Acknowledges
  <2>4. QED
    BY <2>1, <2>2, <2>3
<1>6. CASE ~(message.tag = "CommandError" /\ message.mid = asked.mid) /\ reply # "CommandAccepted"
  <2> DEFINE said == IF header.revision = 1 /\ message.tag = reply THEN "answered" ELSE "failed"
  <2>1. Settles(asked, incomingFrame) = {said : mid \in {header.mid} \cap {ByTag[reply].mid}}
    BY <1>6 DEF Settles, Acknowledges, ReplyIn, message, header
  <2>2. Concerns(message, asked) <=> header.mid = ByTag[reply].mid
    BY <1>1, <1>6 DEF Concerns
  <2>3. Concerns(message, asked) => VerdictOf(message) = said
    <3>1. SUFFICES ASSUME header.mid = ByTag[reply].mid
                   PROVE  VerdictOf(message) = said
      BY <2>2
    <3>2. CASE message.tag = "UnknownMessage"
      BY <1>2, <1>3, <3>2 DEF VerdictOf
    <3>3. CASE message.tag \in DOMAIN ByTag /\ header.revision = 1
               /\ ByTag[message.tag].mid = header.mid
      <4>1. message.tag = reply
        BY <1>3, <3>1, <3>3
      <4>2. message.tag # "CommandError" /\ message.tag # "UnknownMessage"
        BY <1>2, <3>3, <4>1
      <4>3. QED
        BY <3>3, <4>1, <4>2 DEF VerdictOf
    <3>4. QED
      BY <1>1, <3>2, <3>3
  <2>4. QED
    BY <2>1, <2>2, <2>3
<1>7. QED
  BY <1>4, <1>5, <1>6

\* A first element keeps its place when something comes behind.
LEMMA OutcomeExtended ==
    ASSUME NEW s, NEW t, IsSequence(s), IsSequence(t), NEW asked
    PROVE  Outcome(s \o t, asked) =
             IF Outcome(s, asked) = "none" THEN Outcome(t, asked) ELSE Outcome(s, asked)
<1> DEFINE w == s \o t
           Own(g) == {i \in DOMAIN g : Concerns(g[i], asked)}
<1>1. ASSUME NEW g
      PROVE  Outcome(g, asked) = IF Own(g) = {} THEN "none" ELSE VerdictOf(g[Min(Own(g))])
  BY DEF Outcome, VerdictOf
<1>2. /\ Len(s) \in Nat /\ Len(t) \in Nat
      /\ DOMAIN s = 1 .. Len(s) /\ DOMAIN t = 1 .. Len(t) /\ DOMAIN w = 1 .. Len(s) + Len(t)
      /\ \A i \in 1 .. Len(s) : w[i] = s[i]
      /\ \A i \in 1 .. Len(t) : w[Len(s) + i] = t[i]
  BY ConcatIsSequence
<1> DEFINE n == Len(s)
           m == Len(t)
<1> HIDE DEF w
<1>3. \A i \in 1 .. n : i \in Own(w) <=> i \in Own(s)
  BY <1>2
<1>4. \A i \in 1 .. m : n + i \in Own(w) <=> i \in Own(t)
  BY <1>2
<1>5. Own(s) \subseteq 1 .. n /\ Own(t) \subseteq 1 .. m /\ Own(w) \subseteq 1 .. n + m
  BY <1>2
<1> DEFINE os == Own(s)
           ot == Own(t)
           ow == Own(w)
<1>6. Outcome(s, asked) = "none" <=> os = {}
  BY <1>1 DEF VerdictOf
<1>7. Outcome(t, asked) = IF ot = {} THEN "none" ELSE VerdictOf(t[Min(ot)])
  BY <1>1
<1>8. Outcome(s, asked) = IF os = {} THEN "none" ELSE VerdictOf(s[Min(os)])
  BY <1>1
<1>9. Outcome(w, asked) = IF ow = {} THEN "none" ELSE VerdictOf(w[Min(ow)])
  BY <1>1
<1>10. /\ n \in Nat /\ m \in Nat
       /\ \A i \in 1 .. n : w[i] = s[i]
       /\ \A i \in 1 .. m : w[n + i] = t[i]
       /\ \A i \in 1 .. n : i \in ow <=> i \in os
       /\ \A i \in 1 .. m : n + i \in ow <=> i \in ot
       /\ os \subseteq 1 .. n /\ ot \subseteq 1 .. m /\ ow \subseteq 1 .. n + m
  BY <1>2, <1>3, <1>4, <1>5
<1> HIDE DEF n, m, os, ot, ow
<1>11. CASE os # {}
  <2>1. os \in SUBSET Nat
    BY <1>10
  <2>2. Min(os) \in os /\ \A j \in os : Min(os) <= j
    BY <1>11, <2>1, MinIsLeast
  <2>3. Min(os) \in 1 .. n /\ Min(os) \in ow
    BY <1>10, <2>2
  <2>4. ow \in SUBSET Nat /\ ow # {}
    BY <1>10, <2>3
  <2>5. Min(ow) \in ow /\ \A j \in ow : Min(ow) <= j
    BY <2>4, MinIsLeast
  <2> DEFINE a == Min(os)
             b == Min(ow)
  <2>6. a \in os /\ a \in 1 .. n /\ a \in ow /\ b \in ow /\ b \in Nat
        /\ (\A j \in os : a <= j) /\ (\A j \in ow : b <= j)
    BY <2>2, <2>3, <2>4, <2>5
  <2> HIDE DEF a, b
  <2>7. b <= a /\ b \in 1 .. n
    BY <1>10, <2>6
  <2>8. b \in os
    BY <1>10, <2>6, <2>7
  <2>9. a = b
    BY <2>6, <2>7, <2>8
  <2>10. VerdictOf(w[Min(ow)]) = VerdictOf(s[Min(os)])
    BY <1>10, <2>7, <2>9 DEF a, b
  <2>11. QED
    BY <1>6, <1>8, <1>9, <1>11, <2>4, <2>10 DEF w
<1>12. CASE os = {} /\ ot # {}
  <2>1. ot \in SUBSET Nat
    BY <1>10
  <2>2. Min(ot) \in ot /\ \A j \in ot : Min(ot) <= j
    BY <1>12, <2>1, MinIsLeast
  <2>3. Min(ot) \in 1 .. m /\ n + Min(ot) \in ow
    BY <1>10, <2>2
  <2>4. ow \in SUBSET Nat /\ ow # {}
    BY <1>10, <2>3
  <2>5. Min(ow) \in ow /\ \A j \in ow : Min(ow) <= j
    BY <2>4, MinIsLeast
  <2> DEFINE a == Min(ot)
             b == Min(ow)
  <2>6. a \in 1 .. m /\ n + a \in ow /\ b \in ow /\ b \in 1 .. n + m
        /\ (\A j \in ot : a <= j) /\ (\A j \in ow : b <= j)
    BY <1>10, <2>2, <2>3, <2>5
  <2> HIDE DEF a, b
  <2>7. ~(b <= n)
    <3>1. b \in 1 .. n => b \in os
      BY <1>10, <2>6
    <3>2. QED
      BY <1>10, <1>12, <2>6, <3>1
  <2>8. b - n \in 1 .. m /\ b = n + (b - n)
    BY <1>10, <2>6, <2>7
  <2> DEFINE c == b - n
  <2>9. c \in 1 .. m /\ b = n + c
    BY <2>8
  <2> HIDE DEF c
  <2>10. c \in ot
    BY <1>10, <2>6, <2>9
  <2>11. n + a = b
    <3>1. a <= c /\ b <= n + a
      BY <2>6, <2>10
    <3>2. QED
      BY <1>10, <2>6, <2>9, <3>1
  <2>12. w[Min(ow)] = t[Min(ot)]
    BY <1>10, <2>6, <2>11 DEF a, b
  <2>13. QED
    BY <1>6, <1>7, <1>9, <1>12, <2>4, <2>12 DEF w
<1>13. CASE os = {} /\ ot = {}
  <2>1. ow = {}
    <3>1. ASSUME NEW j \in ow
          PROVE  FALSE
      <4>1. j \in 1 .. n + m
        BY <1>10
      <4>2. CASE j <= n
        <5>1. j \in 1 .. n
          BY <1>10, <4>1, <4>2
        <5>2. QED
          BY <1>10, <1>13, <5>1
      <4>3. CASE ~(j <= n)
        <5>1. j - n \in 1 .. m /\ n + (j - n) = j
          BY <1>10, <4>1, <4>3
        <5>2. n + (j - n) \in ow
          BY <5>1
        <5>3. QED
          BY <1>10, <1>13, <5>1, <5>2
      <4>4. QED
        BY <4>2, <4>3
    <3>2. QED
      BY <3>1
  <2>2. QED
    BY <1>6, <1>7, <1>9, <1>13, <2>1 DEF w
<1>14. QED
  BY <1>11, <1>12, <1>13

\* One read of the session, and the frames it takes from its framer.
LEMMA ChunkReads ==
    ASSUME LinkInv, ChunkArrives
    PROVE  \E next : Reads(next) /\ IsSequence(next.frames)
<1> DEFINE B == 0 .. 255
<1>1. /\ scenario \in Scenarios /\ arrived \in 0 .. Len(stream) /\ framed \in Seq(B)
  BY DEF LinkInv, LinkTyped
<1>2. stream \in Seq(B) /\ Len(stream) \in Nat /\ scenario.cuts \subseteq 0 .. Len(stream)
  BY <1>1, ScenarioTyped
<1>3. PICK upTo \in scenario.cuts \cup {Len(stream)} :
        /\ arrived < upTo
        /\ Reads(Step(framed, SubSeq(stream, arrived + 1, upTo)))
  BY DEF ChunkArrives
<1> DEFINE chunk == SubSeq(stream, arrived + 1, upTo)
           next == Step(framed, chunk)
<1>4. arrived \in Nat /\ upTo \in Nat /\ arrived <= upTo /\ upTo <= Len(stream)
  BY <1>1, <1>2, <1>3
<1>5. chunk \in Seq(B)
  <2> DEFINE s == stream
  <2>1. s \in Seq(B) /\ upTo <= Len(s)
    BY <1>2, <1>4
  <2> HIDE DEF s, B
  <2>2. SubSeq(s, arrived + 1, upTo) \in Seq(B)
    BY <1>4, <2>1, CutInTwo
  <2>3. QED
    BY <2>2 DEF s
<1> HIDE DEF B, chunk
<1>6. framed \o chunk \in Seq(B)
  BY <1>1, <1>5
<1>7. next.frames \in Seq(Seq(B))
  BY <1>6, TakeFramesTyped DEF Step
<1> HIDE DEF next
<1>8. IsSequence(next.frames) /\ Reads(next)
  BY <1>3, <1>7 DEF IsSequence, next, chunk
<1>9. QED
  BY <1>8

SettledInv == LinkInv /\ SettledByItsOwn

LEMMA SettledStep ==
    ASSUME SettledInv, [Next]_vars
    PROVE  SettledInv'
<1>1. LinkInv /\ SettledByItsOwn /\ LinkInv'
  BY LinkStep DEF SettledInv
<1>2. scenario \in Scenarios /\ IsSequence(got)
  BY <1>1 DEF LinkInv, LinkTyped
<1>3. CASE UNCHANGED <<scenario, got, outcome>>
  <2>1. request' = request /\ Asked' = Asked
    BY <1>3 DEF request, Asked
  <2>2. SettledByItsOwn'
    BY <1>1, <1>3, <2>1 DEF SettledByItsOwn
  <2>3. QED
    BY <1>1, <2>2 DEF SettledInv
<1>4. CASE ChunkArrives
  <2>1. UNCHANGED scenario
    BY <1>4 DEF ChunkArrives
  <2>2. request' = request /\ Asked' = Asked
    BY <2>1 DEF request, Asked
  <2> SUFFICES ASSUME request # NoRequest
               PROVE  outcome' = Outcome(got', Asked)
    BY <1>1, <2>2 DEF SettledInv, SettledByItsOwn
  <2>3. request \in DOMAIN ByTag /\ IsRequest(ByTag[request])
    BY <1>2, ScenarioTyped
  <2>4. outcome = Outcome(got, Asked)
    BY <1>1 DEF SettledByItsOwn
  <2>5. PICK next : Reads(next) /\ IsSequence(next.frames)
    BY <1>1, <1>4, ChunkReads
  <2> DEFINE frames == IF next.error THEN <<>> ELSE next.frames
             decoded == DecodedUntil([i \in DOMAIN frames |-> DecodeFrame(frames[i])])
             new == [i \in DOMAIN decoded |-> decoded[i].message]
             settling == Settling(decoded)
             own == {i \in DOMAIN new : Concerns(new[i], Asked)}
  <2>6. /\ got' = got \o new
        /\ outcome' = IF outcome = "none" /\ settling # {}
                      THEN CHOOSE v \in Settles(Asked, decoded[Min(settling)]) : TRUE
                      ELSE outcome
    <3>1. got' = got \o new
      BY <2>5 DEF Reads
    <3>2. outcome' = IF outcome = "none" /\ settling # {}
                     THEN CHOOSE v \in Settles(Asked, decoded[Min(settling)]) : TRUE
                     ELSE outcome
      BY <2>5, Zenon DEF Reads
    <3> HIDE DEF new, settling, decoded
    <3>3. QED
      BY <3>1, <3>2
  <2>7. IsSequence(frames)
    BY <2>5 DEF IsSequence
  <2> HIDE DEF frames
  <2>8. /\ IsSequence(decoded) /\ Len(decoded) \in Nat
        /\ DOMAIN decoded = 1 .. Len(decoded)
        /\ \A i \in 1 .. Len(decoded) : decoded[i] \in DecodeFrame(frames[i])
    <3>1. /\ IsSequence(decoded) /\ Len(decoded) \in 0 .. Len(frames)
          /\ DOMAIN decoded = 1 .. Len(decoded)
          /\ \A i \in 1 .. Len(decoded) : decoded[i] \in DecodeFrame(frames[i])
      BY <2>7, DecodedInOrder
    <3> HIDE DEF decoded
    <3>2. Len(decoded) \in Nat
      BY <3>1
    <3>3. QED
      BY <3>1, <3>2
  <2> HIDE DEF decoded
  <2>9. DOMAIN new = DOMAIN decoded /\ \A i \in DOMAIN new : new[i] = decoded[i].message
    OBVIOUS
  <2>10. IsSequence(new)
    <3> DEFINE k == Len(decoded)
    <3>1. new \in [1 .. k -> Range(new)] /\ k \in Nat
      BY <2>8 DEF Range
    <3> HIDE DEF new, k
    <3>2. new \in Seq(Range(new))
      BY <3>1
    <3>3. QED
      BY <3>2 DEF IsSequence
  <2> HIDE DEF new
  <2>11. \A i \in DOMAIN decoded :
           Settles(Asked, decoded[i]) = {VerdictOf(m) : m \in {n \in {new[i]} : Concerns(n, Asked)}}
    <3>1. ASSUME NEW i \in DOMAIN decoded
          PROVE  Settles(Asked, decoded[i])
                   = {VerdictOf(m) : m \in {n \in {new[i]} : Concerns(n, Asked)}}
      <4>1. decoded[i] \in DecodeFrame(frames[i]) /\ new[i] = decoded[i].message
        BY <2>8, <2>9
      <4>2. Settles(Asked, decoded[i])
              = {VerdictOf(m) : m \in {n \in {decoded[i].message} : Concerns(n, Asked)}}
        BY <2>3, <4>1, SettlesIsConcern DEF Asked
      <4>3. QED
        BY <4>1, <4>2
    <3>2. QED
      BY <3>1
  <2>12. settling = own
    BY <2>9, <2>11 DEF Settling
  <2>13. Outcome(new, Asked) = IF own = {} THEN "none" ELSE VerdictOf(new[Min(own)])
    BY DEF Outcome, VerdictOf
  <2>14. own # {} =>
           (CHOOSE v \in Settles(Asked, decoded[Min(settling)]) : TRUE) = VerdictOf(new[Min(own)])
    <3>1. SUFFICES ASSUME own # {}
                   PROVE  (CHOOSE v \in Settles(Asked, decoded[Min(settling)]) : TRUE)
                            = VerdictOf(new[Min(own)])
      OBVIOUS
    <3>2. own \in SUBSET Nat
      BY <2>8, <2>9
    <3> HIDE DEF own
    <3>3. Min(own) \in own
      BY <3>1, <3>2, MinIsLeast
    <3> DEFINE i == Min(own)
    <3>4. i \in DOMAIN decoded /\ Concerns(new[i], Asked)
      BY <2>9, <3>3 DEF own
    <3> HIDE DEF i
    <3>5. Settles(Asked, decoded[i]) = {VerdictOf(new[i])}
      BY <2>11, <3>4
    <3>6. QED
      BY <2>12, <3>5 DEF i
  <2>15. outcome' = IF outcome = "none" THEN Outcome(new, Asked) ELSE outcome
    <3> HIDE DEF own, settling
    <3>1. QED
      BY <2>6, <2>12, <2>13, <2>14
  <2>16. QED
    BY <1>2, <2>4, <2>6, <2>10, <2>15, OutcomeExtended
<1>5. CASE Next
  <2>1. ChunkArrives \/ UNCHANGED <<scenario, got, outcome>>
    BY <1>5 DEF Next, AcksResult, SaysGoodbye, Exits, Writes, Stops, OtherWrites, Looks, LosesFeed,
                linkVars
  <2>2. QED
    BY <1>3, <1>4, <2>1
<1>6. QED
  <2>1. CASE UNCHANGED vars
    BY <1>3, <2>1 DEF vars, linkVars
  <2>2. QED
    BY <1>5, <2>1

LEMMA SettledInit == Init => SettledInv
<1> SUFFICES ASSUME Init PROVE SettledInv
  OBVIOUS
<1>1. got = <<>> /\ outcome = "none"
  BY DEF Init
<1>2. SettledByItsOwn
  BY <1>1 DEF SettledByItsOwn, Outcome
<1>3. QED
  BY <1>2, LinkInit DEF SettledInv

\* A request is settled by the first message read that concerns it: its
\* rejection, its acknowledgement, or the MID of its reply; one of another
\* revision or one that cannot be read fails it.  No other message settles it,
\* whatever is asked and whatever comes (RequestReply.ts:98-104, Mid.ts:363-381).
THEOREM RequestsSettleAlone == Spec => []SettledByItsOwn
<1>1. SettledInv /\ [Next]_vars => SettledInv'
  BY SettledStep
<1>2. SettledInv => SettledByItsOwn
  BY DEF SettledInv
<1>3. QED
  BY <1>1, <1>2, SettledInit, PTL DEF Spec

-----------------------------------------------------------------------------
(* Numbers as they are written.                                            *)

LEMMA TenTimes ==
    /\ TenTo(0) = 1
    /\ \A k \in 0 .. 9 : TenTo(k) \in Nat \ {0}
    /\ \A k \in 0 .. 8 : TenTo(k + 1) = 10 * TenTo(k)
<1> DEFINE t == <<1, 10, 100, 1000, 10000, 100000, 1000000, 10000000, 100000000, 1000000000>>
<1>1. /\ t[1] = 1 /\ t[2] = 10 /\ t[3] = 100 /\ t[4] = 1000 /\ t[5] = 10000
      /\ t[6] = 100000 /\ t[7] = 1000000 /\ t[8] = 10000000 /\ t[9] = 100000000
      /\ t[10] = 1000000000
  OBVIOUS
<1>2. \A k \in 0 .. 9 : TenTo(k) = t[k + 1]
  BY DEF TenTo
<1> HIDE DEF t
<1>3. /\ TenTo(0) = 1 /\ TenTo(1) = 10 /\ TenTo(2) = 100 /\ TenTo(3) = 1000
      /\ TenTo(4) = 10000 /\ TenTo(5) = 100000 /\ TenTo(6) = 1000000
      /\ TenTo(7) = 10000000 /\ TenTo(8) = 100000000 /\ TenTo(9) = 1000000000
  BY <1>1, <1>2
<1>4. \A k \in 0 .. 9 : k \in {0, 1, 2, 3, 4, 5, 6, 7, 8, 9}
  OBVIOUS
<1>5. \A k \in 0 .. 8 : k \in {0, 1, 2, 3, 4, 5, 6, 7, 8}
  OBVIOUS
<1>6. QED
  BY <1>3, <1>4, <1>5

\* The digit at a place is what is left of a number up to it.
LEMMA DigitAtPlace ==
    ASSUME NEW number \in Nat, NEW k \in 0 .. 8
    PROVE  /\ number \div TenTo(k) \in Nat
           /\ number \div TenTo(k) =
                10 * (number \div TenTo(k + 1)) + ((number \div TenTo(k)) % 10)
<1>1. \A m \in Nat \ {0} :
         /\ number \div m \in Nat
         /\ (number \div m) \div 10 = number \div (10 * m)
  OBVIOUS
<1> DEFINE m == TenTo(k)
           x == number \div m
<1>2. m \in Nat \ {0} /\ TenTo(k + 1) = 10 * m
  <2>1. k \in 0 .. 9
    OBVIOUS
  <2>2. QED
    BY <2>1, TenTimes
<1> HIDE DEF m
<1>3. x \in Nat /\ x \div 10 = number \div (10 * m)
  BY <1>1, <1>2
<1> HIDE DEF x
<1>4. x = 10 * (x \div 10) + (x % 10)
  BY <1>3
<1>5. QED
  BY <1>2, <1>3, <1>4 DEF m, x

\* What the reading of a text of digits makes of each of its fronts.
LEMMA NumberSteps ==
    ASSUME NEW S, NEW text \in Seq(S)
    PROVE  \E v : /\ v[0] = 0
                  /\ \A k \in 1 .. Len(text) : v[k] = 10 * v[k - 1] + (text[k] - Zero)
                  /\ NumberOf(text) = v[Len(text)]
<1> DEFINE n == Len(text)
<1>1. n \in Nat /\ DOMAIN text = 1 .. n
  OBVIOUS
<1>2. NumberOf(text) = (CHOOSE iter : Folds(iter, text, 1 .. n))[1 .. n]
  BY <1>1 DEF NumberOf, FoldLeft, MapThenFoldSet, Folds
<1>3. PICK iter : Folds(iter, text, 1 .. n) /\ NumberOf(text) = iter[1 .. n]
  <2>1. \E i : Folds(i, text, 1 .. n)
    BY <1>1, FoldExists
  <2>2. QED
    BY <2>1, <1>2
<1> DEFINE v == [k \in 0 .. n |-> iter[1 .. k]]
<1>4. v[0] = 0
  <2>1. 1 .. 0 = {} /\ {} \in SUBSET (1 .. n)
    OBVIOUS
  <2>2. iter[{}] = 0
    BY <1>3, <2>1 DEF Folds
  <2>3. QED
    BY <2>1, <2>2, <1>1
<1>5. ASSUME NEW k \in 1 .. n
      PROVE  v[k] = 10 * v[k - 1] + (text[k] - Zero)
  <2> DEFINE s == 1 .. k
  <2>1. k \in Nat /\ s \in SUBSET (1 .. n) /\ s \in SUBSET (1 .. k) /\ k \in s
    BY <1>1
  <2>2. Max(s) \in s /\ \A y \in s : Max(s) >= y
    BY <2>1, MaxIsGreatest
  <2>3. Max(s) = k
    BY <2>1, <2>2
  <2>4. s \ {k} = 1 .. k - 1
    BY <2>1
  <2>5. iter[s] = 10 * iter[s \ {Max(s)}] + (text[Max(s)] - Zero)
    <3> HIDE DEF s
    <3>1. s # {}
      BY <2>1
    <3>2. QED
      BY <1>3, <2>1, <3>1 DEF Folds
  <2>6. k \in 0 .. n /\ k - 1 \in 0 .. n
    BY <1>1
  <2>7. QED
    BY <2>3, <2>4, <2>5, <2>6
<1>6. NumberOf(text) = v[n]
  BY <1>1, <1>3
<1> HIDE DEF v
<1>7. QED
  BY <1>4, <1>5, <1>6

LEMMA DigitsAreText ==
    ASSUME NEW number \in Nat, NEW count \in 1 .. 10
    PROVE  LET t == DigitsOf(number, count)
           IN  /\ t \in Seq(Zero .. Zero + 9) /\ Len(t) = count /\ IsDigits(t)
               /\ \A i \in 1 .. count : t[i] = Zero + ((number \div TenTo(count - i)) % 10)
<1> DEFINE t == DigitsOf(number, count)
<1>1. \A i \in 1 .. count : count - i \in 0 .. 9
  OBVIOUS
<1>2. \A m \in Nat \ {0} : (number \div m) % 10 \in 0 .. 9
  OBVIOUS
<1>3. ASSUME NEW i \in 1 .. count
      PROVE  /\ t[i] = Zero + ((number \div TenTo(count - i)) % 10)
             /\ t[i] \in Zero .. Zero + 9
  <2>1. t[i] = Zero + ((number \div TenTo(count - i)) % 10)
    BY DEF DigitsOf
  <2>2. (number \div TenTo(count - i)) % 10 \in 0 .. 9
    BY <1>1, <1>2, TenTimes
  <2> HIDE DEF t
  <2>3. QED
    BY <2>1, <2>2 DEF Zero
<1>4. t = [i \in 1 .. count |-> t[i]]
  BY DEF DigitsOf
<1> HIDE DEF t
<1>5. t \in Seq(Zero .. Zero + 9) /\ Len(t) = count /\ DOMAIN t = 1 .. count
  <2> DEFINE D == Zero .. Zero + 9
  <2>1. t \in [1 .. count -> D] /\ count \in Nat
    BY <1>3, <1>4
  <2> HIDE DEF D
  <2>2. t \in Seq(D) /\ Len(t) = count /\ DOMAIN t = 1 .. count
    BY <2>1
  <2>3. QED
    BY <2>2 DEF D
<1>6. IsDigits(t)
  BY <1>3, <1>5 DEF IsDigits, IsDigit
<1>7. QED
  BY <1>3, <1>5, <1>6 DEF t

\* A number of at most ten digits is read as it was written.
LEMMA DigitsAreRead ==
    ASSUME NEW number \in Nat, NEW count \in 1 .. 10, number \div TenTo(count - 1) <= 9
    PROVE  NumberOf(DigitsOf(number, count)) = number
<1> DEFINE t == DigitsOf(number, count)
<1>1. /\ t \in Seq(Zero .. Zero + 9) /\ Len(t) = count
      /\ \A i \in 1 .. count : t[i] = Zero + ((number \div TenTo(count - i)) % 10)
  BY DigitsAreText
<1> HIDE DEF t
<1>2. PICK v : /\ v[0] = 0
               /\ \A k \in 1 .. count : v[k] = 10 * v[k - 1] + (t[k] - Zero)
               /\ NumberOf(t) = v[count]
  BY <1>1, NumberSteps
<1>3. \A k \in 1 .. count : /\ t[k] - Zero = (number \div TenTo(count - k)) % 10
                            /\ (number \div TenTo(count - k)) \in Nat
  <2> SUFFICES ASSUME NEW k \in 1 .. count
               PROVE  /\ t[k] - Zero = (number \div TenTo(count - k)) % 10
                      /\ (number \div TenTo(count - k)) \in Nat
    OBVIOUS
  <2>1. count - k \in 0 .. 9
    OBVIOUS
  <2>2. TenTo(count - k) \in Nat \ {0}
    BY <2>1, TenTimes
  <2>3. \A m \in Nat \ {0} : number \div m \in Nat /\ (number \div m) % 10 \in 0 .. 9
    OBVIOUS
  <2>4. QED
    BY <1>1, <2>2, <2>3 DEF Zero
<1> DEFINE Wrong == {k \in 1 .. count : v[k] # number \div TenTo(count - k)}
<1>4. Wrong = {}
  <2> SUFFICES ASSUME Wrong # {} PROVE FALSE
    OBVIOUS
  <2>1. Wrong \in SUBSET Nat
    OBVIOUS
  <2>2. PICK k \in Wrong : \A j \in Wrong : k <= j
    <3> HIDE DEF Wrong
    <3>1. QED
      BY <2>1, LeastNumber
  <2>3. k \in 1 .. count /\ v[k] # number \div TenTo(count - k)
    OBVIOUS
  <2>4. v[k] = 10 * v[k - 1] + ((number \div TenTo(count - k)) % 10)
    BY <1>2, <1>3, <2>3
  <2>5. CASE k = 1
    <3>1. v[1] = (number \div TenTo(count - 1)) % 10
      BY <1>2, <1>3, <2>4, <2>5
    <3>2. (number \div TenTo(count - 1)) \in Nat
      BY <1>3, <2>3, <2>5
    <3>3. (number \div TenTo(count - 1)) % 10 = number \div TenTo(count - 1)
      BY <3>2
    <3>4. QED
      BY <2>3, <2>5, <3>1, <3>3
  <2>6. CASE k # 1
    <3>1. k - 1 \in 1 .. count /\ ~ (k <= k - 1)
      BY <2>3, <2>6
    <3>2. k - 1 \notin Wrong
      BY <2>2, <3>1
    <3>3. v[k - 1] = number \div TenTo(count - (k - 1))
      BY <3>1, <3>2
    <3>4. count - k \in 0 .. 8 /\ count - (k - 1) = (count - k) + 1
      BY <2>3, <2>6
    <3>5. number \div TenTo(count - k) =
            10 * (number \div TenTo((count - k) + 1)) + ((number \div TenTo(count - k)) % 10)
      BY <3>4, DigitAtPlace
    <3>6. QED
      BY <2>3, <2>4, <3>3, <3>4, <3>5
  <2>7. QED
    BY <2>5, <2>6
<1>5. v[count] = number \div TenTo(0)
  <2>1. count \notin Wrong /\ count \in 1 .. count /\ count - count = 0
    BY <1>4
  <2>2. QED
    BY <2>1
<1>6. number \div 1 = number
  OBVIOUS
<1>7. QED
  BY <1>2, <1>5, <1>6, TenTimes DEF t

\* A number that fits its width is written on just that many digits.
LEMMA PadNumberFits ==
    ASSUME NEW number \in Nat, NEW width \in 1 .. 10, number \div TenTo(width - 1) <= 9
    PROVE  PadNumber(number, width) = DigitsOf(number, width)
<1> DEFINE K == {k \in 1 .. 10 : k = 10 \/ number < TenTo(k)}
           needs == Min(K)
<1>1. K \in SUBSET Nat /\ 10 \in K /\ width \in K
  <2>1. CASE width = 10
    BY <2>1
  <2>2. CASE width # 10
    <3>1. width - 1 \in 0 .. 8 /\ (width - 1) + 1 = width
      BY <2>2
    <3> DEFINE m == TenTo(width - 1)
    <3>2. m \in Nat \ {0} /\ TenTo(width) = 10 * m /\ number \div m <= 9
      <4>1. width - 1 \in 0 .. 9
        BY <3>1
      <4>2. QED
        BY <3>1, <4>1, TenTimes
    <3> HIDE DEF m
    <3>3. \A n \in Nat, d \in Nat \ {0} : n \div d <= 9 => n < 10 * d
      OBVIOUS
    <3>4. number < TenTo(width)
      BY <3>2, <3>3
    <3>5. QED
      BY <3>4
  <2>3. QED
    BY <2>1, <2>2
<1> HIDE DEF K
<1>2. needs \in K /\ needs <= width
  BY <1>1, MinIsLeast
<1>3. needs \in 1 .. width
  BY <1>2 DEF K
<1>4. Needs(number) = needs
  BY DEF Needs, K
<1> HIDE DEF needs
<1>5. {width, needs} \in SUBSET (1 .. width) /\ width \in {width, needs}
  BY <1>3
<1>6. Max({width, needs}) = width
  <2> DEFINE T == {width, needs}
  <2>1. T # {} /\ T \in SUBSET (1 .. width) /\ width \in T /\ width \in Nat
    BY <1>5
  <2> HIDE DEF T
  <2>2. Max(T) \in T /\ Max(T) >= width
    BY <2>1, MaxIsGreatest
  <2>3. Max(T) \in 1 .. width
    BY <2>1, <2>2
  <2>4. QED
    BY <2>2, <2>3 DEF T
<1>7. QED
  BY <1>4, <1>6 DEF PadNumber

LEMMA NumbersAreRead ==
    ASSUME NEW number \in Nat, NEW width \in 1 .. 10, number \div TenTo(width - 1) <= 9
    PROVE  LET t == PadNumber(number, width)
           IN  /\ t \in Seq(0 .. 127) /\ Len(t) = width /\ IsDigits(t)
               /\ NumberOf(t) = number
<1> DEFINE t == DigitsOf(number, width)
<1>1. t \in Seq(Zero .. Zero + 9) /\ Len(t) = width /\ IsDigits(t)
  BY DigitsAreText
<1>2. NumberOf(t) = number
  BY DigitsAreRead
<1>3. PadNumber(number, width) = t
  BY PadNumberFits
<1> HIDE DEF t
<1>4. t \in Seq(0 .. 127)
  <2>1. Zero .. Zero + 9 \subseteq 0 .. 127
    BY DEF Zero
  <2>2. QED
    BY <1>1, <2>1, SeqMonotonic, ZenonT(40)
<1>5. QED
  BY <1>1, <1>2, <1>3, <1>4

\* Digits have nothing to be trimmed.
LEMMA DigitsAreTrim ==
    ASSUME NEW S, NEW text \in Seq(S), IsDigits(text)
    PROVE  Trim(text) = text /\ text # <<>> /\ ParseDigits(text) = {NumberOf(text)}
<1> DEFINE n == Len(text)
<1>1. n \in Nat /\ DOMAIN text = 1 .. n /\ text # <<>> /\ n # 0 /\ n = Len(text)
  BY DEF IsDigits
<1> HIDE DEF n
<1>2. \A i \in 1 .. n : text[i] # Space
  BY <1>1 DEF IsDigits, IsDigit, Zero, Space
<1>3. Printed(text) = 1 .. n
  BY <1>1, <1>2 DEF Printed
<1> DEFINE T == 1 .. n
<1>4. T \in SUBSET Nat /\ T \in SUBSET (1 .. n) /\ T # {} /\ 1 \in T /\ n \in T
  <2>1. 1 \in T /\ n \in T
    BY <1>1
  <2>2. T \in SUBSET Nat /\ T \in SUBSET (1 .. n)
    OBVIOUS
  <2>3. QED
    BY <2>1, <2>2
<1> HIDE DEF T
<1>5. Min(T) \in T /\ Min(T) <= 1
  BY <1>4, MinIsLeast
<1>6. Max(T) \in T /\ Max(T) >= n
  BY <1>1, <1>4, MaxIsGreatest
<1>7. Min(T) = 1 /\ Max(T) = n
  BY <1>1, <1>5, <1>6 DEF T
<1>8. Trim(text) = SubSeq(text, 1, n)
  BY <1>3, <1>4, <1>7 DEF Trim, T
<1>9. SubSeq(text, 1, n) = text
  <2>1. 1 \in Int /\ n \in Int /\ \A i \in 1 .. n : text[i] \in S
    BY <1>1
  <2>2. /\ SubSeq(text, 1, n) \in Seq(S) /\ Len(SubSeq(text, 1, n)) = n
        /\ \A i \in 1 .. n : SubSeq(text, 1, n)[i] = text[i]
    <3>1. /\ SubSeq(text, 1, n) \in Seq(S)
          /\ Len(SubSeq(text, 1, n)) = IF 1 <= n THEN n - 1 + 1 ELSE 0
          /\ \A i \in 1 .. n - 1 + 1 : SubSeq(text, 1, n)[i] = text[1 + i - 1]
      BY <2>1, SubSeqProperties
    <3>2. 1 <= n /\ n - 1 + 1 = n /\ \A i \in 1 .. n : 1 + i - 1 = i
      BY <1>1
    <3>3. QED
      BY <3>1, <3>2
  <2>3. QED
    BY <2>2, <1>1, SeqEqual
<1>10. ParseDigits(text) = {NumberOf(text)}
  BY DEF ParseDigits
<1>11. QED
  BY <1>1, <1>8, <1>9, <1>10

\* A text that stands in another is its part from there.
StandsAt(t, from, b) == \A i \in 1 .. Len(b) : t[from + i] = b[i]

LEMMA PartFrom ==
    ASSUME NEW S, NEW t \in Seq(S), NEW b \in Seq(S), NEW from \in Nat, NEW to \in Nat,
           to = from + Len(b), to <= Len(t), StandsAt(t, from, b)
    PROVE  Part(t, from, to) = b
<1>1. Len(b) \in Nat /\ Len(t) \in Nat
  OBVIOUS
<1>2. Min({to, Len(t)}) = to
  <2> DEFINE T == {to, Len(t)}
  <2>1. T \in SUBSET Nat /\ to \in T /\ T # {}
    BY <1>1
  <2>2. \A x \in T : x = to \/ x >= to
    OBVIOUS
  <2> HIDE DEF T
  <2>3. Min(T) \in T /\ Min(T) <= to
    BY <2>1, MinIsLeast
  <2>4. Min(T) \in Nat /\ (Min(T) = to \/ Min(T) >= to)
    BY <2>1, <2>2, <2>3
  <2> DEFINE m == Min(T)
  <2>5. m \in Nat /\ (m = to \/ m >= to) /\ m <= to
    BY <2>3, <2>4
  <2> HIDE DEF m
  <2>6. m = to
    BY <2>5
  <2>7. QED
    BY <2>6 DEF T, m
<1> DEFINE m == from + 1
           u == SubSeq(t, m, to)
<1>3. Part(t, from, to) = u
  BY <1>2 DEF Part
<1>4. m \in Int /\ to \in Int /\ \A i \in m .. to : t[i] \in S
  BY <1>1
<1>5. /\ u \in Seq(S) /\ Len(u) = IF m <= to THEN to - m + 1 ELSE 0
      /\ \A i \in 1 .. to - m + 1 : u[i] = t[m + i - 1]
  <2> HIDE DEF m
  <2>1. QED
    BY <1>4, SubSeqProperties
<1>6. Len(u) = Len(b) /\ \A i \in 1 .. Len(b) : u[i] = b[i]
  <2> HIDE DEF u
  <2>1. \A i \in 1 .. Len(b) : i \in 1 .. to - m + 1 /\ m + i - 1 = from + i
    BY <1>1
  <2>2. QED
    BY <2>1, <1>1, <1>5 DEF StandsAt
<1>7. QED
  BY <1>3, <1>5, <1>6, SeqEqual

-----------------------------------------------------------------------------
(* A header is read as it was written.                                     *)

HeaderText(a, b, c, d, e, f, z) == a \o b \o c \o d \o e \o f \o z

\* The pieces of a header, each at its place.
Places(h, a, b, c, d, e, f, z) ==
    /\ \A i \in 1 .. 4 : h[0 + i] = a[i] /\ h[4 + i] = b[i] /\ h[16 + i] = z[i]
    /\ \A i \in 1 .. 3 : h[8 + i] = c[i]
    /\ \A i \in 1 .. 1 : h[11 + i] = d[i]
    /\ \A i \in 1 .. 2 : h[12 + i] = e[i] /\ h[14 + i] = f[i]

Widths(a, b, c, d, e, f, z) ==
    /\ Len(a) = 4 /\ Len(b) = 4 /\ Len(c) = 3 /\ Len(d) = 1
    /\ Len(e) = 2 /\ Len(f) = 2 /\ Len(z) = 4

LEMMA PiecesOfHeader ==
    ASSUME NEW S, NEW a \in Seq(S), NEW b \in Seq(S), NEW c \in Seq(S), NEW d \in Seq(S),
           NEW e \in Seq(S), NEW f \in Seq(S), NEW z \in Seq(S)
    PROVE  LET h == HeaderText(a, b, c, d, e, f, z)
           IN  /\ h \in Seq(S)
               /\ Widths(a, b, c, d, e, f, z) =>
                    Len(h) = 20 /\ Places(h, a, b, c, d, e, f, z)
<1> DEFINE h2 == a \o b
           h3 == h2 \o c
           h4 == h3 \o d
           h5 == h4 \o e
           h6 == h5 \o f
           h7 == h6 \o z
<1>11. /\ h2 \in Seq(S) /\ Len(h2) = Len(a) + Len(b)
       /\ \A i \in 1 .. Len(a) : h2[i] = a[i]
       /\ \A i \in 1 .. Len(b) : h2[Len(a) + i] = b[i]
  OBVIOUS
<1> HIDE DEF h2
<1>12. /\ h3 \in Seq(S) /\ Len(h3) = Len(h2) + Len(c)
       /\ \A i \in 1 .. Len(h2) : h3[i] = h2[i]
       /\ \A i \in 1 .. Len(c) : h3[Len(h2) + i] = c[i]
  <2>1. h2 \in Seq(S)
    BY <1>11
  <2>2. QED
    BY <2>1
<1> HIDE DEF h3
<1>13. /\ h4 \in Seq(S) /\ Len(h4) = Len(h3) + Len(d)
       /\ \A i \in 1 .. Len(h3) : h4[i] = h3[i]
       /\ \A i \in 1 .. Len(d) : h4[Len(h3) + i] = d[i]
  <2>1. h3 \in Seq(S)
    BY <1>12
  <2>2. QED
    BY <2>1
<1> HIDE DEF h4
<1>14. /\ h5 \in Seq(S) /\ Len(h5) = Len(h4) + Len(e)
       /\ \A i \in 1 .. Len(h4) : h5[i] = h4[i]
       /\ \A i \in 1 .. Len(e) : h5[Len(h4) + i] = e[i]
  <2>1. h4 \in Seq(S)
    BY <1>13
  <2>2. QED
    BY <2>1
<1> HIDE DEF h5
<1>15. /\ h6 \in Seq(S) /\ Len(h6) = Len(h5) + Len(f)
       /\ \A i \in 1 .. Len(h5) : h6[i] = h5[i]
       /\ \A i \in 1 .. Len(f) : h6[Len(h5) + i] = f[i]
  <2>1. h5 \in Seq(S)
    BY <1>14
  <2>2. QED
    BY <2>1
<1> HIDE DEF h6
<1>16. /\ h7 \in Seq(S) /\ Len(h7) = Len(h6) + Len(z)
       /\ \A i \in 1 .. Len(h6) : h7[i] = h6[i]
       /\ \A i \in 1 .. Len(z) : h7[Len(h6) + i] = z[i]
  <2>1. h6 \in Seq(S)
    BY <1>15
  <2>2. QED
    BY <2>1
<1> HIDE DEF h7
<1>17. SUFFICES
        ASSUME Len(a) = 4, Len(b) = 4, Len(c) = 3, Len(d) = 1, Len(e) = 2, Len(f) = 2, Len(z) = 4
        PROVE  Len(h7) = 20 /\ Places(h7, a, b, c, d, e, f, z)
  BY <1>16 DEF HeaderText, Widths, h2, h3, h4, h5, h6, h7
<1>18. /\ Len(h2) = 8
       /\ \A i \in 1 .. 4 : h2[i] = a[i]
       /\ \A i \in 1 .. 4 : h2[4 + i] = b[i]
  BY <1>17, <1>11
<1>19. /\ Len(h3) = 11
       /\ \A i \in 1 .. 8 : h3[i] = h2[i]
       /\ \A i \in 1 .. 3 : h3[8 + i] = c[i]
  BY <1>17, <1>18, <1>12
<1>20. /\ Len(h4) = 12
       /\ \A i \in 1 .. 11 : h4[i] = h3[i]
       /\ \A i \in 1 .. 1 : h4[11 + i] = d[i]
  BY <1>17, <1>19, <1>13
<1>21. /\ Len(h5) = 14
       /\ \A i \in 1 .. 12 : h5[i] = h4[i]
       /\ \A i \in 1 .. 2 : h5[12 + i] = e[i]
  BY <1>17, <1>20, <1>14
<1>22. /\ Len(h6) = 16
       /\ \A i \in 1 .. 14 : h6[i] = h5[i]
       /\ \A i \in 1 .. 2 : h6[14 + i] = f[i]
  BY <1>17, <1>21, <1>15
<1>23. /\ Len(h7) = 20
       /\ \A i \in 1 .. 16 : h7[i] = h6[i]
       /\ \A i \in 1 .. 4 : h7[16 + i] = z[i]
  BY <1>17, <1>22, <1>16
<1>24. ASSUME NEW i \in 1 .. 4
      PROVE  h7[0 + i] = a[i] /\ h7[4 + i] = b[i] /\ h7[16 + i] = z[i]
  <2>1. /\ 0 + i = i /\ i \in 1 .. 4 /\ i \in 1 .. 8 /\ 4 + i \in 1 .. 8
        /\ \A j \in 1 .. 8 : j \in 1 .. 11 /\ j \in 1 .. 12 /\ j \in 1 .. 14 /\ j \in 1 .. 16
    OBVIOUS
  <2>2. \A j \in 1 .. 8 : h7[j] = h2[j]
    <3> SUFFICES ASSUME NEW j \in 1 .. 8 PROVE h7[j] = h2[j]
      OBVIOUS
    <3>1. h7[j] = h6[j] /\ h6[j] = h5[j]
      BY <2>1, <1>22, <1>23
    <3>2. h5[j] = h4[j] /\ h4[j] = h3[j] /\ h3[j] = h2[j]
      BY <2>1, <1>19, <1>20, <1>21
    <3>3. QED
      BY <3>1, <3>2
  <2>3. h2[i] = a[i] /\ h2[4 + i] = b[i] /\ h7[16 + i] = z[i]
    BY <1>18, <1>23
  <2>4. QED
    BY <2>1, <2>2, <2>3
<1>25. ASSUME NEW i \in 1 .. 3
      PROVE  h7[8 + i] = c[i]
  <2> DEFINE j == 8 + i
  <2>1. j \in 1 .. 12 /\ j \in 1 .. 11 /\ j \in 1 .. 14 /\ j \in 1 .. 16
    OBVIOUS
  <2>2. h3[j] = c[i]
    BY <1>19
  <2> HIDE DEF j
  <2>3. h7[j] = h6[j] /\ h6[j] = h5[j] /\ h5[j] = h4[j] /\ h4[j] = h3[j]
    BY <2>1, <1>20, <1>21, <1>22, <1>23
  <2>4. QED
    BY <2>2, <2>3 DEF j
<1>26. ASSUME NEW i \in 1 .. 1
       PROVE  h7[11 + i] = d[i]
  <2> DEFINE j == 11 + i
  <2>1. j \in 1 .. 12 /\ j \in 1 .. 14 /\ j \in 1 .. 16
    OBVIOUS
  <2>2. h4[j] = d[i]
    BY <1>20
  <2> HIDE DEF j
  <2>3. h7[j] = h6[j] /\ h6[j] = h5[j] /\ h5[j] = h4[j]
    BY <2>1, <1>21, <1>22, <1>23
  <2>4. QED
    BY <2>2, <2>3 DEF j
<1>27. ASSUME NEW i \in 1 .. 2
       PROVE  h7[12 + i] = e[i] /\ h7[14 + i] = f[i]
  <2> DEFINE j == 12 + i
             k == 14 + i
  <2>1. j \in 1 .. 14 /\ j \in 1 .. 16 /\ k \in 1 .. 16
    OBVIOUS
  <2>2. h5[j] = e[i] /\ h6[k] = f[i]
    BY <1>21, <1>22
  <2> HIDE DEF j, k
  <2>3. h7[j] = h6[j] /\ h6[j] = h5[j] /\ h7[k] = h6[k]
    BY <2>1, <1>22, <1>23
  <2>4. QED
    BY <2>2, <2>3 DEF j, k
<1>28. QED
  BY <1>23, <1>24, <1>25, <1>26, <1>27 DEF Places

\* What a piece of digits is read as, whatever a blank one means.
LEMMA PieceIsRead ==
    ASSUME NEW S, NEW t \in Seq(S), NEW b \in Seq(S), NEW part, part[1] \in Nat,
           part[2] = part[1] + Len(b), part[2] <= Len(t),
           StandsAt(t, part[1], b), IsDigits(b)
    PROVE  ReadPart(t, part) = {NumberOf(b)}
<1>1. part[2] \in Nat
  OBVIOUS
<1>2. Part(t, part[1], part[2]) = b
  BY <1>1, PartFrom
<1>3. Trim(b) = b /\ b # <<>> /\ ParseDigits(b) = {NumberOf(b)}
  BY DigitsAreTrim
<1>4. ReadPart(t, part) = FieldOrDefault(b, part[3])
  BY <1>2 DEF ReadPart
<1>5. QED
  BY <1>3, <1>4 DEF FieldOrDefault, HeaderField

LEMMA ZeroesAreRead ==
    ASSUME NEW n \in 1 .. 2
    PROVE  /\ Zeroes(n) \in Seq(0 .. 127) /\ Len(Zeroes(n)) = n /\ IsDigits(Zeroes(n))
           /\ NumberOf(Zeroes(n)) = 0 /\ \A i \in 1 .. n : Zeroes(n)[i] = Zero
<1> DEFINE t == Zeroes(n)
<1>1. t = [i \in 1 .. n |-> Zero]
  BY DEF Zeroes
<1> HIDE DEF t
<1>2. Zero \in 0 .. 127 /\ n \in Nat
  BY DEF Zero
<1>3. t \in Seq(0 .. 127) /\ Len(t) = n /\ DOMAIN t = 1 .. n
  <2> DEFINE D == 0 .. 127
  <2>1. t \in [1 .. n -> D]
    BY <1>1, <1>2
  <2> HIDE DEF D
  <2>2. t \in Seq(D) /\ Len(t) = n /\ DOMAIN t = 1 .. n
    BY <1>2, <2>1
  <2>3. QED
    BY <2>2 DEF D
<1>4. IsDigits(t)
  <2>1. 1 \in 1 .. n
    OBVIOUS
  <2>2. \A i \in DOMAIN t : IsDigit(t[i])
    BY <1>1, <1>3 DEF IsDigit, Zero
  <2>3. t # <<>>
    BY <1>3, <2>1
  <2>4. QED
    BY <2>2, <2>3 DEF IsDigits
<1>5. PICK v : /\ v[0] = 0
               /\ \A k \in 1 .. n : v[k] = 10 * v[k - 1] + (t[k] - Zero)
               /\ NumberOf(t) = v[n]
  BY <1>3, NumberSteps
<1>6. v[1] = 0
  <2>1. 1 \in 1 .. n /\ 1 - 1 = 0 /\ t[1] - Zero = 0
    BY <1>1 DEF Zero
  <2>2. QED
    BY <1>5, <2>1
<1>7. n = 2 => v[2] = 0
  <2>1. n = 2 => 2 \in 1 .. n /\ 2 - 1 = 1 /\ t[2] - Zero = 0
    BY <1>1 DEF Zero
  <2>2. QED
    BY <1>5, <1>6, <2>1
<1>8. QED
  BY <1>1, <1>3, <1>4, <1>5, <1>6, <1>7 DEF t

LEMMA DigitIsRead ==
    ASSUME NEW n \in 0 .. 9
    PROVE  LET t == <<Zero + n>>
           IN  t \in Seq(0 .. 127) /\ Len(t) = 1 /\ IsDigits(t) /\ NumberOf(t) = n
<1> DEFINE t == <<Zero + n>>
<1>1. Zero + n \in 0 .. 127 /\ IsDigit(Zero + n)
  BY DEF Zero, IsDigit
<1>2. t \in Seq(0 .. 127) /\ Len(t) = 1 /\ t[1] = Zero + n /\ DOMAIN t = {1} /\ t # <<>>
  <2> DEFINE D == 0 .. 127
             x == Zero + n
  <2>1. x \in D
    BY <1>1
  <2> HIDE DEF D, x
  <2>2. <<x>> \in Seq(D) /\ Len(<<x>>) = 1 /\ <<x>>[1] = x /\ DOMAIN <<x>> = {1} /\ <<x>> # <<>>
    BY <2>1
  <2>3. QED
    BY <2>2 DEF D, x
<1> HIDE DEF t
<1>3. IsDigits(t)
  BY <1>1, <1>2 DEF IsDigits
<1>4. PICK v : /\ v[0] = 0
               /\ \A k \in 1 .. 1 : v[k] = 10 * v[k - 1] + (t[k] - Zero)
               /\ NumberOf(t) = v[1]
  BY <1>2, NumberSteps
<1>5. v[1] = n
  <2>1. 1 \in 1 .. 1 /\ 1 - 1 = 0 /\ t[1] - Zero = n
    BY <1>2 DEF Zero
  <2>2. QED
    BY <1>4, <2>1
<1>6. QED
  BY <1>2, <1>3, <1>4, <1>5 DEF t

LEMMA AlreadyOne ==
    ASSUME NEW n \in Nat \ {0}
    PROVE  AtLeastOne(n) = n
<1> DEFINE T == {n, 1}
<1>1. T \in SUBSET (1 .. n) /\ T # {} /\ n \in T /\ n \in Nat
  OBVIOUS
<1> HIDE DEF T
<1>2. Max(T) \in T /\ Max(T) >= n
  BY <1>1, MaxIsGreatest
<1>3. Max(T) \in 1 .. n
  BY <1>1, <1>2
<1>4. Max(T) = n
  BY <1>2, <1>3
<1>5. QED
  BY <1>4 DEF AtLeastOne, T

\* Four zeroes at a place are read as zeroes of any width.
LEMMA ReservedAreRead ==
    ASSUME NEW S, 0 .. 127 \subseteq S, NEW t \in Seq(S), Len(t) >= 20,
           \A i \in 1 .. 4 : t[16 + i] = Zero
    PROVE  \A part \in ReservedParts : ReadPart(t, part) = {0}
<1>1. ASSUME NEW n \in 1 .. 2, NEW from \in Nat, NEW to \in Nat,
             to = from + n, to <= Len(t), \A i \in 1 .. n : t[from + i] = Zero
      PROVE  ReadPart(t, <<from, to, {0}>>) = {0}
  <2> DEFINE p == Zeroes(n)
  <2>1. /\ p \in Seq(0 .. 127) /\ Len(p) = n /\ IsDigits(p) /\ NumberOf(p) = 0
        /\ \A i \in 1 .. n : p[i] = Zero
    BY ZeroesAreRead
  <2> HIDE DEF p
  <2>2. p \in Seq(S)
    BY <2>1, SeqMonotonic
  <2>3. to = from + Len(p) /\ \A i \in 1 .. Len(p) : t[from + i] = p[i]
    BY <1>1, <2>1
  <2> DEFINE part == <<from, to, {0}>>
  <2>4. part[1] = from /\ part[2] = to
    OBVIOUS
  <2> HIDE DEF part
  <2>5. /\ part[1] \in Nat /\ part[2] = part[1] + Len(p) /\ part[2] <= Len(t)
        /\ StandsAt(t, part[1], p)
    BY <1>1, <2>3, <2>4 DEF StandsAt
  <2>6. ReadPart(t, part) = {NumberOf(p)}
    <3>1. IsDigits(p)
      BY <2>1
    <3>2. \A x \in Seq(S) : \A q :
             /\ q[1] \in Nat /\ q[2] = q[1] + Len(x) /\ q[2] <= Len(t)
             /\ StandsAt(t, q[1], x) /\ IsDigits(x)
             => ReadPart(t, q) = {NumberOf(x)}
      BY PieceIsRead
    <3>3. QED
      BY <2>2, <2>5, <3>1, <3>2
  <2>7. QED
    BY <2>1, <2>6 DEF part
<1>2. t[17] = Zero /\ t[18] = Zero /\ t[19] = Zero /\ t[20] = Zero
  <2>1. /\ 1 \in 1 .. 4 /\ 2 \in 1 .. 4 /\ 3 \in 1 .. 4 /\ 4 \in 1 .. 4
        /\ 16 + 1 = 17 /\ 16 + 2 = 18 /\ 16 + 3 = 19 /\ 16 + 4 = 20
    OBVIOUS
  <2>2. t[16 + 1] = Zero /\ t[16 + 2] = Zero /\ t[16 + 3] = Zero /\ t[16 + 4] = Zero
    BY <2>1
  <2>3. QED
    BY <2>1, <2>2
<1>3. ReadPart(t, <<16, 18, {0}>>) = {0}
  <2>1. 2 \in 1 .. 2 /\ 16 \in Nat /\ 18 \in Nat /\ 18 = 16 + 2 /\ 18 <= Len(t)
        /\ \A i \in 1 .. 2 : t[16 + i] = Zero
    OBVIOUS
  <2>2. QED
    BY <1>1, <2>1
<1>4. ReadPart(t, <<18, 19, {0}>>) = {0}
  <2>1. 1 \in 1 .. 2 /\ 18 \in Nat /\ 19 \in Nat /\ 19 = 18 + 1 /\ 19 <= Len(t)
        /\ \A i \in 1 .. 1 : t[18 + i] = Zero
    <3>1. \A i \in 1 .. 1 : 18 + i = 19
      OBVIOUS
    <3>2. QED
      BY <1>2, <3>1
  <2>2. QED
    BY <1>1, <2>1, ZenonT(40)
<1>5. ReadPart(t, <<19, 20, {0}>>) = {0}
  <2>1. 1 \in 1 .. 2 /\ 19 \in Nat /\ 20 \in Nat /\ 20 = 19 + 1 /\ 20 <= Len(t)
        /\ \A i \in 1 .. 1 : t[19 + i] = Zero
    <3>1. \A i \in 1 .. 1 : 19 + i = 20
      OBVIOUS
    <3>2. QED
      BY <1>2, <3>1
  <2>2. QED
    BY <1>1, <2>1, ZenonT(40)
<1>6. QED
  BY <1>3, <1>4, <1>5 DEF ReservedParts

LEMMA HeaderIsRecord ==
    ASSUME NEW header \in Header
    PROVE  /\ header.length \in Nat /\ header.length < 10000
           /\ header.mid \in Nat /\ header.mid < 10000
           /\ header.revision \in Nat \ {0} /\ header.revision < 1000
           /\ header.stationId \in Nat \ {0} /\ header.stationId < 100
           /\ header.spindleId \in Nat \ {0} /\ header.spindleId < 100
           /\ header.noAck \in BOOLEAN
           /\ header = [length |-> header.length, mid |-> header.mid,
                        revision |-> header.revision, noAck |-> header.noAck,
                        stationId |-> header.stationId, spindleId |-> header.spindleId]
<1> DEFINE A == HeaderLength .. 9999
           D == 1 .. 99
<1>1. /\ \A n \in A : n \in Nat /\ n < 10000
      /\ \A n \in MidNumber : n \in Nat /\ n < 10000
      /\ \A n \in RevisionNumber : n \in Nat \ {0} /\ n < 1000
      /\ \A n \in D : n \in Nat \ {0} /\ n < 100
  BY DEF HeaderLength, MidNumber, RevisionNumber
<1> HIDE DEF A, D
<1>2. header \in [length : A, mid : MidNumber, revision : RevisionNumber,
                  noAck : BOOLEAN, stationId : D, spindleId : D]
  BY DEF Header, A, D
<1>3. header = [length |-> header.length, mid |-> header.mid,
                revision |-> header.revision, noAck |-> header.noAck,
                stationId |-> header.stationId, spindleId |-> header.spindleId]
  BY <1>2
<1>4. header.length \in A /\ header.mid \in MidNumber /\ header.revision \in RevisionNumber
  BY <1>2
<1>5. header.stationId \in D /\ header.spindleId \in D
  BY <1>2
<1>6. header.noAck \in BOOLEAN
  BY <1>2
<1>7. QED
  BY <1>1, <1>3, <1>4, <1>5, <1>6

\* The pieces an encoded header is made of, each a text of digits.
LEMMA PiecesAreNumbers ==
    ASSUME NEW header \in Header
    PROVE  LET flag == IF header.noAck THEN 1 ELSE 0
               a == PadNumber(header.length, 4)
               b == PadNumber(header.mid, 4)
               c == PadNumber(header.revision, 3)
               d == <<Zero + flag>>
               e == PadNumber(header.stationId, 2)
               f == PadNumber(header.spindleId, 2)
           IN  /\ a \in Seq(0 .. 127) /\ Len(a) = 4 /\ IsDigits(a) /\ NumberOf(a) = header.length
               /\ b \in Seq(0 .. 127) /\ Len(b) = 4 /\ IsDigits(b) /\ NumberOf(b) = header.mid
               /\ c \in Seq(0 .. 127) /\ Len(c) = 3 /\ IsDigits(c) /\ NumberOf(c) = header.revision
               /\ d \in Seq(0 .. 127) /\ Len(d) = 1 /\ IsDigits(d) /\ NumberOf(d) = flag
               /\ e \in Seq(0 .. 127) /\ Len(e) = 2 /\ IsDigits(e) /\ NumberOf(e) = header.stationId
               /\ f \in Seq(0 .. 127) /\ Len(f) = 2 /\ IsDigits(f) /\ NumberOf(f) = header.spindleId
               /\ EncodeHeader(header) = a \o b \o c \o d \o e \o f \o Zeroes(4)
<1> DEFINE flag == IF header.noAck THEN 1 ELSE 0
           d == <<Zero + flag>>
<1>1. /\ header.length \in Nat /\ header.length < 10000
      /\ header.mid \in Nat /\ header.mid < 10000
      /\ header.revision \in Nat /\ header.revision < 1000
      /\ header.stationId \in Nat /\ header.stationId < 100
      /\ header.spindleId \in Nat /\ header.spindleId < 100
  BY HeaderIsRecord
<1>2. TenTo(1) = 10 /\ TenTo(2) = 100 /\ TenTo(3) = 1000
  <2>1. /\ 0 \in 0 .. 8 /\ 1 \in 0 .. 8 /\ 2 \in 0 .. 8 /\ 0 + 1 = 1 /\ 1 + 1 = 2 /\ 2 + 1 = 3
    OBVIOUS
  <2>2. TenTo(0 + 1) = 10 * TenTo(0) /\ TenTo(1 + 1) = 10 * TenTo(1) /\ TenTo(2 + 1) = 10 * TenTo(2)
    BY <2>1, TenTimes
  <2>3. TenTo(0) = 1
    BY TenTimes
  <2>4. QED
    BY <2>1, <2>2, <2>3
<1>3. ASSUME NEW number \in Nat, NEW width \in 2 .. 4, number < 10 * TenTo(width - 1)
      PROVE  LET t == PadNumber(number, width)
             IN  t \in Seq(0 .. 127) /\ Len(t) = width /\ IsDigits(t) /\ NumberOf(t) = number
  <2> DEFINE m == TenTo(width - 1)
  <2>1. m \in Nat \ {0} /\ number < 10 * m
    <3>1. width - 1 \in 0 .. 9
      OBVIOUS
    <3>2. QED
      BY <1>3, <3>1, TenTimes
  <2> HIDE DEF m
  <2>2. \A n \in Nat, k \in Nat \ {0} : n < 10 * k => n \div k <= 9
    OBVIOUS
  <2>3. number \div m <= 9
    BY <2>1, <2>2
  <2>4. width \in 1 .. 10
    OBVIOUS
  <2>5. QED
    BY <2>3, <2>4, NumbersAreRead DEF m
<1>4. /\ header.length \in Nat /\ header.length < 10 * TenTo(4 - 1)
      /\ header.mid \in Nat /\ header.mid < 10 * TenTo(4 - 1)
      /\ header.revision \in Nat /\ header.revision < 10 * TenTo(3 - 1)
      /\ header.stationId \in Nat /\ header.stationId < 10 * TenTo(2 - 1)
      /\ header.spindleId \in Nat /\ header.spindleId < 10 * TenTo(2 - 1)
  <2>1. 4 - 1 = 3 /\ 3 - 1 = 2 /\ 2 - 1 = 1
    OBVIOUS
  <2>2. /\ 10 * TenTo(4 - 1) = 10000 /\ 10 * TenTo(3 - 1) = 1000 /\ 10 * TenTo(2 - 1) = 100
    BY <1>2, <2>1
  <2> DEFINE x == 10 * TenTo(4 - 1)
             y == 10 * TenTo(3 - 1)
             w == 10 * TenTo(2 - 1)
  <2>3. x = 10000 /\ y = 1000 /\ w = 100
    BY <2>2
  <2> HIDE DEF x, y, w
  <2>4. /\ header.length < x /\ header.mid < x /\ header.revision < y
        /\ header.stationId < w /\ header.spindleId < w
    BY <1>1, <2>3
  <2>5. QED
    BY <1>1, <2>4 DEF x, y, w
<1>5. d \in Seq(0 .. 127) /\ Len(d) = 1 /\ IsDigits(d) /\ NumberOf(d) = flag
  <2>1. flag \in 0 .. 9
    OBVIOUS
  <2> HIDE DEF flag
  <2>2. QED
    BY <2>1, DigitIsRead
<1>6. d = IF header.noAck THEN <<Zero + 1>> ELSE <<Zero>>
  <2>1. Zero + 0 = Zero
    BY DEF Zero
  <2>2. CASE header.noAck
    BY <2>2
  <2>3. CASE ~header.noAck
    BY <2>1, <2>3
  <2>4. QED
    BY <2>2, <2>3
<1> HIDE DEF d
<1>7. EncodeHeader(header) =
        PadNumber(header.length, 4) \o PadNumber(header.mid, 4) \o PadNumber(header.revision, 3)
        \o d \o PadNumber(header.stationId, 2) \o PadNumber(header.spindleId, 2) \o Zeroes(4)
  BY <1>6 DEF EncodeHeader
<1>8. 2 \in 2 .. 4 /\ 3 \in 2 .. 4 /\ 4 \in 2 .. 4
  OBVIOUS
<1> DEFINE IsPad(t, width, number) ==
             /\ t \in Seq(0 .. 127) /\ Len(t) = width
             /\ IsDigits(t) /\ NumberOf(t) = number
<1>9. \A number \in Nat, width \in 2 .. 4 :
        number < 10 * TenTo(width - 1) => IsPad(PadNumber(number, width), width, number)
  BY <1>3
<1> HIDE DEF IsPad
<1>10. /\ IsPad(PadNumber(header.length, 4), 4, header.length)
       /\ IsPad(PadNumber(header.mid, 4), 4, header.mid)
  <2>1. /\ header.length \in Nat /\ header.length < 10 * TenTo(4 - 1)
        /\ header.mid \in Nat /\ header.mid < 10 * TenTo(4 - 1)
    BY <1>4
  <2>2. QED
    BY <1>8, <1>9, <2>1
<1>11. IsPad(PadNumber(header.revision, 3), 3, header.revision)
  BY <1>4, <1>8, <1>9
<1>12. /\ IsPad(PadNumber(header.stationId, 2), 2, header.stationId)
       /\ IsPad(PadNumber(header.spindleId, 2), 2, header.spindleId)
  BY <1>4, <1>8, <1>9
<1>13. QED
  BY <1>5, <1>7, <1>10, <1>11, <1>12 DEF d, IsPad

Piece(S, x, width, number) ==
    x \in Seq(S) /\ Len(x) = width /\ IsDigits(x) /\ NumberOf(x) = number

LEMMA HeaderIsPieces ==
    ASSUME NEW S, 0 .. 127 \subseteq S, NEW header \in Header
    PROVE  \E a, b, c, d, e, f, z :
         /\ Piece(S, a, 4, header.length) /\ Piece(S, b, 4, header.mid)
         /\ Piece(S, c, 3, header.revision)
         /\ Piece(S, d, 1, IF header.noAck THEN 1 ELSE 0)
         /\ Piece(S, e, 2, header.stationId) /\ Piece(S, f, 2, header.spindleId)
         /\ z \in Seq(S) /\ Len(z) = 4 /\ \A i \in 1 .. 4 : z[i] = Zero
         /\ EncodeHeader(header) = HeaderText(a, b, c, d, e, f, z)
<1> DEFINE flag == IF header.noAck THEN 1 ELSE 0
           a == PadNumber(header.length, 4)
           b == PadNumber(header.mid, 4)
           c == PadNumber(header.revision, 3)
           d == <<Zero + flag>>
           e == PadNumber(header.stationId, 2)
           f == PadNumber(header.spindleId, 2)
           z == Zeroes(4)
<1>1. /\ a \in Seq(0 .. 127) /\ Len(a) = 4 /\ IsDigits(a) /\ NumberOf(a) = header.length
      /\ b \in Seq(0 .. 127) /\ Len(b) = 4 /\ IsDigits(b) /\ NumberOf(b) = header.mid
      /\ c \in Seq(0 .. 127) /\ Len(c) = 3 /\ IsDigits(c) /\ NumberOf(c) = header.revision
      /\ d \in Seq(0 .. 127) /\ Len(d) = 1 /\ IsDigits(d) /\ NumberOf(d) = flag
      /\ e \in Seq(0 .. 127) /\ Len(e) = 2 /\ IsDigits(e) /\ NumberOf(e) = header.stationId
      /\ f \in Seq(0 .. 127) /\ Len(f) = 2 /\ IsDigits(f) /\ NumberOf(f) = header.spindleId
      /\ EncodeHeader(header) = a \o b \o c \o d \o e \o f \o z
  BY PiecesAreNumbers
<1>2. z \in Seq(0 .. 127) /\ Len(z) = 4 /\ \A i \in 1 .. 4 : z[i] = Zero
  <2> DEFINE D == 0 .. 127
  <2>1. z = [i \in 1 .. 4 |-> Zero] /\ Zero \in D
    BY DEF Zeroes, Zero
  <2> HIDE DEF D, z
  <2>2. z \in Seq(D) /\ Len(z) = 4 /\ \A i \in 1 .. 4 : z[i] = Zero
    BY <2>1
  <2>3. QED
    BY <2>2 DEF D
<1> HIDE DEF a, b, c, d, e, f, z, flag
<1>3. /\ a \in Seq(S) /\ b \in Seq(S) /\ c \in Seq(S) /\ d \in Seq(S)
      /\ e \in Seq(S) /\ f \in Seq(S) /\ z \in Seq(S)
  BY <1>1, <1>2, SeqMonotonic
<1>4. NumberOf(d) = IF header.noAck THEN 1 ELSE 0
  BY <1>1 DEF flag
<1>5. /\ Piece(S, a, 4, header.length) /\ Piece(S, b, 4, header.mid)
      /\ Piece(S, c, 3, header.revision)
      /\ Piece(S, d, 1, IF header.noAck THEN 1 ELSE 0)
      /\ Piece(S, e, 2, header.stationId) /\ Piece(S, f, 2, header.spindleId)
  BY <1>1, <1>3, <1>4 DEF Piece
<1>6. EncodeHeader(header) = HeaderText(a, b, c, d, e, f, z)
  BY <1>1 DEF HeaderText
<1>7. QED
  BY <1>2, <1>3, <1>5, <1>6

\* The header at the front of a text is read as it was written.
LEMMA FrontHeaderIsRead ==
    ASSUME NEW S, 0 .. 127 \subseteq S, NEW header \in Header, NEW t \in Seq(S),
           Len(t) >= 20, \A i \in 1 .. 20 : t[i] = EncodeHeader(header)[i]
    PROVE  DecodeHeader(t) = {header}
<1> DEFINE h == EncodeHeader(header)
           flag == IF header.noAck THEN 1 ELSE 0
<1>1. \A i \in 1 .. 20 : t[i] = h[i]
  OBVIOUS
<1> HIDE DEF h, flag
<1>2. PICK a, b, c, d, e, f, z :
         /\ Piece(S, a, 4, header.length) /\ Piece(S, b, 4, header.mid)
         /\ Piece(S, c, 3, header.revision)
         /\ Piece(S, d, 1, IF header.noAck THEN 1 ELSE 0)
         /\ Piece(S, e, 2, header.stationId) /\ Piece(S, f, 2, header.spindleId)
         /\ z \in Seq(S) /\ Len(z) = 4 /\ \A i \in 1 .. 4 : z[i] = Zero
         /\ EncodeHeader(header) = HeaderText(a, b, c, d, e, f, z)
  BY HeaderIsPieces
<1>0. /\ a \in Seq(S) /\ Len(a) = 4 /\ IsDigits(a) /\ NumberOf(a) = header.length
      /\ b \in Seq(S) /\ Len(b) = 4 /\ IsDigits(b) /\ NumberOf(b) = header.mid
      /\ c \in Seq(S) /\ Len(c) = 3 /\ IsDigits(c) /\ NumberOf(c) = header.revision
      /\ d \in Seq(S) /\ Len(d) = 1 /\ IsDigits(d)
      /\ NumberOf(d) = IF header.noAck THEN 1 ELSE 0
      /\ e \in Seq(S) /\ Len(e) = 2 /\ IsDigits(e) /\ NumberOf(e) = header.stationId
      /\ f \in Seq(S) /\ Len(f) = 2 /\ IsDigits(f) /\ NumberOf(f) = header.spindleId
      /\ z \in Seq(S) /\ Len(z) = 4 /\ \A i \in 1 .. 4 : z[i] = Zero
  BY <1>2 DEF Piece
<1> DEFINE g == HeaderText(a, b, c, d, e, f, z)
<1>3. Places(g, a, b, c, d, e, f, z)
  <2>1. /\ a \in Seq(S) /\ b \in Seq(S) /\ c \in Seq(S) /\ d \in Seq(S)
        /\ e \in Seq(S) /\ f \in Seq(S) /\ z \in Seq(S)
    BY <1>0
  <2>2. Widths(a, b, c, d, e, f, z)
    BY <1>0 DEF Widths
  <2>3. QED
    BY <2>1, <2>2, PiecesOfHeader
<1> HIDE DEF g
<1>4. \A i \in 1 .. 20 : t[i] = g[i]
  <2>1. h = g
    BY <1>2 DEF h, g
  <2>2. QED
    BY <1>1, <2>1
<1>5. /\ \A i \in 1 .. 4 : t[0 + i] = a[i] /\ t[4 + i] = b[i] /\ t[16 + i] = Zero
      /\ \A i \in 1 .. 3 : t[8 + i] = c[i]
      /\ \A i \in 1 .. 1 : t[11 + i] = d[i]
      /\ \A i \in 1 .. 2 : t[12 + i] = e[i] /\ t[14 + i] = f[i]
  <2>1. /\ \A i \in 1 .. 4 : 0 + i \in 1 .. 20 /\ 4 + i \in 1 .. 20 /\ 16 + i \in 1 .. 20
        /\ \A i \in 1 .. 3 : 8 + i \in 1 .. 20
        /\ \A i \in 1 .. 1 : 11 + i \in 1 .. 20
        /\ \A i \in 1 .. 2 : 12 + i \in 1 .. 20 /\ 14 + i \in 1 .. 20
    OBVIOUS
  <2>2. \A i \in 1 .. 4 : t[0 + i] = a[i] /\ t[4 + i] = b[i] /\ t[16 + i] = Zero
    BY <1>0, <1>3, <1>4, <2>1, ZenonT(40) DEF Places
  <2>3. \A i \in 1 .. 3 : t[8 + i] = c[i]
    BY <1>3, <1>4, <2>1 DEF Places
  <2>4. \A i \in 1 .. 1 : t[11 + i] = d[i]
    BY <1>3, <1>4, <2>1 DEF Places
  <2>5. \A i \in 1 .. 2 : t[12 + i] = e[i] /\ t[14 + i] = f[i]
    BY <1>3, <1>4, <2>1 DEF Places
  <2>6. QED
    BY <2>2, <2>3, <2>4, <2>5
<1>6. \A x \in Seq(S) : \A q :
         /\ q[1] \in Nat /\ q[2] = q[1] + Len(x) /\ q[2] <= Len(t)
         /\ StandsAt(t, q[1], x) /\ IsDigits(x)
         => ReadPart(t, q) = {NumberOf(x)}
  BY PieceIsRead
<1>7. Len(t) \in Nat
  OBVIOUS
<1>8. NumberOf(d) = flag
  BY <1>0 DEF flag
<1>9. ReadPart(t, HeaderParts["length"]) = {header.length}
  <2> DEFINE q == HeaderParts["length"]
  <2>1. q[1] = 0 /\ q[2] = 4
    BY DEF HeaderParts
  <2> HIDE DEF q
  <2>2. StandsAt(t, 0, a)
    BY <1>0, <1>5 DEF StandsAt
  <2>3. /\ q[1] \in Nat /\ q[2] = q[1] + Len(a) /\ q[2] <= Len(t)
        /\ StandsAt(t, q[1], a)
    BY <1>0, <1>7, <2>1, <2>2
  <2>4. a \in Seq(S) /\ IsDigits(a)
    BY <1>0
  <2>5. ReadPart(t, q) = {NumberOf(a)}
    BY <1>6, <2>3, <2>4
  <2>6. QED
    BY <1>0, <1>8, <2>5 DEF q
<1>10. ReadPart(t, HeaderParts["mid"]) = {header.mid}
  <2> DEFINE q == HeaderParts["mid"]
  <2>1. q[1] = 4 /\ q[2] = 8
    BY DEF HeaderParts
  <2> HIDE DEF q
  <2>2. StandsAt(t, 4, b)
    BY <1>0, <1>5 DEF StandsAt
  <2>3. /\ q[1] \in Nat /\ q[2] = q[1] + Len(b) /\ q[2] <= Len(t)
        /\ StandsAt(t, q[1], b)
    BY <1>0, <1>7, <2>1, <2>2
  <2>4. b \in Seq(S) /\ IsDigits(b)
    BY <1>0
  <2>5. ReadPart(t, q) = {NumberOf(b)}
    BY <1>6, <2>3, <2>4
  <2>6. QED
    BY <1>0, <1>8, <2>5 DEF q
<1>11. ReadPart(t, HeaderParts["revision"]) = {header.revision}
  <2> DEFINE q == HeaderParts["revision"]
  <2>1. q[1] = 8 /\ q[2] = 11
    BY DEF HeaderParts
  <2> HIDE DEF q
  <2>2. StandsAt(t, 8, c)
    BY <1>0, <1>5 DEF StandsAt
  <2>3. /\ q[1] \in Nat /\ q[2] = q[1] + Len(c) /\ q[2] <= Len(t)
        /\ StandsAt(t, q[1], c)
    BY <1>0, <1>7, <2>1, <2>2
  <2>4. c \in Seq(S) /\ IsDigits(c)
    BY <1>0
  <2>5. ReadPart(t, q) = {NumberOf(c)}
    BY <1>6, <2>3, <2>4
  <2>6. QED
    BY <1>0, <1>8, <2>5 DEF q
<1>12. ReadPart(t, HeaderParts["noAck"]) = {flag}
  <2> DEFINE q == HeaderParts["noAck"]
  <2>1. q[1] = 11 /\ q[2] = 12
    BY DEF HeaderParts
  <2> HIDE DEF q
  <2>2. StandsAt(t, 11, d)
    BY <1>0, <1>5 DEF StandsAt
  <2>3. /\ q[1] \in Nat /\ q[2] = q[1] + Len(d) /\ q[2] <= Len(t)
        /\ StandsAt(t, q[1], d)
    BY <1>0, <1>7, <2>1, <2>2
  <2>4. d \in Seq(S) /\ IsDigits(d)
    BY <1>0
  <2>5. ReadPart(t, q) = {NumberOf(d)}
    BY <1>6, <2>3, <2>4
  <2>6. QED
    BY <1>0, <1>8, <2>5 DEF q
<1>13. ReadPart(t, HeaderParts["stationId"]) = {header.stationId}
  <2> DEFINE q == HeaderParts["stationId"]
  <2>1. q[1] = 12 /\ q[2] = 14
    BY DEF HeaderParts
  <2> HIDE DEF q
  <2>2. StandsAt(t, 12, e)
    BY <1>0, <1>5 DEF StandsAt
  <2>3. /\ q[1] \in Nat /\ q[2] = q[1] + Len(e) /\ q[2] <= Len(t)
        /\ StandsAt(t, q[1], e)
    BY <1>0, <1>7, <2>1, <2>2
  <2>4. e \in Seq(S) /\ IsDigits(e)
    BY <1>0
  <2>5. ReadPart(t, q) = {NumberOf(e)}
    BY <1>6, <2>3, <2>4
  <2>6. QED
    BY <1>0, <1>8, <2>5 DEF q
<1>14. ReadPart(t, HeaderParts["spindleId"]) = {header.spindleId}
  <2> DEFINE q == HeaderParts["spindleId"]
  <2>1. q[1] = 14 /\ q[2] = 16
    BY DEF HeaderParts
  <2> HIDE DEF q
  <2>2. StandsAt(t, 14, f)
    BY <1>0, <1>5 DEF StandsAt
  <2>3. /\ q[1] \in Nat /\ q[2] = q[1] + Len(f) /\ q[2] <= Len(t)
        /\ StandsAt(t, q[1], f)
    BY <1>0, <1>7, <2>1, <2>2
  <2>4. f \in Seq(S) /\ IsDigits(f)
    BY <1>0
  <2>5. ReadPart(t, q) = {NumberOf(f)}
    BY <1>6, <2>3, <2>4
  <2>6. QED
    BY <1>0, <1>8, <2>5 DEF q
<1>15. \A part \in ReservedParts : ReadPart(t, part) = {0}
  <2>1. \A i \in 1 .. 4 : t[16 + i] = Zero
    BY <1>5
  <2>2. QED
    BY <2>1, ReservedAreRead
<1> DEFINE read == ReadHeader(t)
<1>16. DOMAIN HeaderParts = {"length", "mid", "revision", "noAck", "stationId", "spindleId"}
  BY DEF HeaderParts
<1>17. \A part \in DOMAIN HeaderParts : ReadPart(t, HeaderParts[part]) # {}
  BY <1>9, <1>10, <1>11, <1>12, <1>13, <1>14, <1>16
<1>18. /\ read.length = header.length /\ read.mid = header.mid
       /\ read.revision = header.revision /\ read.noAck = flag
       /\ read.stationId = header.stationId /\ read.spindleId = header.spindleId
  <2>1. ASSUME NEW part \in DOMAIN HeaderParts, NEW x, ReadPart(t, HeaderParts[part]) = {x}
        PROVE  read[part] = x
    <3>1. read[part] = CHOOSE n \in ReadPart(t, HeaderParts[part]) : TRUE
      BY DEF ReadHeader
    <3> HIDE DEF read
    <3>2. (CHOOSE n \in {x} : TRUE) = x
      OBVIOUS
    <3>3. QED
      BY <2>1, <3>1, <3>2
  <2> HIDE DEF read
  <2>2. read["length"] = header.length
    BY <1>9, <1>16, <2>1
  <2>3. read["mid"] = header.mid
    BY <1>10, <1>16, <2>1
  <2>4. read["revision"] = header.revision
    BY <1>11, <1>16, <2>1
  <2>5. read["noAck"] = flag
    BY <1>12, <1>16, <2>1
  <2>6. read["stationId"] = header.stationId
    BY <1>13, <1>16, <2>1
  <2>7. read["spindleId"] = header.spindleId
    BY <1>14, <1>16, <2>1
  <2>8. QED
    BY <2>2, <2>3, <2>4, <2>5, <2>6, <2>7
<1> HIDE DEF read
<1>19. HeaderOf(read) = header
  <2>1. \A n \in Nat \ {0} : AtLeastOne(n) = n
    BY AlreadyOne
  <2>2. /\ header.revision \in Nat \ {0} /\ header.stationId \in Nat \ {0}
        /\ header.spindleId \in Nat \ {0}
    BY HeaderIsRecord
  <2>3. /\ AtLeastOne(header.revision) = header.revision
        /\ AtLeastOne(header.stationId) = header.stationId
        /\ AtLeastOne(header.spindleId) = header.spindleId
    BY <2>1, <2>2
  <2>4. (flag = 1) = header.noAck
    <3>1. header.noAck \in BOOLEAN
      BY HeaderIsRecord
    <3>2. CASE header.noAck = TRUE
      BY <3>2 DEF flag
    <3>3. CASE header.noAck = FALSE
      <4>1. flag = 0
        BY <3>3 DEF flag
      <4>2. (flag = 1) = FALSE
        BY <4>1
      <4>3. QED
        BY <3>3, <4>2
    <3>4. QED
      BY <3>1, <3>2, <3>3
  <2>5. header = [length |-> header.length, mid |-> header.mid,
                  revision |-> header.revision, noAck |-> header.noAck,
                  stationId |-> header.stationId, spindleId |-> header.spindleId]
    BY HeaderIsRecord
  <2>6. QED
    BY <1>18, <2>3, <2>4, <2>5 DEF HeaderOf
<1>20. DecodeHeader(t) = {HeaderOf(read)} \cap Header
  <2> DEFINE Good(u) == /\ Len(u) >= HeaderLength
                        /\ \A part \in DOMAIN HeaderParts : ReadPart(u, HeaderParts[part]) # {}
                        /\ \A part \in ReservedParts : ReadPart(u, part) = {0}
  <2>1. Good(t)
    BY <1>15, <1>17 DEF HeaderLength
  <2>2. DecodeHeader(t) = {HeaderOf(ReadHeader(u)) : u \in {v \in {t} : Good(v)}} \cap Header
    BY DEF DecodeHeader
  <2> HIDE DEF Good
  <2>3. QED
    BY <2>1, <2>2 DEF read
<1>21. QED
  BY <1>19, <1>20

\* A text that begins with its own length.
NamesItself(text) == IsDigits(Part(text, 0, 4)) /\ NumberOf(Part(text, 0, 4)) = Len(text)

\* With a terminator, it is whole, and alone in its buffer.
LEMMA FrameIsWhole ==
    ASSUME NEW S, Terminator \in S, NEW text \in Seq(S), Len(text) >= 20, NamesItself(text)
    PROVE  LET frame == text \o <<Terminator>>
           IN  /\ frame \in Seq(S) /\ frame # <<>>
               /\ HoldsFrame(frame) /\ LengthOf(frame) = Len(text)
               /\ Part(frame, 0, Len(text)) = text
               /\ Rest(frame) = <<>>
<1> DEFINE frame == text \o <<Terminator>>
           n == Len(text)
<1>1. <<Terminator>> \in Seq(S)
  OBVIOUS
<1>2. /\ n \in Nat /\ n = Len(text) /\ 20 <= n /\ 4 <= n
      /\ frame \in Seq(S) /\ Len(frame) = n + 1 /\ frame[n + 1] = Terminator
      /\ \A i \in 1 .. n : frame[0 + i] = text[i]
  OBVIOUS
<1>3. Part(frame, 0, 4) = Part(text, 0, 4)
  <2>1. 4 \in Nat /\ 4 <= Len(text)
    BY <1>2
  <2>2. QED
    BY <1>1, <2>1, FrontStays
<1> HIDE DEF frame, n
<1>4. LengthField(frame) = Part(text, 0, 4)
  BY <1>3 DEF LengthField
<1>5. LengthOf(frame) = n /\ IsDigits(LengthField(frame))
  BY <1>2, <1>4 DEF LengthOf, NamesItself
<1>6. NamesALength(frame)
  BY <1>2, <1>5 DEF NamesALength, HeaderLength
<1>7. IsWhole(frame)
  BY <1>2, <1>5, <1>6 DEF IsWhole
<1>8. HoldsFrame(frame)
  BY <1>2, <1>5, <1>6, <1>7 DEF HoldsFrame, IsMalformed
<1>9. Part(frame, 0, n) = text
  <2>1. n = 0 + Len(text) /\ n <= Len(frame) /\ 0 \in Nat /\ n \in Nat
    BY <1>2
  <2>2. StandsAt(frame, 0, text)
    BY <1>2 DEF StandsAt
  <2>3. QED
    BY <1>2, <2>1, <2>2, PartFrom
<1>10. Rest(frame) = <<>>
  <2>1. Rest(frame) = SubSeq(frame, n + 2, n + 1)
    BY <1>2, <1>5, <1>7, <1>8 DEF Rest, HoldsFrame, AfterFrame
  <2>2. SubSeq(frame, n + 2, n + 1) = <<>>
    <3>1. n + 2 \in Int /\ n + 1 \in Int /\ n + 1 < n + 2
      BY <1>2
    <3>2. QED
      BY <3>1, <1>2
  <2>3. QED
    BY <2>1, <2>2
<1>11. frame # <<>>
  BY <1>2
<1>12. QED
  BY <1>2, <1>5, <1>8, <1>9, <1>10, <1>11 DEF n, frame

\* What the framer makes of it.
LEMMA FrameIsFramed ==
    ASSUME NEW S, Terminator \in S, NEW text \in Seq(S), Len(text) >= 20, NamesItself(text)
    PROVE  LET taken == TakeFrames(text \o <<Terminator>>)
           IN  taken.frames = <<text>> /\ taken.buffer = <<>> /\ taken.error = FALSE
<1> DEFINE frame == text \o <<Terminator>>
           c == <<frame, <<>> >>
           l == Leftovers(frame)
           taken == TakeFrames(frame)
<1>1. /\ frame \in Seq(S) /\ frame # <<>>
      /\ HoldsFrame(frame) /\ LengthOf(frame) = Len(text)
      /\ Part(frame, 0, Len(text)) = text
      /\ Rest(frame) = <<>>
  BY FrameIsWhole
<1> HIDE DEF frame
<1>2. Rest(<<>>) = <<>> /\ IsMalformed(<<>>) = FALSE
  <2>1. Len(<<>>) = 0
    OBVIOUS
  <2>2. ~IsWhole(<<>>)
    BY <2>1 DEF IsWhole
  <2>3. QED
    BY <2>1, <2>2 DEF Rest, IsMalformed
<1>3. c \in Seq(Seq(S)) /\ c # <<>> /\ Len(c) = 2 /\ c[1] = frame /\ c[2] = <<>>
  <2>1. <<>> \in Seq(S)
    OBVIOUS
  <2>2. QED
    BY <1>1, <2>1
<1> HIDE DEF c
<1>4. Chain(c, frame)
  <2>1. \A i \in 1 .. Len(c) - 1 : i = 1
    BY <1>3
  <2>2. 1 + 1 = 2
    OBVIOUS
  <2>3. c[1 + 1] = Rest(c[1]) /\ Rest(c[1]) # c[1]
    BY <1>1, <1>3, <2>2
  <2>4. QED
    BY <1>3, <2>1, <2>3 DEF Chain
<1>5. Complete(c, frame)
  BY <1>2, <1>3, <1>4 DEF Complete
<1>6. l \in Seq(Seq(S)) /\ l # <<>> /\ Complete(l, frame)
  BY <1>1, LeftoversComplete
<1>7. l = c
  <2> HIDE DEF l
  <2>1. QED
    BY <1>3, <1>5, <1>6, CompleteIsUnique
<1>8. /\ taken.frames \in Seq(Seq(S)) /\ Len(taken.frames) = Len(l) - 1
      /\ \A n \in 1 .. Len(l) - 1 : taken.frames[n] = Part(l[n], 0, LengthOf(l[n]))
      /\ taken.buffer = l[Len(l)] /\ taken.error = IsMalformed(l[Len(l)])
  BY <1>1, TakeFramesTyped
<1> HIDE DEF taken, l
<1>9. taken.frames \in Seq(Seq(S)) /\ Len(taken.frames) = 1 /\ taken.frames[1] = text
  <2>1. Len(l) = 2
    BY <1>3, <1>7
  <2>2. taken.frames[1] = Part(c[1], 0, LengthOf(c[1]))
    <3>1. 1 \in 1 .. Len(l) - 1
      BY <2>1
    <3>2. taken.frames[1] = Part(l[1], 0, LengthOf(l[1]))
      BY <1>8, <3>1
    <3>3. QED
      BY <1>7, <3>2
  <2>3. QED
    BY <1>1, <1>3, <1>8, <2>1, <2>2
<1>10. taken.frames = <<text>>
  BY <1>9
<1>11. taken.buffer = <<>> /\ taken.error = FALSE
  BY <1>2, <1>3, <1>7, <1>8
<1>12. QED
  BY <1>10, <1>11 DEF taken, frame

\* Two texts, one behind the other; one more at the end.
JoinOf(S, t, a, b) ==
    /\ t \in Seq(S) /\ Len(t) = Len(a) + Len(b) /\ Len(b) \in Nat
    /\ \A i \in 1 .. Len(a) : t[i] = a[i]
    /\ \A i \in 1 .. Len(b) : t[Len(a) + i] = b[i]

LEMMA JoinedAt ==
    ASSUME NEW S, NEW a \in Seq(S), NEW b \in Seq(S)
    PROVE  JoinOf(S, a \o b, a, b)
BY DEF JoinOf

LEMMA JoinedOne ==
    ASSUME NEW S, NEW a \in Seq(S), NEW x \in S
    PROVE  a \o <<x>> = Append(a, x)
OBVIOUS

\* A header that is written is twenty characters that begin with its length.
LEMMA HeaderNamesItsLength ==
    ASSUME NEW S, 0 .. 127 \subseteq S, NEW header \in Header
    PROVE  LET h == EncodeHeader(header)
           IN  /\ h \in Seq(S) /\ Len(h) = 20
               /\ IsDigits(Part(h, 0, 4)) /\ NumberOf(Part(h, 0, 4)) = header.length
<1> DEFINE h == EncodeHeader(header)
<1>1. PICK a, b, c, d, e, f, z :
         /\ Piece(S, a, 4, header.length) /\ Piece(S, b, 4, header.mid)
         /\ Piece(S, c, 3, header.revision)
         /\ Piece(S, d, 1, IF header.noAck THEN 1 ELSE 0)
         /\ Piece(S, e, 2, header.stationId) /\ Piece(S, f, 2, header.spindleId)
         /\ z \in Seq(S) /\ Len(z) = 4 /\ \A i \in 1 .. 4 : z[i] = Zero
         /\ EncodeHeader(header) = HeaderText(a, b, c, d, e, f, z)
  BY HeaderIsPieces
<1> HIDE DEF h
<1>2. /\ a \in Seq(S) /\ b \in Seq(S) /\ c \in Seq(S) /\ d \in Seq(S)
      /\ e \in Seq(S) /\ f \in Seq(S) /\ z \in Seq(S)
      /\ Widths(a, b, c, d, e, f, z)
  BY <1>1 DEF Piece, Widths
<1>3. /\ HeaderText(a, b, c, d, e, f, z) \in Seq(S)
      /\ Widths(a, b, c, d, e, f, z) =>
           /\ Len(HeaderText(a, b, c, d, e, f, z)) = 20
           /\ Places(HeaderText(a, b, c, d, e, f, z), a, b, c, d, e, f, z)
  BY <1>2, PiecesOfHeader
<1>4. h \in Seq(S) /\ Len(h) = 20 /\ Places(h, a, b, c, d, e, f, z)
  BY <1>1, <1>2, <1>3 DEF h
<1>5. Part(h, 0, 4) = a
  <2>1. Len(a) = 4
    BY <1>2 DEF Widths
  <2>2. StandsAt(h, 0, a)
    BY <1>4, <2>1 DEF Places, StandsAt
  <2>3. 0 \in Nat /\ 4 \in Nat /\ 4 = 0 + Len(a) /\ 4 <= Len(h)
    BY <1>4, <2>1
  <2>4. QED
    BY <1>2, <1>4, <2>2, <2>3, PartFrom
<1>6. IsDigits(a) /\ NumberOf(a) = header.length
  BY <1>1 DEF Piece
<1>7. QED
  BY <1>4, <1>5, <1>6 DEF h

\* The header of EncodeFrame, and the data that fits behind it.
HeaderFor(mid, revision, data) ==
    [length |-> HeaderLength + Len(data), mid |-> mid, revision |-> revision,
     noAck |-> FALSE, stationId |-> 1, spindleId |-> 1]
Fits(data) == HeaderLength + Len(data) \in HeaderLength .. 9999

LEMMA HeaderForTyped ==
    ASSUME NEW mid \in MidNumber, NEW revision \in RevisionNumber, NEW data, Fits(data)
    PROVE  HeaderFor(mid, revision, data) \in Header
<1> DEFINE A == HeaderLength .. 9999
           D == 1 .. 99
           n == HeaderLength + Len(data)
<1>1. n \in A
  BY DEF Fits
<1>2. 1 \in D
  OBVIOUS
<1> HIDE DEF A, D, n
<1>3. [length |-> n, mid |-> mid, revision |-> revision, noAck |-> FALSE,
       stationId |-> 1, spindleId |-> 1]
      \in [length : A, mid : MidNumber, revision : RevisionNumber,
           noAck : BOOLEAN, stationId : D, spindleId : D]
  BY <1>1, <1>2
<1>4. QED
  BY <1>3 DEF Header, HeaderFor, A, D, n

\* The text of a frame that was written.
IsTextOf(S, text, mid, revision, data) ==
    /\ text \in Seq(S) /\ Len(text) >= 20 /\ NamesItself(text)
    /\ EncodeFrame(mid, revision, data) = text \o <<Terminator>>
    /\ DecodeHeader(text) = {HeaderFor(mid, revision, data)}
    /\ Part(text, 20, Len(text)) = data

LEMMA WrittenText ==
    ASSUME NEW S, 0 .. 127 \subseteq S, NEW mid \in MidNumber, NEW revision \in RevisionNumber,
           NEW data \in Seq(S), Fits(data)
    PROVE  \E text : IsTextOf(S, text, mid, revision, data)
<1> DEFINE header == HeaderFor(mid, revision, data)
           h == EncodeHeader(header)
           text == h \o data
<1>1. EncodeFrame(mid, revision, data) = text \o <<Terminator>>
  BY DEF EncodeFrame, HeaderFor
<1>2. header.length = 20 + Len(data)
  BY DEF HeaderFor, HeaderLength
<1>3. header \in Header
  BY HeaderForTyped
<1> HIDE DEF header
<1>4. /\ h \in Seq(S) /\ Len(h) = 20
      /\ IsDigits(Part(h, 0, 4)) /\ NumberOf(Part(h, 0, 4)) = header.length
  BY <1>3, HeaderNamesItsLength
<1> HIDE DEF h
<1>5. /\ Len(data) \in Nat /\ text \in Seq(S) /\ Len(text) = 20 + Len(data)
      /\ \A i \in 1 .. 20 : text[i] = h[i]
      /\ \A i \in 1 .. Len(data) : text[20 + i] = data[i]
  <2>1. h \in Seq(S)
    BY <1>4
  <2>2. JoinOf(S, text, h, data)
    BY <2>1, JoinedAt
  <2>3. Len(h) = 20
    BY <1>4
  <2> HIDE DEF text
  <2>4. QED
    BY <2>2, <2>3 DEF JoinOf
<1>6. Part(text, 0, 4) = Part(h, 0, 4)
  <2>1. 4 \in Nat /\ 4 <= Len(h)
    BY <1>4
  <2>2. QED
    BY <1>4, <2>1, FrontStays
<1> HIDE DEF text
<1>7. NamesItself(text)
  BY <1>2, <1>4, <1>5, <1>6 DEF NamesItself
<1>8. DecodeHeader(text) = {header}
  <2>1. Len(text) >= 20
    BY <1>5
  <2>2. \A i \in 1 .. 20 : text[i] = EncodeHeader(header)[i]
    BY <1>5 DEF h
  <2>3. QED
    BY <1>3, <1>5, <2>1, <2>2, FrontHeaderIsRead
<1>9. Part(text, 20, Len(text)) = data
  <2>1. /\ 20 \in Nat /\ Len(text) \in Nat /\ Len(text) = 20 + Len(data)
        /\ Len(text) <= Len(text)
    BY <1>5
  <2>2. StandsAt(text, 20, data)
    BY <1>5 DEF StandsAt
  <2>3. QED
    BY <1>5, <2>1, <2>2, PartFrom
<1>10. Len(text) >= 20
  BY <1>5
<1>11. IsTextOf(S, text, mid, revision, data)
  <2>1. text \in Seq(S)
    BY <1>5
  <2>2. QED
    BY <1>1, <1>7, <1>8, <1>9, <1>10, <2>1 DEF IsTextOf, header
<1>12. QED
  BY <1>11

\* encodeFrame and takeFrames, encodeHeader and decodeHeader: a frame written
\* behind bytes that leave nothing over is the next one framed, whole, with
\* nothing left; the header in it is read back as it was written, to its last
\* digit, and what follows the header is the data field.
THEOREM WrittenFramesAreRead ==
    ASSUME NEW S, 0 .. 127 \subseteq S, NEW mid \in MidNumber, NEW revision \in RevisionNumber,
           NEW data \in Seq(S), Fits(data),
           NEW before \in Seq(S), TakeFrames(before).buffer = <<>>
    PROVE  \E text \in Seq(S) :
             LET taken == TakeFrames(before \o EncodeFrame(mid, revision, data))
             IN  /\ taken.frames = Append(TakeFrames(before).frames, text)
                 /\ taken.buffer = <<>> /\ taken.error = FALSE
                 /\ DecodeHeader(text) =
                      {[length |-> HeaderLength + Len(data), mid |-> mid,
                        revision |-> revision, noAck |-> FALSE,
                        stationId |-> 1, spindleId |-> 1]}
                 /\ Part(text, HeaderLength, Len(text)) = data
<1> DEFINE header == HeaderFor(mid, revision, data)
           frame == EncodeFrame(mid, revision, data)
           first == TakeFrames(before)
           taken == TakeFrames(before \o frame)
<1>1. PICK text : IsTextOf(S, text, mid, revision, data)
  BY WrittenText
<1> HIDE DEF frame
<1>2. /\ text \in Seq(S) /\ Len(text) >= 20 /\ NamesItself(text)
      /\ frame = text \o <<Terminator>> /\ DecodeHeader(text) = {header}
      /\ Part(text, 20, Len(text)) = data
  BY <1>1 DEF IsTextOf, frame
<1>3. Terminator \in S
  <2>1. 0 \in 0 .. 127
    OBVIOUS
  <2>2. QED
    BY <2>1 DEF Terminator
<1>4. /\ TakeFrames(text \o <<Terminator>>).frames = <<text>>
      /\ TakeFrames(text \o <<Terminator>>).buffer = <<>>
      /\ TakeFrames(text \o <<Terminator>>).error = FALSE
  BY <1>2, <1>3, FrameIsFramed
<1>5. frame \in Seq(S)
  <2>1. <<Terminator>> \in Seq(S)
    BY <1>3
  <2>2. QED
    BY <1>2, <2>1
<1>6. Step(first.buffer, frame) = TakeFrames(frame)
  <2>1. <<>> \o frame = frame
    BY <1>5
  <2>2. QED
    BY <2>1 DEF Step
<1>7. /\ taken.frames = first.frames \o Step(first.buffer, frame).frames
      /\ taken.buffer = Step(first.buffer, frame).buffer
      /\ taken.error = Step(first.buffer, frame).error
  BY <1>5, FramesIgnoreCuts
<1>8. first.frames \in Seq(Seq(S))
  BY TakeFramesTyped
<1> HIDE DEF taken, first
<1>9. taken.frames = first.frames \o <<text>>
  BY <1>2, <1>4, <1>6, <1>7
<1>10. taken.frames = Append(first.frames, text)
  <2>1. text \in Seq(S)
    BY <1>2
  <2>2. first.frames \o <<text>> = Append(first.frames, text)
    BY <1>8, <2>1, JoinedOne
  <2>3. QED
    BY <1>9, <2>2
<1>11. taken.buffer = <<>> /\ taken.error = FALSE
  BY <1>2, <1>4, <1>6, <1>7
<1>12. DecodeHeader(text) =
         {[length |-> HeaderLength + Len(data), mid |-> mid, revision |-> revision,
           noAck |-> FALSE, stationId |-> 1, spindleId |-> 1]}
  BY <1>2 DEF HeaderFor
<1>13. Part(text, HeaderLength, Len(text)) = data
  BY <1>2 DEF HeaderLength
<1>14. QED
  BY <1>2, <1>10, <1>11, <1>12, <1>13 DEF taken, first, frame

-----------------------------------------------------------------------------
(* Induction on the naturals, the predicate being a set.                   *)

LEMMA UpFromZero ==
    ASSUME NEW n \in Nat, NEW T, 0 \in T, \A k \in 0 .. n - 1 : k \in T => k + 1 \in T
    PROVE  \A k \in 0 .. n : k \in T
<1> DEFINE Bad == {k \in 0 .. n : k \notin T}
<1> SUFFICES ASSUME Bad # {} PROVE FALSE
  OBVIOUS
<1>1. PICK k \in Bad : \A j \in Bad : k <= j
  <2>1. Bad \in SUBSET Nat
    OBVIOUS
  <2> HIDE DEF Bad
  <2>2. QED
    BY <2>1, LeastNumber
<1>2. k \in 0 .. n /\ k \notin T /\ k # 0
  OBVIOUS
<1>3. k - 1 \in 0 .. n - 1 /\ (k - 1) + 1 = k /\ k - 1 \in 0 .. n
  BY <1>2
<1>4. k - 1 \notin Bad
  BY <1>1, <1>3
<1>5. QED
  BY <1>2, <1>3, <1>4

LEMMA UpFromBelow ==
    ASSUME NEW n \in Nat, NEW T, \A k \in 0 .. n : (\A j \in 0 .. k - 1 : j \in T) => k \in T
    PROVE  \A k \in 0 .. n : k \in T
<1> DEFINE Bad == {k \in 0 .. n : k \notin T}
<1> SUFFICES ASSUME Bad # {} PROVE FALSE
  OBVIOUS
<1>1. PICK k \in Bad : \A j \in Bad : k <= j
  <2>1. Bad \in SUBSET Nat
    OBVIOUS
  <2> HIDE DEF Bad
  <2>2. QED
    BY <2>1, LeastNumber
<1>2. k \in 0 .. n /\ k \notin T
  OBVIOUS
<1>3. \A j \in 0 .. k - 1 : j \in 0 .. n /\ ~ (k <= j)
  BY <1>2
<1>4. \A j \in 0 .. k - 1 : j \in T
  BY <1>1, <1>3
<1>5. QED
  BY <1>2, <1>4

-----------------------------------------------------------------------------
(* Texts that are joined.                                                  *)

\* What the first of them make, and the next, and so on.
Fronts(texts, p, n) ==
    p[0] = <<>> /\ \A k \in 1 .. n : p[k] = p[k - 1] \o texts[k]

LEMMA PrefixesExist ==
    ASSUME NEW S, NEW texts \in Seq(Seq(S))
    PROVE  \E p \in [0 .. Len(texts) -> Seq(S)] : Fronts(texts, p, Len(texts))
<1> DEFINE n == Len(texts)
           B == Seq(S)
           T == {k \in 0 .. n : \E p \in [0 .. k -> B] : Fronts(texts, p, k)}
<1>1. n \in Nat /\ <<>> \in B /\ \A k \in 1 .. n : texts[k] \in B
  OBVIOUS
<1>2. 0 \in T
  <2> DEFINE p == [k \in 0 .. 0 |-> <<>>]
  <2>1. p \in [0 .. 0 -> B] /\ p[0] = <<>> /\ 1 .. 0 = {}
    BY <1>1
  <2>2. Fronts(texts, p, 0)
    BY <2>1 DEF Fronts
  <2> HIDE DEF p, B
  <2>3. \E q \in [0 .. 0 -> B] : Fronts(texts, q, 0)
    BY <2>1, <2>2
  <2>4. 0 \in 0 .. n
    BY <1>1
  <2>5. QED
    BY <2>3, <2>4
<1>3. ASSUME NEW k \in 0 .. n - 1, k \in T
      PROVE  k + 1 \in T
  <2>1. PICK p \in [0 .. k -> B] : Fronts(texts, p, k)
    BY <1>3
  <2>2. k \in Nat /\ k + 1 \in 1 .. n /\ k + 1 \in 0 .. n /\ (k + 1) - 1 = k /\ k \in 0 .. k
    BY <1>1
  <2> DEFINE x == p[k] \o texts[k + 1]
             q == [j \in 0 .. k + 1 |-> IF j = k + 1 THEN x ELSE p[j]]
  <2>3. x \in B
    <3>1. p[k] \in Seq(S) /\ texts[k + 1] \in Seq(S)
      BY <2>2, <1>1
    <3>2. QED
      BY <3>1
  <2> HIDE DEF x, B
  <2>4. q \in [0 .. k + 1 -> B]
    BY <2>2, <2>3
  <2>5. \A j \in 0 .. k : q[j] = p[j]
    BY <2>2
  <2>6. q[k + 1] = p[k] \o texts[k + 1]
    BY <2>2 DEF x
  <2> HIDE DEF q
  <2>7. ASSUME NEW j \in 1 .. k + 1
        PROVE  q[j] = q[j - 1] \o texts[j]
    <3>1. CASE j = k + 1
      BY <2>2, <2>5, <2>6, <3>1
    <3>2. CASE j # k + 1
      <4>1. j \in 1 .. k /\ j \in 0 .. k /\ j - 1 \in 0 .. k
        BY <2>2, <3>2
      <4>2. QED
        BY <2>1, <2>5, <4>1 DEF Fronts
    <3>3. QED
      BY <3>1, <3>2
  <2>8. q[0] = <<>>
    BY <2>1, <2>2, <2>5 DEF Fronts
  <2>9. Fronts(texts, q, k + 1)
    BY <2>7, <2>8 DEF Fronts
  <2>10. QED
    BY <2>2, <2>4, <2>9
<1> HIDE DEF T
<1>4. n \in T
  <2>1. \A k \in 0 .. n : k \in T
    BY <1>1, <1>2, <1>3, UpFromZero
  <2>2. QED
    BY <1>1, <2>1
<1>5. QED
  BY <1>4 DEF T

\* The recursion of Joined.
Middle(span) == (span[1] + span[2]) \div 2
Joins(join, texts) ==
    join = [span \in (DOMAIN texts) \X (DOMAIN texts) |->
              IF span[1] = span[2] THEN texts[span[1]]
              ELSE join[<<span[1], Middle(span)>>] \o join[<<Middle(span) + 1, span[2]>>]]

LEMMA MiddleBetween ==
    ASSUME NEW n \in Nat, NEW a \in 1 .. n, NEW b \in 1 .. n, a # b
    PROVE  LET m == Middle(<<a, b>>)
           IN  /\ m \in 1 .. n /\ m + 1 \in 1 .. n
               /\ a < b => a <= m /\ m < b
               /\ b < a => m < a /\ b < m + 1
<1> DEFINE m == Middle(<<a, b>>)
<1>1. m = (a + b) \div 2
  BY DEF Middle
<1> HIDE DEF m
<1>2. m \in Int /\ a + b = 2 * m + ((a + b) % 2) /\ (a + b) % 2 \in 0 .. 1
  BY <1>1
<1>3. a + b - 1 <= 2 * m /\ 2 * m <= a + b
  BY <1>2
<1>4. a < b => a <= m /\ m < b
  BY <1>2, <1>3
<1>5. b < a => m < a /\ b < m + 1
  BY <1>2, <1>3
<1>6. m \in 1 .. n /\ m + 1 \in 1 .. n
  BY <1>2, <1>4, <1>5
<1>7. QED
  BY <1>4, <1>5, <1>6 DEF m

\* The first of what was joined are at its front.
LEMMA PrefixesGrow ==
    ASSUME NEW S, NEW texts \in Seq(Seq(S)), NEW p \in [0 .. Len(texts) -> Seq(S)],
           Fronts(texts, p, Len(texts)), NEW a \in 0 .. Len(texts)
    PROVE  \A b \in a .. Len(texts) :
              Len(p[a]) <= Len(p[b]) /\ SubSeq(p[b], 1, Len(p[a])) = p[a]
<1> DEFINE n == Len(texts)
           Q(b) == Len(p[a]) <= Len(p[b]) /\ SubSeq(p[b], 1, Len(p[a])) = p[a]
           T == {k \in 0 .. n - a : Q(a + k)}
<1>1. n \in Nat /\ a \in Nat /\ a <= n /\ n - a \in Nat
      /\ \A b \in 0 .. n : p[b] \in Seq(S) /\ Len(p[b]) \in Nat
  OBVIOUS
<1>2. 0 \in T
  <2>1. SubSeq(p[a], 1, Len(p[a])) = p[a]
    BY SubSeqFull
  <2>2. Q(a)
    BY <1>1, <2>1
  <2>3. a + 0 = a /\ 0 \in 0 .. n - a
    BY <1>1
  <2> HIDE DEF Q
  <2>4. QED
    BY <2>2, <2>3
<1>3. ASSUME NEW k \in 0 .. n - a - 1, k \in T
      PROVE  k + 1 \in T
  <2>1. Q(a + k)
    BY <1>3
  <2> DEFINE b == a + k
  <2>2. b \in 0 .. n /\ b + 1 \in 1 .. n /\ (b + 1) - 1 = b /\ a + (k + 1) = b + 1
        /\ k + 1 \in 0 .. n - a
    BY <1>1
  <2>3. p[b + 1] = p[b] \o texts[b + 1]
    BY <2>2 DEF Fronts
  <2>4. p[b] \in Seq(S) /\ texts[b + 1] \in Seq(S) /\ p[a] \in Seq(S)
    BY <1>1, <2>2
  <2> HIDE DEF b
  <2>5. Len(p[b + 1]) = Len(p[b]) + Len(texts[b + 1]) /\ Len(texts[b + 1]) \in Nat
    BY <2>3, <2>4
  <2>6. Len(p[a]) \in Nat /\ Len(p[b]) \in Nat /\ Len(p[a]) <= Len(p[b])
        /\ SubSeq(p[b], 1, Len(p[a])) = p[a]
    BY <2>1, <2>4 DEF b
  <2>7. SubSeq(p[b + 1], 1, Len(p[a])) = SubSeq(p[b], 1, Len(p[a]))
    <3> DEFINE x == p[b]
               y == texts[b + 1]
               m == Len(p[a])
    <3>1. x \in Seq(S) /\ y \in Seq(S) /\ m \in Nat /\ m <= Len(x)
      BY <2>4, <2>6
    <3> HIDE DEF x, y, m
    <3>2. SubSeq(x \o y, 1, m) = SubSeq(x, 1, m)
      BY <3>1
    <3>3. QED
      BY <2>3, <3>2 DEF x, y, m
  <2>8. Q(b + 1)
    <3>1. Len(p[a]) <= Len(p[b + 1])
      <4> DEFINE x == Len(p[a])
                 y == Len(p[b])
                 z == Len(p[b + 1])
                 t == Len(texts[b + 1])
      <4>1. x \in Nat /\ y \in Nat /\ t \in Nat /\ x <= y /\ z = y + t
        BY <2>5, <2>6
      <4> HIDE DEF x, y, z, t
      <4>2. x <= z
        BY <4>1
      <4>3. QED
        BY <4>2 DEF x, z
    <3>2. SubSeq(p[b + 1], 1, Len(p[a])) = p[a]
      BY <2>6, <2>7, Zenon
    <3>3. QED
      BY <3>1, <3>2
  <2> HIDE DEF Q
  <2>9. QED
    BY <2>2, <2>8
<1> HIDE DEF T
<1>4. \A k \in 0 .. n - a : k \in T
  BY <1>1, <1>2, <1>3, UpFromZero
<1>5. ASSUME NEW b \in a .. n PROVE Q(b)
  <2>1. b - a \in 0 .. n - a /\ a + (b - a) = b
    BY <1>1
  <2>2. b - a \in T
    BY <1>4, <2>1
  <2> HIDE DEF Q
  <2>3. QED
    BY <2>1, <2>2 DEF T
<1>6. QED
  BY <1>5

\* There is a function the recursion of Joined describes.
LEMMA JoinsExists ==
    ASSUME NEW S, NEW texts \in Seq(Seq(S)), NEW p \in [0 .. Len(texts) -> Seq(S)],
           Fronts(texts, p, Len(texts))
    PROVE  \E join : Joins(join, texts)
<1> DEFINE n == Len(texts)
           D == DOMAIN texts
           q == p[n]
           Span(a, b) == SubSeq(q, Len(p[a - 1]) + 1, Len(p[b]))
           f == [span \in D \X D |->
                   IF span[1] <= span[2] THEN Span(span[1], span[2]) ELSE <<>>]
<1>1. n \in Nat /\ D = 1 .. n /\ q \in Seq(S)
      /\ \A b \in 0 .. n : p[b] \in Seq(S) /\ Len(p[b]) \in Nat
  <2>1. n \in Nat /\ D = 1 .. n
    OBVIOUS
  <2>2. \A b \in 0 .. n : p[b] \in Seq(S)
    OBVIOUS
  <2>3. \A b \in 0 .. n : Len(p[b]) \in Nat
    BY <2>2
  <2>4. n \in 0 .. n
    BY <2>1
  <2>5. q \in Seq(S)
    BY <2>2, <2>4
  <2>6. QED
    BY <2>1, <2>2, <2>3, <2>5
<1>2. ASSUME NEW a \in 0 .. n, NEW b \in a .. n
      PROVE  /\ Len(p[a]) <= Len(p[b]) /\ Len(p[b]) <= Len(q)
             /\ SubSeq(q, 1, Len(p[b])) = p[b] /\ SubSeq(p[b], 1, Len(p[a])) = p[a]
  <2>1. b \in 0 .. n /\ n \in b .. n
    BY <1>1
  <2>2. Len(p[a]) <= Len(p[b]) /\ SubSeq(p[b], 1, Len(p[a])) = p[a]
    BY PrefixesGrow
  <2>3. Len(p[b]) <= Len(p[n]) /\ SubSeq(p[n], 1, Len(p[b])) = p[b]
    BY <2>1, PrefixesGrow
  <2>4. QED
    BY <2>2, <2>3
<1>3. ASSUME NEW a \in 1 .. n, NEW m \in a .. n, NEW b \in m .. n
      PROVE  Span(a, b) = Span(a, m) \o SubSeq(q, Len(p[m]) + 1, Len(p[b]))
  <2>1. /\ a - 1 \in 0 .. n /\ m \in a - 1 .. n /\ m \in 0 .. n
    BY <1>1
  <2>2. Len(p[a - 1]) <= Len(p[m]) /\ Len(p[m]) <= Len(p[b]) /\ Len(p[b]) <= Len(q)
    BY <1>2, <2>1
  <2> DEFINE x == Len(p[a - 1])
             y == Len(p[m])
             z == Len(p[b])
  <2>3. x \in Nat /\ y \in Nat /\ z \in Nat /\ Len(q) \in Nat
    BY <1>1, <2>1
  <2>4. x <= y /\ y <= z /\ z <= Len(q)
    BY <2>2
  <2> HIDE DEF x, y, z, q
  <2>5. x + 1 \in 1 .. Len(q) + 1 /\ y \in (x + 1) - 1 .. Len(q) /\ z \in y .. Len(q)
    BY <2>3, <2>4
  <2>6. SubSeq(q, x + 1, y) \o SubSeq(q, y + 1, z) = SubSeq(q, x + 1, z)
    BY <1>1, <2>5, ConcatAdjacentSubSeq
  <2>7. QED
    BY <2>6 DEF x, y, z
<1>4. ASSUME NEW a \in 1 .. n
      PROVE  Span(a, a) = texts[a]
  <2>1. a - 1 \in 0 .. n /\ a \in 0 .. n /\ a \in a - 1 .. n /\ texts[a] \in Seq(S)
    BY <1>1
  <2>2. p[a] = p[a - 1] \o texts[a]
    BY DEF Fronts
  <2>3. Len(p[a - 1]) <= Len(p[a]) /\ Len(p[a]) <= Len(q) /\ SubSeq(q, 1, Len(p[a])) = p[a]
    BY <1>2, <2>1
  <2> DEFINE x == p[a - 1]
             y == texts[a]
             r == p[a]
  <2>4. x \in Seq(S) /\ y \in Seq(S) /\ r \in Seq(S) /\ r = x \o y
    BY <1>1, <2>1, <2>2
  <2>5. Len(x) <= Len(r) /\ Len(r) <= Len(q) /\ SubSeq(q, 1, Len(r)) = r
    BY <2>3
  <2> HIDE DEF x, y, r, q
  <2>6. Len(r) = Len(x) + Len(y) /\ Len(x) \in Nat /\ Len(y) \in Nat
        /\ \A i \in 1 .. Len(y) : r[Len(x) + i] = y[i]
    BY <2>4
  <2>7. \A i \in 1 .. Len(r) : q[i] = r[i]
    <3>1. ASSUME NEW i \in 1 .. Len(r) PROVE SubSeq(q, 1, Len(r))[i] = q[i]
      BY <1>1, <2>5, <2>6
    <3>2. QED
      BY <2>5, <3>1
  <2> DEFINE s == SubSeq(q, Len(x) + 1, Len(r))
  <2>8. s \in Seq(S) /\ Len(s) = Len(y) /\ \A i \in 1 .. Len(y) : s[i] = q[Len(x) + i]
    <3>1. \A i \in Len(x) + 1 .. Len(r) : q[i] \in S
      BY <1>1, <2>5, <2>6
    <3>2. s \in Seq(S) /\ Len(s) = (IF Len(x) + 1 <= Len(r) THEN Len(r) - (Len(x) + 1) + 1 ELSE 0)
          /\ \A i \in 1 .. Len(r) - (Len(x) + 1) + 1 : s[i] = q[Len(x) + 1 + i - 1]
      BY <1>1, <2>5, <2>6, <3>1, SubSeqProperties, SMTT(30)
    <3> HIDE DEF s
    <3>3. QED
      BY <2>6, <3>2
  <2> HIDE DEF s
  <2>9. \A i \in 1 .. Len(y) : s[i] = y[i]
    <3>1. ASSUME NEW i \in 1 .. Len(y) PROVE s[i] = y[i]
      <4>1. Len(x) + i \in 1 .. Len(r)
        BY <2>6
      <4>2. QED
        BY <2>6, <2>7, <2>8, <4>1
    <3>2. QED
      BY <3>1
  <2>10. s = y
    BY <2>4, <2>8, <2>9, SeqEqual
  <2>11. QED
    BY <2>10 DEF s, x, y, r
<1> HIDE DEF Span, D, q
<1>5. ASSUME NEW span \in D \X D
      PROVE  f[span] = IF span[1] = span[2] THEN texts[span[1]]
                       ELSE f[<<span[1], Middle(span)>>] \o f[<<Middle(span) + 1, span[2]>>]
  <2>1. PICK a \in D, b \in D : span = <<a, b>>
    BY <1>5
  <2>2. a \in 1 .. n /\ b \in 1 .. n
    BY <1>1, <2>1
  <2>3. \A c, d \in D : f[<<c, d>>] = IF c <= d THEN Span(c, d) ELSE <<>>
    OBVIOUS
  <2> HIDE DEF f
  <2>4. CASE a = b
    BY <1>4, <2>1, <2>2, <2>3, <2>4
  <2>5. CASE a # b
    <3> DEFINE m == Middle(<<a, b>>)
    <3>1. /\ m \in 1 .. n /\ m + 1 \in 1 .. n
          /\ a < b => a <= m /\ m < b
          /\ b < a => m < a /\ b < m + 1
      BY <1>1, <2>2, <2>5, MiddleBetween
    <3> HIDE DEF m
    <3>2. m \in D /\ m + 1 \in D
      BY <1>1, <3>1
    <3>3. CASE a < b
      <4>1. m \in a .. n /\ b \in m .. n /\ m + 1 <= b /\ a <= m /\ a <= b
        BY <2>2, <3>1, <3>3
      <4>2. Span(a, b) = Span(a, m) \o SubSeq(q, Len(p[m]) + 1, Len(p[b]))
        BY <1>3, <2>2, <4>1
      <4>3. Span(m + 1, b) = SubSeq(q, Len(p[m]) + 1, Len(p[b]))
        <5>1. (m + 1) - 1 = m
          BY <3>1
        <5>2. QED
          BY <5>1 DEF Span
      <4>4. f[<<a, b>>] = Span(a, b) /\ f[<<a, m>>] = Span(a, m)
            /\ f[<<m + 1, b>>] = Span(m + 1, b)
        BY <2>3, <3>2, <4>1
      <4>5. QED
        BY <2>1, <2>5, <4>2, <4>3, <4>4 DEF m
    <3>4. CASE b < a
      <4>1. ~(a <= b) /\ ~(a <= m) /\ ~(m + 1 <= b)
        BY <2>2, <3>1, <3>4
      <4>2. f[<<a, b>>] = <<>> /\ f[<<a, m>>] = <<>> /\ f[<<m + 1, b>>] = <<>>
        BY <2>3, <3>2, <4>1
      <4>3. <<>> \o <<>> = <<>>
        OBVIOUS
      <4>4. QED
        BY <2>1, <2>5, <4>2, <4>3 DEF m
    <3>5. QED
      BY <2>2, <2>5, <3>3, <3>4
  <2>6. QED
    BY <2>4, <2>5
<1> DEFINE g == [span \in D \X D |->
                   IF span[1] = span[2] THEN texts[span[1]]
                   ELSE f[<<span[1], Middle(span)>>] \o f[<<Middle(span) + 1, span[2]>>]]
<1>6. f = g
  <2>1. \A span \in D \X D : f[span] = g[span]
    BY <1>5
  <2>2. QED
    BY <2>1
<1>7. Joins(f, texts)
  <2> HIDE DEF f
  <2>1. QED
    BY <1>6 DEF Joins, D
<1>8. QED
  BY <1>7

Again(x, y, z) == (x \o y) \o z = x \o (y \o z)

LEMMA JoinsAgain ==
    ASSUME NEW S, NEW x \in Seq(S), NEW y \in Seq(S), NEW z \in Seq(S)
    PROVE  Again(x, y, z)
BY ConcatAssociative DEF Again

\* Joined is what its recursion says, whichever function it chooses for it.
LEMMA JoinedIsPrefix ==
    ASSUME NEW S, NEW texts \in Seq(Seq(S)), NEW p \in [0 .. Len(texts) -> Seq(S)],
           Fronts(texts, p, Len(texts))
    PROVE  Joined(texts) = p[Len(texts)]
<1> DEFINE n == Len(texts)
           B == Seq(S)
           D == DOMAIN texts
<1>1. n \in Nat /\ D = 1 .. n /\ (\A k \in 1 .. n : texts[k] \in B) /\ texts \in Seq(B)
  OBVIOUS
<1>2. \A b \in 0 .. n : p[b] \in B
  OBVIOUS
<1>3. CASE texts = <<>>
  <2>1. n = 0
    BY <1>3
  <2>2. QED
    BY <1>3, <2>1 DEF Joined, Fronts
<1>4. CASE texts # <<>>
  <2>1. n # 0
    BY <1>1, <1>4
  <2>2. PICK g : Joins(g, texts) /\ Joined(texts) = g[<<1, n>>]
    <3>1. Joined(texts) = (CHOOSE join : Joins(join, texts))[<<1, n>>]
      BY <1>4 DEF Joined, Joins, Middle
    <3>2. \E join : Joins(join, texts)
      BY JoinsExists
    <3>3. QED
      BY <3>1, <3>2
  <2>3. \A a \in 1 .. n, b \in 1 .. n :
           g[<<a, b>>] = IF a = b THEN texts[a]
                         ELSE g[<<a, Middle(<<a, b>>)>>] \o g[<<Middle(<<a, b>>) + 1, b>>]
    <3> SUFFICES ASSUME NEW a \in 1 .. n, NEW b \in 1 .. n
                 PROVE  g[<<a, b>>] =
                          IF a = b THEN texts[a]
                          ELSE g[<<a, Middle(<<a, b>>)>>] \o g[<<Middle(<<a, b>>) + 1, b>>]
      OBVIOUS
    <3>1. <<a, b>> \in D \X D /\ <<a, b>>[1] = a /\ <<a, b>>[2] = b
      BY <1>1
    <3> HIDE DEF D
    <3>2. g = [span \in D \X D |->
                 IF span[1] = span[2] THEN texts[span[1]]
                 ELSE g[<<span[1], Middle(span)>>] \o g[<<Middle(span) + 1, span[2]>>]]
      BY <2>2 DEF Joins, D
    <3> DEFINE h(span) == IF span[1] = span[2] THEN texts[span[1]]
                          ELSE g[<<span[1], Middle(span)>>] \o g[<<Middle(span) + 1, span[2]>>]
    <3>3. g[<<a, b>>] = h(<<a, b>>)
      BY <3>1, <3>2
    <3>4. QED
      BY <3>1, <3>3
  <2> DEFINE Q(a, b) == p[b] = p[a - 1] \o g[<<a, b>>] /\ g[<<a, b>>] \in B
             T == {d \in 0 .. n - 1 : \A a \in 1 .. n - d : Q(a, a + d)}
  <2>4. ASSUME NEW a \in 1 .. n PROVE Q(a, a)
    <3>1. p[a] = p[a - 1] \o texts[a]
      BY DEF Fronts
    <3>2. g[<<a, a>>] = texts[a]
      BY <2>3
    <3>3. QED
      BY <1>1, <3>1, <3>2
  <2>5. ASSUME NEW a \in 1 .. n, NEW m \in a .. n, NEW b \in m + 1 .. n,
               m = Middle(<<a, b>>), Q(a, m), Q(m + 1, b)
        PROVE  Q(a, b)
    <3>1. a # b /\ b \in 1 .. n /\ a - 1 \in 0 .. n /\ (m + 1) - 1 = m
      BY <1>1
    <3>2. g[<<a, b>>] = g[<<a, m>>] \o g[<<m + 1, b>>]
      BY <2>3, <2>5, <3>1
    <3> DEFINE x == p[a - 1]
               y == g[<<a, m>>]
               z == g[<<m + 1, b>>]
    <3>3. x \in Seq(S) /\ y \in Seq(S) /\ z \in Seq(S)
      BY <1>2, <2>5, <3>1
    <3>4. p[m] = x \o y /\ p[b] = p[m] \o z
      BY <2>5, <3>1
    <3> HIDE DEF x, y, z, B
    <3>5. (x \o y) \o z = x \o (y \o z) /\ y \o z \in Seq(S)
      <4>1. y \o z \in Seq(S)
        BY <3>3
      <4>2. (x \o y) \o z = x \o (y \o z)
        <5>1. Again(x, y, z)
          BY <3>3, JoinsAgain
        <5>2. QED
          BY <5>1 DEF Again
      <4>3. QED
        BY <4>1, <4>2
    <3>6. p[b] = x \o (y \o z)
      BY <3>4, <3>5
    <3>7. QED
      BY <3>2, <3>5, <3>6 DEF x, y, z, B
  <2> HIDE DEF Q, B
  <2>6. ASSUME NEW d \in 0 .. n - 1, \A j \in 0 .. d - 1 : j \in T
        PROVE  d \in T
    <3>1. ASSUME NEW a \in 1 .. n - d PROVE Q(a, a + d)
      <4>1. a \in 1 .. n /\ a + d \in 1 .. n /\ a + d >= a
        BY <1>1
      <4>2. CASE d = 0
        <5>1. a + d = a
          BY <4>2
        <5>2. QED
          BY <2>4, <4>1, <5>1
      <4>3. CASE d # 0
        <5> DEFINE b == a + d
                   m == Middle(<<a, b>>)
        <5>1. b \in 1 .. n /\ a < b
          BY <4>1, <4>3
        <5> HIDE DEF b
        <5>2. m \in 1 .. n /\ a <= m /\ m < b
          BY <1>1, <4>1, <5>1, MiddleBetween
        <5> HIDE DEF m
        <5>3. /\ m - a \in 0 .. d - 1 /\ a \in 1 .. n - (m - a) /\ a + (m - a) = m
              /\ b - (m + 1) \in 0 .. d - 1 /\ m + 1 \in 1 .. n - (b - (m + 1))
              /\ (m + 1) + (b - (m + 1)) = b
              /\ m \in a .. n /\ b \in m + 1 .. n
          <6>1. b = a + d
            BY DEF b
          <6>2. QED
            BY <1>1, <4>1, <5>1, <5>2, <6>1
        <5>4. m - a \in T /\ b - (m + 1) \in T
          BY <2>6, <5>3
        <5>5. Q(a, a + (m - a)) /\ Q(m + 1, (m + 1) + (b - (m + 1)))
          BY <5>3, <5>4
        <5>6. Q(a, m) /\ Q(m + 1, b)
          BY <5>3, <5>5
        <5>7. Q(a, b)
          BY <2>5, <4>1, <5>3, <5>6 DEF m
        <5>8. QED
          BY <5>7 DEF b
      <4>4. QED
        BY <4>2, <4>3
    <3>2. QED
      BY <3>1
  <2>7. n - 1 \in T
    <3> HIDE DEF T
    <3>1. n - 1 \in Nat /\ n - 1 \in 0 .. n - 1
      BY <1>1, <2>1
    <3>2. \A d \in 0 .. n - 1 : d \in T
      BY <2>6, <3>1, UpFromBelow
    <3>3. QED
      BY <3>1, <3>2
  <2>8. Q(1, n)
    <3>1. 1 \in 1 .. n - (n - 1) /\ 1 + (n - 1) = n
      BY <1>1
    <3>2. QED
      BY <2>7, <3>1
  <2>9. p[0] = <<>> /\ 1 - 1 = 0
    BY DEF Fronts
  <2>10. p[n] = <<>> \o g[<<1, n>>] /\ g[<<1, n>>] \in Seq(S)
    BY <2>8, <2>9 DEF Q, B
  <2>11. <<>> \o g[<<1, n>>] = g[<<1, n>>]
    BY <2>10, ConcatEmptySeq
  <2>12. QED
    BY <2>2, <2>10, <2>11
<1>5. QED
  BY <1>3, <1>4

\* The texts of a longer list are those of its front, and the last.
LEMMA JoinedAppends ==
    ASSUME NEW S, NEW texts \in Seq(Seq(S)), NEW text \in Seq(S)
    PROVE  /\ Joined(texts) \in Seq(S)
           /\ Joined(Append(texts, text)) = Joined(texts) \o text
<1> DEFINE n == Len(texts)
           B == Seq(S)
           more == Append(texts, text)
<1>1. n \in Nat /\ texts \in Seq(B) /\ text \in B
  OBVIOUS
<1>2. /\ more \in Seq(B) /\ Len(more) = n + 1 /\ more[n + 1] = text
      /\ \A k \in 1 .. n : more[k] = texts[k]
  <2> HIDE DEF B
  <2>1. QED
    BY <1>1, AppendProperties
<1> HIDE DEF more
<1>3. PICK p \in [0 .. n + 1 -> Seq(S)] : Fronts(more, p, n + 1)
  <2>1. \E p \in [0 .. Len(more) -> Seq(S)] : Fronts(more, p, Len(more))
    BY <1>2, PrefixesExist
  <2>2. QED
    BY <1>2, <2>1
<1> DEFINE q == [k \in 0 .. n |-> p[k]]
<1>4. q \in [0 .. n -> B] /\ \A k \in 0 .. n : q[k] = p[k]
  <2>1. \A k \in 0 .. n : k \in 0 .. n + 1
    BY <1>1
  <2> HIDE DEF B
  <2>2. \A k \in 0 .. n : p[k] \in Seq(S)
    BY <1>3, <2>1
  <2>3. QED
    BY <2>2 DEF B
<1> HIDE DEF q, B
<1>5. Fronts(texts, q, n)
  <2>1. q[0] = <<>>
    BY <1>1, <1>3, <1>4 DEF Fronts
  <2>2. ASSUME NEW k \in 1 .. n PROVE q[k] = q[k - 1] \o texts[k]
    <3>1. k \in 0 .. n /\ k - 1 \in 0 .. n /\ k \in 1 .. n + 1
      BY <1>1
    <3>2. p[k] = p[k - 1] \o more[k]
      BY <1>3, <3>1 DEF Fronts
    <3>3. QED
      BY <1>2, <1>4, <3>1, <3>2
  <2>3. QED
    BY <2>1, <2>2 DEF Fronts
<1>6. Joined(texts) = q[n]
  BY <1>4, <1>5, JoinedIsPrefix DEF B
<1>7. Joined(more) = p[n + 1]
  <2>1. more \in Seq(Seq(S)) /\ Len(more) = n + 1
    BY <1>2 DEF B
  <2>2. p \in [0 .. Len(more) -> Seq(S)] /\ Fronts(more, p, Len(more))
    BY <1>3, <2>1
  <2>3. Joined(more) = p[Len(more)]
    BY <2>1, <2>2, JoinedIsPrefix
  <2>4. QED
    BY <2>1, <2>3
<1>8. p[n + 1] = p[n] \o more[n + 1]
  <2>1. n + 1 \in 1 .. n + 1 /\ (n + 1) - 1 = n
    BY <1>1
  <2>2. QED
    BY <1>3, <2>1 DEF Fronts
<1>9. n \in 0 .. n
  BY <1>1
<1>10. q[n] \in Seq(S) /\ q[n] = p[n]
  BY <1>4, <1>9 DEF B
<1>11. QED
  BY <1>2, <1>6, <1>7, <1>8, <1>10 DEF more

\* Joined, by what its front makes: Joined is the last of the prefixes.
LEMMA JoinedByPrefixes ==
    ASSUME NEW S, NEW texts \in Seq(Seq(S))
    PROVE  \E p \in [0 .. Len(texts) -> Seq(S)] :
              Fronts(texts, p, Len(texts)) /\ Joined(texts) = p[Len(texts)]
<1>1. PICK p \in [0 .. Len(texts) -> Seq(S)] : Fronts(texts, p, Len(texts))
  BY PrefixesExist
<1>2. Joined(texts) = p[Len(texts)]
  BY <1>1, JoinedIsPrefix
<1>3. QED
  BY <1>1, <1>2

\* A front of the prefixes is enough for a front of the texts.
LEMMA JoinedOfFront ==
    ASSUME NEW S, NEW texts \in Seq(Seq(S)), NEW n \in Nat, Len(texts) <= n,
           NEW p \in [0 .. n -> Seq(S)], Fronts(texts, p, Len(texts))
    PROVE  Joined(texts) = p[Len(texts)]
<1> DEFINE l == Len(texts)
           B == Seq(S)
           q == [k \in 0 .. l |-> p[k]]
<1>1. l \in Nat /\ l <= n /\ p \in [0 .. n -> B] /\ l \in 0 .. l
  OBVIOUS
<1>2. \A k \in 0 .. l : k \in 0 .. n
  BY <1>1
<1> HIDE DEF B
<1>3. q \in [0 .. l -> B] /\ \A k \in 0 .. l : q[k] = p[k]
  BY <1>1, <1>2
<1> HIDE DEF q
<1>4. Fronts(texts, q, l)
  <2>1. q[0] = <<>>
    BY <1>1, <1>3 DEF Fronts
  <2>2. ASSUME NEW k \in 1 .. l PROVE q[k] = q[k - 1] \o texts[k]
    <3>1. k \in 0 .. l /\ k - 1 \in 0 .. l
      BY <1>1
    <3>2. p[k] = p[k - 1] \o texts[k]
      BY DEF Fronts
    <3>3. QED
      BY <1>3, <3>1, <3>2
  <2>3. QED
    BY <2>1, <2>2 DEF Fronts
<1>5. Joined(texts) = q[l]
  BY <1>3, <1>4, JoinedIsPrefix DEF B
<1>6. QED
  BY <1>1, <1>3, <1>5

-----------------------------------------------------------------------------
(* Escapes.  A backslash opens one exactly when the character before it    *)
(* does not, which is how a whole text stays whole when a token is added.  *)

\* So many backslashes stand right before a place.
Run(text, i, k) ==
    /\ k \in 0 .. i - 1
    /\ k < i - 1 => text[i - k - 1] # Backslash
    /\ \A m \in 1 .. k : text[i - m] = Backslash

LEMMA RunsAreOne ==
    ASSUME NEW text, NEW i \in Nat \ {0}, NEW k, NEW l, Run(text, i, k), Run(text, i, l)
    PROVE  k = l
<1>1. k \in 0 .. i - 1 /\ l \in 0 .. i - 1
  BY DEF Run
<1>2. ASSUME NEW a \in 0 .. i - 1, NEW b \in 0 .. i - 1, Run(text, i, a), Run(text, i, b)
      PROVE  ~ (a < b)
  <2> SUFFICES ASSUME a < b PROVE FALSE
    OBVIOUS
  <2>1. a + 1 \in 1 .. b /\ a < i - 1 /\ i - (a + 1) = i - a - 1
    OBVIOUS
  <2>2. text[i - (a + 1)] = Backslash
    BY <1>2, <2>1 DEF Run
  <2>3. text[i - a - 1] # Backslash
    BY <1>2, <2>1 DEF Run
  <2>4. QED
    BY <2>1, <2>2, <2>3
<1>3. ~ (k < l) /\ ~ (l < k)
  BY <1>1, <1>2
<1>4. QED
  BY <1>1, <1>3

LEMMA OpensByRun ==
    ASSUME NEW text, NEW i \in Nat \ {0}, NEW k, Run(text, i, k)
    PROVE  Opens(text, i) <=> text[i] = Backslash /\ k % 2 = 0
<1>1. OthersBefore(text, i) = CHOOSE l \in 0 .. i - 1 : Run(text, i, l)
  BY DEF OthersBefore, Run
<1>2. \E l \in 0 .. i - 1 : Run(text, i, l)
  BY DEF Run
<1>3. Run(text, i, OthersBefore(text, i))
  BY <1>1, <1>2
<1>4. OthersBefore(text, i) = k
  BY <1>3, RunsAreOne
<1>5. QED
  BY <1>4 DEF Opens

LEMMA RunNext ==
    ASSUME NEW text, NEW i \in Nat \ {0}
    PROVE  /\ text[i] # Backslash => Run(text, i + 1, 0)
           /\ \A k : text[i] = Backslash /\ Run(text, i, k) => Run(text, i + 1, k + 1)
<1>1. ASSUME text[i] # Backslash PROVE Run(text, i + 1, 0)
  <2>1. 0 \in 0 .. (i + 1) - 1 /\ (i + 1) - 0 - 1 = i /\ 1 .. 0 = {}
    OBVIOUS
  <2>2. QED
    BY <1>1, <2>1 DEF Run
<1>2. ASSUME NEW k, text[i] = Backslash, Run(text, i, k) PROVE Run(text, i + 1, k + 1)
  <2>1. k \in 0 .. i - 1
    BY <1>2 DEF Run
  <2>2. k + 1 \in 0 .. (i + 1) - 1
    BY <2>1
  <2>3. k + 1 < (i + 1) - 1 => text[(i + 1) - (k + 1) - 1] # Backslash
    <3>1. (i + 1) - (k + 1) - 1 = i - k - 1 /\ (k + 1 < (i + 1) - 1 => k < i - 1)
      BY <2>1
    <3>2. QED
      BY <1>2, <3>1 DEF Run
  <2>4. ASSUME NEW m \in 1 .. k + 1 PROVE text[(i + 1) - m] = Backslash
    <3>1. CASE m = 1
      <4>1. (i + 1) - m = i
        BY <3>1
      <4>2. QED
        BY <1>2, <4>1
    <3>2. CASE m # 1
      <4>1. m - 1 \in 1 .. k /\ (i + 1) - m = i - (m - 1)
        BY <2>1, <3>2
      <4>2. text[i - (m - 1)] = Backslash
        BY <1>2, <4>1 DEF Run
      <4>3. QED
        BY <4>1, <4>2
    <3>3. QED
      BY <3>1, <3>2
  <2>5. QED
    BY <2>2, <2>3, <2>4 DEF Run
<1>3. QED
  BY <1>1, <1>2

LEMMA RunFirst ==
    ASSUME NEW text
    PROVE  Run(text, 1, 0)
<1>1. 0 \in 0 .. 1 - 1 /\ ~ (0 < 1 - 1) /\ 1 .. 0 = {}
  OBVIOUS
<1>2. QED
  BY <1>1 DEF Run

LEMMA RunExists ==
    ASSUME NEW text, NEW n \in Nat
    PROVE  \A i \in 1 .. n + 1 : \E k \in Nat : Run(text, i, k)
<1> DEFINE T == {j \in 0 .. n : \E k \in Nat : Run(text, j + 1, k)}
<1>1. 0 \in T
  <2>1. Run(text, 0 + 1, 0) /\ 0 \in 0 .. n
    BY RunFirst
  <2>2. QED
    BY <2>1
<1>2. ASSUME NEW j \in 0 .. n - 1, j \in T PROVE j + 1 \in T
  <2>1. PICK k \in Nat : Run(text, j + 1, k)
    BY <1>2
  <2>2. j + 1 \in Nat \ {0} /\ j + 1 \in 0 .. n
    OBVIOUS
  <2>3. \E l \in Nat : Run(text, (j + 1) + 1, l)
    <3>1. CASE text[j + 1] = Backslash
      <4>1. k + 1 \in Nat /\ Run(text, (j + 1) + 1, k + 1)
        BY <2>1, <2>2, <3>1, RunNext
      <4>2. QED
        BY <4>1
    <3>2. CASE text[j + 1] # Backslash
      <4>1. 0 \in Nat /\ Run(text, (j + 1) + 1, 0)
        BY <2>2, <3>2, RunNext
      <4>2. QED
        BY <4>1
    <3>3. QED
      BY <3>1, <3>2
  <2>4. QED
    BY <2>2, <2>3
<1> HIDE DEF T
<1>3. \A j \in 0 .. n : j \in T
  BY <1>1, <1>2, UpFromZero
<1>4. ASSUME NEW i \in 1 .. n + 1 PROVE \E k \in Nat : Run(text, i, k)
  <2>1. i - 1 \in 0 .. n /\ (i - 1) + 1 = i
    OBVIOUS
  <2>2. i - 1 \in T
    BY <1>3, <2>1
  <2>3. QED
    BY <2>1, <2>2 DEF T
<1>5. QED
  BY <1>4

\* A backslash opens an escape unless the one before it did.
LEMMA OpensNext ==
    ASSUME NEW text, NEW i \in Nat \ {0}
    PROVE  /\ Opens(text, 1) <=> text[1] = Backslash
           /\ Opens(text, i + 1) <=> text[i + 1] = Backslash /\ ~Opens(text, i)
<1>1. Opens(text, 1) <=> text[1] = Backslash
  <2>1. 1 \in Nat \ {0} /\ 0 % 2 = 0
    OBVIOUS
  <2>2. QED
    BY <2>1, RunFirst, OpensByRun
<1>2. PICK k \in Nat : Run(text, i, k)
  <2>1. i - 1 \in Nat /\ i \in 1 .. (i - 1) + 1
    OBVIOUS
  <2>2. QED
    BY <2>1, RunExists
<1>3. i + 1 \in Nat \ {0}
  OBVIOUS
<1>4. Opens(text, i) <=> text[i] = Backslash /\ k % 2 = 0
  BY <1>2, OpensByRun
<1>5. CASE text[i] = Backslash
  <2>1. Run(text, i + 1, k + 1)
    BY <1>2, <1>5, RunNext
  <2>2. Opens(text, i + 1) <=> text[i + 1] = Backslash /\ (k + 1) % 2 = 0
    BY <1>3, <2>1, OpensByRun
  <2>3. (k + 1) % 2 = 0 <=> ~ (k % 2 = 0)
    OBVIOUS
  <2>4. QED
    BY <1>1, <1>4, <1>5, <2>2, <2>3
<1>6. CASE text[i] # Backslash
  <2>1. Run(text, i + 1, 0)
    BY <1>6, RunNext
  <2>2. Opens(text, i + 1) <=> text[i + 1] = Backslash /\ 0 % 2 = 0
    BY <1>3, <2>1, OpensByRun
  <2>3. QED
    BY <1>1, <1>4, <1>6, <2>2
<1>7. QED
  BY <1>5, <1>6

\* What opens an escape is told by what stands before it.
LEMMA OpensOfFront ==
    ASSUME NEW text, NEW other, NEW n \in Nat, \A i \in 1 .. n : text[i] = other[i]
    PROVE  \A i \in 1 .. n : Opens(text, i) <=> Opens(other, i)
<1> DEFINE T == {j \in 0 .. n : j = 0 \/ (Opens(text, j) <=> Opens(other, j))}
<1>1. 0 \in T
  OBVIOUS
<1>2. ASSUME NEW j \in 0 .. n - 1, j \in T PROVE j + 1 \in T
  <2>1. j + 1 \in 1 .. n /\ j + 1 \in 0 .. n /\ text[j + 1] = other[j + 1]
    OBVIOUS
  <2>2. CASE j = 0
    <3>1. j + 1 = 1 /\ 1 \in Nat \ {0}
      BY <2>2
    <3>2. Opens(text, 1) <=> text[1] = Backslash
      BY <3>1, OpensNext
    <3>3. Opens(other, 1) <=> other[1] = Backslash
      BY <3>1, OpensNext
    <3>4. QED
      BY <2>1, <3>1, <3>2, <3>3
  <2>3. CASE j # 0
    <3>1. j \in Nat \ {0} /\ (Opens(text, j) <=> Opens(other, j))
      BY <1>2, <2>3
    <3>2. Opens(text, j + 1) <=> text[j + 1] = Backslash /\ ~Opens(text, j)
      BY <3>1, OpensNext
    <3>3. Opens(other, j + 1) <=> other[j + 1] = Backslash /\ ~Opens(other, j)
      BY <3>1, OpensNext
    <3>4. QED
      BY <2>1, <3>1, <3>2, <3>3
  <2>4. QED
    BY <2>2, <2>3
<1> HIDE DEF T
<1>3. \A j \in 0 .. n : j \in T
  BY <1>1, <1>2, UpFromZero
<1>4. QED
  <2>1. ASSUME NEW i \in 1 .. n PROVE Opens(text, i) <=> Opens(other, i)
    <3>1. i \in 0 .. n /\ i # 0
      OBVIOUS
    <3>2. i \in T
      BY <1>3, <3>1
    <3>3. QED
      BY <3>1, <3>2 DEF T
  <2>2. QED
    BY <2>1

\* Every escape that is opened ends in the text.
AllEnd(text) ==
    \A i \in 1 .. Len(text) : Opens(text, i) => i + Width(text, i) - 1 <= Len(text)

\* The three shapes of a token of a code.
Plain(token, code) == Len(token) = 1 /\ token[1] = code /\ code # Backslash
Short(token, code) ==
    /\ Len(token) = 2 /\ token[1] = Backslash
    /\ token[2] # LetterX /\ NamedCode(token[2]) = code
Long(token, code) ==
    /\ Len(token) = 4 /\ token[1] = Backslash /\ token[2] = LetterX
    /\ token[3] # Backslash /\ token[4] # Backslash
    /\ 16 * HexValue(token[3]) + HexValue(token[4]) = code
IsTokenOf(S, token, code) ==
    token \in Seq(S) /\ (Plain(token, code) \/ Short(token, code) \/ Long(token, code))

LEMMA HexIsRead ==
    ASSUME NEW v \in 0 .. 15
    PROVE  HexValue(HexDigit(v)) = v /\ HexDigit(v) # Backslash /\ HexDigit(v) \in 48 .. 102
<1>1. CASE v < 10
  BY <1>1 DEF HexValue, HexDigit, IsDigit, Zero, Backslash
<1>2. CASE ~ (v < 10)
  BY <1>2 DEF HexValue, HexDigit, IsDigit, Zero, Backslash
<1>3. QED
  BY <1>1, <1>2

LEMMA NamedIsRead ==
    ASSUME NEW code \in DOMAIN Named
    PROVE  /\ Named[code] # LetterX /\ NamedCode(Named[code]) = code
           /\ Named[code] \in 48 .. 116
<1>1. /\ DOMAIN Named = {0, 9, 10, 13, Backslash}
      /\ Named[0] = 48 /\ Named[9] = 116 /\ Named[10] = 110 /\ Named[13] = 114
      /\ Named[Backslash] = Backslash
  BY DEF Named, Backslash
<1>2. \A other \in DOMAIN Named : Named[other] = Named[code] => other = code
  BY <1>1 DEF Backslash
<1>3. NamedCode(Named[code]) = code
  BY <1>2 DEF NamedCode
<1>4. Named[code] # LetterX /\ Named[code] \in 48 .. 116
  BY <1>1 DEF Backslash, LetterX
<1>5. QED
  BY <1>3, <1>4

LEMMA TokenTells ==
    ASSUME NEW code \in 0 .. 255
    PROVE  IsTokenOf(0 .. 127, Token(code), code)
<1> DEFINE S == 0 .. 127
           token == Token(code)
<1>1. CASE code \in DOMAIN Named
  <2>1. token = <<Backslash, Named[code]>>
    BY <1>1 DEF Token
  <2>2. Named[code] # LetterX /\ NamedCode(Named[code]) = code /\ Named[code] \in S
    BY <1>1, NamedIsRead
  <2>3. Backslash \in S
    BY DEF Backslash
  <2> HIDE DEF S, token
  <2>4. token \in Seq(S) /\ Len(token) = 2 /\ token[1] = Backslash /\ token[2] = Named[code]
    BY <2>1, <2>2, <2>3
  <2>5. Short(token, code)
    BY <2>2, <2>4 DEF Short
  <2>6. QED
    BY <2>4, <2>5 DEF IsTokenOf, S, token
<1>2. CASE code \notin DOMAIN Named /\ IsPrintable(code)
  <2>1. token = <<code>>
    BY <1>2 DEF Token
  <2>2. code \in S
    BY <1>2 DEF IsPrintable
  <2>3. code # Backslash
    BY <1>2 DEF Named
  <2> HIDE DEF S, token
  <2>4. token \in Seq(S) /\ Len(token) = 1 /\ token[1] = code
    BY <2>1, <2>2
  <2>5. Plain(token, code)
    BY <2>3, <2>4 DEF Plain
  <2>6. QED
    BY <2>4, <2>5 DEF IsTokenOf, S, token
<1>3. CASE code \notin DOMAIN Named /\ ~IsPrintable(code)
  <2> DEFINE h == code \div 16
             l == code % 16
  <2>1. token = <<Backslash, LetterX, HexDigit(h), HexDigit(l)>>
    BY <1>3 DEF Token
  <2>2. h \in 0 .. 15 /\ l \in 0 .. 15 /\ 16 * h + l = code
    OBVIOUS
  <2> HIDE DEF h, l
  <2>3. /\ HexValue(HexDigit(h)) = h /\ HexDigit(h) # Backslash /\ HexDigit(h) \in S
        /\ HexValue(HexDigit(l)) = l /\ HexDigit(l) # Backslash /\ HexDigit(l) \in S
    BY <2>2, HexIsRead
  <2>4. Backslash \in S /\ LetterX \in S
    BY DEF Backslash, LetterX
  <2> HIDE DEF S, token
  <2>5. /\ token \in Seq(S) /\ Len(token) = 4
        /\ token[1] = Backslash /\ token[2] = LetterX
        /\ token[3] = HexDigit(h) /\ token[4] = HexDigit(l)
    BY <2>1, <2>3, <2>4
  <2>6. 16 * HexValue(token[3]) + HexValue(token[4]) = code
    BY <2>2, <2>3, <2>5
  <2>7. Long(token, code)
    BY <2>3, <2>5, <2>6 DEF Long
  <2>8. QED
    BY <2>5, <2>7 DEF IsTokenOf, S, token
<1>4. QED
  BY <1>1, <1>2, <1>3

\* What is read at a place of a text.
ReadAt(text, i) == IF IsToken(text, i) THEN <<Code(text, i)>> ELSE <<>>

\* A token behind a text in which all escapes end.
LEMMA TokenBehind ==
    ASSUME NEW S, NEW text \in Seq(S), AllEnd(text), NEW token, NEW code,
           IsTokenOf(S, token, code)
    PROVE  LET more == text \o token
               n == Len(text)
           IN  /\ AllEnd(more)
               /\ \A i \in 1 .. n : ReadAt(more, i) = ReadAt(text, i)
               /\ ReadAt(more, n + 1) = <<code>>
               /\ \A i \in n + 2 .. n + Len(token) : ReadAt(more, i) = <<>>
<1> DEFINE more == text \o token
           n == Len(text)
           w == Len(token)
<1>1. /\ n \in Nat /\ w \in {1, 2, 4} /\ token \in Seq(S)
      /\ more \in Seq(S) /\ Len(more) = n + w
      /\ \A i \in 1 .. n : more[i] = text[i]
      /\ \A i \in 1 .. w : more[n + i] = token[i]
  <2>1. token \in Seq(S) /\ w \in {1, 2, 4}
    BY DEF IsTokenOf, Plain, Short, Long
  <2>2. JoinOf(S, more, text, token)
    BY <2>1, JoinedAt
  <2> HIDE DEF more
  <2>3. QED
    BY <2>1, <2>2 DEF JoinOf
<1> HIDE DEF more, n, w
<1>2. \A i \in 1 .. n : Opens(more, i) <=> Opens(text, i)
  BY <1>1, OpensOfFront
<1>3. ASSUME NEW i \in 1 .. n, Opens(text, i)
      PROVE  i + 1 <= n /\ Width(more, i) = Width(text, i) /\ i + Width(more, i) - 1 <= n
             /\ Width(more, i) \in {2, 4}
  <2>1. i + Width(text, i) - 1 <= n /\ Width(text, i) \in {2, 4}
    BY <1>3 DEF AllEnd, n, Width
  <2>2. i + 1 <= n /\ i + 1 \in 1 .. n
    BY <2>1, <1>1
  <2>3. Width(more, i) = Width(text, i)
    BY <1>1, <2>2 DEF Width
  <2>4. QED
    BY <2>1, <2>2, <2>3
<1>4. \A i \in 1 .. w : n + i \in Nat \ {0}
  BY <1>1
<1>5. Opens(more, n + 1) <=> token[1] = Backslash
  <2>1. more[n + 1] = token[1]
    BY <1>1
  <2>2. CASE n = 0
    <3>1. n + 1 = 1 /\ 1 \in Nat \ {0}
      BY <2>2
    <3>2. Opens(more, 1) <=> more[1] = Backslash
      BY <3>1, OpensNext
    <3>3. QED
      BY <2>1, <3>1, <3>2
  <2>3. CASE n # 0
    <3>1. n \in Nat \ {0} /\ n \in 1 .. n /\ ~ (n + 1 <= n)
      BY <1>1, <2>3
    <3>2. ~Opens(more, n)
      BY <1>2, <1>3, <3>1
    <3>3. Opens(more, n + 1) <=> more[n + 1] = Backslash /\ ~Opens(more, n)
      BY <3>1, OpensNext
    <3>4. QED
      BY <2>1, <3>2, <3>3
  <2>4. QED
    BY <2>2, <2>3
<1>6. \A i \in 1 .. n : ReadAt(more, i) = ReadAt(text, i)
  <2> SUFFICES ASSUME NEW i \in 1 .. n PROVE ReadAt(more, i) = ReadAt(text, i)
    OBVIOUS
  <2>1. IsToken(more, i) <=> IsToken(text, i)
    <3>1. ASSUME NEW k \in 1 .. Min({3, i - 1})
          PROVE  /\ Opens(more, i - k) <=> Opens(text, i - k)
                 /\ Opens(text, i - k) => Width(more, i - k) = Width(text, i - k)
      <4>1. Min({3, i - 1}) <= i - 1
        <5>1. {3, i - 1} \in SUBSET Nat /\ {3, i - 1} # {}
          BY <1>1
        <5>2. QED
          BY <5>1, MinIsLeast
      <4>2. Min({3, i - 1}) \in {3, i - 1}
        <5>1. {3, i - 1} \in SUBSET Nat /\ {3, i - 1} # {}
          BY <1>1
        <5>2. QED
          BY <5>1, MinIsLeast
      <4>3. i - k \in 1 .. n
        BY <1>1, <4>1, <4>2
      <4>4. QED
        BY <1>2, <1>3, <4>3
    <3>2. QED
      BY <3>1 DEF IsToken
  <2>2. Code(more, i) = Code(text, i)
    <3>1. CASE ~Opens(text, i)
      BY <1>1, <1>2, <3>1 DEF Code
    <3>2. CASE Opens(text, i)
      <4>1. /\ i + 1 <= n /\ Width(more, i) = Width(text, i) /\ i + Width(more, i) - 1 <= n
            /\ Width(more, i) \in {2, 4}
        BY <1>3, <3>2
      <4>2. more[i + 1] = text[i + 1]
        BY <1>1, <4>1
      <4>3. CASE Width(text, i) = 2
        BY <1>2, <3>2, <4>1, <4>2, <4>3 DEF Code
      <4>4. CASE Width(text, i) # 2
        <5>1. i + 2 \in 1 .. n /\ i + 3 \in 1 .. n
          BY <1>1, <4>1, <4>4
        <5>2. more[i + 2] = text[i + 2] /\ more[i + 3] = text[i + 3]
          BY <1>1, <5>1
        <5>3. QED
          BY <1>2, <3>2, <4>1, <4>4, <5>2 DEF Code
      <4>5. QED
        BY <4>3, <4>4
    <3>3. QED
      BY <3>1, <3>2
  <2>3. QED
    BY <2>1, <2>2 DEF ReadAt
<1>7. IsToken(more, n + 1)
  <2>1. ASSUME NEW k \in 1 .. Min({3, (n + 1) - 1}), Opens(more, (n + 1) - k)
        PROVE  Width(more, (n + 1) - k) <= k
    <3>1. Min({3, (n + 1) - 1}) \in {3, n} /\ Min({3, (n + 1) - 1}) <= n
      <4>1. {3, (n + 1) - 1} \in SUBSET Nat /\ {3, (n + 1) - 1} # {} /\ (n + 1) - 1 = n
        BY <1>1
      <4>2. QED
        BY <4>1, MinIsLeast
    <3>2. (n + 1) - k \in 1 .. n /\ k \in Nat
      BY <1>1, <3>1
    <3>3. Opens(text, (n + 1) - k)
      BY <1>2, <2>1, <3>2
    <3>4. /\ ((n + 1) - k) + Width(more, (n + 1) - k) - 1 <= n
          /\ Width(more, (n + 1) - k) \in {2, 4}
      BY <1>3, <3>2, <3>3
    <3>5. QED
      BY <1>1, <3>2, <3>4
  <2>2. \A k \in 1 .. Min({3, (n + 1) - 1}) :
           Opens(more, (n + 1) - k) => Width(more, (n + 1) - k) <= k
    BY <2>1
  <2>3. QED
    BY <2>2, Zenon DEF IsToken
<1>8. \A i \in 1 .. w : i # 1 => ~Opens(more, n + i)
  <2>1. CASE w = 1
    BY <2>1
  <2>2. CASE w = 2
    <3>1. token[1] = Backslash
      BY <2>2 DEF IsTokenOf, Plain, Short, Long, w
    <3>2. (n + 1) + 1 = n + 2 /\ n + 1 \in Nat \ {0}
      BY <1>1
    <3>3. ~Opens(more, (n + 1) + 1)
      BY <1>5, <3>1, <3>2, OpensNext
    <3>4. \A i \in 1 .. w : i # 1 => i = 2
      BY <2>2
    <3>5. QED
      BY <3>2, <3>3, <3>4
  <2>3. CASE w = 4
    <3>1. token[2] # Backslash /\ token[3] # Backslash /\ token[4] # Backslash
      BY <2>3 DEF IsTokenOf, Plain, Short, Long, w, LetterX, Backslash
    <3>2. more[n + 2] # Backslash /\ more[n + 3] # Backslash /\ more[n + 4] # Backslash
      BY <1>1, <2>3, <3>1
    <3>3. \A i \in 1 .. w : i # 1 => i = 2 \/ i = 3 \/ i = 4
      BY <2>3
    <3>4. ~Opens(more, n + 2) /\ ~Opens(more, n + 3) /\ ~Opens(more, n + 4)
      BY <3>2 DEF Opens
    <3>5. QED
      BY <3>3, <3>4
  <2>4. QED
    BY <1>1, <2>1, <2>2, <2>3
<1>9. /\ token[1] = Backslash => Width(more, n + 1) = w /\ w \in {2, 4}
      /\ token[1] # Backslash => w = 1
      /\ Code(more, n + 1) = code
  <2>1. more[n + 1] = token[1] /\ (n + 1) + 1 = n + 2 /\ (n + 1) + 2 = n + 3 /\ (n + 1) + 3 = n + 4
    BY <1>1
  <2>2. CASE Plain(token, code)
    BY <1>5, <2>1, <2>2 DEF Plain, Code, w
  <2>3. CASE Short(token, code)
    <3>1. w = 2 /\ more[n + 2] = token[2]
      BY <1>1, <2>3 DEF Short, w
    <3>2. Width(more, n + 1) = 2
      BY <2>1, <2>3, <3>1 DEF Short, Width
    <3>3. QED
      BY <1>5, <2>1, <2>3, <3>1, <3>2 DEF Short, Code
  <2>4. CASE Long(token, code)
    <3>1. w = 4 /\ more[n + 2] = token[2] /\ more[n + 3] = token[3] /\ more[n + 4] = token[4]
      BY <1>1, <2>4 DEF Long, w
    <3>2. Width(more, n + 1) = 4
      BY <2>1, <2>4, <3>1 DEF Long, Width
    <3>3. QED
      BY <1>5, <2>1, <2>4, <3>1, <3>2 DEF Long, Code
  <2>5. QED
    BY <2>2, <2>3, <2>4 DEF IsTokenOf
<1>10. ReadAt(more, n + 1) = <<code>>
  BY <1>7, <1>9 DEF ReadAt
<1>11. ASSUME NEW i \in n + 2 .. n + w PROVE ReadAt(more, i) = <<>>
  <2> DEFINE k == i - (n + 1)
  <2>1. k \in 1 .. w - 1 /\ k \in 1 .. 3 /\ i - k = n + 1 /\ w # 1 /\ k < w /\ k <= i - 1
    BY <1>1
  <2>2. token[1] = Backslash /\ Width(more, n + 1) = w
    BY <1>9, <2>1
  <2>3. k <= Min({3, i - 1})
    <3>1. {3, i - 1} \in SUBSET Nat /\ {3, i - 1} # {}
      BY <1>1
    <3>2. Min({3, i - 1}) \in {3, i - 1}
      BY <3>1, MinIsLeast
    <3>3. QED
      BY <2>1, <3>2
  <2>4. k \in 1 .. Min({3, i - 1})
    <3>1. {3, i - 1} \in SUBSET Nat /\ {3, i - 1} # {}
      BY <1>1
    <3>2. Min({3, i - 1}) \in Nat
      BY <3>1, MinIsLeast
    <3> HIDE DEF k
    <3>3. QED
      BY <2>1, <2>3, <3>2
  <2> HIDE DEF k
  <2>5. Opens(more, i - k) /\ ~ (Width(more, i - k) <= k)
    BY <1>1, <1>5, <2>1, <2>2
  <2>6. ~IsToken(more, i)
    BY <2>4, <2>5 DEF IsToken
  <2>7. QED
    BY <2>6 DEF ReadAt
<1>12. AllEnd(more)
  <2> SUFFICES ASSUME NEW i \in 1 .. Len(more), Opens(more, i)
               PROVE  i + Width(more, i) - 1 <= Len(more)
    BY DEF AllEnd
  <2>1. CASE i \in 1 .. n
    <3>1. i + Width(more, i) - 1 <= n /\ Width(more, i) \in {2, 4}
      BY <1>2, <1>3, <2>1
    <3>2. QED
      BY <1>1, <3>1
  <2>2. CASE i \notin 1 .. n
    <3>1. i - n \in 1 .. w /\ n + (i - n) = i
      BY <1>1, <2>2
    <3>2. i - n = 1
      BY <1>8, <3>1
    <3>3. i = n + 1
      BY <1>1, <3>1, <3>2
    <3>4. Width(more, i) = w
      BY <1>5, <1>9, <3>3
    <3>5. QED
      BY <1>1, <3>3, <3>4
  <2>3. QED
    BY <2>1, <2>2
<1>13. QED
  BY <1>6, <1>10, <1>11, <1>12 DEF more, n, w

LEMMA ListIsSequence ==
    ASSUME NEW n \in Nat, NEW B, NEW f \in [1 .. n -> B]
    PROVE  f \in Seq(B) /\ Len(f) = n
OBVIOUS

ElementsIn(s, S) == Len(s) \in Nat /\ DOMAIN s = 1 .. Len(s) /\ \A i \in 1 .. Len(s) : s[i] \in S

LEMMA SequenceElements ==
    ASSUME NEW S, NEW s \in Seq(S)
    PROVE  ElementsIn(s, S)
BY DEF ElementsIn

\* unescapeWire of one token more is one byte more.
LEMMA UnescapeAppends ==
    ASSUME NEW S, NEW text \in Seq(S), AllEnd(text), NEW token, NEW code,
           IsTokenOf(S, token, code)
    PROVE  AllEnd(text \o token) /\ UnescapeWire(text \o token) = UnescapeWire(text) \o <<code>>
<1> DEFINE more == text \o token
           n == Len(text)
           w == Len(token)
           read == [i \in DOMAIN more |-> ReadAt(more, i)]
           front == [i \in DOMAIN text |-> ReadAt(text, i)]
           V == {code} \cup {Code(more, i) : i \in DOMAIN more}
           B == Seq(V)
<1>1. /\ n \in Nat /\ w \in {1, 2, 4} /\ DOMAIN text = 1 .. n
      /\ Len(more) = n + w /\ DOMAIN more = 1 .. n + w
  <2>1. token \in Seq(S) /\ w \in {1, 2, 4}
    BY DEF IsTokenOf, Plain, Short, Long
  <2>2. JoinOf(S, more, text, token)
    BY <2>1, JoinedAt
  <2> HIDE DEF more
  <2>3. more \in Seq(S) /\ Len(more) = n + w
    BY <2>1, <2>2 DEF JoinOf
  <2>4. QED
    BY <2>1, <2>3
<1>2. /\ AllEnd(more)
      /\ \A i \in 1 .. n : ReadAt(more, i) = ReadAt(text, i)
      /\ ReadAt(more, n + 1) = <<code>>
      /\ \A i \in n + 2 .. n + w : ReadAt(more, i) = <<>>
  BY TokenBehind
<1>3. UnescapeWire(more) = Joined(read) /\ UnescapeWire(text) = Joined(front)
  BY DEF UnescapeWire, ReadAt
<1> HIDE DEF more, n, w
<1>4. \A i \in 1 .. n + w : ReadAt(more, i) \in B
  <2> SUFFICES ASSUME NEW i \in 1 .. n + w PROVE ReadAt(more, i) \in B
    OBVIOUS
  <2>1. Code(more, i) \in V
    BY <1>1
  <2> HIDE DEF V
  <2>2. <<Code(more, i)>> \in B /\ <<>> \in B
    BY <2>1
  <2>3. QED
    BY <2>2 DEF ReadAt
<1>5. <<code>> \in Seq(V)
  <2>1. code \in V
    OBVIOUS
  <2> HIDE DEF V
  <2>2. QED
    BY <2>1
<1> HIDE DEF V, B
<1>6. /\ read \in Seq(B) /\ Len(read) = n + w
      /\ \A i \in 1 .. n + w : read[i] = ReadAt(more, i)
  BY <1>1, <1>4
<1>7. /\ front \in Seq(B) /\ Len(front) = n
      /\ \A i \in 1 .. n : front[i] = read[i]
  <2>1. \A i \in 1 .. n : i \in 1 .. n + w
    BY <1>1
  <2>2. \A i \in 1 .. n : front[i] = read[i] /\ ReadAt(text, i) \in B
    BY <1>1, <1>2, <1>4, <1>6, <2>1
  <2>3. front \in [1 .. n -> B]
    BY <1>1, <2>2
  <2> HIDE DEF front
  <2>4. front \in Seq(B) /\ Len(front) = n
    BY <1>1, <2>3, ListIsSequence
  <2>5. QED
    BY <2>2, <2>4
<1> HIDE DEF read, front
<1>8. PICK p \in [0 .. n + w -> Seq(V)] : Fronts(read, p, n + w) /\ Joined(read) = p[n + w]
  <2>1. read \in Seq(Seq(V))
    BY <1>6 DEF B
  <2>2. \E p \in [0 .. Len(read) -> Seq(V)] :
           Fronts(read, p, Len(read)) /\ Joined(read) = p[Len(read)]
    BY <2>1, JoinedByPrefixes
  <2>3. QED
    BY <1>6, <2>2
<1>9. Joined(front) = p[n]
  <2>1. Fronts(front, p, n)
    <3>1. ASSUME NEW k \in 1 .. n PROVE p[k] = p[k - 1] \o front[k]
      <4>1. k \in 1 .. n + w
        BY <1>1
      <4>2. p[k] = p[k - 1] \o read[k]
        BY <1>8, <4>1 DEF Fronts
      <4>3. QED
        BY <1>7, <4>2
    <3>2. p[0] = <<>>
      BY <1>8 DEF Fronts
    <3>3. QED
      BY <3>1, <3>2 DEF Fronts
  <2>2. front \in Seq(Seq(V)) /\ Len(front) = n
    BY <1>7 DEF B
  <2>3. n + w \in Nat /\ n <= n + w
    BY <1>1
  <2>4. p \in [0 .. n + w -> Seq(V)]
    BY <1>8
  <2>5. Fronts(front, p, Len(front)) /\ Len(front) <= n + w
    BY <2>1, <2>2, <2>3
  <2>6. Joined(front) = p[Len(front)]
    BY <2>2, <2>3, <2>4, <2>5, JoinedOfFront
  <2>7. QED
    BY <2>2, <2>6
<1>10. p[n] \in Seq(V) /\ p[n + 1] = p[n] \o <<code>> /\ p[n + 1] \in Seq(V)
  <2>1. n + 1 \in 1 .. n + w /\ (n + 1) - 1 = n /\ n \in 0 .. n + w /\ n + 1 \in 0 .. n + w
    BY <1>1
  <2>2. p[n + 1] = p[n] \o read[n + 1]
    BY <1>8, <2>1 DEF Fronts
  <2>3. read[n + 1] = <<code>>
    BY <1>2, <1>6, <2>1
  <2>4. p[n] \in Seq(V) /\ p[n + 1] \in Seq(V)
    BY <1>8, <2>1
  <2>5. QED
    BY <2>2, <2>3, <2>4
<1>11. ASSUME NEW i \in n + 2 .. n + w, p[i - 1] = p[n + 1] PROVE p[i] = p[n + 1]
  <2>1. i \in 1 .. n + w
    BY <1>1
  <2>2. p[i] = p[i - 1] \o read[i]
    BY <1>8, <2>1 DEF Fronts
  <2>3. read[i] = <<>>
    BY <1>2, <1>6, <2>1
  <2>4. p[n + 1] \o <<>> = p[n + 1]
    BY <1>10, ConcatEmptySeq
  <2>5. QED
    BY <1>11, <2>2, <2>3, <2>4
<1>12. p[n + w] = p[n + 1]
  <2>1. CASE w = 1
    BY <2>1
  <2>2. CASE w = 2
    <3>1. n + 2 \in n + 2 .. n + w /\ (n + 2) - 1 = n + 1
      BY <1>1, <2>2
    <3>2. QED
      BY <1>11, <2>2, <3>1
  <2>3. CASE w = 4
    <3>1. /\ n + 2 \in n + 2 .. n + w /\ (n + 2) - 1 = n + 1
          /\ n + 3 \in n + 2 .. n + w /\ (n + 3) - 1 = n + 2
          /\ n + 4 \in n + 2 .. n + w /\ (n + 4) - 1 = n + 3
      BY <1>1, <2>3
    <3>2. p[n + 2] = p[n + 1]
      BY <1>11, <3>1
    <3>3. p[n + 3] = p[n + 1]
      BY <1>11, <3>1, <3>2
    <3>4. p[n + 4] = p[n + 1]
      BY <1>11, <3>1, <3>3
    <3>5. QED
      BY <2>3, <3>4
  <2>4. QED
    BY <1>1, <2>1, <2>2, <2>3
<1>13. UnescapeWire(more) = UnescapeWire(text) \o <<code>>
  BY <1>3, <1>8, <1>9, <1>10, <1>12
<1>14. QED
  BY <1>2, <1>13 DEF more

LEMMA EscapeTyped ==
    ASSUME NEW S, 0 .. 127 \subseteq S, NEW bytes \in Seq(0 .. 255)
    PROVE  EscapeWire(bytes) \in Seq(S)
<1> DEFINE tokens == [i \in DOMAIN bytes |-> Token(bytes[i])]
           B == Seq(S)
<1>1. \A i \in DOMAIN bytes : Token(bytes[i]) \in B
  <2> DEFINE C == 0 .. 255
  <2>1. \A i \in DOMAIN bytes : bytes[i] \in C
    <3>1. ElementsIn(bytes, C)
      BY SequenceElements
    <3>2. QED
      BY <3>1 DEF ElementsIn
  <2>2. ASSUME NEW i \in DOMAIN bytes PROVE Token(bytes[i]) \in B
    <3>1. bytes[i] \in 0 .. 255
      BY <2>1
    <3> HIDE DEF B
    <3>2. Token(bytes[i]) \in Seq(0 .. 127)
      BY <3>1, TokenTells DEF IsTokenOf
    <3>3. QED
      BY <3>2, SeqMonotonic DEF B
  <2>3. QED
    BY <2>2
<1> HIDE DEF B
<1>2. tokens \in Seq(B)
  <2>1. Len(bytes) \in Nat /\ DOMAIN bytes = 1 .. Len(bytes)
    BY LenProperties
  <2>2. tokens \in [1 .. Len(bytes) -> B]
    BY <1>1, <2>1
  <2> HIDE DEF tokens
  <2>3. QED
    BY <2>1, <2>2, ListIsSequence
<1> HIDE DEF tokens
<1>3. Joined(tokens) \in Seq(S)
  <2>1. tokens \in Seq(Seq(S))
    BY <1>2 DEF B
  <2>2. <<>> \in Seq(S)
    OBVIOUS
  <2>3. QED
    BY <2>1, <2>2, JoinedAppends
<1>4. QED
  BY <1>3 DEF EscapeWire, tokens

\* escapeWire and unescapeWire: whatever bytes are written, printable or not,
\* and whichever follow each other, what was escaped reads back as it was.
THEOREM EscapesAreUndone ==
    ASSUME NEW bytes \in Seq(0 .. 255)
    PROVE  UnescapeWire(EscapeWire(bytes)) = bytes
<1> DEFINE S == 0 .. 127
           B == Seq(S)
           C == 0 .. 255
           n == Len(bytes)
           tokens == [i \in DOMAIN bytes |-> Token(bytes[i])]
<1>1. n \in Nat /\ DOMAIN bytes = 1 .. n /\ \A i \in 1 .. n : bytes[i] \in C
  <2> HIDE DEF C
  <2>1. bytes \in Seq(C)
    BY DEF C
  <2>2. QED
    BY <2>1
<1>2. /\ tokens \in Seq(B) /\ Len(tokens) = n
      /\ \A i \in 1 .. n : tokens[i] = Token(bytes[i]) /\ IsTokenOf(S, tokens[i], bytes[i])
  <2>1. \A i \in 1 .. n : Token(bytes[i]) \in B /\ IsTokenOf(S, Token(bytes[i]), bytes[i])
    BY <1>1, TokenTells DEF IsTokenOf
  <2> HIDE DEF B, S
  <2>2. QED
    BY <1>1, <2>1
<1>3. EscapeWire(bytes) = Joined(tokens)
  BY DEF EscapeWire
<1> HIDE DEF tokens, B, S, n
<1>4. PICK p \in [0 .. n -> Seq(S)] : Fronts(tokens, p, n) /\ Joined(tokens) = p[n]
  <2>1. tokens \in Seq(Seq(S))
    BY <1>2 DEF B
  <2>2. \E p \in [0 .. Len(tokens) -> Seq(S)] :
           Fronts(tokens, p, Len(tokens)) /\ Joined(tokens) = p[Len(tokens)]
    BY <2>1, JoinedByPrefixes
  <2>3. QED
    BY <1>2, <2>2
<1> DEFINE T == {k \in 0 .. n : AllEnd(p[k]) /\ UnescapeWire(p[k]) = SubSeq(bytes, 1, k)}
<1>5. 0 \in T
  <2>1. p[0] = <<>> /\ 0 \in 0 .. n
    BY <1>1, <1>4 DEF Fronts
  <2>2. AllEnd(<<>>)
    BY DEF AllEnd
  <2>3. UnescapeWire(<<>>) = <<>>
    BY DEF UnescapeWire, Joined
  <2>4. SubSeq(bytes, 1, 0) = <<>>
    OBVIOUS
  <2>5. QED
    BY <2>1, <2>2, <2>3, <2>4
<1>6. ASSUME NEW k \in 0 .. n - 1, k \in T PROVE k + 1 \in T
  <2>1. k + 1 \in 1 .. n /\ k + 1 \in 0 .. n /\ (k + 1) - 1 = k /\ k \in 0 .. n
    BY <1>1
  <2>2. p[k + 1] = p[k] \o tokens[k + 1]
    BY <1>4, <2>1 DEF Fronts
  <2>3. p[k] \in Seq(S) /\ AllEnd(p[k]) /\ IsTokenOf(S, tokens[k + 1], bytes[k + 1])
    BY <1>2, <1>4, <1>6, <2>1
  <2>4. /\ AllEnd(p[k] \o tokens[k + 1])
        /\ UnescapeWire(p[k] \o tokens[k + 1]) = UnescapeWire(p[k]) \o <<bytes[k + 1]>>
    BY <2>3, UnescapeAppends
  <2>5. UnescapeWire(p[k + 1]) = SubSeq(bytes, 1, k) \o <<bytes[k + 1]>>
    BY <1>6, <2>2, <2>4
  <2>6. SubSeq(bytes, 1, k) \o <<bytes[k + 1]>> = SubSeq(bytes, 1, k + 1)
    BY <1>1, <2>1 DEF n
  <2>7. QED
    BY <2>1, <2>2, <2>4, <2>5, <2>6
<1> HIDE DEF T
<1>7. n \in T
  <2>1. \A k \in 0 .. n : k \in T
    BY <1>1, <1>5, <1>6, UpFromZero
  <2>2. QED
    BY <1>1, <2>1
<1>8. SubSeq(bytes, 1, n) = bytes
  BY SubSeqFull DEF n
<1>9. QED
  BY <1>3, <1>4, <1>7, <1>8 DEF T

-----------------------------------------------------------------------------
(* A field is read as it was written.                                      *)

LEMMA GreatestOfSome ==
    ASSUME NEW k \in Nat, NEW T \in SUBSET (0 .. k), T # {}
    PROVE  Max(T) \in T /\ \A y \in T : Max(T) >= y
<1> DEFINE Below == {k - x : x \in T}
<1>1. Below \in SUBSET Nat /\ Below # {}
  <2>1. \A x \in T : x \in 0 .. k
    OBVIOUS
  <2>2. \A x \in T : k - x \in Nat
    BY <2>1
  <2>3. QED
    BY <2>2
<1>2. PICK b \in Below : \A y \in Below : b <= y
  <2> HIDE DEF Below
  <2>1. QED
    BY <1>1, LeastNumber
<1>3. PICK m \in T : b = k - m
  BY <1>2
<1>4. ASSUME NEW y \in T PROVE m >= y
  <2>1. k - m <= k - y
    BY <1>2, <1>3
  <2>2. m \in Int /\ y \in Int
    OBVIOUS
  <2>3. QED
    BY <2>1, <2>2
<1>5. \E x \in T : \A y \in T : x >= y
  BY <1>4
<1>6. QED
  BY <1>5 DEF Max

\* Two texts of the same printed characters lose the same blanks.
LEMMA TrimmedAlike ==
    ASSUME NEW S, NEW text \in Seq(S), NEW more \in Seq(S), Len(text) <= Len(more),
           \A i \in 1 .. Len(text) : more[i] = text[i],
           \A i \in 1 .. Len(more) : i > Len(text) => more[i] = Space
    PROVE  TrimEnd(more) = TrimEnd(text)
<1> DEFINE n == Len(text)
           l == Len(more)
           P == Printed(text) \cup {0}
           m == Max(P)
<1>1. n \in Nat /\ l \in Nat /\ n <= l /\ DOMAIN text = 1 .. n /\ DOMAIN more = 1 .. l
  OBVIOUS
<1>2. Printed(more) = Printed(text)
  <2>1. ASSUME NEW i PROVE i \in Printed(more) <=> i \in Printed(text)
    <3>1. CASE i \in 1 .. n
      <4>1. i \in 1 .. l
        BY <1>1, <3>1
      <4>2. QED
        BY <1>1, <3>1, <4>1 DEF Printed
    <3>2. CASE i \notin 1 .. n
      <4>1. i \notin Printed(text)
        BY <1>1, <3>2 DEF Printed
      <4>2. i \in 1 .. l => i > n
        BY <1>1, <3>2
      <4>3. i \notin Printed(more)
        BY <1>1, <4>2 DEF Printed
      <4>4. QED
        BY <4>1, <4>3
    <3>3. QED
      BY <3>1, <3>2
  <2>2. QED
    BY <2>1
<1>3. m \in 0 .. n
  <2>1. P \in SUBSET (0 .. n) /\ P # {}
    BY <1>1 DEF Printed
  <2> HIDE DEF P
  <2>2. QED
    BY <1>1, <2>1, GreatestOfSome
<1>4. TrimEnd(more) = SubSeq(more, 1, m) /\ TrimEnd(text) = SubSeq(text, 1, m)
  BY <1>2 DEF TrimEnd
<1> HIDE DEF m, P, n, l
<1>5. /\ SubSeq(more, 1, m) \in Seq(S) /\ Len(SubSeq(more, 1, m)) = m
      /\ \A i \in 1 .. m : SubSeq(more, 1, m)[i] = more[i]
  <2>1. m \in Nat /\ m <= Len(more)
    BY <1>1, <1>3 DEF l
  <2>2. QED
    BY <2>1
<1>6. /\ SubSeq(text, 1, m) \in Seq(S) /\ Len(SubSeq(text, 1, m)) = m
      /\ \A i \in 1 .. m : SubSeq(text, 1, m)[i] = text[i]
  <2>1. m \in Nat /\ m <= Len(text)
    BY <1>1, <1>3 DEF n
  <2>2. QED
    BY <2>1
<1>7. \A i \in 1 .. m : more[i] = text[i]
  <2>1. \A i \in 1 .. m : i \in 1 .. n
    BY <1>1, <1>3
  <2>2. QED
    BY <2>1 DEF n
<1>8. SubSeq(more, 1, m) = SubSeq(text, 1, m)
  BY <1>5, <1>6, <1>7, SeqEqual
<1>9. QED
  BY <1>4, <1>8

LEMMA PaddedText ==
    ASSUME NEW S, Space \in S, NEW text \in Seq(S), NEW width \in Nat, Len(text) <= width
    PROVE  LET t == PadText(text, width)
           IN  t \in Seq(S) /\ Len(t) = width /\ TrimEnd(t) = TrimEnd(text)
<1> DEFINE blanks == Blanks(width)
           all == text \o blanks
           t == PadText(text, width)
           n == Len(text)
<1>1. n \in Nat /\ n <= width
  OBVIOUS
<1>2. blanks \in Seq(S) /\ Len(blanks) = width /\ \A i \in 1 .. width : blanks[i] = Space
  <2>1. blanks \in [1 .. width -> S] /\ \A i \in 1 .. width : blanks[i] = Space
    BY DEF Blanks
  <2> HIDE DEF blanks
  <2>2. QED
    BY <2>1, ListIsSequence
<1> HIDE DEF blanks
<1>3. /\ all \in Seq(S) /\ Len(all) = n + width
      /\ \A i \in 1 .. n : all[i] = text[i]
      /\ \A i \in 1 .. width : all[n + i] = Space
  <2>1. JoinOf(S, all, text, blanks)
    BY <1>2, JoinedAt
  <2> HIDE DEF all
  <2>2. QED
    BY <1>2, <2>1 DEF JoinOf
<1> HIDE DEF all, n
<1>4. width <= Len(all)
  BY <1>1, <1>3
<1>5. t = SubSeq(all, 1, width)
  <2>1. Part(all, 0, width) = SubSeq(all, 1, width)
    BY <1>3, <1>4, PartOfFront
  <2>2. QED
    BY <2>1 DEF PadText, all, blanks
<1>6. t \in Seq(S) /\ Len(t) = width /\ \A i \in 1 .. width : t[i] = all[i]
  <2> HIDE DEF t
  <2>1. QED
    BY <1>3, <1>4, <1>5
<1> HIDE DEF t
<1>7. \A i \in 1 .. n : t[i] = text[i]
  <2>1. \A i \in 1 .. n : i \in 1 .. width
    BY <1>1
  <2>2. QED
    BY <1>3, <1>6, <2>1
<1>8. \A i \in 1 .. width : i > n => t[i] = Space
  <2>1. ASSUME NEW i \in 1 .. width, i > n PROVE t[i] = Space
    <3>1. i - n \in 1 .. width /\ n + (i - n) = i
      BY <1>1, <2>1
    <3>2. QED
      BY <1>3, <1>6, <3>1
  <2>2. QED
    BY <2>1
<1>9. TrimEnd(t) = TrimEnd(text)
  BY <1>1, <1>6, <1>7, <1>8, TrimmedAlike DEF n
<1>10. QED
  BY <1>6, <1>9 DEF t

\* What is read of a field in which a value was written.
AsRead(field, value) == IF field.kind = "text" THEN TrimEnd(value) ELSE value

LEMMA SmallerFits ==
    ASSUME NEW most \in Nat, NEW n \in Nat, n <= most, NEW m \in Nat \ {0}, most \div m <= 9
    PROVE  n \div m <= 9
<1>1. \A a \in Nat, d \in Nat \ {0} : a \div d <= 9 <=> a < 10 * d
  OBVIOUS
<1>2. most < 10 * m
  BY <1>1
<1>3. n < 10 * m
  BY <1>2
<1>4. QED
  BY <1>1, <1>3

LEMMA FieldIsRead ==
    ASSUME NEW field, IsField(field), IsNamed(field), NEW value,
           IsOfText(field) => value \in Seq(0 .. 127),
           NEW t \in WriteField(field, value)
    PROVE  /\ t \in Seq(0 .. 127) /\ Len(t) = field.width
           /\ ReadField(field, t) = {AsRead(field, value)}
<1>1. CASE field.kind = "digits"
  <2>1. /\ field.width \in 1 .. 10 /\ field.of \in Nat
        /\ field.of \div TenTo(field.width - 1) <= 9
    BY <1>1 DEF IsField
  <2>2. PICK n \in {value} \cap 0 .. field.of : t = PadNumber(n, field.width)
    BY <1>1 DEF WriteField
  <2> DEFINE m == TenTo(field.width - 1)
  <2>3. m \in Nat \ {0}
    <3>1. field.width - 1 \in 0 .. 9
      BY <2>1
    <3>2. QED
      BY <3>1, TenTimes
  <2>4. n \in Nat /\ n <= field.of /\ n = value
    BY <2>1, <2>2
  <2>5. n \div m <= 9
    <3>1. field.of \div m <= 9
      BY <2>1
    <3> HIDE DEF m
    <3>2. QED
      BY <2>1, <2>3, <2>4, <3>1, SmallerFits
  <2>6. /\ t \in Seq(0 .. 127) /\ Len(t) = field.width /\ IsDigits(t) /\ NumberOf(t) = n
    BY <2>1, <2>2, <2>4, <2>5, NumbersAreRead
  <2>7. ParseDigits(t) = {n}
    BY <2>6 DEF ParseDigits
  <2>8. ReadField(field, t) = {v \in {n} : v <= field.of}
    BY <1>1, <2>7 DEF ReadField
  <2>9. QED
    BY <1>1, <2>4, <2>6, <2>8 DEF AsRead
<1>2. CASE field.kind = "text"
  <2>1. value \in Seq(0 .. 127) /\ field.width \in Nat
    BY <1>2 DEF IsOfText, IsField
  <2>2. Len(value) <= field.width /\ t = PadText(value, field.width)
    BY <1>2 DEF WriteField
  <2>3. Space \in 0 .. 127
    BY DEF Space
  <2>4. t \in Seq(0 .. 127) /\ Len(t) = field.width /\ TrimEnd(t) = TrimEnd(value)
    BY <2>1, <2>2, <2>3, PaddedText
  <2>5. ReadField(field, t) = {TrimEnd(t)}
    BY <1>2 DEF ReadField
  <2>6. QED
    BY <1>2, <2>4, <2>5 DEF AsRead
<1>3. CASE field.kind = "raw"
  <2>1. value \in Seq(0 .. 127)
    BY <1>3 DEF IsOfText
  <2>2. Len(t) = field.width /\ t = value
    BY <1>3 DEF WriteField
  <2>3. ReadField(field, t) = {t}
    BY <1>3 DEF ReadField
  <2>4. QED
    BY <1>3, <2>1, <2>2, <2>3 DEF AsRead
<1>4. CASE field.kind = "timestamp"
  <2>1. value \in Seq(0 .. 127) /\ field.width = 19
    BY <1>4 DEF IsOfText, IsField
  <2>2. IsTimestamp(t) /\ t = value
    BY <1>4 DEF WriteField
  <2>3. ReadField(field, t) = {t}
    BY <1>4, <2>2 DEF ReadField
  <2>4. Len(t) = 19
    BY <2>2 DEF IsTimestamp
  <2>5. QED
    BY <1>4, <2>1, <2>2, <2>3, <2>4 DEF AsRead
<1>5. CASE field.kind = "enumerated"
  <2>1. field.width = 1 /\ field.of \in Seq(STRING) /\ Len(field.of) <= 10
    BY <1>5 DEF IsField
  <2>2. PICK i \in DOMAIN field.of : field.of[i] = value /\ t = PadNumber(i - 1, field.width)
    BY <1>5 DEF WriteField
  <2>3. i \in 1 .. Len(field.of) /\ Len(field.of) \in Nat
    BY <2>1
  <2>4. i - 1 \in Nat /\ i - 1 \in 0 .. 9 /\ i - 1 < Len(field.of) /\ (i - 1) + 1 = i
    BY <2>1, <2>3
  <2> DEFINE n == i - 1
  <2>5. n \in Nat /\ n \in 0 .. 9 /\ n < Len(field.of) /\ field.of[n + 1] = value
        /\ t = PadNumber(n, 1)
    BY <2>1, <2>2, <2>4
  <2> HIDE DEF n
  <2>6. n \div TenTo(1 - 1) <= 9
    <3>1. TenTo(1 - 1) = 1
      BY TenTimes
    <3>2. QED
      BY <2>5, <3>1
  <2>7. t \in Seq(0 .. 127) /\ Len(t) = 1 /\ IsDigits(t) /\ NumberOf(t) = n
    <3>1. 1 \in 1 .. 10
      OBVIOUS
    <3>2. QED
      BY <2>5, <2>6, <3>1, NumbersAreRead
  <2>8. ParseDigits(t) = {n}
    BY <2>7 DEF ParseDigits
  <2>9. ReadField(field, t) = {field.of[v + 1] : v \in {u \in {n} : u < Len(field.of)}}
    BY <1>5, <2>8 DEF ReadField
  <2>10. {u \in {n} : u < Len(field.of)} = {n}
    BY <2>5
  <2>11. ReadField(field, t) = {value}
    BY <2>5, <2>9, <2>10
  <2>12. QED
    BY <1>5, <2>1, <2>7, <2>11 DEF AsRead
<1>6. QED
  BY <1>1, <1>2, <1>3, <1>4, <1>5 DEF IsField, IsNamed

-----------------------------------------------------------------------------
(* A data field is read as it was written.                                 *)

\* Every text that was joined stands behind what the ones before it make.
LEMMA TextStands ==
    ASSUME NEW S, NEW texts \in Seq(Seq(S)), NEW p \in [0 .. Len(texts) -> Seq(S)],
           Fronts(texts, p, Len(texts)), NEW i \in 1 .. Len(texts)
    PROVE  /\ Len(p[i - 1]) \in Nat /\ Len(p[i]) = Len(p[i - 1]) + Len(texts[i])
           /\ Len(p[i]) <= Len(p[Len(texts)])
           /\ StandsAt(p[Len(texts)], Len(p[i - 1]), texts[i])
<1> DEFINE n == Len(texts)
           x == p[i - 1]
           y == texts[i]
           z == p[i]
           q == p[n]
<1>1. n \in Nat /\ i \in 0 .. n /\ i - 1 \in 0 .. n /\ n \in i .. n /\ n \in 0 .. n
  OBVIOUS
<1>2. x \in Seq(S) /\ y \in Seq(S) /\ z \in Seq(S) /\ q \in Seq(S)
  <2>1. \A k \in 0 .. n : p[k] \in Seq(S)
    OBVIOUS
  <2>2. y \in Seq(S)
    BY <1>1
  <2> HIDE DEF n
  <2>3. QED
    BY <1>1, <2>1, <2>2
<1>3. z = x \o y
  BY DEF Fronts
<1>4. Len(z) <= Len(q) /\ SubSeq(q, 1, Len(z)) = z
  BY <1>1, PrefixesGrow
<1> HIDE DEF n, x, y, z, q
<1>5. /\ Len(x) \in Nat /\ Len(y) \in Nat /\ Len(z) = Len(x) + Len(y)
      /\ \A j \in 1 .. Len(y) : z[Len(x) + j] = y[j]
  BY <1>2, <1>3
<1>6. \A j \in 1 .. Len(z) : q[j] = z[j]
  <2>1. ASSUME NEW j \in 1 .. Len(z) PROVE SubSeq(q, 1, Len(z))[j] = q[j]
    BY <1>2, <1>4, <1>5
  <2>2. QED
    BY <1>4, <2>1
<1>7. ASSUME NEW j \in 1 .. Len(y) PROVE q[Len(x) + j] = y[j]
  <2>1. Len(x) + j \in 1 .. Len(z)
    BY <1>5
  <2>2. QED
    BY <1>5, <1>6, <2>1
<1>8. StandsAt(q, Len(x), y)
  BY <1>7 DEF StandsAt
<1>9. QED
  BY <1>4, <1>5, <1>8 DEF n, x, y, z, q

\* What was written of an entry.
WrittenAs(entry, values, t) ==
    /\ entry.id \in Seq(0 .. 127) /\ t \in Seq(0 .. 127) /\ Len(t) = entry.width
    /\ IsNamed(entry) => ReadField(entry, t) = {AsRead(entry, values[entry.name])}

LEMMA EntryIsWritten ==
    ASSUME NEW layout, IsLayout(layout), NEW values, Suits(layout, values),
           NEW i \in DOMAIN layout, NEW t \in WriteEntry(layout[i], values)
    PROVE  WrittenAs(layout[i], values, t)
<1> DEFINE entry == layout[i]
<1>1. IsField(entry)
  BY DEF IsLayout
<1>2. CASE IsNamed(entry)
  <2>1. t \in WriteField(entry, values[entry.name])
    BY <1>2 DEF WriteEntry
  <2>2. IsOfText(entry) => values[entry.name] \in Seq(0 .. 127)
    BY <1>2 DEF Suits, NamedEntries
  <2> HIDE DEF entry
  <2>3. /\ t \in Seq(0 .. 127) /\ Len(t) = entry.width
        /\ ReadField(entry, t) = {AsRead(entry, values[entry.name])}
    BY <1>1, <1>2, <2>1, <2>2, FieldIsRead
  <2>4. entry.id \in Seq(0 .. 127)
    BY <1>1 DEF IsField
  <2>5. QED
    BY <2>3, <2>4 DEF WrittenAs, entry
<1>3. CASE ~IsNamed(entry)
  <2>1. t = entry.of /\ entry.kind = "filler"
    BY <1>3 DEF WriteEntry, IsNamed
  <2>2. entry.of \in Seq(0 .. 127) /\ Len(entry.of) = entry.width /\ entry.id \in Seq(0 .. 127)
    BY <1>1, <2>1 DEF IsField
  <2>3. QED
    BY <1>3, <2>1, <2>2 DEF WrittenAs
<1>4. QED
  BY <1>2, <1>3

\* The data field, entry by entry.
IsData(layout, values, data, t) ==
    \A i \in DOMAIN layout :
       /\ WrittenAs(layout[i], values, t[i])
       /\ IdAt(layout[i], data) = layout[i].id /\ ValueAt(layout[i], data) = t[i]

LEMMA DataIsWritten ==
    ASSUME NEW layout, IsLayout(layout), NEW values, Suits(layout, values),
           NEW data \in EncodeLayout(layout, values)
    PROVE  /\ data \in Seq(0 .. 127) /\ Fits(data)
           /\ \E t : IsData(layout, values, data, t)
<1> DEFINE S == 0 .. 127
           B == Seq(S)
           n == Len(layout)
           write == [i \in DOMAIN layout |-> WriteEntry(layout[i], values)]
           t == [i \in DOMAIN layout |-> CHOOSE u \in write[i] : TRUE]
           texts == [i \in DOMAIN layout |-> layout[i].id \o CHOOSE u \in write[i] : TRUE]
<1>1. n \in Nat /\ DOMAIN layout = 1 .. n
  BY DEF IsLayout
<1>2. data = Joined(texts) /\ \A i \in DOMAIN layout : write[i] # {}
  <2>1. PICK w \in {v \in {write} : \A i \in DOMAIN layout : v[i] # {}} :
          data = Joined([i \in DOMAIN layout |-> layout[i].id \o CHOOSE u \in w[i] : TRUE])
    BY Zenon DEF EncodeLayout
  <2>2. w = write /\ \A i \in DOMAIN layout : w[i] # {}
    BY <2>1
  <2> HIDE DEF write
  <2>3. QED
    BY <2>1, <2>2
<1>3. ASSUME NEW i \in DOMAIN layout PROVE WrittenAs(layout[i], values, t[i])
  <2>1. t[i] \in WriteEntry(layout[i], values)
    BY <1>2
  <2> HIDE DEF t
  <2>2. QED
    BY <2>1, EntryIsWritten
<1>4. \A i \in 1 .. n : texts[i] = layout[i].id \o t[i]
  BY <1>1
<1>5. \A i \in 1 .. n : layout[i].id \in B /\ t[i] \in B /\ Len(t[i]) = layout[i].width
  <2> SUFFICES ASSUME NEW i \in 1 .. n
               PROVE  layout[i].id \in B /\ t[i] \in B /\ Len(t[i]) = layout[i].width
    OBVIOUS
  <2>1. WrittenAs(layout[i], values, t[i])
    BY <1>1, <1>3
  <2> HIDE DEF t
  <2>2. QED
    BY <2>1 DEF WrittenAs
<1>16. \A i \in 1 .. n :
          layout[i].at = IF i = 1 THEN 0 ELSE layout[i - 1].at + Takes(layout[i - 1])
  BY <1>1 DEF IsLayout
<1>17. \A i \in 1 .. n : layout[i].at + Takes(layout[i]) <= 9999 - 20
  BY <1>1 DEF IsLayout, HeaderLength
<1> HIDE DEF t, write
<1>6. texts \in Seq(B) /\ Len(texts) = n
  <2>1. ASSUME NEW i \in 1 .. n PROVE texts[i] \in B
    <3>1. texts[i] = layout[i].id \o t[i]
      BY <1>4
    <3> HIDE DEF texts, S
    <3>2. layout[i].id \in Seq(S) /\ t[i] \in Seq(S)
      BY <1>5
    <3>3. QED
      BY <3>1, <3>2
  <2> HIDE DEF B
  <2>2. texts \in [1 .. n -> B]
    BY <1>1, <2>1
  <2> HIDE DEF texts
  <2>3. QED
    BY <1>1, <2>2, ListIsSequence
<1> HIDE DEF texts, n, B
<1>7. PICK p \in [0 .. n -> Seq(S)] : Fronts(texts, p, n) /\ data = p[n]
  <2>1. texts \in Seq(Seq(S))
    BY <1>6 DEF B
  <2>2. \E p \in [0 .. Len(texts) -> Seq(S)] :
           Fronts(texts, p, Len(texts)) /\ Joined(texts) = p[Len(texts)]
    BY <2>1, JoinedByPrefixes
  <2>3. QED
    BY <1>2, <1>6, <2>2
<1>8. ASSUME NEW i \in 1 .. n
      PROVE  /\ Len(p[i - 1]) \in Nat /\ Len(p[i]) = Len(p[i - 1]) + Len(texts[i])
             /\ Len(p[i]) <= Len(data)
             /\ StandsAt(data, Len(p[i - 1]), texts[i])
  <2>1. texts \in Seq(Seq(S)) /\ Len(texts) = n
    BY <1>6 DEF B
  <2>2. p \in [0 .. Len(texts) -> Seq(S)] /\ Fronts(texts, p, Len(texts))
        /\ i \in 1 .. Len(texts)
    BY <1>7, <2>1
  <2>3. /\ Len(p[i - 1]) \in Nat /\ Len(p[i]) = Len(p[i - 1]) + Len(texts[i])
        /\ Len(p[i]) <= Len(p[Len(texts)])
        /\ StandsAt(p[Len(texts)], Len(p[i - 1]), texts[i])
    BY <2>1, <2>2, TextStands
  <2>4. QED
    BY <1>7, <2>1, <2>3
<1>9. data \in Seq(S)
  <2>1. n \in 0 .. n
    BY <1>1
  <2>2. QED
    BY <1>7, <2>1
<1>10. \A i \in 1 .. n :
          /\ layout[i].id \in Seq(S) /\ t[i] \in Seq(S)
          /\ Len(texts[i]) = Takes(layout[i]) /\ Takes(layout[i]) \in Nat
          /\ Takes(layout[i]) = Len(layout[i].id) + Len(t[i])
          /\ Len(layout[i].id) \in Nat /\ Len(t[i]) \in Nat
          /\ \A j \in 1 .. Len(layout[i].id) : texts[i][j] = layout[i].id[j]
          /\ \A j \in 1 .. Len(t[i]) : texts[i][Len(layout[i].id) + j] = t[i][j]
  <2> SUFFICES ASSUME NEW i \in 1 .. n
        PROVE  /\ layout[i].id \in Seq(S) /\ t[i] \in Seq(S)
               /\ Len(texts[i]) = Takes(layout[i]) /\ Takes(layout[i]) \in Nat
               /\ Takes(layout[i]) = Len(layout[i].id) + Len(t[i])
               /\ Len(layout[i].id) \in Nat /\ Len(t[i]) \in Nat
               /\ \A j \in 1 .. Len(layout[i].id) : texts[i][j] = layout[i].id[j]
               /\ \A j \in 1 .. Len(t[i]) : texts[i][Len(layout[i].id) + j] = t[i][j]
    OBVIOUS
  <2> DEFINE a == layout[i].id
             b == t[i]
  <2>1. a \in Seq(S) /\ b \in Seq(S) /\ Takes(layout[i]) = Len(a) + Len(b)
    BY <1>5 DEF B, Takes
  <2>2. texts[i] = a \o b
    BY <1>4
  <2> HIDE DEF a, b, S
  <2>3. JoinOf(S, texts[i], a, b)
    BY <2>1, <2>2, JoinedAt
  <2>4. Len(a) \in Nat
    BY <2>1
  <2>5. /\ Len(texts[i]) = Takes(layout[i]) /\ Len(b) \in Nat /\ Takes(layout[i]) \in Nat
        /\ \A j \in 1 .. Len(a) : texts[i][j] = a[j]
        /\ \A j \in 1 .. Len(b) : texts[i][Len(a) + j] = b[j]
    <3>1. Len(texts[i]) = Len(a) + Len(b) /\ Len(b) \in Nat
      BY <2>3 DEF JoinOf
    <3>2. Takes(layout[i]) \in Nat
      BY <2>1, <2>4, <3>1
    <3>3. /\ \A j \in 1 .. Len(a) : texts[i][j] = a[j]
          /\ \A j \in 1 .. Len(b) : texts[i][Len(a) + j] = b[j]
      BY <2>3, Zenon DEF JoinOf
    <3>4. QED
      BY <2>1, <3>1, <3>2, <3>3
  <2>6. QED
    BY <2>1, <2>4, <2>5 DEF a, b
<1>11. \A i \in 1 .. n : Len(p[i - 1]) = layout[i].at
  <2> DEFINE T == {k \in 0 .. n : k = 0 \/ Len(p[k - 1]) = layout[k].at}
  <2>1. 0 \in T
    BY <1>1
  <2>2. ASSUME NEW k \in 0 .. n - 1, k \in T PROVE k + 1 \in T
    <3>1. k + 1 \in 1 .. n /\ k + 1 \in 0 .. n /\ (k + 1) - 1 = k
      BY <1>1
    <3>2. layout[k + 1].at = IF k + 1 = 1 THEN 0
                             ELSE layout[k].at + Takes(layout[k])
      BY <1>16, <3>1
    <3>3. CASE k = 0
      <4>1. p[0] = <<>>
        BY <1>7 DEF Fronts
      <4>2. Len(p[0]) = 0
        BY <4>1
      <4>3. QED
        BY <3>1, <3>2, <3>3, <4>2
    <3>4. CASE k # 0
      <4>1. k \in 1 .. n /\ k + 1 # 1
        BY <1>1, <3>4
      <4>2. Len(p[k]) = Len(p[k - 1]) + Len(texts[k])
        BY <1>8, <4>1
      <4>3. Len(p[k - 1]) = layout[k].at /\ Len(texts[k]) = Takes(layout[k])
        BY <1>10, <2>2, <3>4, <4>1
      <4>4. QED
        BY <3>1, <3>2, <4>1, <4>2, <4>3
    <3>5. QED
      BY <3>3, <3>4
  <2> HIDE DEF T
  <2>3. \A k \in 0 .. n : k \in T
    BY <1>1, <2>1, <2>2, UpFromZero
  <2>4. ASSUME NEW i \in 1 .. n PROVE Len(p[i - 1]) = layout[i].at
    <3>1. i \in T /\ i # 0
      BY <1>1, <2>3
    <3>2. QED
      BY <3>1 DEF T
  <2>5. QED
    BY <2>4
<1>12. ASSUME NEW i \in 1 .. n
       PROVE  IdAt(layout[i], data) = layout[i].id /\ ValueAt(layout[i], data) = t[i]
  <2> DEFINE a == layout[i].id
             b == t[i]
             at == layout[i].at
             mid == at + Len(a)
             end == mid + Len(b)
  <2>1. /\ a \in Seq(S) /\ b \in Seq(S) /\ Len(a) \in Nat /\ Len(b) \in Nat
        /\ Len(texts[i]) = Len(a) + Len(b)
        /\ \A j \in 1 .. Len(a) : texts[i][j] = a[j]
        /\ \A j \in 1 .. Len(b) : texts[i][Len(a) + j] = b[j]
    BY <1>10
  <2>2. /\ at \in Nat /\ Len(p[i]) = at + Len(texts[i]) /\ Len(p[i]) <= Len(data)
        /\ StandsAt(data, at, texts[i])
    BY <1>8, <1>11
  <2>3. Len(b) = layout[i].width
    BY <1>5
  <2> HIDE DEF a, b, at, S
  <2>4. Len(data) \in Nat
    BY <1>9
  <2>5. mid \in Nat /\ end \in Nat /\ mid <= Len(data) /\ end <= Len(data)
    BY <2>1, <2>2, <2>4
  <2>6. StandsAt(data, at, a)
    <3>1. ASSUME NEW j \in 1 .. Len(a) PROVE data[at + j] = a[j]
      <4>1. j \in 1 .. Len(texts[i])
        BY <2>1
      <4>2. QED
        BY <2>1, <2>2, <4>1 DEF StandsAt
    <3>2. QED
      BY <3>1 DEF StandsAt
  <2>7. StandsAt(data, mid, b)
    <3>1. ASSUME NEW j \in 1 .. Len(b) PROVE data[mid + j] = b[j]
      <4>1. Len(a) + j \in 1 .. Len(texts[i]) /\ at + (Len(a) + j) = mid + j
        BY <2>1, <2>2
      <4>2. data[at + (Len(a) + j)] = texts[i][Len(a) + j]
        BY <2>2, <4>1 DEF StandsAt
      <4>3. QED
        BY <2>1, <4>1, <4>2
    <3>2. QED
      BY <3>1 DEF StandsAt
  <2>8. Part(data, at, mid) = a
    BY <1>9, <2>1, <2>2, <2>5, <2>6, PartFrom
  <2>9. Part(data, mid, end) = b
    BY <1>9, <2>1, <2>2, <2>5, <2>7, PartFrom
  <2>10. IdAt(layout[i], data) = Part(data, at, mid)
    BY DEF IdAt, at, a
  <2>11. ValueAt(layout[i], data) = Part(data, mid, mid + layout[i].width)
    BY DEF ValueAt, at, a
  <2>12. QED
    BY <2>3, <2>8, <2>9, <2>10, <2>11 DEF a, b
<1>13. IsData(layout, values, data, t)
  BY <1>1, <1>3, <1>12 DEF IsData
<1>14. Fits(data)
  <2>1. Len(data) \in Nat
    BY <1>9
  <2>2. Len(data) <= 9999 - 20
    <3>1. CASE n = 0
      <4>1. data = <<>>
        BY <1>7, <3>1 DEF Fronts
      <4>2. Len(data) = 0
        BY <4>1
      <4>3. QED
        BY <4>2
    <3>2. CASE n # 0
      <4>1. n \in 1 .. n
        BY <1>1, <3>2
      <4>2. Len(p[n]) = Len(p[n - 1]) + Len(texts[n]) /\ Len(p[n - 1]) = layout[n].at
        BY <1>8, <1>11, <4>1
      <4>3. Len(texts[n]) = Takes(layout[n])
        BY <1>10, <4>1
      <4>5. layout[n].at + Takes(layout[n]) <= 9999 - 20
        BY <1>17, <4>1
      <4>4. QED
        BY <1>7, <4>2, <4>3, <4>5
    <3>3. QED
      BY <3>1, <3>2
  <2>3. QED
    <3> DEFINE l == Len(data)
    <3>1. l \in Nat /\ l <= 9999 - 20
      BY <2>1, <2>2
    <3> HIDE DEF l
    <3>2. 20 + l \in 20 .. 9999
      BY <3>1
    <3>3. QED
      BY <3>2, SMTT(30) DEF Fits, HeaderLength, l
<1>15. QED
  BY <1>9, <1>13, <1>14 DEF S

\* decode and encode of a layout: every value comes back as it was, but for
\* the blanks at the end of a text (layout of Field.ts).
ReadBack(layout, values) ==
    [n \in Names(layout) |-> AsRead(layout[At(layout, n)], values[n])]

THEOREM LayoutsReadBack ==
    ASSUME NEW layout, IsLayout(layout), NEW values, Suits(layout, values),
           NEW data \in EncodeLayout(layout, values)
    PROVE  DecodeLayout(layout, data) = {ReadBack(layout, values)}
<1>1. PICK t : IsData(layout, values, data, t)
  BY DataIsWritten
<1>2. IsScanned(layout, data)
  <2>1. \A i \in DOMAIN layout :
           IdAt(layout[i], data) = layout[i].id /\ ValueAt(layout[i], data) = t[i]
           /\ Len(t[i]) = layout[i].width
    BY <1>1 DEF IsData, WrittenAs
  <2>2. QED
    BY <2>1 DEF IsScanned
<1>3. ASSUME NEW n \in Names(layout)
      PROVE  ReadField(layout[At(layout, n)], ValueAt(layout[At(layout, n)], data))
               = {AsRead(layout[At(layout, n)], values[n])}
  <2> DEFINE i == At(layout, n)
  <2>1. i \in NamedEntries(layout) /\ layout[i].name = n
    BY DEF Names, At
  <2> HIDE DEF i
  <2>2. i \in DOMAIN layout /\ IsNamed(layout[i])
    BY <2>1 DEF NamedEntries
  <2>3. WrittenAs(layout[i], values, t[i]) /\ ValueAt(layout[i], data) = t[i]
    BY <1>1, <2>2 DEF IsData
  <2>4. QED
    BY <2>1, <2>2, <2>3 DEF WrittenAs, i
<1> DEFINE read == ReadEntries(layout, data)
<1>4. /\ DOMAIN read = Names(layout)
      /\ \A n \in Names(layout) : read[n] = {AsRead(layout[At(layout, n)], values[n])}
  BY <1>3 DEF ReadEntries
<1> HIDE DEF read
<1>5. \A n \in DOMAIN read : read[n] # {}
  BY <1>4
<1>6. DecodeLayout(layout, data) = {[n \in DOMAIN read |-> CHOOSE v \in read[n] : TRUE]}
  BY <1>2, <1>5 DEF DecodeLayout, read
<1>7. [n \in DOMAIN read |-> CHOOSE v \in read[n] : TRUE] = ReadBack(layout, values)
  <2>1. \A n \in Names(layout) :
           (CHOOSE v \in read[n] : TRUE) = AsRead(layout[At(layout, n)], values[n])
    BY <1>4
  <2>2. QED
    BY <1>4, <2>1 DEF ReadBack
<1>8. QED
  BY <1>6, <1>7

-----------------------------------------------------------------------------
(* A message is read as it was written.                                    *)

LEMMA SubSeqOne ==
    ASSUME NEW S, NEW s \in Seq(S), NEW k \in 1 .. Len(s)
    PROVE  SubSeq(s, k, k) = <<s[k]>>
<1> DEFINE t == SubSeq(s, k, k)
           u == <<s[k]>>
<1>1. k \in Int /\ k <= Len(s) /\ s[k] \in S
  OBVIOUS
<1>2. t \in Seq(S) /\ Len(t) = 1 /\ t[1] = s[k]
  <2>1. \A i \in k .. k : s[i] \in S
    BY <1>1
  <2>2. t \in Seq(S) /\ Len(t) = (IF k <= k THEN (k - k) + 1 ELSE 0)
        /\ \A i \in 1 .. (k - k) + 1 : t[i] = s[k + i - 1]
    BY <2>1, SubSeqProperties
  <2>3. (k - k) + 1 = 1 /\ 1 \in 1 .. 1 /\ k + 1 - 1 = k
    BY <1>1
  <2> HIDE DEF t
  <2>4. QED
    BY <2>2, <2>3
<1>3. u \in Seq(S) /\ Len(u) = 1 /\ u[1] = s[k]
  BY <1>1
<1> HIDE DEF t, u
<1>4. t = u
  BY <1>2, <1>3, SeqEqual
<1>5. QED
  BY <1>4 DEF t, u

\* Pieces of one make what they are pieces of.
LEMMA JoinedOfSingles ==
    ASSUME NEW S, NEW text \in Seq(S), NEW singles, DOMAIN singles = DOMAIN text,
           singles = [i \in DOMAIN singles |-> singles[i]],
           \A i \in DOMAIN text : singles[i] = <<text[i]>>
    PROVE  Joined(singles) = text
<1> DEFINE B == Seq(S)
           n == Len(text)
           p == [k \in 0 .. n |-> SubSeq(text, 1, k)]
<1>1. n \in Nat /\ DOMAIN text = 1 .. n /\ \A i \in 1 .. n : text[i] \in S
  OBVIOUS
<1>2. \A i \in 1 .. n : singles[i] = <<text[i]>>
  BY <1>1
<1>3. DOMAIN singles = 1 .. n
  BY <1>1
<1> HIDE DEF n
<1>5. text \in Seq(S)
  OBVIOUS
<1>6. \A k \in 0 .. n : SubSeq(text, 1, k) \in B
  <2>1. ASSUME NEW k \in 0 .. n PROVE SubSeq(text, 1, k) \in Seq(S)
    <3>1. k \in Nat /\ 0 \in Nat /\ 0 <= k /\ k <= Len(text)
      BY <1>1 DEF n
    <3>2. QED
      BY <1>5, <3>1, CutInTwo
  <2>2. QED
    BY <2>1
<1>7. \A k \in 1 .. n : SubSeq(text, 1, k) = SubSeq(text, 1, k - 1) \o <<text[k]>>
  <2>1. ASSUME NEW k \in 1 .. n
        PROVE  SubSeq(text, 1, k) = SubSeq(text, 1, k - 1) \o <<text[k]>>
    <3>1. k - 1 \in Nat /\ k \in Nat /\ k - 1 <= k /\ k <= Len(text) /\ (k - 1) + 1 = k
      BY <1>1 DEF n
    <3>2. SubSeq(text, 1, k - 1) \o SubSeq(text, (k - 1) + 1, k) = SubSeq(text, 1, k)
      BY <1>5, <3>1, CutInTwo
    <3>3. SubSeq(text, k, k) = <<text[k]>>
      <4>1. text \in Seq(S) /\ k \in 1 .. Len(text)
        BY <1>5 DEF n
      <4>2. QED
        BY <4>1, SubSeqOne
    <3>4. QED
      BY <3>1, <3>2, <3>3
  <2>2. QED
    BY <2>1
<1>8. singles \in Seq(B) /\ Len(singles) = n
  <2>1. ASSUME NEW i \in 1 .. n PROVE singles[i] \in B
    <3>1. singles[i] = <<text[i]>> /\ text[i] \in S
      BY <1>1, <1>2
    <3>2. QED
      BY <3>1
  <2> HIDE DEF B
  <2>2. singles \in [1 .. n -> B]
    <3>1. singles = [i \in 1 .. n |-> singles[i]]
      BY <1>3
    <3>2. QED
      BY <2>1, <3>1
  <2>3. QED
    BY <1>1, <2>2, ListIsSequence
<1>9. /\ p \in [0 .. n -> B] /\ p[0] = <<>> /\ p[n] = text
      /\ \A k \in 0 .. n : p[k] = SubSeq(text, 1, k)
  <2>1. p \in [0 .. n -> B]
    <3> HIDE DEF B
    <3>1. QED
      BY <1>6
  <2>2. 0 \in 0 .. n /\ n \in 0 .. n
    BY <1>1
  <2>3. SubSeq(text, 1, 0) = <<>>
    BY <1>5
  <2>4. SubSeq(text, 1, n) = text
    BY <1>5 DEF n
  <2>5. QED
    BY <2>1, <2>2, <2>3, <2>4
<1> HIDE DEF p
<1>10. Fronts(singles, p, n)
  <2>1. ASSUME NEW k \in 1 .. n PROVE p[k] = p[k - 1] \o singles[k]
    <3>1. k \in 0 .. n /\ k - 1 \in 0 .. n
      BY <1>1
    <3>2. QED
      BY <1>2, <1>7, <1>9, <3>1
  <2>2. QED
    BY <1>9, <2>1 DEF Fronts
<1>11. Joined(singles) = p[n]
  <2>1. p \in [0 .. Len(singles) -> Seq(S)] /\ Fronts(singles, p, Len(singles))
        /\ singles \in Seq(Seq(S))
    BY <1>8, <1>9, <1>10 DEF B
  <2>2. Joined(singles) = p[Len(singles)]
    BY <2>1, JoinedIsPrefix
  <2>3. QED
    BY <1>8, <2>2
<1>12. QED
  BY <1>9, <1>11

\* TextEncoder leaves a text of the wire as it is.
LEMMA PlainText ==
    ASSUME NEW text \in Seq(0 .. 127)
    PROVE  Utf8(text) = text
<1> DEFINE S == 0 .. 127
           singles == [i \in DOMAIN text |->
                         IF text[i] < 128 THEN <<text[i]>>
                         ELSE <<192 + (text[i] \div 64), 128 + (text[i] % 64)>>]
<1>1. \A i \in DOMAIN text : text[i] < 128
  <2>1. \A x \in S : x < 128
    OBVIOUS
  <2>2. \A i \in DOMAIN text : text[i] \in S
    <3>1. text \in Seq(S)
      OBVIOUS
    <3> HIDE DEF S
    <3>2. QED
      BY <3>1
  <2> HIDE DEF S
  <2>3. QED
    BY <2>1, <2>2
<1>2. /\ DOMAIN singles = DOMAIN text /\ singles = [i \in DOMAIN singles |-> singles[i]]
      /\ \A i \in DOMAIN text : singles[i] = <<text[i]>>
  BY <1>1
<1>3. Utf8(text) = Joined(singles)
  BY DEF Utf8
<1> HIDE DEF singles
<1>4. Joined(singles) = text
  <2>1. text \in Seq(S)
    OBVIOUS
  <2> HIDE DEF S
  <2>2. QED
    BY <1>2, <2>1, JoinedOfSingles
<1>5. QED
  BY <1>3, <1>4

\* A frame that was written with these data is one frame, and the header and
\* the data in it are read back.
LEMMA FrameIsOneFrame ==
    ASSUME NEW mid \in MidNumber, NEW revision \in RevisionNumber,
           NEW data \in Seq(0 .. 127), Fits(data), NEW message,
           MessageOf(HeaderFor(mid, revision, data), data) = message
    PROVE  /\ Utf8(EncodeFrame(mid, revision, data)) = EncodeFrame(mid, revision, data)
           /\ IsOneFrame(EncodeFrame(mid, revision, data), message)
<1> DEFINE S == 0 .. 127
           frame == EncodeFrame(mid, revision, data)
           header == HeaderFor(mid, revision, data)
           taken == TakeFrames(frame)
<1>1. 0 .. 127 \subseteq S /\ data \in Seq(S)
  OBVIOUS
<1>2. Terminator \in S
  BY DEF Terminator
<1> HIDE DEF S, frame, header, taken
<1>3. PICK text : IsTextOf(S, text, mid, revision, data)
  BY <1>1, WrittenText
<1>4. /\ text \in Seq(S) /\ Len(text) >= 20 /\ NamesItself(text)
      /\ frame = text \o <<Terminator>> /\ DecodeHeader(text) = {header}
      /\ Part(text, 20, Len(text)) = data
  BY <1>3 DEF IsTextOf, frame, header
<1>5. taken.frames = <<text>> /\ taken.buffer = <<>> /\ taken.error = FALSE
  <2>1. /\ TakeFrames(text \o <<Terminator>>).frames = <<text>>
        /\ TakeFrames(text \o <<Terminator>>).buffer = <<>>
        /\ TakeFrames(text \o <<Terminator>>).error = FALSE
    BY <1>2, <1>4, FrameIsFramed
  <2>2. QED
    BY <1>4, <2>1 DEF taken
<1>6. frame \in Seq(S)
  <2>1. <<Terminator>> \in Seq(S)
    BY <1>2
  <2>2. QED
    BY <1>4, <2>1
<1>7. DecodeFrame(text) = {[header |-> header, data |-> data, message |-> message]}
  <2>1. Part(text, HeaderLength, Len(text)) = data
    BY <1>4 DEF HeaderLength
  <2>2. DecodeFrame(text) =
          {[header |-> h, data |-> data, message |-> MessageOf(h, data)] : h \in {header}}
    BY <1>4, <2>1 DEF DecodeFrame
  <2>3. MessageOf(header, data) = message
    BY DEF header
  <2>4. QED
    BY <2>2, <2>3
<1>8. {read.message : read \in DecodeFrame(text)} = {message}
  BY <1>7
<1>9. Len(taken.frames) = 1 /\ taken.frames[1] = text
  BY <1>5
<1>10. IsOneFrame(frame, message)
  <2>1. frame \in Seq(0 .. 127)
    BY <1>6 DEF S
  <2>2. QED
    BY <1>5, <1>8, <1>9, <2>1 DEF IsOneFrame, taken
<1>11. Utf8(frame) = frame
  BY <1>6, PlainText DEF S
<1>12. QED
  BY <1>10, <1>11 DEF frame

\* A message with a definition.
LEMMA DefinedReadsBack ==
    ASSUME NEW message, IsDefined(message), ~IsForeign(message),
           NEW data \in EncodeLayout(ByTag[message.tag].layout, message)
    PROVE  /\ data \in Seq(0 .. 127) /\ Fits(data)
           /\ ByTag[message.tag].mid \in MidNumber
           /\ MessageOf(HeaderFor(ByTag[message.tag].mid, 1, data), data) = Canonical(message)
<1> DEFINE tag == message.tag
           mid == ByTag[tag].mid
           layout == ByTag[tag].layout
           header == HeaderFor(mid, 1, data)
           read == ReadBack(layout, message)
           back == Beside([tag |-> tag, revision |-> 1], read)
<1>1. /\ tag \in DOMAIN ByTag /\ message.revision = 1
      /\ DOMAIN message = {"tag", "revision"} \cup Names(layout) /\ Suits(layout, message)
  BY DEF IsDefined
<1>2. /\ mid \in MidNumber /\ IsLayout(layout)
      /\ Names(layout) \cap {"tag", "revision"} = {}
      /\ \A i \in NamedEntries(layout) : layout[i].kind = "text" <=> layout[i].name \in Padded
  BY <1>1, MidsAssumption DEF IsRevision
<1>3. \A other \in DOMAIN ByTag \ {tag} : ByTag[other].mid # mid
  BY <1>1, MidsAssumption
<1> HIDE DEF layout, mid
<1>4. data \in EncodeLayout(layout, message)
  BY DEF layout
<1>5. data \in Seq(0 .. 127) /\ Fits(data)
  BY <1>1, <1>2, <1>4, DataIsWritten
<1>6. DecodeLayout(layout, data) = {read}
  BY <1>1, <1>2, <1>4, LayoutsReadBack
<1>7. TagsOf(mid, 1) = {tag}
  BY <1>1, <1>3 DEF TagsOf, mid
<1>8. DecodeAs(tag, data) = {back}
  <2> HIDE DEF read, tag
  <2>1. DecodeLayout(ByTag[tag].layout, data) = {read}
    BY <1>6 DEF layout
  <2>2. QED
    BY <2>1 DEF DecodeAs
<1>9. header.mid = mid /\ header.revision = 1
  BY DEF HeaderFor
<1> HIDE DEF header, back
<1>10. MessageOf(header, data) = back
  <2>1. UNION {DecodeAs(t, data) : t \in TagsOf(header.mid, header.revision)} = {back}
    BY <1>7, <1>8, <1>9
  <2>2. OrElse({back}, UnknownOf(header, data)) = back
    BY DEF OrElse
  <2>3. QED
    BY <2>1, <2>2 DEF MessageOf
<1>11. back = Canonical(message)
  <2>1. Canonical(message) =
          [part \in DOMAIN message |->
             IF part \in Padded THEN TrimEnd(message[part]) ELSE message[part]]
    BY DEF Canonical
  <2>2. DOMAIN read = Names(layout)
    BY DEF ReadBack
  <2>3. back = [x \in {"tag", "revision"} \cup Names(layout) |->
                  IF x \in {"tag", "revision"} THEN [tag |-> tag, revision |-> 1][x]
                  ELSE read[x]]
    <3> HIDE DEF read
    <3>1. DOMAIN [tag |-> tag, revision |-> 1] = {"tag", "revision"}
      OBVIOUS
    <3>2. QED
      BY <2>2, <3>1 DEF back, Beside
  <2>4. ASSUME NEW x \in DOMAIN message
        PROVE  (IF x \in {"tag", "revision"} THEN [tag |-> tag, revision |-> 1][x] ELSE read[x])
               = IF x \in Padded THEN TrimEnd(message[x]) ELSE message[x]
    <3>1. CASE x = "tag"
      BY <3>1 DEF Padded
    <3>2. CASE x = "revision"
      BY <1>1, <3>2 DEF Padded
    <3>3. CASE x \in Names(layout)
      <4> DEFINE i == At(layout, x)
      <4>1. i \in NamedEntries(layout) /\ layout[i].name = x
        BY <3>3 DEF Names, At
      <4>2. x \notin {"tag", "revision"}
        BY <1>2, <3>3
      <4>3. read[x] = AsRead(layout[i], message[x])
        BY <3>3 DEF ReadBack
      <4> HIDE DEF i, read
      <4>4. layout[i].kind = "text" <=> x \in Padded
        BY <1>2, <4>1
      <4>5. QED
        BY <4>2, <4>3, <4>4 DEF AsRead
    <3>4. QED
      BY <1>1, <3>1, <3>2, <3>3
  <2> HIDE DEF read
  <2>5. QED
    BY <1>1, <2>1, <2>3, <2>4
<1>12. QED
  BY <1>2, <1>5, <1>10, <1>11 DEF header, mid

\* A message nothing reads.
LEMMA UndefinedReadsBack ==
    ASSUME NEW message, IsUndefined(message), message.tag = "UnknownMessage"
    PROVE  MessageOf(HeaderFor(message.mid, message.revision, message.data), message.data)
             = Canonical(message)
<1> DEFINE mid == message.mid
           revision == message.revision
           data == message.data
           header == HeaderFor(mid, revision, data)
           unknown == UnknownOf(header, data)
<1>1. /\ DOMAIN message = {"tag", "mid", "revision", "data"}
      /\ \A tag \in TagsOf(mid, revision) : DecodeAs(tag, data) = {}
  BY DEF IsUndefined
<1>2. header.mid = mid /\ header.revision = revision
  BY DEF HeaderFor
<1> HIDE DEF header
<1>3. unknown = [tag |-> "UnknownMessage", mid |-> mid, revision |-> revision, data |-> data]
  BY <1>2 DEF UnknownOf
<1>4. MessageOf(header, data) = unknown
  <2> HIDE DEF unknown, mid, revision, data
  <2>1. UNION {DecodeAs(tag, data) : tag \in TagsOf(header.mid, header.revision)} = {}
    BY <1>1, <1>2
  <2>2. QED
    BY <2>1 DEF MessageOf, OrElse, unknown
<1>5. unknown = Canonical(message)
  <2>1. Canonical(message) = [part \in {"tag", "mid", "revision", "data"} |-> message[part]]
    <3>1. \A part \in {"tag", "mid", "revision", "data"} : part \notin Padded
      BY DEF Padded
    <3>2. ~IsForeign(message)
      BY DEF IsForeign
    <3>3. QED
      BY <1>1, <3>1, <3>2 DEF Canonical
  <2>2. QED
    BY <1>3, <2>1
<1>6. QED
  BY <1>4, <1>5 DEF header

\* There is one way to write a message, if there is one.
LEMMA WrittenOnce ==
    ASSUME NEW layout, NEW values, NEW data \in EncodeLayout(layout, values)
    PROVE  EncodeLayout(layout, values) = {data}
<1> DEFINE write == [i \in DOMAIN layout |-> WriteEntry(layout[i], values)]
           Ways == {w \in {write} : \A i \in DOMAIN layout : w[i] # {}}
           Made(w) == Joined([i \in DOMAIN layout |-> layout[i].id \o CHOOSE t \in w[i] : TRUE])
<1>1. EncodeLayout(layout, values) = {Made(w) : w \in Ways}
  BY DEF EncodeLayout
<1>2. \A w \in Ways : w = write
  OBVIOUS
<1> HIDE DEF Made, Ways, write
<1>3. QED
  BY <1>1, <1>2

LEMMA ShortFits ==
    ASSUME NEW data, Len(data) \in Nat, HeaderLength + Len(data) <= 9999
    PROVE  Fits(data)
<1> DEFINE n == Len(data)
<1>1. n \in Nat /\ 20 + n <= 9999
  BY DEF HeaderLength
<1> HIDE DEF n
<1>2. 20 + n \in 20 .. 9999
  BY <1>1
<1>3. HeaderLength + n \in HeaderLength .. 9999
  BY <1>2, SMTT(30) DEF HeaderLength
<1>4. QED
  BY <1>3 DEF Fits, n

\* encodeMessage and decodeFrame: a message a controller writes is one frame,
\* and reads as what it was, to the last field, but for the blanks at the end
\* of a text; it is not written at all when a field refuses its value.
THEOREM MessagesReadBack ==
    ASSUME NEW item, IsItem(item), ~IsJunk(item), NEW bytes \in Bytes(item)
    PROVE  Bytes(item) = {bytes} /\ IsOneFrame(bytes, Canonical(item))
<1>1. CASE IsForeign(item)
  <2>1. Bytes(item) = {item.bytes}
    BY <1>1 DEF Bytes
  <2>2. IsOneFrame(item.bytes, item.reads)
    BY <1>1 DEF IsItem, IsJunk, IsForeign
  <2>3. Canonical(item) = item.reads
    BY <1>1 DEF Canonical
  <2>4. QED
    BY <2>1, <2>2, <2>3
<1>2. CASE ~IsForeign(item)
  <2>1. Bytes(item) = {Utf8(frame) : frame \in EncodeMessage(item)}
    BY <1>2 DEF Bytes
  <2>2. CASE item.tag = "UnknownMessage"
    <3> DEFINE frame == EncodeFrame(item.mid, item.revision, item.data)
    <3>1. EncodeMessage(item) = {frame}
      BY <2>2 DEF EncodeMessage
    <3>2. IsUndefined(item)
      BY <1>2, <2>2 DEF IsItem
    <3>3. /\ item.mid \in MidNumber /\ item.revision \in RevisionNumber
          /\ item.data \in Seq(0 .. 127) /\ HeaderLength + Len(item.data) <= 9999
      BY <3>2 DEF IsUndefined
    <3>4. Fits(item.data)
      <4>1. Len(item.data) \in Nat
        <5> DEFINE S == 0 .. 127
        <5>1. item.data \in Seq(S)
          BY <3>3
        <5> HIDE DEF S
        <5>2. QED
          BY <5>1
      <4>2. QED
        BY <3>3, <4>1, ShortFits
    <3>5. MessageOf(HeaderFor(item.mid, item.revision, item.data), item.data) = Canonical(item)
      BY <2>2, <3>2, UndefinedReadsBack
    <3>6. Utf8(frame) = frame /\ IsOneFrame(frame, Canonical(item))
      BY <3>3, <3>4, <3>5, FrameIsOneFrame
    <3> HIDE DEF frame
    <3>7. QED
      BY <2>1, <3>1, <3>6
  <2>3. CASE item.tag # "UnknownMessage"
    <3> DEFINE layout == ByTag[item.tag].layout
               mid == ByTag[item.tag].mid
    <3>1. EncodeMessage(item) = {EncodeFrame(mid, 1, data) : data \in EncodeLayout(layout, item)}
      BY <2>3 DEF EncodeMessage, Encode
    <3>2. PICK data \in EncodeLayout(layout, item) : TRUE
      BY <2>1, <3>1
    <3> DEFINE frame == EncodeFrame(mid, 1, data)
    <3>3. IsDefined(item)
      BY <1>2, <2>3 DEF IsItem
    <3>4. EncodeLayout(layout, item) = {data}
      BY <3>2, WrittenOnce
    <3>5. /\ data \in Seq(0 .. 127) /\ Fits(data) /\ mid \in MidNumber
          /\ MessageOf(HeaderFor(mid, 1, data), data) = Canonical(item)
      BY <1>2, <3>2, <3>3, DefinedReadsBack
    <3>6. 1 \in RevisionNumber
      BY DEF RevisionNumber
    <3> HIDE DEF layout, mid
    <3>7. Utf8(frame) = frame /\ IsOneFrame(frame, Canonical(item))
      BY <3>5, <3>6, FrameIsOneFrame
    <3> HIDE DEF frame
    <3>8. EncodeMessage(item) = {frame}
      BY <3>1, <3>4 DEF frame
    <3>9. QED
      BY <2>1, <3>7, <3>8
  <2>4. QED
    BY <2>2, <2>3
<1>3. QED
  BY <1>1, <1>2

-----------------------------------------------------------------------------
(* A stream is read as it was written.                                     *)

\* A buffer nothing is taken from.
LEMMA NothingTaken ==
    ASSUME NEW S, NEW b \in Seq(S), Rest(b) = b
    PROVE  TakeFrames(b).frames = <<>> /\ TakeFrames(b).buffer = b
           /\ TakeFrames(b).error = IsMalformed(b)
<1> DEFINE c == <<b>>
           l == Leftovers(b)
<1>1. c \in Seq(Seq(S)) /\ c # <<>> /\ Len(c) = 1 /\ c[1] = b
  OBVIOUS
<1> HIDE DEF c
<1>2. Complete(c, b)
  <2>1. 1 .. Len(c) - 1 = {}
    BY <1>1
  <2>2. QED
    BY <1>1, <2>1 DEF Complete, Chain
<1>3. l \in Seq(Seq(S)) /\ l # <<>> /\ Complete(l, b)
  BY LeftoversComplete
<1> HIDE DEF l
<1>4. l = c
  BY <1>1, <1>2, <1>3, CompleteIsUnique
<1>5. /\ TakeFrames(b).frames \in Seq(Seq(S)) /\ Len(TakeFrames(b).frames) = Len(l) - 1
      /\ TakeFrames(b).buffer = l[Len(l)] /\ TakeFrames(b).error = IsMalformed(l[Len(l)])
  BY TakeFramesTyped DEF l
<1>6. Len(l) = 1 /\ l[1] = b
  BY <1>1, <1>4
<1>7. Len(TakeFrames(b).frames) = 0
  BY <1>5, <1>6
<1>8. QED
  BY <1>5, <1>6, <1>7

\* The frames of a stream begin with those that mean these messages; these
\* are all it holds; what comes behind them can never be read.
Heads(bytes, messages) ==
    LET frames == TakeFrames(bytes).frames
    IN  /\ Len(messages) <= Len(frames)
        /\ \A i \in 1 .. Len(messages) :
              DecodeFrame(frames[i]) # {} /\ Meaning(frames[i]) = messages[i]
IsRead(bytes, messages) ==
    /\ Heads(bytes, messages) /\ Len(TakeFrames(bytes).frames) = Len(messages)
    /\ ~TakeFrames(bytes).error /\ TakeFrames(bytes).buffer = <<>>
Breaks(bytes, messages) ==
    LET taken == TakeFrames(bytes)
    IN  /\ Heads(bytes, messages)
        /\ \/ Len(taken.frames) = Len(messages) /\ IsMalformed(taken.buffer)
           \/ Len(taken.frames) > Len(messages)
              /\ DecodeFrame(taken.frames[Len(messages) + 1]) = {}

\* The frames of a longer stream: those of its front, and those of what that
\* left with the rest behind it.
GoesOn(a, x) ==
    LET first == TakeFrames(a)
        second == TakeFrames(first.buffer \o x)
        whole == TakeFrames(a \o x)
    IN  /\ Len(first.frames) \in Nat /\ Len(second.frames) \in Nat
        /\ Len(whole.frames) = Len(first.frames) + Len(second.frames)
        /\ \A i \in 1 .. Len(first.frames) : whole.frames[i] = first.frames[i]
        /\ \A i \in 1 .. Len(second.frames) :
              whole.frames[Len(first.frames) + i] = second.frames[i]
        /\ whole.buffer = second.buffer /\ whole.error = second.error
        /\ first.error => whole.error

LEMMA StreamGoesOn ==
    ASSUME NEW S, NEW a \in Seq(S), NEW x \in Seq(S)
    PROVE  GoesOn(a, x)
<1> DEFINE first == TakeFrames(a)
           second == TakeFrames(first.buffer \o x)
           whole == TakeFrames(a \o x)
<1>1. /\ whole.frames = first.frames \o second.frames
      /\ whole.buffer = second.buffer /\ whole.error = second.error
      /\ first.error => second.error
  BY FramesIgnoreCuts DEF Step
<1>2. first.frames \in Seq(Seq(S)) /\ first.buffer \in Seq(S)
  BY TakeFramesTyped
<1>3. second.frames \in Seq(Seq(S))
  <2>1. first.buffer \o x \in Seq(S)
    BY <1>2
  <2>2. QED
    BY <2>1, TakeFramesTyped
<1> HIDE DEF first, second, whole
<1> DEFINE f == first.frames
           s == second.frames
           w == whole.frames
<1>4. IsSequence(f) /\ IsSequence(s)
  BY <1>2, <1>3 DEF IsSequence
<1>6. w = f \o s
  BY <1>1
<1> HIDE DEF f, s, w
<1>5. /\ Len(f) \in Nat /\ Len(s) \in Nat /\ Len(f \o s) = Len(f) + Len(s)
      /\ \A i \in 1 .. Len(f) : (f \o s)[i] = f[i]
      /\ \A i \in 1 .. Len(s) : (f \o s)[Len(f) + i] = s[i]
  BY <1>4, ConcatIsSequence
<1>7. /\ Len(f) \in Nat /\ Len(s) \in Nat /\ Len(w) = Len(f) + Len(s)
      /\ \A i \in 1 .. Len(f) : w[i] = f[i]
      /\ \A i \in 1 .. Len(s) : w[Len(f) + i] = s[i]
  BY <1>5, <1>6
<1>8. QED
  BY <1>1, <1>7 DEF GoesOn, first, second, whole, f, s, w

LEMMA HeadsStay ==
    ASSUME NEW a, NEW x, GoesOn(a, x), NEW messages, Heads(a, messages), Len(messages) \in Nat
    PROVE  Heads(a \o x, messages)
<1> DEFINE f == TakeFrames(a).frames
           w == TakeFrames(a \o x).frames
           s == TakeFrames(TakeFrames(a).buffer \o x).frames
<1>1. /\ Len(f) \in Nat /\ Len(s) \in Nat /\ Len(w) = Len(f) + Len(s)
      /\ \A i \in 1 .. Len(f) : w[i] = f[i]
  BY DEF GoesOn
<1>2. /\ Len(messages) <= Len(f)
      /\ \A i \in 1 .. Len(messages) : DecodeFrame(f[i]) # {} /\ Meaning(f[i]) = messages[i]
  BY DEF Heads
<1> HIDE DEF f, s, w
<1>3. Len(messages) <= Len(w)
  BY <1>1, <1>2
<1>4. \A i \in 1 .. Len(messages) : w[i] = f[i]
  BY <1>1, <1>2
<1>5. QED
  BY <1>2, <1>3, <1>4 DEF Heads, w

LEMMA BreaksForGood ==
    ASSUME NEW S, NEW a \in Seq(S), NEW x \in Seq(S), NEW messages, Breaks(a, messages),
           Len(messages) \in Nat
    PROVE  Breaks(a \o x, messages)
<1> DEFINE n == Len(messages)
           buffer == TakeFrames(a).buffer
           f == TakeFrames(a).frames
           w == TakeFrames(a \o x).frames
           s == TakeFrames(buffer \o x).frames
<1>1. GoesOn(a, x)
  BY StreamGoesOn
<1>2. Heads(a \o x, messages)
  BY <1>1, HeadsStay DEF Breaks
<1>3. /\ Len(f) \in Nat /\ Len(s) \in Nat /\ Len(w) = Len(f) + Len(s)
      /\ \A i \in 1 .. Len(f) : w[i] = f[i]
      /\ TakeFrames(a \o x).buffer = TakeFrames(buffer \o x).buffer
  BY <1>1 DEF GoesOn
<1>4. buffer \in Seq(S)
  BY TakeFramesTyped
<1>5. \/ Len(f) = n /\ IsMalformed(buffer)
      \/ Len(f) > n /\ DecodeFrame(f[n + 1]) = {}
  BY DEF Breaks
<1> HIDE DEF f, s, w, n, buffer
<1>6. CASE Len(f) = n /\ IsMalformed(buffer)
  <2>1. IsMalformed(buffer \o x)
    BY <1>4, <1>6, MalformedStays
  <2>2. buffer \o x \in Seq(S)
    BY <1>4
  <2>3. Rest(buffer \o x) = buffer \o x
    BY <2>1 DEF Rest
  <2>4. s = <<>> /\ TakeFrames(buffer \o x).buffer = buffer \o x
    BY <2>2, <2>3, NothingTaken DEF s
  <2>5. Len(w) = n
    BY <1>3, <1>6, <2>4
  <2>6. QED
    BY <1>2, <1>3, <2>1, <2>4, <2>5 DEF Breaks, w, n
<1>7. CASE Len(f) > n /\ DecodeFrame(f[n + 1]) = {}
  <2>1. n \in Nat
    BY DEF n
  <2>2. n + 1 \in 1 .. Len(f) /\ Len(w) > n
    BY <1>3, <1>7, <2>1
  <2>3. DecodeFrame(w[n + 1]) = {}
    BY <1>3, <1>7, <2>2
  <2>4. QED
    BY <1>2, <2>2, <2>3 DEF Breaks, w, n
<1>8. QED
  BY <1>5, <1>6, <1>7

LEMMA AppendedOne ==
    ASSUME NEW s, IsSequence(s), NEW x
    PROVE  /\ Len(s) \in Nat /\ Len(s \o <<x>>) = Len(s) + 1
           /\ (s \o <<x>>)[Len(s) + 1] = x /\ IsSequence(s \o <<x>>)
           /\ \A i \in 1 .. Len(s) : (s \o <<x>>)[i] = s[i]
<1> DEFINE one == <<x>>
<1>1. one \in Seq({x}) /\ Len(one) = 1 /\ one[1] = x
  OBVIOUS
<1> HIDE DEF one
<1>2. IsSequence(one) /\ 1 \in 1 .. Len(one)
  BY <1>1 DEF IsSequence
<1>3. /\ Len(s) \in Nat /\ Len(s \o one) = Len(s) + Len(one) /\ IsSequence(s \o one)
      /\ \A i \in 1 .. Len(s) : (s \o one)[i] = s[i]
      /\ \A i \in 1 .. Len(one) : (s \o one)[Len(s) + i] = one[i]
  BY <1>2, ConcatIsSequence
<1>4. (s \o one)[Len(s) + 1] = x
  BY <1>1, <1>2, <1>3
<1>5. QED
  BY <1>1, <1>3, <1>4 DEF one

LEMMA OneMoreIsRead ==
    ASSUME NEW S, NEW a \in Seq(S), NEW x \in Seq(S), NEW messages, IsSequence(messages),
           IsRead(a, messages), NEW message, IsOneFrame(x, message)
    PROVE  IsRead(a \o x, messages \o <<message>>)
<1> DEFINE n == Len(messages)
           more == messages \o <<message>>
           f == TakeFrames(a).frames
           w == TakeFrames(a \o x).frames
           s == TakeFrames(x).frames
<1>1. GoesOn(a, x)
  BY StreamGoesOn
<1>2. /\ Len(f) = n /\ ~TakeFrames(a).error /\ TakeFrames(a).buffer = <<>>
      /\ \A i \in 1 .. n : DecodeFrame(f[i]) # {} /\ Meaning(f[i]) = messages[i]
  BY DEF IsRead, Heads
<1>3. TakeFrames(a).buffer \o x = x
  BY <1>2
<1>4. /\ Len(f) \in Nat /\ Len(s) \in Nat /\ Len(w) = Len(f) + Len(s)
      /\ \A i \in 1 .. Len(f) : w[i] = f[i]
      /\ \A i \in 1 .. Len(s) : w[Len(f) + i] = s[i]
      /\ TakeFrames(a \o x).buffer = TakeFrames(x).buffer
      /\ TakeFrames(a \o x).error = TakeFrames(x).error
  BY <1>1, <1>3 DEF GoesOn
<1>5. /\ ~TakeFrames(x).error /\ TakeFrames(x).buffer = <<>> /\ Len(s) = 1
      /\ {read.message : read \in DecodeFrame(s[1])} = {message}
  BY DEF IsOneFrame
<1>6. DecodeFrame(s[1]) # {} /\ Meaning(s[1]) = message
  <2> DEFINE D == DecodeFrame(s[1])
  <2>1. {read.message : read \in D} = {message}
    BY <1>5
  <2>2. Meaning(s[1]) = (CHOOSE read \in D : TRUE).message
    BY DEF Meaning
  <2> HIDE DEF D
  <2>3. D # {} /\ \A read \in D : read.message = message
    BY <2>1
  <2>4. QED
    BY <2>2, <2>3 DEF D
<1>7. /\ n \in Nat /\ Len(more) = n + 1 /\ more[n + 1] = message
      /\ \A i \in 1 .. n : more[i] = messages[i]
  BY AppendedOne
<1> HIDE DEF f, w, s, n, more
<1>8. Len(w) = n + 1
  BY <1>2, <1>4, <1>5
<1>9. ASSUME NEW i \in 1 .. n + 1
      PROVE  DecodeFrame(w[i]) # {} /\ Meaning(w[i]) = more[i]
  <2>1. CASE i \in 1 .. n
    <3>1. w[i] = f[i] /\ more[i] = messages[i]
      BY <1>2, <1>4, <1>7, <2>1
    <3>2. QED
      BY <1>2, <2>1, <3>1
  <2>2. CASE i = n + 1
    <3>1. 1 \in 1 .. Len(s)
      BY <1>5
    <3>2. w[n + 1] = s[1]
      BY <1>2, <1>4, <3>1
    <3>3. QED
      BY <1>6, <1>7, <2>2, <3>2
  <2>3. QED
    BY <1>7, <2>1, <2>2
<1>10. Heads(a \o x, more)
  <2>1. Len(more) = n + 1 /\ Len(more) <= Len(w)
    BY <1>7, <1>8
  <2>2. QED
    BY <1>9, <2>1 DEF Heads, w
<1>11. QED
  BY <1>4, <1>5, <1>7, <1>8, <1>10 DEF IsRead, w, more

LEMMA JunkBreaks ==
    ASSUME NEW S, NEW a \in Seq(S), NEW x \in Seq(S), NEW messages, IsSequence(messages),
           IsRead(a, messages), IsNoFrame(x)
    PROVE  Breaks(a \o x, messages)
<1> DEFINE n == Len(messages)
           f == TakeFrames(a).frames
           w == TakeFrames(a \o x).frames
           s == TakeFrames(x).frames
<1>1. GoesOn(a, x)
  BY StreamGoesOn
<1>2. Len(f) = n /\ TakeFrames(a).buffer = <<>> /\ Heads(a, messages)
  BY DEF IsRead
<1>3. TakeFrames(a).buffer \o x = x
  BY <1>2
<1>4. /\ Len(f) \in Nat /\ Len(s) \in Nat /\ Len(w) = Len(f) + Len(s)
      /\ \A i \in 1 .. Len(s) : w[Len(f) + i] = s[i]
      /\ TakeFrames(a \o x).buffer = TakeFrames(x).buffer
  BY <1>1, <1>3 DEF GoesOn
<1>5. n \in Nat
  BY <1>2, <1>4
<1>6. Heads(a \o x, messages)
  BY <1>1, <1>2, <1>5, HeadsStay
<1>7. CASE IsMalformed(x)
  <2>1. Rest(x) = x
    BY <1>7 DEF Rest
  <2>2. s = <<>> /\ TakeFrames(x).buffer = x
    BY <2>1, NothingTaken
  <2>3. Len(s) = 0
    BY <2>2
  <2> HIDE DEF f, w, s, n
  <2>4. Len(w) = n
    BY <1>2, <1>4, <1>5, <2>3
  <2>5. QED
    BY <1>4, <1>6, <1>7, <2>2, <2>4 DEF Breaks, w, n
<1>8. CASE ~IsMalformed(x)
  <2> DEFINE l == Leftovers(x)
  <2>1. IsWhole(x) /\ DecodeFrame(Part(x, 0, LengthOf(x))) = {}
    BY <1>8 DEF IsNoFrame
  <2>2. l \in Seq(Seq(S)) /\ l # <<>> /\ Complete(l, x)
    BY LeftoversComplete
  <2>3. /\ Len(s) = Len(l) - 1
        /\ \A k \in 1 .. Len(l) - 1 : s[k] = Part(l[k], 0, LengthOf(l[k]))
    BY TakeFramesTyped
  <2> HIDE DEF f, w, s, n, l
  <2>4. l[1] = x /\ Rest(l[Len(l)]) = l[Len(l)] /\ Len(l) \in Nat /\ Len(l) >= 1
    BY <2>2 DEF Complete, Chain
  <2>5. Rest(x) # x
    <3>1. HoldsFrame(x)
      BY <1>8, <2>1 DEF HoldsFrame
    <3>2. QED
      BY <3>1, RestShrinks
  <2>6. Len(l) # 1
    BY <2>4, <2>5
  <2>7. s[1] = Part(x, 0, LengthOf(x)) /\ Len(s) >= 1
    <3>1. 1 \in 1 .. Len(l) - 1
      <4> DEFINE k == Len(l)
      <4>1. k \in Nat /\ k >= 1 /\ k # 1
        BY <2>4, <2>6
      <4> HIDE DEF k
      <4>2. 1 \in 1 .. k - 1
        BY <4>1
      <4>3. QED
        BY <4>2 DEF k
    <3>2. QED
      BY <2>3, <2>4, <3>1
  <2>8. w[n + 1] = s[1] /\ Len(w) > n
    <3>1. 1 \in 1 .. Len(s)
      BY <1>4, <2>7
    <3>2. QED
      BY <1>2, <1>4, <1>5, <2>7, <3>1
  <2>9. QED
    BY <1>6, <2>1, <2>7, <2>8 DEF Breaks, w, n
<1>9. QED
  BY <1>7, <1>8

\* What is written of an item: nothing when a field refuses its value.
Chosen(texts) == IF texts = {} THEN <<>> ELSE CHOOSE b \in texts : TRUE
TextOf(item) == Chosen(Bytes(item))

LEMMA StreamOfTexts ==
    ASSUME NEW items
    PROVE  StreamOf(items) = Joined([i \in DOMAIN items |-> TextOf(items[i])])
<1> DEFINE bytes == [i \in DOMAIN items |-> Bytes(items[i])]
<1>1. StreamOf(items) = Joined([i \in DOMAIN bytes |-> Chosen(bytes[i])])
  BY DEF StreamOf, Written, Chosen
<1>2. DOMAIN bytes = DOMAIN items /\ \A i \in DOMAIN items : bytes[i] = Bytes(items[i])
  OBVIOUS
<1> HIDE DEF bytes
<1>3. [i \in DOMAIN bytes |-> Chosen(bytes[i])] = [i \in DOMAIN items |-> TextOf(items[i])]
  BY <1>2 DEF TextOf
<1>4. QED
  BY <1>1, <1>3

LEMMA ItemIsWritten ==
    ASSUME NEW item, IsItem(item)
    PROVE  /\ TextOf(item) \in Seq(0 .. 255)
           /\ IsJunk(item) => IsNoFrame(TextOf(item)) /\ Bytes(item) # {}
           /\ ~IsJunk(item) => /\ TextOf(item) \in Seq(0 .. 127)
                               /\ Bytes(item) = {} => TextOf(item) = <<>>
                               /\ Bytes(item) # {} => IsOneFrame(TextOf(item), Canonical(item))
<1> DEFINE S == 0 .. 127
           C == 0 .. 255
<1>1. \A t \in Seq(S) : t \in Seq(C)
  <2>1. S \subseteq C
    OBVIOUS
  <2> HIDE DEF S, C
  <2>2. QED
    BY <2>1, SeqMonotonic
<1> HIDE DEF S, C
<1>2. CASE IsJunk(item)
  <2>1. IsNoFrame(item.bytes)
    BY <1>2 DEF IsItem, IsJunk, IsForeign
  <2>2. Bytes(item) = {item.bytes}
    BY <1>2 DEF Bytes
  <2>3. TextOf(item) = item.bytes
    BY <2>2 DEF TextOf, Chosen
  <2>4. item.bytes \in Seq(C)
    BY <2>1 DEF IsNoFrame, C
  <2>5. QED
    BY <1>2, <2>1, <2>2, <2>3, <2>4 DEF C
<1>3. CASE ~IsJunk(item)
  <2>1. CASE Bytes(item) = {}
    <3>1. TextOf(item) = <<>>
      BY <2>1 DEF TextOf, Chosen
    <3>2. TextOf(item) \in Seq(S)
      BY <3>1
    <3>3. QED
      BY <1>1, <1>3, <2>1, <3>1, <3>2 DEF S, C
  <2>2. CASE Bytes(item) # {}
    <3>1. TextOf(item) \in Bytes(item)
      BY <2>2 DEF TextOf, Chosen
    <3>2. IsOneFrame(TextOf(item), Canonical(item))
      BY <1>3, <3>1, MessagesReadBack
    <3>3. TextOf(item) \in Seq(S)
      BY <3>2 DEF IsOneFrame, S
    <3>4. QED
      BY <1>1, <1>3, <2>2, <3>2, <3>3 DEF S, C
  <2>3. QED
    BY <2>1, <2>2
<1>4. QED
  BY <1>2, <1>3

\* The messages of a script are written one behind the other; every one that
\* could be written is read, in its order, up to the first that is no frame,
\* behind which nothing is read again.
ScriptIsRead(script) ==
    IF \E i \in DOMAIN script : IsJunk(script[i])
    THEN Breaks(StreamOf(script), ReadAs(script))
    ELSE IsRead(StreamOf(script), ReadAs(script)) /\ StreamOf(script) \in Seq(0 .. 127)

THEOREM ScriptsAreRead ==
    ASSUME NEW M, NEW script \in Seq(M), \A i \in DOMAIN script : IsItem(script[i])
    PROVE  ScriptIsRead(script) /\ IsSequence(ReadAs(script))
<1> DEFINE S == 0 .. 127
           C == 0 .. 255
           n == Len(script)
           texts == [i \in DOMAIN script |-> TextOf(script[i])]
           R == {Canonical(script[i]) : i \in DOMAIN script}
           words == [i \in DOMAIN script |->
                       IF BeforeJunk(script, i) /\ Bytes(script[i]) # {}
                       THEN <<Canonical(script[i])>> ELSE <<>>]
           B == Seq(C)
           W == Seq(R)
<1>1. n \in Nat /\ DOMAIN script = 1 .. n
  OBVIOUS
<1>2. StreamOf(script) = Joined(texts) /\ ReadAs(script) = Joined(words)
  BY StreamOfTexts DEF ReadAs
<1>3. \A i \in 1 .. n : IsItem(script[i])
  BY <1>1
<1>4. texts \in Seq(B) /\ Len(texts) = n /\ \A i \in 1 .. n : texts[i] = TextOf(script[i])
  <2>1. \A i \in 1 .. n : TextOf(script[i]) \in B
    BY <1>3, ItemIsWritten
  <2> HIDE DEF B
  <2>2. texts \in [1 .. n -> B] /\ \A i \in 1 .. n : texts[i] = TextOf(script[i])
    BY <1>1, <2>1
  <2> HIDE DEF texts
  <2>3. QED
    BY <1>1, <2>2, ListIsSequence
<1>5. /\ words \in Seq(W) /\ Len(words) = n
      /\ \A i \in 1 .. n : words[i] = IF BeforeJunk(script, i) /\ Bytes(script[i]) # {}
                                      THEN <<Canonical(script[i])>> ELSE <<>>
  <2>1. ASSUME NEW i \in DOMAIN script
        PROVE  <<Canonical(script[i])>> \in W /\ <<>> \in W
    <3>1. Canonical(script[i]) \in R
      OBVIOUS
    <3> HIDE DEF R
    <3>2. QED
      BY <3>1
  <2> HIDE DEF W
  <2>2. words \in [1 .. n -> W]
        /\ \A i \in 1 .. n : words[i] = IF BeforeJunk(script, i) /\ Bytes(script[i]) # {}
                                        THEN <<Canonical(script[i])>> ELSE <<>>
    BY <1>1, <2>1
  <2> HIDE DEF words
  <2>3. QED
    BY <1>1, <2>2, ListIsSequence
<1> HIDE DEF texts, words, R, B, W, n, C
<1>6. PICK p \in [0 .. n -> Seq(C)] : Fronts(texts, p, n) /\ Joined(texts) = p[n]
  <2>1. texts \in Seq(Seq(C))
    BY <1>4 DEF B
  <2>2. \E p \in [0 .. Len(texts) -> Seq(C)] :
           Fronts(texts, p, Len(texts)) /\ Joined(texts) = p[Len(texts)]
    BY <2>1, JoinedByPrefixes
  <2>3. QED
    BY <1>4, <2>2
<1>7. PICK q \in [0 .. n -> Seq(R)] : Fronts(words, q, n) /\ Joined(words) = q[n]
  <2>1. words \in Seq(Seq(R))
    BY <1>5 DEF W
  <2>2. \E q \in [0 .. Len(words) -> Seq(R)] :
           Fronts(words, q, Len(words)) /\ Joined(words) = q[Len(words)]
    BY <2>1, JoinedByPrefixes
  <2>3. QED
    BY <1>5, <2>2
<1> DEFINE T == {k \in 0 .. n : IF BeforeJunk(script, k) THEN IsRead(p[k], q[k])
                                ELSE Breaks(p[k], q[k])}
<1>8. 0 \in T
  <2>1. p[0] = <<>> /\ q[0] = <<>> /\ 0 \in 0 .. n
    BY <1>1, <1>6, <1>7 DEF Fronts
  <2>2. BeforeJunk(script, 0)
    <3>1. 1 .. 0 = {}
      OBVIOUS
    <3>2. QED
      BY <3>1 DEF BeforeJunk
  <2>3. Rest(<<>>) = <<>> /\ ~IsMalformed(<<>>)
    <3>1. Len(<<>>) = 0
      OBVIOUS
    <3>2. QED
      BY <3>1 DEF Rest, IsWhole, IsMalformed
  <2>4. <<>> \in Seq(C)
    OBVIOUS
  <2>5. /\ TakeFrames(<<>>).frames = <<>> /\ TakeFrames(<<>>).buffer = <<>>
        /\ TakeFrames(<<>>).error = IsMalformed(<<>>)
    BY <2>3, <2>4, NothingTaken
  <2>6. IsRead(<<>>, <<>>)
    <3>1. Len(<<>>) = 0 /\ 1 .. 0 = {}
      OBVIOUS
    <3>2. QED
      BY <2>3, <2>5, <3>1 DEF IsRead, Heads
  <2>7. QED
    BY <2>1, <2>2, <2>6
<1>9. ASSUME NEW k \in 0 .. n - 1, k \in T PROVE k + 1 \in T
  <2> DEFINE j == k + 1
             item == script[j]
             x == TextOf(item)
             a == p[k]
             m == q[k]
  <2>1. j \in 1 .. n /\ j \in 0 .. n /\ j - 1 = k /\ k \in 0 .. n
    BY <1>1
  <2>2. p[j] = a \o x /\ q[j] = m \o words[j]
    <3>1. p[j] = p[j - 1] \o texts[j] /\ q[j] = q[j - 1] \o words[j]
      BY <1>6, <1>7, <2>1 DEF Fronts
    <3>2. QED
      BY <1>4, <2>1, <3>1
  <2>3. a \in Seq(C) /\ m \in Seq(R) /\ IsSequence(m)
    BY <1>6, <1>7, <2>1 DEF IsSequence
  <2>4. IsItem(item)
    BY <1>3, <2>1
  <2>5. BeforeJunk(script, j) <=> BeforeJunk(script, k) /\ ~IsJunk(item)
    <3>1. 1 .. j = (1 .. k) \cup {j}
      BY <2>1
    <3>2. QED
      BY <3>1 DEF BeforeJunk
  <2>6. words[j] = IF BeforeJunk(script, j) /\ Bytes(item) # {}
                   THEN <<Canonical(item)>> ELSE <<>>
    BY <1>5, <2>1
  <2>7. IF BeforeJunk(script, k) THEN IsRead(a, m) ELSE Breaks(a, m)
    BY <1>9
  <2>8. x \in Seq(C)
    BY <2>4, ItemIsWritten DEF C
  <2> HIDE DEF T, a, m, x, item, j
  <2>9. m \o <<>> = m /\ a \o <<>> = a
    BY <2>3
  <2>10. CASE ~BeforeJunk(script, k)
    <3>1. Len(m) \in Nat
      BY <2>3
    <3>2. Breaks(a \o x, m)
      BY <2>3, <2>7, <2>8, <2>10, <3>1, BreaksForGood
    <3>3. q[j] = m /\ ~BeforeJunk(script, j)
      BY <2>2, <2>5, <2>6, <2>9, <2>10
    <3>4. QED
      BY <2>1, <2>2, <3>2, <3>3 DEF T, j
  <2>11. CASE BeforeJunk(script, k) /\ IsJunk(item)
    <3>1. IsNoFrame(x)
      BY <2>4, <2>11, ItemIsWritten DEF x
    <3>2. Breaks(a \o x, m)
      BY <2>3, <2>7, <2>8, <2>11, <3>1, JunkBreaks
    <3>3. q[j] = m /\ ~BeforeJunk(script, j)
      BY <2>2, <2>5, <2>6, <2>9, <2>11
    <3>4. QED
      BY <2>1, <2>2, <3>2, <3>3 DEF T, j
  <2>12. CASE BeforeJunk(script, k) /\ ~IsJunk(item) /\ Bytes(item) = {}
    <3>1. x = <<>>
      BY <2>4, <2>12, ItemIsWritten DEF x
    <3>2. q[j] = m /\ p[j] = a /\ BeforeJunk(script, j)
      BY <2>2, <2>5, <2>6, <2>9, <2>12, <3>1
    <3>3. QED
      BY <2>1, <2>7, <2>12, <3>2 DEF T, j
  <2>13. CASE BeforeJunk(script, k) /\ ~IsJunk(item) /\ Bytes(item) # {}
    <3>1. IsOneFrame(x, Canonical(item))
      BY <2>4, <2>13, ItemIsWritten DEF x
    <3>2. IsRead(a \o x, m \o <<Canonical(item)>>)
      BY <2>3, <2>7, <2>8, <2>13, <3>1, OneMoreIsRead
    <3>3. q[j] = m \o <<Canonical(item)>> /\ BeforeJunk(script, j)
      BY <2>2, <2>5, <2>6, <2>13
    <3>4. QED
      BY <2>1, <2>2, <3>2, <3>3 DEF T, j
  <2>14. QED
    BY <2>10, <2>11, <2>12, <2>13
<1> HIDE DEF T
<1>10. n \in T
  <2>1. \A k \in 0 .. n : k \in T
    BY <1>1, <1>8, <1>9, UpFromZero
  <2>2. n \in 0 .. n
    BY <1>1
  <2>3. QED
    BY <2>1, <2>2
<1>11. IF BeforeJunk(script, n) THEN IsRead(StreamOf(script), ReadAs(script))
       ELSE Breaks(StreamOf(script), ReadAs(script))
  BY <1>2, <1>6, <1>7, <1>10 DEF T
<1>12. BeforeJunk(script, n) <=> ~ \E i \in DOMAIN script : IsJunk(script[i])
  BY <1>1 DEF BeforeJunk
<1>13. IsSequence(ReadAs(script))
  <2>1. n \in 0 .. n
    BY <1>1
  <2>2. q[n] \in Seq(R)
    BY <1>7, <2>1
  <2>3. QED
    BY <1>2, <1>7, <2>2 DEF IsSequence
<1>14. ASSUME ~ \E i \in DOMAIN script : IsJunk(script[i])
       PROVE  StreamOf(script) \in Seq(S)
  <2> DEFINE A == Seq(S)
  <2>1. ASSUME NEW i \in 1 .. n PROVE TextOf(script[i]) \in A
    <3>1. IsItem(script[i]) /\ ~IsJunk(script[i])
      BY <1>1, <1>3, <1>14
    <3>2. QED
      BY <3>1, ItemIsWritten
  <2> HIDE DEF A
  <2>2. texts \in Seq(A)
    <3>1. texts \in [1 .. n -> A]
      BY <1>1, <2>1 DEF texts
    <3>2. QED
      BY <1>1, <3>1, ListIsSequence
  <2>3. texts \in Seq(Seq(S))
    BY <2>2 DEF A
  <2> HIDE DEF S
  <2>4. <<>> \in Seq(S)
    OBVIOUS
  <2>5. Joined(texts) \in Seq(S)
    BY <2>3, <2>4, JoinedAppends
  <2>6. QED
    BY <1>2, <2>5
<1>15. QED
  BY <1>11, <1>12, <1>13, <1>14 DEF ScriptIsRead

-----------------------------------------------------------------------------
(* What the session reads is what was written.                             *)

\* Both are known of every scenario.
Script == scenario.script
Whole == ReadAs(Script)

LEMMA ScriptOfScenario ==
    ASSUME scenario \in Scenarios
    PROVE  /\ ScriptIsRead(Script) /\ IsSequence(Whole)
           /\ stream = StreamOf(Script) /\ Expected[scenario] = Whole
<1>1. Script \in Seq(Range(Script)) /\ \A i \in DOMAIN Script : IsItem(Script[i])
  BY ScenariosAssumption DEF Script
<1>2. ScriptIsRead(Script) /\ IsSequence(Whole)
  BY <1>1, ScriptsAreRead DEF Whole
<1>3. stream = StreamOf(Script)
  BY DEF stream, Streams, Script
<1>4. Expected[scenario] = Whole
  BY DEF Expected, Script, Whole
<1>5. QED
  BY <1>2, <1>3, <1>4

\* A front of the stream, and what has not arrived.
LEMMA FrontOfStream ==
    ASSUME scenario \in Scenarios, NEW upTo \in Nat, upTo <= Len(stream)
    PROVE  LET front == SubSeq(stream, 1, upTo)
               rest == SubSeq(stream, upTo + 1, Len(stream))
           IN  front \in Seq(0 .. 255) /\ front \o rest = stream /\ GoesOn(front, rest)
<1> DEFINE B == 0 .. 255
           s == stream
           n == Len(stream)
           front == SubSeq(s, 1, upTo)
           rest == SubSeq(s, upTo + 1, n)
<1>1. s \in Seq(B) /\ n \in Nat /\ n = Len(s)
  BY ScenarioTyped
<1>2. upTo <= n
  OBVIOUS
<1> HIDE DEF B, s, n
<1>3. /\ front \in Seq(B) /\ rest \in Seq(B) /\ front \o rest = SubSeq(s, 1, n)
  <2>1. n <= Len(s)
    BY <1>1
  <2>2. QED
    BY <1>1, <1>2, <2>1, CutInTwo
<1>4. SubSeq(s, 1, n) = s
  BY <1>1
<1>5. GoesOn(front, rest)
  BY <1>3, StreamGoesOn
<1>6. QED
  BY <1>3, <1>4, <1>5 DEF B, s, n

\* The session read the first of the messages, and all of them of a stream of
\* frames that arrived.
LEMMA ReadInOrder ==
    ASSUME LinkInv
    PROVE  /\ IsPrefix(got, Whole)
           /\ ~HasJunk /\ session # "lost" /\ arrived = Len(stream) => got = Whole
<1> DEFINE front == SubSeq(stream, 1, arrived)
           rest == SubSeq(stream, arrived + 1, Len(stream))
           f == TakeFrames(front).frames
           w == TakeFrames(stream).frames
           e == Whole
<1>1. scenario \in Scenarios /\ arrived \in 0 .. Len(stream) /\ IsSequence(got)
  BY DEF LinkInv, LinkTyped
<1>2. Len(stream) \in Nat /\ stream \in Seq(0 .. 255)
  BY <1>1, ScenarioTyped
<1>3. front \o rest = stream /\ GoesOn(front, rest)
  <2>1. arrived \in Nat /\ arrived <= Len(stream)
    BY <1>1, <1>2
  <2>2. QED
    BY <1>1, <2>1, FrontOfStream
<1>4. /\ Len(got) <= Len(f)
      /\ \A i \in DOMAIN got : DecodeFrame(f[i]) # {} /\ got[i] = Meaning(f[i])
      /\ session # "lost" => Len(got) = Len(f)
  BY DEF LinkInv, ReadsTheFrames
<1>5. /\ Len(f) \in Nat /\ Len(w) \in Nat /\ Len(f) <= Len(w)
      /\ \A i \in 1 .. Len(f) : w[i] = f[i]
  <2> DEFINE s == TakeFrames(TakeFrames(front).buffer \o rest).frames
  <2>1. /\ Len(f) \in Nat /\ Len(s) \in Nat /\ Len(w) = Len(f) + Len(s)
        /\ \A i \in 1 .. Len(f) : w[i] = f[i]
    BY <1>3 DEF GoesOn
  <2> HIDE DEF s, f, w
  <2>2. QED
    BY <2>1
<1>6. /\ IsSequence(e) /\ Heads(stream, e)
      /\ ~HasJunk => Len(w) = Len(e)
      /\ Len(w) = Len(e) \/ (Len(w) > Len(e) /\ DecodeFrame(w[Len(e) + 1]) = {})
  <2>1. ScriptIsRead(Script) /\ IsSequence(Whole) /\ stream = StreamOf(Script)
    BY <1>1, ScriptOfScenario
  <2>2. IF HasJunk THEN Breaks(stream, e) ELSE IsRead(stream, e)
    BY <2>1 DEF ScriptIsRead, HasJunk, Script, Whole
  <2>3. QED
    BY <2>1, <2>2 DEF Breaks, IsRead
<1>7. /\ Len(e) <= Len(w)
      /\ \A i \in 1 .. Len(e) : e[i] = Meaning(w[i])
  BY <1>6 DEF Heads
<1> HIDE DEF e, w, f
<1>8. PICK S : got \in Seq(S)
  BY <1>1 DEF IsSequence
<1>9. PICK R : e \in Seq(R)
  BY <1>6 DEF IsSequence
<1> DEFINE g == Len(got)
           m == Len(e)
<1>10. g \in Nat /\ m \in Nat /\ DOMAIN got = 1 .. g
  BY <1>8, <1>9
<1>11. g <= m
  <2> SUFFICES ASSUME ~(g <= m) PROVE FALSE
    OBVIOUS
  <2> HIDE DEF g, m
  <2>1. m + 1 \in 1 .. g /\ m + 1 \in 1 .. Len(f) /\ Len(w) # m
    BY <1>4, <1>5, <1>10 DEF g
  <2>2. DecodeFrame(f[m + 1]) # {} /\ w[m + 1] = f[m + 1]
    BY <1>4, <1>5, <1>10, <2>1
  <2>3. QED
    BY <1>6, <2>1, <2>2 DEF m
<1>12. \A i \in 1 .. g : got[i] = e[i]
  <2> HIDE DEF g, m
  <2>1. ASSUME NEW i \in 1 .. g PROVE got[i] = e[i]
    <3>1. i \in 1 .. Len(f) /\ i \in 1 .. m
      BY <1>4, <1>5, <1>10, <1>11 DEF g
    <3>2. got[i] = Meaning(f[i]) /\ w[i] = f[i]
      BY <1>4, <1>5, <1>10, <3>1
    <3>3. e[i] = Meaning(w[i])
      BY <1>7, <3>1 DEF m
    <3>4. QED
      BY <3>2, <3>3
  <2>2. QED
    BY <2>1
<1>13. IsPrefix(got, e)
  <2>1. SubSeq(got, 1, g) \in Seq(S) /\ Len(SubSeq(got, 1, g)) = g
        /\ \A i \in 1 .. g : SubSeq(got, 1, g)[i] = got[i]
    BY <1>8, <1>10
  <2>2. SubSeq(e, 1, g) \in Seq(R) /\ Len(SubSeq(e, 1, g)) = g
        /\ \A i \in 1 .. g : SubSeq(e, 1, g)[i] = e[i]
    BY <1>9, <1>10, <1>11
  <2>3. SubSeq(got, 1, g) = SubSeq(e, 1, g)
    BY <1>12, <2>1, <2>2, SeqEqual
  <2>4. QED
    BY <1>11, <2>3 DEF IsPrefix
<1>14. ASSUME ~HasJunk, session # "lost", arrived = Len(stream)
       PROVE  got = e
  <2>1. front = stream
    BY <1>2, <1>14
  <2>2. f = w
    BY <2>1 DEF f, w
  <2>3. g = m
    BY <1>4, <1>6, <1>14, <2>2
  <2>4. QED
    BY <1>8, <1>9, <1>12, <2>3, SeqEqual
<1>15. QED
  BY <1>13, <1>14 DEF e

\* A read of the socket: what arrived, goes on with a chunk, and is again the
\* front of the stream.
Chunked(upTo, chunk, rest) ==
    /\ upTo <= Len(stream) /\ arrived' = upTo /\ arrived <= upTo
    /\ chunk = SubSeq(stream, arrived + 1, upTo)
    /\ SubSeq(stream, 1, arrived) \o chunk = SubSeq(stream, 1, upTo)
    /\ SubSeq(stream, 1, upTo) \o rest = stream
    /\ GoesOn(SubSeq(stream, 1, arrived), chunk) /\ GoesOn(SubSeq(stream, 1, upTo), rest)
    /\ session = "up" /\ UNCHANGED scenario
    /\ Reads(Step(framed, chunk))
    /\ incoming' = Observe("recv", incoming, chunk).buffer
    /\ Offers(Observe("recv", incoming, chunk).events)

LEMMA ChunkTaken ==
    ASSUME LinkInv, ChunkArrives
    PROVE  \E upTo \in Nat, chunk \in Seq(0 .. 255), rest \in Seq(0 .. 255) :
              Chunked(upTo, chunk, rest)
<1> DEFINE B == 0 .. 255
           s == stream
<1>1. /\ scenario \in Scenarios /\ arrived \in 0 .. Len(s) /\ s \in Seq(B) /\ Len(s) \in Nat
      /\ scenario.cuts \subseteq 0 .. Len(s)
  BY ScenarioTyped DEF LinkInv, LinkTyped
<1>2. PICK upTo \in scenario.cuts \cup {Len(stream)} :
        /\ session = "up" /\ arrived < upTo /\ arrived' = upTo
        /\ \E chunk \in {SubSeq(stream, arrived + 1, upTo)} :
              /\ \E observed \in {Observe("recv", incoming, chunk)} :
                    incoming' = observed.buffer /\ Offers(observed.events)
              /\ \E next \in {Step(framed, chunk)} : Reads(next)
        /\ UNCHANGED <<scenario, viewVars>>
  BY DEF ChunkArrives
<1> DEFINE chunk == SubSeq(stream, arrived + 1, upTo)
           rest == SubSeq(stream, upTo + 1, Len(stream))
<1>3. /\ incoming' = Observe("recv", incoming, chunk).buffer
      /\ Offers(Observe("recv", incoming, chunk).events)
      /\ Reads(Step(framed, chunk))
  BY <1>2
<1>4. upTo \in Nat /\ arrived \in Nat /\ arrived <= upTo /\ upTo <= Len(s)
  BY <1>1, <1>2
<1> HIDE DEF s, B
<1>5. /\ SubSeq(s, 1, arrived) \in Seq(B) /\ SubSeq(s, arrived + 1, upTo) \in Seq(B)
      /\ SubSeq(s, 1, arrived) \o SubSeq(s, arrived + 1, upTo) = SubSeq(s, 1, upTo)
  BY <1>1, <1>4, CutInTwo
<1>6. SubSeq(s, upTo + 1, Len(s)) \in Seq(B)
  <2>1. Len(s) <= Len(s)
    BY <1>1
  <2>2. QED
    BY <1>1, <1>4, <2>1, CutInTwo
<1>7. GoesOn(SubSeq(s, 1, arrived), SubSeq(s, arrived + 1, upTo))
  BY <1>5, StreamGoesOn
<1>8. SubSeq(s, 1, upTo) \o SubSeq(s, upTo + 1, Len(s)) = s
      /\ GoesOn(SubSeq(s, 1, upTo), SubSeq(s, upTo + 1, Len(s)))
  BY <1>1, <1>4, FrontOfStream DEF s
<1>9. Chunked(upTo, chunk, rest)
  <2>1. session = "up" /\ arrived' = upTo /\ UNCHANGED scenario
    BY <1>2
  <2> HIDE DEF chunk
  <2>2. QED
    BY <1>3, <1>4, <1>5, <1>7, <1>8, <2>1 DEF Chunked, s, chunk
<1>10. QED
  BY <1>4, <1>5, <1>6, <1>9 DEF s, B

\* A session that finds frames alone is not lost.
NotLost == ~HasJunk => session # "lost"

LEMMA ChunkDoesNotLose ==
    ASSUME LinkInv, ChunkArrives, ~HasJunk
    PROVE  session' # "lost"
<1> DEFINE B == 0 .. 255
<1>1. PICK upTo \in Nat, chunk \in Seq(B), rest \in Seq(B) : Chunked(upTo, chunk, rest)
  BY ChunkTaken
<1> DEFINE before == SubSeq(stream, 1, arrived)
           after == SubSeq(stream, 1, upTo)
           next == Step(framed, chunk)
           frames == IF next.error THEN <<>> ELSE next.frames
           decoded == DecodedUntil([i \in DOMAIN frames |-> DecodeFrame(frames[i])])
           f == TakeFrames(before).frames
           a == TakeFrames(after).frames
           w == TakeFrames(stream).frames
<1>2. session' = IF next.error \/ Len(decoded) < Len(frames) THEN "lost" ELSE session
  BY <1>1 DEF Chunked, Reads
<1>3. session = "up" /\ GoesOn(before, chunk) /\ GoesOn(after, rest)
      /\ before \o chunk = after /\ after \o rest = stream
  BY <1>1 DEF Chunked
<1>4. framed = TakeFrames(before).buffer
  BY <1>3 DEF LinkInv, ReadsTheFrames
<1>5. next = TakeFrames(TakeFrames(before).buffer \o chunk)
  BY <1>4 DEF Step
<1>6. /\ ~TakeFrames(stream).error
      /\ \A i \in 1 .. Len(w) : DecodeFrame(w[i]) # {}
  <2>1. ScriptIsRead(Script) /\ stream = StreamOf(Script)
    BY ScriptOfScenario DEF LinkInv, LinkTyped
  <2>2. IsRead(stream, Whole)
    BY <2>1 DEF ScriptIsRead, HasJunk, Script, Whole
  <2>3. QED
    BY <2>2 DEF IsRead, Heads
<1>7. ~next.error
  <2>1. TakeFrames(after).error => TakeFrames(after \o rest).error
    BY <1>3 DEF GoesOn
  <2>2. TakeFrames(before \o chunk).error = next.error
    BY <1>3, <1>5 DEF GoesOn
  <2> HIDE DEF next, before, after
  <2>3. QED
    BY <1>3, <1>6, <2>1, <2>2
<1>8. frames = next.frames
  BY <1>7
<1>9. /\ Len(f) \in Nat /\ Len(frames) \in Nat /\ Len(a) = Len(f) + Len(frames)
      /\ \A i \in 1 .. Len(frames) : a[Len(f) + i] = frames[i]
  <2> HIDE DEF frames, next, before, after
  <2>1. QED
    BY <1>3, <1>5, <1>8 DEF GoesOn
<1>10. Len(w) \in Nat /\ Len(a) <= Len(w) /\ \A i \in 1 .. Len(a) : w[i] = a[i]
  <2> DEFINE more == TakeFrames(TakeFrames(after).buffer \o rest).frames
             v == TakeFrames(after \o rest).frames
  <2>1. /\ Len(a) \in Nat /\ Len(more) \in Nat /\ Len(v) = Len(a) + Len(more)
        /\ \A i \in 1 .. Len(a) : v[i] = a[i]
    BY <1>3 DEF GoesOn
  <2>2. v = w
    BY <1>3
  <2> HIDE DEF a, w, more, v
  <2>3. QED
    BY <2>1, <2>2
<1>11. IsSequence(frames)
  <2>1. framed \o chunk \in Seq(B)
    <3>1. framed \in Seq(B)
      BY DEF LinkInv, LinkTyped
    <3> HIDE DEF B
    <3>2. QED
      BY <3>1
  <2>2. next.frames \in Seq(Seq(B))
    <3> HIDE DEF B
    <3>1. QED
      BY <2>1, TakeFramesTyped DEF Step
  <2> HIDE DEF frames, next
  <2>3. QED
    BY <1>8, <2>2 DEF IsSequence
<1> HIDE DEF frames, next, f, a, w, before, after
<1>12. /\ Len(decoded) \in 0 .. Len(frames)
       /\ Len(decoded) < Len(frames) => DecodeFrame(frames[Len(decoded) + 1]) = {}
  BY <1>11, DecodedInOrder
<1> DEFINE k == Len(decoded)
<1>13. ~ (k < Len(frames))
  <2> SUFFICES ASSUME k < Len(frames) PROVE FALSE
    OBVIOUS
  <2>1. DecodeFrame(frames[k + 1]) = {} /\ k \in 0 .. Len(frames)
    BY <1>12
  <2> HIDE DEF k
  <2>2. k + 1 \in 1 .. Len(frames)
    BY <1>9, <2>1
  <2>3. Len(f) + (k + 1) \in 1 .. Len(a) /\ Len(f) + (k + 1) \in 1 .. Len(w)
    BY <1>9, <1>10, <2>2
  <2>4. w[Len(f) + (k + 1)] = frames[k + 1]
    BY <1>9, <1>10, <2>2, <2>3
  <2>5. QED
    BY <1>6, <2>1, <2>3, <2>4 DEF w
<1>14. QED
  BY <1>2, <1>3, <1>7, <1>13

LEMMA NotLostStep ==
    ASSUME LinkInv, NotLost, [Next]_vars
    PROVE  NotLost'
<1>1. CASE ChunkArrives
  <2>1. HasJunk' = HasJunk
    BY <1>1 DEF ChunkArrives, HasJunk
  <2>2. QED
    BY <1>1, <2>1, ChunkDoesNotLose DEF NotLost
<1>2. CASE SaysGoodbye
  <2>1. session' = "closed"
    BY <1>2 DEF SaysGoodbye
  <2>2. QED
    BY <2>1 DEF NotLost
<1>3. CASE UNCHANGED linkVars
  BY <1>3 DEF NotLost, HasJunk, linkVars
<1>4. QED
  BY <1>1, <1>2, <1>3
  DEF Next, AcksResult, Exits, Writes, Stops, OtherWrites, Looks, LosesFeed, vars

LEMMA NotLostInit == Init => NotLost
BY DEF Init, NotLost

\* ReadsWhatWasWritten holds of every script of messages and junk, whatever is
\* in the fields of its messages and wherever the network cuts it.
THEOREM WrittenMessagesAreRead == Spec => []ReadsWhatWasWritten
<1>1. LinkInv /\ NotLost => ReadsWhatWasWritten
  <2> SUFFICES ASSUME LinkInv, NotLost PROVE ReadsWhatWasWritten
    OBVIOUS
  <2>1. Expected[scenario] = Whole
    BY ScriptOfScenario DEF LinkInv, LinkTyped
  <2>2. IsPrefix(got, Whole)
        /\ (~HasJunk /\ session # "lost" /\ arrived = Len(stream) => got = Whole)
    BY ReadInOrder
  <2>3. QED
    BY <2>1, <2>2 DEF ReadsWhatWasWritten, NotLost
<1>2. LinkInv /\ [Next]_vars => LinkInv'
  BY LinkStep
<1>3. LinkInv /\ NotLost /\ [Next]_vars => NotLost'
  BY NotLostStep
<1>4. QED
  BY <1>1, <1>2, <1>3, LinkInit, NotLostInit, PTL DEF Spec

-----------------------------------------------------------------------------
(* The trace tells the stream.                                             *)

\* Texts one behind the other, and what they make.
LEMMA JoinedOfTwo ==
    ASSUME NEW S, NEW x \in Seq(Seq(S)), NEW y \in Seq(Seq(S))
    PROVE  x \o y \in Seq(Seq(S)) /\ Joined(x \o y) = Joined(x) \o Joined(y)
<1> DEFINE B == Seq(S)
           n == Len(y)
           f == [k \in 0 .. n |-> SubSeq(y, 1, k)]
           T == {k \in 0 .. n : Joined(x \o f[k]) = Joined(x) \o Joined(f[k])}
<1>1. n \in Nat /\ x \in Seq(B) /\ y \in Seq(B) /\ \A k \in 1 .. n : y[k] \in B
  OBVIOUS
<1> HIDE DEF B
<1>2. \A k \in 0 .. n : SubSeq(y, 1, k) \in Seq(B)
  <2>1. ASSUME NEW k \in 0 .. n PROVE SubSeq(y, 1, k) \in Seq(B)
    <3>1. k \in Nat /\ 0 \in Nat /\ 0 <= k /\ k <= Len(y)
      BY <1>1
    <3>2. QED
      BY <1>1, <3>1, CutInTwo
  <2>2. QED
    BY <2>1
<1>3. \A k \in 1 .. n : SubSeq(y, 1, k) = Append(SubSeq(y, 1, k - 1), y[k])
  <2>1. ASSUME NEW k \in 1 .. n PROVE SubSeq(y, 1, k) = Append(SubSeq(y, 1, k - 1), y[k])
    <3>1. k - 1 \in Nat /\ k \in Nat /\ k - 1 <= k /\ k <= Len(y) /\ (k - 1) + 1 = k
          /\ k - 1 \in 0 .. n
      BY <1>1
    <3>2. SubSeq(y, 1, k - 1) \o SubSeq(y, (k - 1) + 1, k) = SubSeq(y, 1, k)
      BY <1>1, <3>1, CutInTwo
    <3>3. SubSeq(y, k, k) = <<y[k]>>
      BY <1>1, SubSeqOne
    <3>4. SubSeq(y, 1, k - 1) \in Seq(B) /\ y[k] \in B
      BY <1>1, <1>2, <3>1
    <3>5. SubSeq(y, 1, k - 1) \o <<y[k]>> = Append(SubSeq(y, 1, k - 1), y[k])
      BY <3>4, JoinedOne
    <3>6. QED
      BY <3>1, <3>2, <3>3, <3>5
  <2>2. QED
    BY <2>1
<1>4. /\ \A k \in 0 .. n : f[k] \in Seq(B)
      /\ \A k \in 1 .. n : f[k] = Append(f[k - 1], y[k])
      /\ f[0] = <<>> /\ f[n] = y
  <2>1. \A k \in 0 .. n : f[k] = SubSeq(y, 1, k)
    OBVIOUS
  <2>2. \A k \in 1 .. n : k \in 0 .. n /\ k - 1 \in 0 .. n
    BY <1>1
  <2>3. 0 \in 0 .. n /\ n \in 0 .. n /\ SubSeq(y, 1, 0) = <<>> /\ SubSeq(y, 1, n) = y
    BY <1>1
  <2> HIDE DEF f
  <2>4. QED
    BY <1>2, <1>3, <2>1, <2>2, <2>3
<1> HIDE DEF f, n
<1>5. Joined(x) \in Seq(S)
  BY JoinedAppends, <1>4 DEF B
<1>6. 0 \in T
  <2>1. 0 \in 0 .. n
    BY <1>1
  <2>2. x \o <<>> = x /\ Joined(x) \o <<>> = Joined(x)
    BY <1>5
  <2>3. Joined(<<>>) = <<>>
    BY DEF Joined
  <2>4. QED
    BY <1>4, <2>1, <2>2, <2>3
<1>7. ASSUME NEW k \in 0 .. n - 1, k \in T PROVE k + 1 \in T
  <2>1. k + 1 \in 1 .. n /\ k + 1 \in 0 .. n /\ (k + 1) - 1 = k /\ k \in 0 .. n
    BY <1>1
  <2> DEFINE a == f[k]
             t == y[k + 1]
  <2>2. f[k + 1] = Append(a, t) /\ a \in Seq(B) /\ t \in B
    BY <1>1, <1>4, <2>1
  <2>3. Joined(x \o a) = Joined(x) \o Joined(a)
    BY <1>7
  <2> HIDE DEF a, t
  <2>4. a \in Seq(Seq(S)) /\ t \in Seq(S)
    BY <2>2 DEF B
  <2>5. Joined(Append(a, t)) = Joined(a) \o t /\ Joined(a) \in Seq(S)
    BY <2>4, JoinedAppends
  <2>6. x \o a \in Seq(B) /\ x \o Append(a, t) = Append(x \o a, t)
    BY <1>1, <2>2, SMTT(30)
  <2>7. Joined(Append(x \o a, t)) = Joined(x \o a) \o t
    <3>1. x \o a \in Seq(Seq(S))
      BY <2>6 DEF B
    <3>2. QED
      BY <2>4, <3>1, JoinedAppends
  <2>8. (Joined(x) \o Joined(a)) \o t = Joined(x) \o (Joined(a) \o t)
    <3>1. Again(Joined(x), Joined(a), t)
      BY <1>5, <2>4, <2>5, JoinsAgain
    <3>2. QED
      BY <3>1 DEF Again
  <2>9. Joined(x \o f[k + 1]) = Joined(x) \o Joined(f[k + 1])
    BY <2>2, <2>3, <2>5, <2>6, <2>7, <2>8
  <2>10. QED
    BY <2>1, <2>9
<1> HIDE DEF T
<1>8. n \in T
  <2>1. \A k \in 0 .. n : k \in T
    BY <1>1, <1>6, <1>7, UpFromZero
  <2>2. n \in 0 .. n
    BY <1>1
  <2>3. QED
    BY <2>1, <2>2
<1>9. x \o y \in Seq(B)
  BY <1>1
<1>10. QED
  BY <1>4, <1>8, <1>9 DEF T, B

LEMMA JoinedOfOne ==
    ASSUME NEW S, NEW t \in Seq(S)
    PROVE  <<t>> \in Seq(Seq(S)) /\ Joined(<<t>>) = t
<1> DEFINE B == Seq(S)
<1>1. <<t>> \in Seq(B) /\ <<>> \in Seq(B) /\ Append(<<>>, t) = <<t>> /\ t \in B
  OBVIOUS
<1> HIDE DEF B
<1>2. <<>> \in Seq(Seq(S))
  BY <1>1 DEF B
<1>3. Joined(Append(<<>>, t)) = Joined(<<>>) \o t
  BY <1>2, JoinedAppends
<1>4. Joined(<<>>) = <<>>
  BY DEF Joined
<1>5. <<>> \o t = t
  OBVIOUS
<1>6. QED
  BY <1>1, <1>3, <1>4, <1>5 DEF B

LEMMA JoinedOfNone ==
    ASSUME NEW S, NEW n \in Nat, NEW x, x = [i \in 1 .. n |-> <<>>]
    PROVE  x \in Seq(Seq(S)) /\ Joined(x) = <<>>
<1> DEFINE B == Seq(S)
           p == [k \in 0 .. n |-> <<>>]
<1>1. <<>> \in B
  OBVIOUS
<1> HIDE DEF B
<1>2. x \in [1 .. n -> B] /\ \A k \in 1 .. n : x[k] = <<>>
  BY <1>1
<1>3. x \in Seq(B) /\ Len(x) = n
  BY <1>2, ListIsSequence
<1>4. p \in [0 .. n -> B] /\ \A k \in 0 .. n : p[k] = <<>>
  BY <1>1
<1> HIDE DEF p
<1>5. Fronts(x, p, n)
  <2>1. \A k \in 1 .. n : k \in 0 .. n /\ k - 1 \in 0 .. n
    OBVIOUS
  <2>2. <<>> \o <<>> = <<>> /\ 0 \in 0 .. n
    OBVIOUS
  <2>3. QED
    BY <1>2, <1>4, <2>1, <2>2 DEF Fronts
<1>6. Joined(x) = p[n]
  <2>1. x \in Seq(Seq(S)) /\ p \in [0 .. Len(x) -> Seq(S)] /\ Fronts(x, p, Len(x))
    BY <1>3, <1>4, <1>5 DEF B
  <2>2. Joined(x) = p[Len(x)]
    BY <2>1, JoinedIsPrefix
  <2>3. QED
    BY <1>3, <2>2
<1>7. n \in 0 .. n
  OBVIOUS
<1>8. QED
  BY <1>3, <1>4, <1>6, <1>7 DEF B

\* A frame with its terminator.
Ended(frame) == frame \o <<Terminator>>

LEMMA FrameGivesBack ==
    ASSUME NEW S, Terminator \in S, NEW b \in Seq(S), Rest(b) # b
    PROVE  /\ Part(b, 0, LengthOf(b)) \in Seq(S) /\ Rest(b) \in Seq(S)
           /\ Ended(Part(b, 0, LengthOf(b))) \in Seq(S)
           /\ Ended(Part(b, 0, LengthOf(b))) \o Rest(b) = b
<1> DEFINE l == LengthOf(b)
           n == Len(b)
           front == SubSeq(b, 1, l)
           rest == SubSeq(b, l + 2, n)
<1>1. HoldsFrame(b)
  BY RestShrinks
<1>2. Rest(b) = rest /\ Rest(b) \in Seq(S) /\ l \in Nat /\ l < n /\ n \in Nat
  BY <1>1, RestShrinks
<1>3. b[l + 1] = Terminator
  BY <1>1 DEF HoldsFrame, IsMalformed, IsWhole
<1> HIDE DEF l, n
<1>4. Part(b, 0, l) = front
  <2>1. l <= Len(b)
    BY <1>2 DEF n
  <2>2. QED
    BY <1>2, <2>1, PartOfFront
<1>5. /\ front \in Seq(S) /\ SubSeq(b, 1, l + 1) \in Seq(S)
      /\ front \o SubSeq(b, l + 1, l + 1) = SubSeq(b, 1, l + 1)
  <2>1. l \in Nat /\ l + 1 \in Nat /\ l <= l + 1 /\ l + 1 <= Len(b)
    BY <1>2 DEF n
  <2>2. QED
    BY <2>1, CutInTwo
<1>6. SubSeq(b, l + 1, l + 1) = <<Terminator>>
  <2>1. l + 1 \in 1 .. Len(b)
    BY <1>2 DEF n
  <2>2. SubSeq(b, l + 1, l + 1) = <<b[l + 1]>>
    BY <2>1, SubSeqOne
  <2>3. QED
    BY <1>3, <2>2
<1>7. SubSeq(b, 1, l + 1) \o SubSeq(b, (l + 1) + 1, n) = SubSeq(b, 1, n)
  <2>1. l + 1 \in Nat /\ n \in Nat /\ l + 1 <= n /\ n <= Len(b)
    BY <1>2 DEF n
  <2>2. QED
    BY <2>1, CutInTwo
<1>8. SubSeq(b, 1, n) = b
  BY DEF n
<1>9. (l + 1) + 1 = l + 2
  BY <1>2
<1>10. Ended(front) = SubSeq(b, 1, l + 1)
  BY <1>5, <1>6 DEF Ended
<1>11. Ended(front) \o rest = b
  BY <1>7, <1>8, <1>9, <1>10
<1>12. QED
  BY <1>2, <1>4, <1>5, <1>10, <1>11 DEF l

\* takeFrames: the frames, each with its terminator, and what is left over
\* are the bytes they were taken from.
LEMMA FramesGiveBack ==
    ASSUME NEW S, Terminator \in S, NEW b \in Seq(S),
           NEW x, x = [i \in DOMAIN TakeFrames(b).frames |-> Ended(TakeFrames(b).frames[i])]
    PROVE  /\ x \in Seq(Seq(S))
           /\ Joined(x) \o TakeFrames(b).buffer = b
<1> DEFINE c == Leftovers(b)
           f == TakeFrames(b).frames
           n == Len(c) - 1
           B == Seq(S)
<1>1. c \in Seq(B) /\ c # <<>> /\ Complete(c, b)
  BY LeftoversComplete
<1>2. /\ f \in Seq(B) /\ Len(f) = n /\ TakeFrames(b).buffer = c[Len(c)]
      /\ \A k \in 1 .. n : f[k] = Part(c[k], 0, LengthOf(c[k]))
  BY TakeFramesTyped
<1> HIDE DEF c, f
<1>3. /\ n \in Nat /\ Len(c) = n + 1 /\ c[1] = b
      /\ \A k \in 1 .. n : c[k + 1] = Rest(c[k]) /\ Rest(c[k]) # c[k]
  <2>1. Len(c) \in Nat /\ Len(c) >= 1
    <3> HIDE DEF B
    <3>1. QED
      BY <1>1
  <2>2. QED
    BY <1>1, <2>1 DEF Complete, Chain
<1>4. \A k \in 1 .. n + 1 : c[k] \in B
  <2> HIDE DEF B
  <2>1. QED
    BY <1>1, <1>3
<1> HIDE DEF n
<1>5. \A k \in 1 .. n : /\ Ended(f[k]) \in B
                        /\ Ended(f[k]) \o c[k + 1] = c[k]
  <2>1. ASSUME NEW k \in 1 .. n
        PROVE  Ended(f[k]) \in B /\ Ended(f[k]) \o c[k + 1] = c[k]
    <3>1. k \in 1 .. n + 1
      BY <1>3
    <3>2. c[k] \in Seq(S) /\ Rest(c[k]) # c[k] /\ c[k + 1] = Rest(c[k])
      BY <1>3, <1>4, <3>1
    <3>3. f[k] = Part(c[k], 0, LengthOf(c[k]))
      BY <1>2
    <3>4. QED
      BY <3>2, <3>3, FrameGivesBack
  <2>2. QED
    BY <2>1
<1>6. x \in Seq(B) /\ Len(x) = n /\ \A k \in 1 .. n : x[k] = Ended(f[k])
  <2>1. DOMAIN f = 1 .. n
    <3> HIDE DEF B
    <3>1. QED
      BY <1>2, <1>3
  <2>2. x = [k \in 1 .. n |-> Ended(f[k])]
    BY <2>1 DEF f
  <2> HIDE DEF B
  <2>3. x \in [1 .. n -> B] /\ \A k \in 1 .. n : x[k] = Ended(f[k])
    BY <1>5, <2>2
  <2>4. QED
    BY <1>3, <2>3, ListIsSequence
<1>7. PICK p \in [0 .. n -> Seq(S)] : Fronts(x, p, n) /\ Joined(x) = p[n]
  <2>1. \E p \in [0 .. Len(x) -> Seq(S)] : Fronts(x, p, Len(x)) /\ Joined(x) = p[Len(x)]
    BY <1>6, JoinedByPrefixes
  <2>2. QED
    BY <1>6, <2>1
<1> DEFINE T == {k \in 0 .. n : p[k] \o c[k + 1] = b}
<1>8. 0 \in T
  <2>1. p[0] = <<>> /\ 0 \in 0 .. n /\ 0 + 1 = 1
    BY <1>3, <1>7 DEF Fronts
  <2>2. <<>> \o b = b
    OBVIOUS
  <2>3. QED
    BY <1>3, <2>1, <2>2
<1>9. ASSUME NEW k \in 0 .. n - 1, k \in T PROVE k + 1 \in T
  <2> DEFINE j == k + 1
  <2>1. j \in 1 .. n /\ j \in 0 .. n /\ j - 1 = k /\ k \in 0 .. n
        /\ j + 1 \in 1 .. n + 1
    BY <1>3
  <2>2. p[k] \o c[j] = b
    BY <1>9
  <2> HIDE DEF j
  <2>3. p[j] = p[k] \o Ended(f[j])
    BY <1>6, <1>7, <2>1 DEF Fronts
  <2>4. Ended(f[j]) \in Seq(S) /\ c[j + 1] \in Seq(S) /\ p[k] \in Seq(S)
    BY <1>4, <1>5, <1>7, <2>1
  <2>5. Again(p[k], Ended(f[j]), c[j + 1])
    BY <2>4, JoinsAgain
  <2>6. p[j] \o c[j + 1] = b
    BY <1>5, <2>1, <2>2, <2>3, <2>5 DEF Again
  <2>7. QED
    BY <2>1, <2>6 DEF j
<1> HIDE DEF T
<1>10. n \in T
  <2>1. \A k \in 0 .. n : k \in T
    BY <1>3, <1>8, <1>9, UpFromZero
  <2>2. n \in 0 .. n
    BY <1>3
  <2>3. QED
    BY <2>1, <2>2
<1>11. QED
  BY <1>2, <1>3, <1>6, <1>7, <1>10 DEF T

\* What the events of a direction tell, one by one.
Telling(events, direction, kind) ==
    [i \in DOMAIN events |->
        IF events[i].direction = direction /\ events[i].kind = kind
        THEN UnescapeWire(events[i].raw) ELSE <<>>]

\* observe: a chunk, then the frames, unless they were given up.
Observes(direction, bytes, frames, events) ==
    /\ IsSequence(events) /\ DOMAIN events = 1 .. 1 + Len(frames)
    /\ events[1] = ChunkEvent(direction, bytes)
    /\ \A i \in 1 .. Len(frames) : events[1 + i] = FrameEvent(direction, frames[i])

LEMMA ObserveTells ==
    ASSUME NEW S, NEW buffer \in Seq(S), NEW bytes \in Seq(S), NEW direction
    PROVE  LET step == Step(buffer, bytes)
               frames == IF step.error THEN <<>> ELSE step.frames
           IN  /\ frames \in Seq(Seq(S))
               /\ Observes(direction, bytes, frames, Observe(direction, buffer, bytes).events)
               /\ ~step.error => Observe(direction, buffer, bytes).buffer = step.buffer
<1> DEFINE n == Step(buffer, bytes)
           next == IF n.error THEN [buffer |-> <<>>, frames |-> <<>>] ELSE n
           frames == IF n.error THEN <<>> ELSE n.frames
           g == [i \in DOMAIN frames |-> FrameEvent(direction, frames[i])]
           first == <<ChunkEvent(direction, bytes)>>
<1>1. n.frames \in Seq(Seq(S))
  <2>1. buffer \o bytes \in Seq(S)
    OBVIOUS
  <2>2. QED
    BY <2>1, TakeFramesTyped DEF Step
<1>2. Observe(direction, buffer, bytes) = Tells(direction, bytes, next)
  BY DEF Observe
<1> HIDE DEF n
<1>3. frames \in Seq(Seq(S)) /\ next.frames = frames /\ (~n.error => next.buffer = n.buffer)
  BY <1>1
<1> HIDE DEF next, frames
<1>4. Observe(direction, buffer, bytes) = [events |-> first \o g, buffer |-> next.buffer]
  BY <1>2, <1>3 DEF Tells
<1> DEFINE l == Len(frames)
<1>5. l \in Nat /\ DOMAIN frames = 1 .. l
  <2> DEFINE B == Seq(S)
  <2>1. frames \in Seq(B)
    BY <1>3
  <2> HIDE DEF B
  <2>2. QED
    BY <2>1
<1>6. IsSequence(first) /\ Len(first) = 1 /\ first[1] = ChunkEvent(direction, bytes)
  <2> DEFINE e == ChunkEvent(direction, bytes)
  <2> HIDE DEF e
  <2>1. <<e>> \in Seq({e}) /\ Len(<<e>>) = 1 /\ <<e>>[1] = e
    OBVIOUS
  <2>2. QED
    BY <2>1 DEF IsSequence, e
<1> HIDE DEF l
<1>7. IsSequence(g) /\ Len(g) = l /\ \A i \in 1 .. l : g[i] = FrameEvent(direction, frames[i])
  <2>1. g \in [1 .. l -> Range(g)] /\ \A i \in 1 .. l : g[i] = FrameEvent(direction, frames[i])
    BY <1>5 DEF Range
  <2> HIDE DEF g
  <2>2. g \in Seq(Range(g)) /\ Len(g) = l
    BY <1>5, <2>1, ListIsSequence
  <2>3. QED
    BY <2>1, <2>2 DEF IsSequence
<1> DEFINE events == first \o g
<1> HIDE DEF first, g
<1>8. /\ IsSequence(events) /\ DOMAIN events = 1 .. Len(first) + Len(g)
      /\ \A i \in 1 .. Len(first) : events[i] = first[i]
      /\ \A i \in 1 .. Len(g) : events[Len(first) + i] = g[i]
  <2>1. IsSequence(first) /\ IsSequence(g)
    BY <1>6, <1>7
  <2>2. /\ IsSequence(first \o g) /\ Len(first \o g) = Len(first) + Len(g)
        /\ \A i \in 1 .. Len(first) : (first \o g)[i] = first[i]
        /\ \A i \in 1 .. Len(g) : (first \o g)[Len(first) + i] = g[i]
    BY <2>1, ConcatIsSequence
  <2>3. DOMAIN (first \o g) = 1 .. Len(first \o g)
    BY <2>2 DEF IsSequence
  <2>4. QED
    BY <2>2, <2>3
<1>9. Observe(direction, buffer, bytes).events = events
      /\ Observe(direction, buffer, bytes).buffer = next.buffer
  BY <1>4
<1> HIDE DEF events
<1>10. /\ DOMAIN events = 1 .. 1 + l /\ events[1] = ChunkEvent(direction, bytes)
       /\ \A i \in 1 .. l : events[1 + i] = FrameEvent(direction, frames[i])
  <2>1. 1 \in 1 .. Len(first)
    BY <1>6
  <2>2. events[1] = first[1]
    BY <1>8, <2>1
  <2>3. \A i \in 1 .. l : events[1 + i] = g[i]
    BY <1>6, <1>7, <1>8
  <2>4. QED
    BY <1>6, <1>7, <1>8, <2>2, <2>3
<1>11. Observes(direction, bytes, frames, Observe(direction, buffer, bytes).events)
  BY <1>8, <1>9, <1>10 DEF Observes, l
<1>12. QED
  BY <1>3, <1>9, <1>11 DEF frames, n

\* One text in front of others.
IsInFront(a, r, t) ==
    /\ DOMAIN t = 1 .. 1 + Len(r) /\ t = [i \in DOMAIN t |-> t[i]]
    /\ t[1] = a /\ \A i \in 1 .. Len(r) : t[1 + i] = r[i]

LEMMA OneInFront ==
    ASSUME NEW S, NEW a \in Seq(S), NEW r \in Seq(Seq(S)), NEW t, IsInFront(a, r, t)
    PROVE  t \in Seq(Seq(S)) /\ Joined(t) = a \o Joined(r)
<1>0. /\ DOMAIN t = 1 .. 1 + Len(r) /\ t = [i \in DOMAIN t |-> t[i]]
      /\ t[1] = a /\ \A i \in 1 .. Len(r) : t[1 + i] = r[i]
  BY DEF IsInFront
<1> DEFINE B == Seq(S)
           one == <<a>>
           n == Len(r)
<1>1. n \in Nat /\ r \in Seq(B) /\ a \in B /\ \A i \in 1 .. n : r[i] \in B
  OBVIOUS
<1> HIDE DEF B
<1>2. one \in Seq(B) /\ Len(one) = 1 /\ one[1] = a
  BY <1>1
<1> HIDE DEF one, n
<1>3. \A i \in 1 .. 1 + n : i = 1 \/ (i - 1 \in 1 .. n /\ i = 1 + (i - 1))
  BY <1>1
<1>4. \A i \in 1 .. 1 + n : t[i] \in B
  <2>1. ASSUME NEW i \in 1 .. 1 + n PROVE t[i] \in B
    <3>1. CASE i = 1
      BY <1>0, <1>1, <3>1
    <3>2. CASE i # 1
      <4> DEFINE j == i - 1
      <4>1. j \in 1 .. n /\ i = 1 + j
        BY <1>3, <3>2
      <4> HIDE DEF j
      <4>2. QED
        BY <1>0, <1>1, <4>1 DEF n
    <3>3. QED
      BY <3>1, <3>2
  <2>2. QED
    BY <2>1
<1>5. t \in Seq(B) /\ Len(t) = 1 + n
  <2>1. t \in [1 .. 1 + n -> B]
    BY <1>0, <1>4 DEF n
  <2>2. 1 + n \in Nat
    BY <1>1
  <2>3. QED
    BY <2>1, <2>2, ListIsSequence
<1> DEFINE u == one \o r
<1>6. /\ u \in Seq(B) /\ Len(u) = 1 + n
      /\ u[1] = a /\ \A i \in 1 .. n : u[1 + i] = r[i]
  <2>1. JoinOf(B, u, one, r)
    BY <1>1, <1>2, JoinedAt
  <2> HIDE DEF u
  <2>2. 1 \in 1 .. Len(one)
    BY <1>2
  <2>3. QED
    BY <1>2, <2>1, <2>2 DEF JoinOf, n
<1> HIDE DEF u
<1>7. \A i \in 1 .. 1 + n : t[i] = u[i]
  <2>1. ASSUME NEW i \in 1 .. 1 + n PROVE t[i] = u[i]
    <3>1. CASE i = 1
      BY <1>0, <1>6, <3>1
    <3>2. CASE i # 1
      <4> DEFINE j == i - 1
      <4>1. j \in 1 .. n /\ i = 1 + j
        BY <1>3, <3>2
      <4> HIDE DEF j
      <4>2. QED
        BY <1>0, <1>6, <4>1 DEF n
    <3>3. QED
      BY <3>1, <3>2
  <2>2. QED
    BY <2>1
<1>8. t = u
  BY <1>5, <1>6, <1>7, SeqEqual
<1>9. Joined(one \o r) = Joined(one) \o Joined(r)
  <2>1. one \in Seq(Seq(S)) /\ r \in Seq(Seq(S))
    BY <1>1, <1>2 DEF B
  <2>2. QED
    BY <2>1, JoinedOfTwo
<1>10. Joined(one) = a
  BY JoinedOfOne DEF one
<1>11. QED
  BY <1>5, <1>8, <1>9, <1>10 DEF u, B

\* A direction is told nothing by what the other one carries.
LEMMA OthersTellNothing ==
    ASSUME NEW S, NEW direction, NEW other, other # direction, NEW kind,
           NEW bytes, NEW frames, Len(frames) \in Nat,
           NEW events, Observes(direction, bytes, frames, events)
    PROVE  /\ Telling(events, other, kind) \in Seq(Seq(S))
           /\ Joined(Telling(events, other, kind)) = <<>>
<1> DEFINE l == Len(frames)
           n == 1 + l
           x == Telling(events, other, kind)
<1>1. n \in Nat /\ l \in Nat /\ DOMAIN events = 1 .. n
  BY DEF Observes
<1>2. /\ events[1] = ChunkEvent(direction, bytes)
      /\ \A i \in 1 .. l : events[1 + i] = FrameEvent(direction, frames[i])
  BY DEF Observes
<1> HIDE DEF l
<1>3. \A i \in 1 .. n : events[i].direction = direction
  <2>1. ASSUME NEW i \in 1 .. n PROVE events[i].direction = direction
    <3>1. CASE i = 1
      BY <1>2, <3>1 DEF ChunkEvent
    <3>2. CASE i # 1
      <4> DEFINE j == i - 1
      <4>1. j \in 1 .. l /\ i = 1 + j
        BY <1>1, <3>2
      <4> HIDE DEF j
      <4>2. events[i] = FrameEvent(direction, frames[j])
        BY <1>2, <4>1
      <4>3. QED
        BY <4>2 DEF FrameEvent
    <3>3. QED
      BY <3>1, <3>2
  <2>2. QED
    BY <2>1
<1> HIDE DEF n
<1>4. x = [i \in 1 .. n |-> <<>>]
  BY <1>1, <1>3 DEF Telling
<1> HIDE DEF x
<1>5. x \in Seq(Seq(S)) /\ Joined(x) = <<>>
  BY <1>1, <1>4, JoinedOfNone
<1>6. QED
  BY <1>5 DEF x

\* The chunk of an operation tells its bytes.
LEMMA ChunkTold ==
    ASSUME NEW direction, NEW bytes \in Seq(0 .. 255), NEW frames, Len(frames) \in Nat,
           NEW events, Observes(direction, bytes, frames, events)
    PROVE  /\ Telling(events, direction, "chunk") \in Seq(Seq(0 .. 255))
           /\ Joined(Telling(events, direction, "chunk")) = bytes
<1> DEFINE C == 0 .. 255
           l == Len(frames)
           x == Telling(events, direction, "chunk")
           r == [i \in 1 .. l |-> <<>>]
<1>1. l \in Nat /\ DOMAIN events = 1 .. 1 + l
  BY DEF Observes
<1>2. /\ events[1] = ChunkEvent(direction, bytes)
      /\ \A i \in 1 .. l : events[1 + i] = FrameEvent(direction, frames[i])
  BY DEF Observes
<1> HIDE DEF l
<1>3. UnescapeWire(events[1].raw) = bytes
  <2>1. events[1].raw = EscapeWire(bytes)
    BY <1>2 DEF ChunkEvent
  <2>2. QED
    BY <2>1, EscapesAreUndone
<1>4. x = [i \in 1 .. 1 + l |->
             IF events[i].direction = direction /\ events[i].kind = "chunk"
             THEN UnescapeWire(events[i].raw) ELSE <<>>]
  BY <1>1 DEF Telling
<1>5. x[1] = bytes
  <2>1. 1 \in 1 .. 1 + l
    BY <1>1
  <2>2. events[1].direction = direction /\ events[1].kind = "chunk"
    <3>1. ChunkEvent(direction, bytes).direction = direction
          /\ ChunkEvent(direction, bytes).kind = "chunk"
      BY DEF ChunkEvent
    <3>2. QED
      BY <1>2, <3>1
  <2>3. QED
    BY <1>3, <1>4, <2>1, <2>2
<1>6. \A i \in 1 .. l : x[1 + i] = <<>>
  <2>1. \A i \in 1 .. l : 1 + i \in 1 .. 1 + l
    BY <1>1
  <2>2. \A i \in 1 .. l : events[1 + i].kind # "chunk"
    <3>1. \A i \in 1 .. l : FrameEvent(direction, frames[i]).kind # "chunk"
      BY DEF FrameEvent
    <3>2. QED
      BY <1>2, <3>1
  <2>3. QED
    BY <1>4, <2>1, <2>2
<1>7. r \in Seq(Seq(C)) /\ Joined(r) = <<>>
  <2> HIDE DEF C
  <2>1. QED
    BY <1>1, JoinedOfNone
<1>8. Len(r) = l /\ \A i \in 1 .. l : r[i] = <<>>
  <2>1. r \in [1 .. l -> {<<>>}] /\ \A i \in 1 .. l : r[i] = <<>>
    OBVIOUS
  <2> HIDE DEF r
  <2>2. QED
    BY <1>1, <2>1, ListIsSequence
<1>9. DOMAIN x = 1 .. 1 + l /\ x = [i \in DOMAIN x |-> x[i]]
  BY <1>4
<1> HIDE DEF x, r, C
<1>10. x \in Seq(Seq(C)) /\ Joined(x) = bytes \o Joined(r)
  <2>1. bytes \in Seq(C)
    BY DEF C
  <2>2. \A i \in 1 .. Len(r) : x[1 + i] = r[i]
    BY <1>6, <1>8
  <2>3. DOMAIN x = 1 .. 1 + Len(r)
    BY <1>8, <1>9
  <2>4. IsInFront(bytes, r, x)
    BY <1>5, <1>9, <2>2, <2>3 DEF IsInFront
  <2>5. QED
    BY <1>7, <2>1, <2>4, OneInFront, SMTT(30)
<1>11. bytes \o <<>> = bytes
  OBVIOUS
<1>12. QED
  BY <1>7, <1>10, <1>11 DEF x, C

\* A frame of characters is told with its terminator.
LEMMA FrameTold ==
    ASSUME NEW frame \in Seq(0 .. 127), NEW direction
    PROVE  /\ UnescapeWire(FrameEvent(direction, frame).raw) = Ended(frame)
           /\ Ended(frame) \in Seq(0 .. 127) /\ Ended(frame) \in Seq(0 .. 255)
<1> DEFINE S == 0 .. 127
           C == 0 .. 255
<1>1. S \subseteq C /\ Terminator \in S
  BY DEF Terminator
<1> HIDE DEF S, C
<1>2. Ended(frame) \in Seq(S)
  BY <1>1 DEF Ended, S
<1>3. Ended(frame) \in Seq(C)
  BY <1>1, <1>2, SeqMonotonic
<1>4. Utf8(Ended(frame)) = Ended(frame)
  BY <1>2, PlainText DEF S
<1>5. FrameEvent(direction, frame).raw = EscapeWire(Utf8(Ended(frame)))
  BY DEF FrameEvent, Ended
<1>6. QED
  BY <1>2, <1>3, <1>4, <1>5, EscapesAreUndone DEF S, C

\* The frames of an operation are told with their terminators.
LEMMA FramesTold ==
    ASSUME NEW direction, NEW bytes, NEW frames \in Seq(Seq(0 .. 127)),
           NEW events, Observes(direction, bytes, frames, events)
    PROVE  LET ends == [i \in DOMAIN frames |-> Ended(frames[i])]
           IN  /\ Telling(events, direction, "frame") \in Seq(Seq(0 .. 255))
               /\ Joined(Telling(events, direction, "frame")) = Joined(ends)
<1> DEFINE S == 0 .. 127
           B == Seq(S)
           C == 0 .. 255
           l == Len(frames)
           x == Telling(events, direction, "frame")
           r == [i \in DOMAIN frames |-> Ended(frames[i])]
<1>1. l \in Nat /\ DOMAIN frames = 1 .. l /\ \A i \in 1 .. l : frames[i] \in B
  <2>1. frames \in Seq(B)
    OBVIOUS
  <2> HIDE DEF B
  <2>2. QED
    BY <2>1
<1>2. /\ DOMAIN events = 1 .. 1 + l /\ events[1] = ChunkEvent(direction, bytes)
      /\ \A i \in 1 .. l : events[1 + i] = FrameEvent(direction, frames[i])
  BY DEF Observes
<1>3. \A i \in 1 .. l : /\ UnescapeWire(FrameEvent(direction, frames[i]).raw) = Ended(frames[i])
                        /\ Ended(frames[i]) \in Seq(C)
  BY <1>1, FrameTold
<1> HIDE DEF l, B, S
<1>4. r \in Seq(Seq(C)) /\ Len(r) = l /\ \A i \in 1 .. l : r[i] = Ended(frames[i])
  <2> DEFINE D == Seq(C)
  <2>1. r = [i \in 1 .. l |-> Ended(frames[i])] /\ \A i \in 1 .. l : Ended(frames[i]) \in D
    BY <1>1, <1>3
  <2> HIDE DEF D
  <2>2. r \in [1 .. l -> D] /\ \A i \in 1 .. l : r[i] = Ended(frames[i])
    BY <2>1
  <2> HIDE DEF r
  <2>3. r \in Seq(D) /\ Len(r) = l
    BY <1>1, <2>2, ListIsSequence
  <2>4. QED
    BY <2>2, <2>3 DEF D
<1>5. x = [i \in 1 .. 1 + l |->
             IF events[i].direction = direction /\ events[i].kind = "frame"
             THEN UnescapeWire(events[i].raw) ELSE <<>>]
  BY <1>2 DEF Telling
<1>6. x[1] = <<>>
  <2>1. 1 \in 1 .. 1 + l
    BY <1>1
  <2>2. events[1].kind = "chunk"
    BY <1>2 DEF ChunkEvent
  <2>3. QED
    BY <1>5, <2>1, <2>2
<1>7. \A i \in 1 .. l : x[1 + i] = r[i]
  <2>1. ASSUME NEW i \in 1 .. l PROVE x[1 + i] = r[i]
    <3>1. 1 + i \in 1 .. 1 + l
      BY <1>1
    <3>2. events[1 + i] = FrameEvent(direction, frames[i])
      BY <1>2
    <3>3. events[1 + i].direction = direction /\ events[1 + i].kind = "frame"
      BY <3>2 DEF FrameEvent
    <3>4. x[1 + i] = UnescapeWire(events[1 + i].raw)
      BY <1>5, <3>1, <3>3
    <3>5. QED
      BY <1>3, <1>4, <3>2, <3>4
  <2>2. QED
    BY <2>1
<1>8. DOMAIN x = 1 .. 1 + l /\ x = [i \in DOMAIN x |-> x[i]]
  BY <1>5
<1> HIDE DEF x, r
<1>9. x \in Seq(Seq(C)) /\ Joined(x) = <<>> \o Joined(r)
  <2> HIDE DEF C
  <2> DEFINE none == <<>>
  <2>1. none \in Seq(C)
    OBVIOUS
  <2>2. \A i \in 1 .. Len(r) : x[1 + i] = r[i]
    BY <1>4, <1>7
  <2>3. DOMAIN x = 1 .. 1 + Len(r)
    BY <1>4, <1>8
  <2>4. IsInFront(none, r, x)
    BY <1>6, <1>8, <2>2, <2>3 DEF IsInFront
  <2>5. r \in Seq(Seq(C))
    BY <1>4
  <2> HIDE DEF none
  <2>6. x \in Seq(Seq(C)) /\ Joined(x) = none \o Joined(r)
    BY <2>1, <2>4, <2>5, OneInFront
  <2>7. QED
    BY <2>6 DEF none
<1>10. Joined(r) \in Seq(C)
  <2>1. <<>> \in Seq(C)
    OBVIOUS
  <2>2. QED
    BY <1>4, <2>1, JoinedAppends
<1> HIDE DEF C
<1>11. <<>> \o Joined(r) = Joined(r)
  BY <1>10
<1>12. QED
  BY <1>9, <1>11 DEF x, r, C

\* What is traced one after the other is told one after the other.
LEMMA TellingAppends ==
    ASSUME NEW S, NEW s, NEW t, IsSequence(s), IsSequence(t), NEW direction, NEW kind,
           Telling(s, direction, kind) \in Seq(Seq(S)), Telling(t, direction, kind) \in Seq(Seq(S))
    PROVE  /\ Telling(s \o t, direction, kind) \in Seq(Seq(S))
           /\ Joined(Telling(s \o t, direction, kind))
                = Joined(Telling(s, direction, kind)) \o Joined(Telling(t, direction, kind))
<1> DEFINE B == Seq(S)
           u == s \o t
           x == Telling(s, direction, kind)
           y == Telling(t, direction, kind)
           z == Telling(u, direction, kind)
           a == Len(s)
           b == Len(t)
<1>1. /\ a \in Nat /\ b \in Nat /\ DOMAIN s = 1 .. a /\ DOMAIN t = 1 .. b
      /\ DOMAIN u = 1 .. a + b
      /\ \A i \in 1 .. a : u[i] = s[i]
      /\ \A i \in 1 .. b : u[a + i] = t[i]
  BY ConcatIsSequence
<1> HIDE DEF u, a, b
<1>2. DOMAIN x = 1 .. a /\ DOMAIN y = 1 .. b /\ DOMAIN z = 1 .. a + b
  BY <1>1 DEF Telling
<1>3. /\ \A i \in 1 .. a : z[i] = x[i]
      /\ \A i \in 1 .. b : z[a + i] = y[i]
  <2>1. \A i \in 1 .. a : i \in 1 .. a + b
    BY <1>1
  <2>2. \A i \in 1 .. b : a + i \in 1 .. a + b
    BY <1>1
  <2>3. QED
    BY <1>1, <2>1, <2>2 DEF Telling
<1>4. x \in Seq(B) /\ y \in Seq(B) /\ z = [i \in 1 .. a + b |-> z[i]]
  BY <1>1 DEF Telling
<1> HIDE DEF x, y, z, B
<1>5. Len(x) = a /\ Len(y) = b
  <2>1. ElementsIn(x, B) /\ ElementsIn(y, B)
    BY <1>4, SequenceElements
  <2>2. QED
    BY <1>1, <1>2, <2>1 DEF ElementsIn
<1> DEFINE w == x \o y
<1>6. /\ w \in Seq(B) /\ Len(w) = a + b
      /\ \A i \in 1 .. a : w[i] = x[i]
      /\ \A i \in 1 .. b : w[a + i] = y[i]
  <2>1. JoinOf(B, w, x, y)
    BY <1>4, JoinedAt
  <2> HIDE DEF w
  <2>2. QED
    BY <1>5, <2>1 DEF JoinOf
<1> HIDE DEF w
<1>7. \A i \in 1 .. a + b : z[i] = w[i]
  <2>1. ASSUME NEW i \in 1 .. a + b PROVE z[i] = w[i]
    <3>1. CASE i <= a
      <4>1. i \in 1 .. a
        BY <1>1, <3>1
      <4>2. QED
        BY <1>3, <1>6, <4>1
    <3>2. CASE ~ (i <= a)
      <4> DEFINE j == i - a
      <4>1. j \in 1 .. b /\ i = a + j
        BY <1>1, <3>2
      <4> HIDE DEF j
      <4>2. QED
        BY <1>3, <1>6, <4>1
    <3>3. QED
      BY <3>1, <3>2
  <2>2. QED
    BY <2>1
<1>8. z = w
  <2>1. w = [i \in 1 .. a + b |-> w[i]]
    <3>1. ElementsIn(w, B)
      BY <1>6, SequenceElements
    <3>2. DOMAIN w = 1 .. a + b /\ w = [i \in DOMAIN w |-> w[i]]
      BY <1>6, <3>1 DEF ElementsIn
    <3>3. QED
      BY <3>2
  <2>2. QED
    BY <1>4, <1>7, <2>1
<1>9. Joined(x \o y) = Joined(x) \o Joined(y)
  <2>1. x \in Seq(Seq(S)) /\ y \in Seq(Seq(S))
    BY <1>4 DEF B
  <2>2. QED
    BY <2>1, JoinedOfTwo
<1>10. QED
  BY <1>6, <1>8, <1>9 DEF w, x, y, z, u, B

\* The chunks of the trace are what arrived; the frames of a stream of frames
\* alone are that but for what the tracer holds.
TellsChunks ==
    /\ Telling(traced, "recv", "chunk") \in Seq(Seq(0 .. 255))
    /\ Joined(Telling(traced, "recv", "chunk")) = SubSeq(stream, 1, arrived)
TellsFrames ==
    ~HasJunk =>
      /\ Telling(traced, "recv", "frame") \in Seq(Seq(0 .. 255))
      /\ Joined(Telling(traced, "recv", "frame")) \o incoming = SubSeq(stream, 1, arrived)
      /\ incoming = TakeFrames(SubSeq(stream, 1, arrived)).buffer
TraceInv == TellsChunks /\ TellsFrames

\* Frames alone are characters, and take the framer nowhere it cannot follow.
LEMMA FramesAlone ==
    ASSUME LinkInv, ~HasJunk, NEW upTo \in Nat, NEW chunk \in Seq(0 .. 255),
           NEW rest \in Seq(0 .. 255), Chunked(upTo, chunk, rest)
    PROVE  /\ stream \in Seq(0 .. 127)
           /\ ~TakeFrames(SubSeq(stream, 1, upTo)).error
<1> DEFINE after == SubSeq(stream, 1, upTo)
<1>1. GoesOn(after, rest) /\ after \o rest = stream
  BY DEF Chunked
<1>2. ScriptIsRead(Script) /\ stream = StreamOf(Script)
  BY ScriptOfScenario DEF LinkInv, LinkTyped
<1>3. IsRead(stream, Whole) /\ stream \in Seq(0 .. 127)
  BY <1>2 DEF ScriptIsRead, HasJunk, Script, Whole
<1>4. ~TakeFrames(stream).error
  BY <1>3 DEF IsRead
<1> HIDE DEF after
<1>5. TakeFrames(after).error => TakeFrames(after \o rest).error
  BY <1>1 DEF GoesOn
<1>6. QED
  BY <1>1, <1>3, <1>4, <1>5 DEF after

LEMMA ChunkIsTold ==
    ASSUME LinkInv, TraceInv, ChunkArrives
    PROVE  TraceInv'
<1> DEFINE S == 0 .. 127
           C == 0 .. 255
<1>1. PICK upTo \in Nat, chunk \in Seq(C), rest \in Seq(C) : Chunked(upTo, chunk, rest)
  BY ChunkTaken
<1> DEFINE before == SubSeq(stream, 1, arrived)
           after == SubSeq(stream, 1, upTo)
           step == Step(incoming, chunk)
           frames == IF step.error THEN <<>> ELSE step.frames
           observed == Observe("recv", incoming, chunk)
           events == observed.events
<1>2. /\ incoming' = observed.buffer /\ Offers(events)
      /\ before \o chunk = after /\ GoesOn(before, chunk)
      /\ arrived' = upTo /\ UNCHANGED scenario
      /\ upTo <= Len(stream) /\ arrived <= upTo /\ chunk = SubSeq(stream, arrived + 1, upTo)
  BY <1>1 DEF Chunked
<1>3. traced' = traced \o events
  BY <1>2 DEF Offers
<1>4. stream' = stream /\ HasJunk' = HasJunk /\ SubSeq(stream, 1, arrived)' = after
  BY <1>2 DEF stream, HasJunk
<1>5. incoming \in Seq(C) /\ IsSequence(traced) /\ arrived \in Nat
  <2>1. scenario \in Scenarios /\ arrived \in 0 .. Len(stream)
    BY DEF LinkInv, LinkTyped
  <2>2. Len(stream) \in Nat
    BY <2>1, ScenarioTyped
  <2>3. QED
    BY <2>1, <2>2 DEF LinkInv, LinkTyped, RecordingInv
<1>6. /\ frames \in Seq(Seq(C)) /\ Observes("recv", chunk, frames, events)
      /\ ~step.error => observed.buffer = step.buffer
  <2> HIDE DEF C
  <2>1. QED
    BY <1>1, <1>5, ObserveTells
<1>7. IsSequence(events)
  BY <1>6 DEF Observes
<1>8. Len(frames) \in Nat
  <2> DEFINE B == Seq(C)
  <2>1. frames \in Seq(B)
    BY <1>6
  <2> HIDE DEF B, frames
  <2>2. QED
    BY <2>1
<1> HIDE DEF events, observed, frames, step, after, before
<1>9. TellsChunks'
  <2>1. /\ Telling(events, "recv", "chunk") \in Seq(Seq(C))
        /\ Joined(Telling(events, "recv", "chunk")) = chunk
    BY <1>1, <1>6, <1>8, ChunkTold
  <2>2. /\ Telling(traced, "recv", "chunk") \in Seq(Seq(C))
        /\ Joined(Telling(traced, "recv", "chunk")) = before
    BY DEF TraceInv, TellsChunks, before
  <2> HIDE DEF C
  <2>3. /\ Telling(traced \o events, "recv", "chunk") \in Seq(Seq(C))
        /\ Joined(Telling(traced \o events, "recv", "chunk"))
             = Joined(Telling(traced, "recv", "chunk")) \o Joined(Telling(events, "recv", "chunk"))
    <3>1. IsSequence(traced) /\ IsSequence(events)
      BY <1>5, <1>7
    <3>2. Telling(traced, "recv", "chunk") \in Seq(Seq(C))
      BY <2>2
    <3>3. Telling(events, "recv", "chunk") \in Seq(Seq(C))
      BY <2>1
    <3>4. QED
      BY <3>1, <3>2, <3>3, TellingAppends
  <2>4. Joined(Telling(traced \o events, "recv", "chunk")) = after
    BY <1>2, <2>1, <2>2, <2>3
  <2>5. Telling(traced, "recv", "chunk")' = Telling(traced \o events, "recv", "chunk")
    BY <1>3 DEF Telling
  <2>6. /\ Telling(traced, "recv", "chunk")' \in Seq(Seq(C))
        /\ Joined(Telling(traced, "recv", "chunk"))' = SubSeq(stream, 1, arrived)'
    BY <1>4, <2>3, <2>4, <2>5
  <2>7. QED
    BY <2>6 DEF TellsChunks, C
<1>10. ASSUME ~HasJunk PROVE TellsFrames'
  <2>1. stream \in Seq(S) /\ ~TakeFrames(after).error
    BY <1>1, <1>10, FramesAlone DEF after
  <2>2. /\ Telling(traced, "recv", "frame") \in Seq(Seq(C))
        /\ Joined(Telling(traced, "recv", "frame")) \o incoming = before
        /\ incoming = TakeFrames(before).buffer
    BY <1>10 DEF TraceInv, TellsFrames, before
  <2>3. before \in Seq(S) /\ chunk \in Seq(S)
    <3> HIDE DEF S
    <3>1. SubSeq(stream, 1, arrived) \in Seq(S) /\ SubSeq(stream, arrived + 1, upTo) \in Seq(S)
      BY <1>1, <1>2, <1>5, <2>1, CutInTwo
    <3>2. QED
      BY <1>2, <3>1 DEF before
  <2>4. S \subseteq C /\ Terminator \in S
    BY DEF Terminator
  <2> HIDE DEF S, C
  <2>5. incoming \in Seq(S)
    BY <2>2, <2>3, TakeFramesTyped
  <2> DEFINE b == incoming \o chunk
             taken == TakeFrames(b)
  <2>6. b \in Seq(S)
    BY <2>3, <2>5
  <2>7. step = taken
    BY DEF Step, step
  <2>8. taken.buffer = TakeFrames(after).buffer /\ ~taken.error
    BY <1>2, <2>1, <2>2 DEF GoesOn
  <2> HIDE DEF b
  <2>9. taken.frames \in Seq(Seq(S)) /\ taken.buffer \in Seq(S)
    BY <2>6, TakeFramesTyped
  <2> DEFINE ends == [i \in DOMAIN taken.frames |-> Ended(taken.frames[i])]
  <2>10. ends \in Seq(Seq(S)) /\ Joined(ends) \o taken.buffer = b
    BY <2>4, <2>6, FramesGiveBack
  <2>11. frames = taken.frames
    BY <2>7, <2>8 DEF frames
  <2>12. /\ Telling(events, "recv", "frame") \in Seq(Seq(C))
         /\ Joined(Telling(events, "recv", "frame")) = Joined(ends)
    <3> HIDE DEF taken
    <3>1. frames \in Seq(Seq(0 .. 127))
      BY <2>9, <2>11 DEF S
    <3>2. /\ Telling(events, "recv", "frame") \in Seq(Seq(0 .. 255))
          /\ Joined(Telling(events, "recv", "frame"))
               = Joined([i \in DOMAIN frames |-> Ended(frames[i])])
      BY <1>6, <3>1, FramesTold
    <3>3. QED
      BY <2>11, <3>2 DEF C
  <2>13. incoming' = taken.buffer
    BY <1>2, <1>6, <2>7, <2>8
  <2> HIDE DEF taken, ends
  <2>14. /\ Telling(traced \o events, "recv", "frame") \in Seq(Seq(C))
         /\ Joined(Telling(traced \o events, "recv", "frame"))
              = Joined(Telling(traced, "recv", "frame")) \o Joined(Telling(events, "recv", "frame"))
    <3>1. IsSequence(traced) /\ IsSequence(events)
      BY <1>5, <1>7
    <3>2. Telling(traced, "recv", "frame") \in Seq(Seq(C))
      BY <2>2
    <3>3. Telling(events, "recv", "frame") \in Seq(Seq(C))
      BY <2>12
    <3>4. QED
      BY <3>1, <3>2, <3>3, TellingAppends
  <2> DEFINE told == Joined(Telling(traced, "recv", "frame"))
             tells == Joined(ends)
  <2>15. told \in Seq(C) /\ tells \in Seq(C) /\ taken.buffer \in Seq(C)
    <3>1. <<>> \in Seq(C)
      OBVIOUS
    <3>2. told \in Seq(C)
      BY <2>2, <3>1, JoinedAppends
    <3>3. Joined(Telling(events, "recv", "frame")) \in Seq(C)
      BY <2>12, <3>1, JoinedAppends
    <3>4. taken.buffer \in Seq(C)
      BY <2>4, <2>9, SeqMonotonic
    <3>5. QED
      BY <2>12, <3>2, <3>3, <3>4
  <2> HIDE DEF told, tells
  <2>16. (told \o tells) \o taken.buffer = (told \o incoming) \o chunk
    <3>1. tells \o taken.buffer = incoming \o chunk
      BY <2>10 DEF tells, b
    <3>2. incoming \in Seq(C) /\ chunk \in Seq(C)
      BY <1>1, <1>5
    <3>3. told \in Seq(C) /\ tells \in Seq(C) /\ taken.buffer \in Seq(C)
      BY <2>15
    <3>4. Again(told, tells, taken.buffer)
      BY <3>3, JoinsAgain
    <3>5. Again(told, incoming, chunk)
      BY <3>2, <3>3, JoinsAgain
    <3>6. QED
      BY <3>1, <3>4, <3>5 DEF Again
  <2>17. told \o incoming = before
    BY <2>2 DEF told
  <2>18. Telling(traced, "recv", "frame")' = Telling(traced \o events, "recv", "frame")
    BY <1>3 DEF Telling
  <2>19. Joined(Telling(traced \o events, "recv", "frame")) \o incoming' = after
    <3>1. Joined(Telling(traced \o events, "recv", "frame")) = told \o tells
      BY <2>12, <2>14 DEF told, tells
    <3>2. QED
      BY <1>2, <2>13, <2>16, <2>17, <3>1
  <2>20. /\ Telling(traced, "recv", "frame")' \in Seq(Seq(C))
         /\ Joined(Telling(traced, "recv", "frame"))' \o incoming' = SubSeq(stream, 1, arrived)'
         /\ incoming' = TakeFrames(SubSeq(stream, 1, arrived)').buffer
    BY <1>4, <2>8, <2>13, <2>14, <2>18, <2>19
  <2>21. QED
    BY <2>20 DEF TellsFrames, C
<1>11. QED
  BY <1>4, <1>9, <1>10 DEF TraceInv, TellsFrames

\* What is sent is traced for the other direction.
LEMMA SentIsNotReceived ==
    ASSUME TraceInv, IsSequence(traced), NEW frame, IsSequence(frame),
           Offers(Observe("send", <<>>, frame).events),
           UNCHANGED <<scenario, arrived, incoming>>
    PROVE  TraceInv'
<1>1. PICK S : frame \in Seq(S)
  BY DEF IsSequence
<1> DEFINE C == 0 .. 255
           none == <<>>
           step == Step(none, frame)
           frames == IF step.error THEN <<>> ELSE step.frames
           events == Observe("send", none, frame).events
<1>2. frames \in Seq(Seq(S)) /\ Observes("send", frame, frames, events)
  <2>1. none \in Seq(S)
    OBVIOUS
  <2>2. QED
    BY <1>1, <2>1, ObserveTells
<1>3. traced' = traced \o events
  BY DEF Offers
<1>4. IsSequence(events)
  BY <1>2 DEF Observes
<1> HIDE DEF events, frames, step
<1>5. Len(frames) \in Nat
  <2> DEFINE B == Seq(S)
  <2>1. frames \in Seq(B)
    BY <1>2
  <2> HIDE DEF B
  <2>2. QED
    BY <2>1
<1>6. ASSUME NEW kind, Telling(traced, "recv", kind) \in Seq(Seq(C))
      PROVE  /\ Telling(traced', "recv", kind) \in Seq(Seq(C))
             /\ Joined(Telling(traced', "recv", kind)) = Joined(Telling(traced, "recv", kind))
  <2> HIDE DEF C
  <2>1. "recv" # "send"
    OBVIOUS
  <2>2. /\ Telling(events, "recv", kind) \in Seq(Seq(C))
        /\ Joined(Telling(events, "recv", kind)) = <<>>
    BY <1>2, <1>5, <2>1, OthersTellNothing
  <2>3. /\ Telling(traced \o events, "recv", kind) \in Seq(Seq(C))
        /\ Joined(Telling(traced \o events, "recv", kind))
             = Joined(Telling(traced, "recv", kind)) \o Joined(Telling(events, "recv", kind))
    <3>1. Telling(events, "recv", kind) \in Seq(Seq(C))
      BY <2>2
    <3>2. QED
      BY <1>4, <1>6, <3>1, TellingAppends
  <2>4. Joined(Telling(traced, "recv", kind)) \in Seq(C)
    <3>1. <<>> \in Seq(C)
      OBVIOUS
    <3>2. QED
      BY <1>6, <3>1, JoinedAppends
  <2>5. Joined(Telling(traced, "recv", kind)) \o <<>> = Joined(Telling(traced, "recv", kind))
    BY <2>4
  <2>6. QED
    BY <1>3, <2>2, <2>3, <2>5
<1>7. stream' = stream /\ HasJunk' = HasJunk
      /\ SubSeq(stream, 1, arrived)' = SubSeq(stream, 1, arrived)
  BY DEF stream, HasJunk
<1>8. TellsChunks'
  <2>1. Telling(traced, "recv", "chunk") \in Seq(Seq(C))
        /\ Joined(Telling(traced, "recv", "chunk")) = SubSeq(stream, 1, arrived)
    BY DEF TraceInv, TellsChunks
  <2>2. Telling(traced', "recv", "chunk") \in Seq(Seq(C))
        /\ Joined(Telling(traced', "recv", "chunk")) = SubSeq(stream, 1, arrived)
    BY <1>6, <2>1
  <2>3. QED
    BY <1>7, <2>2 DEF TellsChunks
<1>9. ASSUME ~HasJunk PROVE TellsFrames'
  <2>1. /\ Telling(traced, "recv", "frame") \in Seq(Seq(C))
        /\ Joined(Telling(traced, "recv", "frame")) \o incoming = SubSeq(stream, 1, arrived)
        /\ incoming = TakeFrames(SubSeq(stream, 1, arrived)).buffer
    BY <1>9 DEF TraceInv, TellsFrames
  <2>2. Telling(traced', "recv", "frame") \in Seq(Seq(C))
        /\ Joined(Telling(traced', "recv", "frame")) \o incoming = SubSeq(stream, 1, arrived)
    BY <1>6, <2>1
  <2>3. QED
    BY <1>7, <2>1, <2>2 DEF TellsFrames
<1>10. QED
  BY <1>7, <1>8, <1>9 DEF TraceInv, TellsFrames

LEMMA TraceInit == Init => TraceInv
<1> SUFFICES ASSUME Init PROVE TraceInv
  OBVIOUS
<1>1. /\ arrived = 0 /\ incoming = <<>> /\ framed = <<>> /\ session = "up"
      /\ traced = <<>> /\ scenario \in Scenarios
  BY DEF Init, RecordingInit
<1>2. incoming = TakeFrames(SubSeq(stream, 1, arrived)).buffer
  BY <1>1, LinkInit DEF LinkInv, ReadsTheFrames
<1>3. SubSeq(stream, 1, arrived) = <<>>
  <2>1. stream \in Seq(0 .. 255)
    BY <1>1, ScenarioTyped
  <2>2. QED
    BY <1>1, <2>1
<1>4. ASSUME NEW kind
      PROVE  /\ Telling(traced, "recv", kind) \in Seq(Seq(0 .. 255))
             /\ Joined(Telling(traced, "recv", kind)) = <<>>
  <2> DEFINE C == 0 .. 255
             x == Telling(traced, "recv", kind)
  <2>1. x = [i \in 1 .. 0 |-> <<>>]
    BY <1>1 DEF Telling
  <2> HIDE DEF C, x
  <2>2. 0 \in Nat
    OBVIOUS
  <2>3. x \in Seq(Seq(C)) /\ Joined(x) = <<>>
    BY <2>1, <2>2, JoinedOfNone
  <2>4. QED
    BY <2>3 DEF x, C
<1>5. <<>> \o <<>> = <<>>
  OBVIOUS
<1>6. TellsChunks
  BY <1>3, <1>4 DEF TellsChunks
<1>7. TellsFrames
  BY <1>1, <1>2, <1>3, <1>4, <1>5 DEF TellsFrames
<1>8. QED
  BY <1>6, <1>7 DEF TraceInv

LEMMA TraceStep ==
    ASSUME LinkInv, TraceInv, [Next]_vars
    PROVE  TraceInv'
<1>1. IsSequence(traced)
  BY DEF LinkInv, RecordingInv
<1>2. CASE ChunkArrives
  BY <1>2, ChunkIsTold
<1>3. CASE AcksResult
  <2>1. PICK frame \in EncodeMessage([tag |-> LastResults.ack, revision |-> 1]) :
          Offers(Observe("send", <<>>, frame).events)
    BY <1>3 DEF AcksResult
  <2>2. LastResults.ack = "AcknowledgeResult"
    BY DEF LastResults, Subscription
  <2>3. IsSequence(frame)
    BY <2>1, <2>2, PlainFrames
  <2>4. UNCHANGED <<scenario, arrived, incoming>>
    BY <1>3 DEF AcksResult, linkVars
  <2>5. QED
    BY <1>1, <2>1, <2>3, <2>4, SentIsNotReceived
<1>4. CASE SaysGoodbye
  <2>1. PICK frame \in EncodeMessage([tag |-> "CommunicationStop", revision |-> 1]) :
          Offers(Observe("send", <<>>, frame).events)
    BY <1>4 DEF SaysGoodbye
  <2>2. IsSequence(frame)
    BY <2>1, PlainFrames
  <2>3. UNCHANGED <<scenario, arrived, incoming>>
    BY <1>4 DEF SaysGoodbye
  <2>4. QED
    BY <1>1, <2>1, <2>2, <2>3, SentIsNotReceived
<1>5. CASE UNCHANGED <<linkVars, traced>>
  <2>1. UNCHANGED <<scenario, arrived, incoming, traced>>
    BY <1>5 DEF linkVars
  <2>2. stream' = stream /\ HasJunk' = HasJunk
    BY <2>1 DEF stream, HasJunk
  <2>3. QED
    BY <2>1, <2>2 DEF TraceInv, TellsChunks, TellsFrames
<1>6. CASE Exits
  BY <1>5, <1>6 DEF Exits
<1>7. CASE Writes
  BY <1>5, <1>7 DEF Writes, Records, TakesBatch, WritesBatch, ClearsQueue, EndsRun
<1>8. CASE Stops
  BY <1>5, <1>8 DEF Stops, ScopeCloses, IsKilled
<1>9. CASE OtherWrites
  BY <1>5, <1>9 DEF OtherWrites
<1>10. CASE UNCHANGED <<linkVars, recordingVars>>
  BY <1>5, <1>10 DEF recordingVars
<1>11. QED
  BY <1>2, <1>3, <1>4, <1>6, <1>7, <1>8, <1>9, <1>10 DEF Next, Looks, LosesFeed, vars

\* The trace tells the stream, of every script and however the network cuts
\* it: escapeWire loses no byte, every chunk is told, and the frames told are
\* the whole of what the tracer let go of (WireTrace.ts, WireEscape.ts).
THEOREM TraceIsTheStream == Spec => []TraceTellsTheStream
<1>1. TraceInv => TraceTellsTheStream
  <2>1. \A kind : Told("recv", kind) = Joined(Telling(traced, "recv", kind))
    BY DEF Told, Telling
  <2>2. QED
    BY <2>1 DEF TraceTellsTheStream, TraceInv, TellsChunks, TellsFrames
<1>2. LinkInv /\ [Next]_vars => LinkInv'
  BY LinkStep
<1>3. LinkInv /\ TraceInv /\ [Next]_vars => TraceInv'
  BY TraceStep
<1>4. QED
  BY <1>1, <1>2, <1>3, LinkInit, TraceInit, PTL DEF Spec

-----------------------------------------------------------------------------
(* What the controller replies settles the request.                        *)

\* The requests the module defines, their MIDs and their replies.
Asks(tag, mid, reply) == ByTag[tag].mid = mid /\ ByTag[tag].reply = reply

LEMMA RequestsDefined ==
    /\ {"LastResult", "CommunicationStartAccepted", "OldResult", "KeepAlive", "CommandAccepted",
        "CommandError"} \subseteq DOMAIN ByTag
    /\ \A tag \in DOMAIN ByTag : IsRequest(ByTag[tag]) =>
          \/ tag = "CommunicationStart" /\ Asks(tag, 1, "CommunicationStartAccepted")
          \/ tag \in {"CommunicationStop", "SubscribeResults", "UnsubscribeResults"}
             /\ Asks(tag, ByTag[tag].mid, "CommandAccepted")
          \/ tag = "RequestOldResult" /\ Asks(tag, 64, "OldResult")
          \/ tag = "KeepAlive" /\ Asks(tag, 9999, "KeepAlive")
<1> DEFINE All == Beside(Beside(SessionMids, ResultMids), KeepAliveMids)
<1>1. DOMAIN All = DOMAIN SessionMids \cup DOMAIN ResultMids \cup DOMAIN KeepAliveMids
  BY DEF Beside
<1>2. /\ DOMAIN SessionMids = {"CommunicationStart", "CommunicationStartAccepted",
                               "CommunicationStop", "CommandError", "CommandAccepted"}
      /\ DOMAIN ResultMids = {"SubscribeResults", "LastResult", "AcknowledgeResult",
                              "UnsubscribeResults", "RequestOldResult", "OldResult"}
      /\ DOMAIN KeepAliveMids = {"KeepAlive"}
  BY DEF SessionMids, ResultMids, KeepAliveMids
<1>3. /\ \A tag \in DOMAIN SessionMids : All[tag] = SessionMids[tag]
      /\ \A tag \in DOMAIN ResultMids : All[tag] = ResultMids[tag]
      /\ \A tag \in DOMAIN KeepAliveMids : All[tag] = KeepAliveMids[tag]
  BY <1>2 DEF Beside
<1>4. /\ DOMAIN ByTag = DOMAIN All
      /\ \A tag \in DOMAIN All : ByTag[tag] = [All[tag] EXCEPT !.layout = Layout(All[tag].layout)]
  BY DEF ByTag, Placed
<1> HIDE DEF All
<1>5. DOMAIN All = {"CommunicationStart", "CommunicationStartAccepted",
                    "CommunicationStop", "CommandError", "CommandAccepted",
                    "SubscribeResults", "LastResult", "AcknowledgeResult",
                    "UnsubscribeResults", "RequestOldResult", "OldResult", "KeepAlive"}
  BY <1>1, <1>2
<1> DEFINE Defined(d) == DOMAIN d = {"mid", "layout", "reply"}
<1>6. /\ \A tag \in DOMAIN SessionMids : Defined(SessionMids[tag])
      /\ \A tag \in DOMAIN ResultMids : Defined(ResultMids[tag])
      /\ \A tag \in DOMAIN KeepAliveMids : Defined(KeepAliveMids[tag])
  BY <1>2 DEF SessionMids, ResultMids, KeepAliveMids, Define, Request
<1>7. \A tag \in DOMAIN All : ByTag[tag].mid = All[tag].mid /\ ByTag[tag].reply = All[tag].reply
  <2>1. \A tag \in DOMAIN All : Defined(All[tag])
    BY <1>1, <1>3, <1>6
  <2>2. QED
    BY <1>4, <2>1
<1>8. /\ SessionMids["CommunicationStart"].mid = 1
      /\ SessionMids["CommunicationStart"].reply = "CommunicationStartAccepted"
      /\ SessionMids["CommunicationStop"].reply = "CommandAccepted"
      /\ SessionMids["CommunicationStartAccepted"].reply = "none"
      /\ SessionMids["CommandError"].reply = "none" /\ SessionMids["CommandAccepted"].reply = "none"
  BY DEF SessionMids, Define, Request
<1>9. /\ ResultMids["SubscribeResults"].reply = "CommandAccepted"
      /\ ResultMids["UnsubscribeResults"].reply = "CommandAccepted"
      /\ ResultMids["RequestOldResult"].mid = 64
      /\ ResultMids["RequestOldResult"].reply = "OldResult"
      /\ ResultMids["LastResult"].reply = "none" /\ ResultMids["OldResult"].reply = "none"
      /\ ResultMids["AcknowledgeResult"].reply = "none"
  BY DEF ResultMids, Define, Request
<1>10. KeepAliveMids["KeepAlive"].mid = 9999 /\ KeepAliveMids["KeepAlive"].reply = "KeepAlive"
  BY DEF KeepAliveMids, Request
<1>11. ASSUME NEW tag \in DOMAIN ByTag, IsRequest(ByTag[tag])
       PROVE  \/ tag = "CommunicationStart" /\ Asks(tag, 1, "CommunicationStartAccepted")
              \/ tag \in {"CommunicationStop", "SubscribeResults", "UnsubscribeResults"}
                 /\ Asks(tag, ByTag[tag].mid, "CommandAccepted")
              \/ tag = "RequestOldResult" /\ Asks(tag, 64, "OldResult")
              \/ tag = "KeepAlive" /\ Asks(tag, 9999, "KeepAlive")
  <2>1. tag \in DOMAIN All /\ ByTag[tag].mid = All[tag].mid /\ ByTag[tag].reply = All[tag].reply
        /\ All[tag].reply # "none"
    BY <1>4, <1>7, <1>11 DEF IsRequest
  <2>2. CASE tag \in DOMAIN SessionMids
    BY <1>2, <1>3, <1>8, <2>1, <2>2 DEF Asks
  <2>3. CASE tag \in DOMAIN ResultMids
    BY <1>2, <1>3, <1>9, <2>1, <2>3 DEF Asks
  <2>4. CASE tag \in DOMAIN KeepAliveMids
    BY <1>2, <1>3, <1>10, <2>1, <2>4 DEF Asks
  <2>5. QED
    BY <1>1, <2>1, <2>2, <2>3, <2>4
<1>12. QED
  BY <1>4, <1>5, <1>11

\* The reply to a request is about it, and so is the refusal in its place.
IsAbout(reply, asked) ==
    /\ Concerns(reply, asked) /\ "tag" \in DOMAIN reply
    /\ reply.tag \in {"CommandError", "CommandAccepted", "CommunicationStartAccepted",
                      "OldResult", "KeepAlive"}
    /\ reply.tag \in {"CommandError", "CommandAccepted"} => "mid" \in DOMAIN reply

LEMMA RefusalIsAbout ==
    ASSUME NEW asked, NEW code
    PROVE  IsAbout(CommandErrorFor(asked.mid, code), asked)
BY DEF IsAbout, Concerns, CommandErrorFor

LEMMA ReplyIsAbout ==
    ASSUME NEW tag \in DOMAIN ByTag, IsRequest(ByTag[tag]), NEW message,
           \/ message.tag = tag
           \/ message.tag = "UnknownMessage" /\ message.mid = ByTag[tag].mid,
           NEW identity, NEW store, NEW latest, NEW stamp, NEW code,
           NEW reply \in ReplyTo(message, identity, store, latest, stamp)
    PROVE  IsAbout(reply, ByTag[tag]) /\ IsAbout(RejectionFor(reply, code), ByTag[tag])
<1> DEFINE asked == ByTag[tag]
<1>1. tag # "UnknownMessage"
  BY Definitions
<1>2. CASE message.tag = "UnknownMessage"
  <2>1. message.mid = asked.mid
    BY <1>1, <1>2
  <2>2. reply = Refusal(message)
    BY <1>2 DEF ReplyTo
  <2>3. PICK refused : reply = CommandErrorFor(asked.mid, refused)
    BY <2>1, <2>2 DEF Refusal
  <2>4. RejectionFor(reply, code) = reply
    BY <2>3 DEF RejectionFor, CommandErrorFor
  <2>5. QED
    BY <2>3, <2>4, RefusalIsAbout
<1>3. CASE message.tag = "CommunicationStart"
  <2>1. Asks(tag, 1, "CommunicationStartAccepted") /\ "CommunicationStartAccepted" \in DOMAIN ByTag
    BY <1>3, RequestsDefined
  <2>2. \/ \E refused : reply = CommandErrorFor(1, refused)
        \/ reply = [tag |-> "CommunicationStartAccepted", revision |-> 1,
                    cellId |-> identity.cellId, channelId |-> identity.channelId,
                    controllerName |-> identity.controllerName]
    BY <1>3 DEF ReplyTo
  <2>3. CASE \E refused : reply = CommandErrorFor(1, refused)
    <3>1. PICK refused : reply = CommandErrorFor(asked.mid, refused)
      BY <2>1, <2>3 DEF Asks
    <3>2. RejectionFor(reply, code) = reply
      BY <3>1 DEF RejectionFor, CommandErrorFor
    <3>3. QED
      BY <3>1, <3>2, RefusalIsAbout
  <2>4. CASE reply = [tag |-> "CommunicationStartAccepted", revision |-> 1,
                      cellId |-> identity.cellId, channelId |-> identity.channelId,
                      controllerName |-> identity.controllerName]
    <3>1. RejectionFor(reply, code) = CommandErrorFor(asked.mid, code)
      BY <2>1, <2>4 DEF RejectionFor, Asks
    <3>2. IsAbout(reply, asked)
      BY <2>1, <2>4 DEF IsAbout, Concerns, MidOf, Asks
    <3>3. QED
      BY <3>1, <3>2, RefusalIsAbout
  <2>5. QED
    BY <2>2, <2>3, <2>4
<1>4. CASE message.tag = "KeepAlive"
  <2>1. Asks(tag, 9999, "KeepAlive") /\ "KeepAlive" \in DOMAIN ByTag
    BY <1>4, RequestsDefined
  <2>2. reply = [tag |-> "KeepAlive", revision |-> 1]
    BY <1>4 DEF ReplyTo
  <2>3. RejectionFor(reply, code) = CommandErrorFor(asked.mid, code)
    BY <2>1, <2>2 DEF RejectionFor, Asks
  <2>4. IsAbout(reply, asked)
    BY <2>1, <2>2 DEF IsAbout, Concerns, MidOf, Asks
  <2>5. QED
    BY <2>3, <2>4, RefusalIsAbout
<1>5. CASE message.tag \in {"SubscribeResults", "UnsubscribeResults", "CommunicationStop"}
  <2>1. message.tag = tag /\ Asks(tag, asked.mid, "CommandAccepted")
    BY <1>5, RequestsDefined
  <2>2. reply = Acceptance(asked.mid)
    BY <1>5, <2>1 DEF ReplyTo
  <2>3. RejectionFor(reply, code) = CommandErrorFor(asked.mid, code)
    BY <2>2 DEF RejectionFor, Acceptance
  <2>4. IsAbout(reply, asked)
    BY <2>1, <2>2 DEF IsAbout, Concerns, Acceptance, Asks
  <2>5. QED
    BY <2>3, <2>4, RefusalIsAbout
<1>6. CASE message.tag = "RequestOldResult"
  <2>1. Asks(tag, 64, "OldResult") /\ "OldResult" \in DOMAIN ByTag
    BY <1>6, RequestsDefined
  <2>2. reply = OldResultFor(message.tighteningId, store, latest, stamp)
    BY <1>6 DEF ReplyTo
  <2>3. CASE reply = CommandErrorFor(64, 15)
    <3>1. reply = CommandErrorFor(asked.mid, 15)
      BY <2>1, <2>3 DEF Asks
    <3>2. RejectionFor(reply, code) = reply
      BY <3>1 DEF RejectionFor, CommandErrorFor
    <3>3. QED
      BY <3>1, <3>2, RefusalIsAbout
  <2>4. CASE reply # CommandErrorFor(64, 15)
    <3>1. PICK result : reply = Beside([tag |-> "OldResult", revision |-> 1], result)
      BY <2>2, <2>4 DEF OldResultFor
    <3>2. reply.tag = "OldResult" /\ "tag" \in DOMAIN reply
      BY <3>1 DEF Beside
    <3>3. RejectionFor(reply, code) = CommandErrorFor(asked.mid, code)
      BY <2>1, <3>2 DEF RejectionFor, Asks
    <3>4. IsAbout(reply, asked)
      BY <2>1, <3>2 DEF IsAbout, Concerns, MidOf, Asks
    <3>5. QED
      BY <3>3, <3>4, RefusalIsAbout
  <2>5. QED
    BY <2>3, <2>4
<1>7. QED
  BY <1>2, <1>3, <1>4, <1>5, <1>6, RequestsDefined

\* A message keeps its tag and its MID on its way.
LEMMA CanonicalKeeps ==
    ASSUME NEW message, "tag" \in DOMAIN message, message.tag # "Foreign"
    PROVE  /\ "tag" \in DOMAIN Canonical(message) /\ Canonical(message).tag = message.tag
           /\ "mid" \in DOMAIN message => Canonical(message).mid = message.mid
<1>1. "tag" \notin Padded /\ "mid" \notin Padded
  BY DEF Padded
<1>2. Canonical(message) = [part \in DOMAIN message |->
          IF part \in Padded THEN TrimEnd(message[part]) ELSE message[part]]
  BY DEF Canonical, IsForeign
<1>3. QED
  BY <1>1, <1>2

\* What an exchange owes is about its request, although it was read from the
\* wire.
LEMMA OwedIsAbout ==
    ASSUME NEW tag \in DOMAIN ByTag, IsRequest(ByTag[tag]), NEW exchange,
           IsAsked(exchange.message, tag), NEW reply \in Owed(exchange)
    PROVE  IsAbout(reply, ByTag[tag])
<1> DEFINE message == exchange.message
           read == Canonical(message)
           Said(r) == IF exchange.refused THEN RejectionFor(r, exchange.code) ELSE r
<1>1. PICK r \in RepliesTo(exchange) : reply = Said(r)
  BY DEF Owed
<1>2. PICK bytes \in Bytes(message) :
        r \in Answers(TakeFrames(bytes).frames[1], exchange.identity, exchange.store,
                      exchange.latest, exchange.stamp)
  BY <1>1 DEF RepliesTo
<1>3. IsItem(message) /\ tag # "UnknownMessage" /\ tag # "Junk" /\ tag # "Foreign"
      /\ (message.tag = tag \/ (message.tag = "UnknownMessage" /\ message.mid = ByTag[tag].mid))
  BY Definitions, RequestsDefined DEF IsAsked
<1> HIDE DEF message
<1>4. ~IsJunk(message) /\ ~IsForeign(message) /\ message.tag # "Foreign"
  BY <1>3 DEF IsJunk, IsForeign
<1>5. "tag" \in DOMAIN message /\ (message.tag = "UnknownMessage" => "mid" \in DOMAIN message)
  BY <1>3, <1>4 DEF IsItem, IsUndefined, IsDefined
<1>6. read.tag = message.tag /\ (message.tag = "UnknownMessage" => read.mid = message.mid)
  BY <1>4, <1>5, CanonicalKeeps
<1>7. IsOneFrame(bytes, read)
  BY <1>2, <1>3, <1>4, MessagesReadBack
<1> DEFINE frame == TakeFrames(bytes).frames[1]
<1>8. {f.message : f \in DecodeFrame(frame)} = {read}
  BY <1>7 DEF IsOneFrame
<1> HIDE DEF frame, read
<1>9. PICK f \in DecodeFrame(frame) :
        r \in ReplyTo(f.message, exchange.identity, exchange.store, exchange.latest, exchange.stamp)
  BY <1>2 DEF Answers, frame
<1>10. r \in ReplyTo(read, exchange.identity, exchange.store, exchange.latest, exchange.stamp)
  BY <1>8, <1>9
<1>11. read.tag = tag \/ (read.tag = "UnknownMessage" /\ read.mid = ByTag[tag].mid)
  BY <1>3, <1>6
<1>12. IsAbout(r, ByTag[tag]) /\ IsAbout(RejectionFor(r, exchange.code), ByTag[tag])
  BY <1>10, <1>11, ReplyIsAbout
<1>13. QED
  BY <1>1, <1>12

\* What is about a request still is when it is read.
LEMMA AboutIsRead ==
    ASSUME NEW reply, NEW asked, IsAbout(reply, asked)
    PROVE  /\ Concerns(Canonical(reply), asked) /\ Canonical(reply).tag = reply.tag
           /\ reply.tag # "UnknownMessage" /\ reply.tag # "Junk"
<1>1. reply.tag # "Foreign" /\ "tag" \in DOMAIN reply
  BY DEF IsAbout
<1>2. /\ Canonical(reply).tag = reply.tag
      /\ "mid" \in DOMAIN reply => Canonical(reply).mid = reply.mid
  BY <1>1, CanonicalKeeps
<1> DEFINE read == Canonical(reply)
<1> HIDE DEF read
<1>3. Concerns(read, asked)
  BY <1>2 DEF Concerns, IsAbout, MidOf, read
<1>4. QED
  BY <1>2, <1>3 DEF IsAbout, read

\* A result that is pushed is about no request.
LEMMA PushIsAboutNone ==
    ASSUME NEW tag \in DOMAIN ByTag, IsRequest(ByTag[tag]), NEW message,
           message.tag = LastResults.data
    PROVE  ~Concerns(message, ByTag[tag])
<1>1. message.tag = "LastResult"
  BY DEF LastResults, Subscription
<1>2. /\ ByTag[tag].reply \in DOMAIN ByTag /\ ByTag[tag].reply # "LastResult"
      /\ "LastResult" \in DOMAIN ByTag
  BY RequestsDefined DEF Asks
<1>3. ByTag["LastResult"].mid # ByTag[ByTag[tag].reply].mid
  BY <1>2, MidsAssumption
<1>4. MidOf(message) = ByTag["LastResult"].mid
  BY <1>1 DEF MidOf
<1>5. QED
  BY <1>1, <1>3, <1>4 DEF Concerns

\* Of a script of messages that all fit, all are read.
LEMMA AllAreRead ==
    ASSUME NEW M, NEW script \in Seq(M),
           \A i \in DOMAIN script : ~IsJunk(script[i]) /\ Bytes(script[i]) # {}
    PROVE  ReadAs(script) = [i \in DOMAIN script |-> Canonical(script[i])]
<1> DEFINE n == Len(script)
           R == {Canonical(script[i]) : i \in DOMAIN script}
           read == [i \in DOMAIN script |-> Canonical(script[i])]
           singles == [i \in DOMAIN script |->
                         IF BeforeJunk(script, i) /\ Bytes(script[i]) # {}
                         THEN <<Canonical(script[i])>> ELSE <<>>]
<1>1. n \in Nat /\ DOMAIN script = 1 .. n
  OBVIOUS
<1> HIDE DEF n
<1>2. \A i \in DOMAIN script : BeforeJunk(script, i)
  <2>1. \A i \in 1 .. n : \A j \in 1 .. i : j \in 1 .. n
    BY <1>1
  <2>2. QED
    BY <1>1, <2>1 DEF BeforeJunk
<1>3. /\ DOMAIN singles = DOMAIN script
      /\ \A i \in DOMAIN script : singles[i] = <<Canonical(script[i])>>
      /\ singles = [i \in DOMAIN singles |-> singles[i]]
  BY <1>2
<1>4. read \in Seq(R)
  <2>1. read \in [1 .. n -> R]
    BY <1>1
  <2> HIDE DEF read, R
  <2>2. QED
    BY <1>1, <2>1, ListIsSequence
<1>5. DOMAIN read = DOMAIN script /\ \A i \in DOMAIN read : read[i] = Canonical(script[i])
  OBVIOUS
<1>6. ReadAs(script) = Joined(singles)
  BY DEF ReadAs
<1> HIDE DEF read, R, singles
<1>7. Joined(singles) = read
  BY <1>3, <1>4, <1>5, JoinedOfSingles
<1>8. QED
  BY <1>6, <1>7 DEF read

\* The reply behind the results that were pushed settles its request.
LEMMA ReplySettles ==
    ASSUME scenario \in Scenarios, scenario.exchange # {}
    PROVE  /\ request # NoRequest /\ ~HasJunk
           /\ Outcome(Whole, Asked)
                = IF Last(scenario.script).tag = "CommandError" THEN "rejected" ELSE "answered"
<1> DEFINE n == Len(Script)
           read == [i \in DOMAIN Script |-> Canonical(Script[i])]
           last == Script[n]
<1>1. PICK exchange \in scenario.exchange : TRUE
  OBVIOUS
<1>2. /\ request # NoRequest /\ IsAsked(exchange.message, request)
      /\ Script # <<>> /\ Last(Script) \in Owed(exchange)
      /\ \A i \in 1 .. n - 1 : Script[i].tag = LastResults.data
      /\ \A i \in DOMAIN Script : Bytes(Script[i]) # {}
  BY <1>1, ExchangesAssumption DEF Script, request
<1>3. request \in DOMAIN ByTag /\ IsRequest(ByTag[request])
  BY <1>2, ScenarioTyped
<1>4. Script \in Seq(Range(Script))
  BY ScenariosAssumption DEF Script
<1>5. n \in Nat \ {0} /\ DOMAIN Script = 1 .. n
  BY <1>2, <1>4
<1>6. IsAbout(last, ByTag[request])
  <2>1. Last(Script) = last
    BY DEF Last
  <2>2. QED
    BY <1>2, <1>3, <2>1, OwedIsAbout
<1>7. /\ Concerns(Canonical(last), ByTag[request]) /\ Canonical(last).tag = last.tag
      /\ last.tag # "UnknownMessage" /\ last.tag # "Junk"
  BY <1>6, AboutIsRead
<1> HIDE DEF n, last
<1>8. \A i \in 1 .. n : i = n \/ i \in 1 .. n - 1
  BY <1>5
<1>9. \A i \in DOMAIN Script : ~IsJunk(Script[i])
  <2>1. LastResults.data # "Junk"
    BY DEF LastResults, Subscription
  <2>2. QED
    BY <1>2, <1>5, <1>7, <1>8, <2>1 DEF IsJunk, last
<1>10. Whole = read
  BY <1>2, <1>4, <1>9, AllAreRead DEF Whole
<1>11. \A i \in 1 .. n - 1 : ~Concerns(read[i], ByTag[request])
  <2>1. ASSUME NEW i \in 1 .. n - 1 PROVE ~Concerns(read[i], ByTag[request])
    <3> DEFINE item == Script[i]
    <3>1. i \in 1 .. n /\ item.tag = LastResults.data
      BY <1>2, <1>5
    <3>2. item.tag = "LastResult"
      BY <3>1 DEF LastResults, Subscription
    <3>3. IsItem(item)
      BY <1>5, <3>1, ScenariosAssumption DEF Script
    <3>4. read[i] = Canonical(item)
      BY <1>5, <3>1
    <3> HIDE DEF item
    <3>5. "tag" \in DOMAIN item
      BY <3>2, <3>3 DEF IsItem, IsJunk, IsForeign, IsDefined
    <3>6. Canonical(item).tag = item.tag
      BY <3>2, <3>5, CanonicalKeeps
    <3>7. QED
      BY <1>3, <3>1, <3>4, <3>6, PushIsAboutNone
  <2>2. QED
    BY <2>1
<1>12. DOMAIN read = 1 .. n /\ read[n] = Canonical(last)
  BY <1>5 DEF last
<1> HIDE DEF read
<1>13. {i \in DOMAIN read : Concerns(read[i], ByTag[request])} = {n}
  <2>1. n \in 1 .. n
    BY <1>5
  <2>2. Concerns(read[n], ByTag[request])
    BY <1>7, <1>12
  <2>3. QED
    BY <1>8, <1>11, <1>12, <2>1, <2>2
<1>14. Min({n}) = n
  <2>1. {n} \in SUBSET Nat /\ {n} # {}
    BY <1>5
  <2>2. QED
    BY <2>1, MinIsLeast
<1>15. Outcome(read, ByTag[request])
         = IF last.tag = "CommandError" THEN "rejected" ELSE "answered"
  <2>1. read[n].tag = last.tag
    BY <1>7, <1>12
  <2>2. QED
    BY <1>7, <1>13, <1>14, <2>1 DEF Outcome
<1>16. Last(scenario.script) = last
  BY DEF Last, Script, last, n
<1>17. QED
  BY <1>2, <1>9, <1>10, <1>15, <1>16 DEF HasJunk, Script, Asked

\* RequestsAreAnswered holds of every request the module defines, whatever the
\* controller has stored, whatever it is told to refuse and however many
\* results it pushes first: request and reply are written and read.
THEOREM RepliesSettle == Spec => []RequestsAreAnswered
<1>1. SettledInv /\ NotLost => RequestsAreAnswered
  <2> SUFFICES ASSUME SettledInv, NotLost, scenario.exchange # {}, arrived = Len(stream)
               PROVE  outcome = IF Last(scenario.script).tag = "CommandError"
                                THEN "rejected" ELSE "answered"
    BY DEF RequestsAreAnswered
  <2>1. LinkInv /\ SettledByItsOwn /\ scenario \in Scenarios
    BY DEF SettledInv, LinkInv, LinkTyped
  <2>2. /\ request # NoRequest /\ ~HasJunk
        /\ Outcome(Whole, Asked)
             = IF Last(scenario.script).tag = "CommandError" THEN "rejected" ELSE "answered"
    BY <2>1, ReplySettles
  <2>3. got = Whole
    BY <2>1, <2>2, ReadInOrder DEF NotLost
  <2>4. QED
    BY <2>1, <2>2, <2>3 DEF SettledByItsOwn
<1>2. SettledInv /\ [Next]_vars => SettledInv'
  BY SettledStep
<1>3. LinkInv /\ NotLost /\ [Next]_vars => NotLost'
  BY NotLostStep
<1>4. SettledInv => LinkInv
  BY DEF SettledInv
<1>5. QED
  BY <1>1, <1>2, <1>3, <1>4, SettledInit, NotLostInit, PTL DEF Spec

==============================================================================
