---------------------------- MODULE LogScreenProofs ----------------------------
(***************************************************************************)
(* What the Logs screen holds is the log, and what is in view stays in     *)
(* view: for logs of any length, and tails, limits and screens of any      *)
(* size.                                                                   *)
(*                                                                         *)
(* The model's operators on texts are folds over sequences. What a fold    *)
(* returns for every sequence is proved from the function it recurs on,    *)
(* and induction over sequences from the least counterexample.             *)
(***************************************************************************)
EXTENDS LogScreen, SequenceTheorems, WellFoundedInduction, TLAPS

-----------------------------------------------------------------------------
(* Induction.                                                              *)

\* A set of naturals that is not empty has a least element.
LEMMA LeastNatural ==
  ASSUME NEW T \in SUBSET Nat, T # {}
  PROVE  \E m \in T : \A n \in T : m <= n
<1> DEFINE R == OpToRel(<, Nat)
<1>1. IsWellFoundedOn(R, Nat)
  BY NatLessThanWellFounded, Zenon
<1>2. \A x, y \in Nat : <<y, x>> \in R <=> y < x
  BY DEF OpToRel
<1> HIDE DEF R
<1>3. PICK x \in T : \A y \in T : ~ (<<y, x>> \in R)
  BY <1>1, WFMin, Zenon
<1>4. \A y \in T : ~ (y < x)
  BY <1>2, <1>3
<1>5. QED
  BY <1>4

\* A set of naturals that has 0 and every successor has all of them.
LEMMA Induction ==
  ASSUME NEW T \in SUBSET Nat, 0 \in T, \A n \in T : n + 1 \in T
  PROVE  T = Nat
<1> SUFFICES ASSUME Nat \ T # {} PROVE FALSE
  OBVIOUS
<1>1. PICK m \in Nat \ T : \A n \in Nat \ T : m <= n
  BY LeastNatural
<1>2. m # 0 /\ m - 1 \in Nat
  BY <1>1
<1>3. m - 1 \in T
  BY <1>1, <1>2
<1>4. m \in T
  BY <1>2, <1>3
<1>5. QED
  BY <1>1, <1>4

\* The same up to a bound.
LEMMA InductionUpTo ==
  ASSUME NEW N \in Nat, NEW T \in SUBSET (0..N), 0 \in T, \A n \in T : n < N => n + 1 \in T
  PROVE  T = 0..N
<1> DEFINE U == T \cup {n \in Nat : n > N}
<1>1. U \in SUBSET Nat /\ 0 \in U
  <2>1. \A n \in 0..N : n \in Nat
    OBVIOUS
  <2>2. T \in SUBSET Nat
    BY <2>1
  <2>3. QED
    BY <2>2
<1>2. \A n \in U : n + 1 \in U
  OBVIOUS
<1>3. U = Nat
  <2> HIDE DEF U
  <2>1. QED
    BY <1>1, <1>2, Induction
<1>4. \A n \in 0..N : n \in Nat /\ ~ (n > N)
  OBVIOUS
<1>5. \A n \in 0..N : n \in T
  BY <1>3, <1>4
<1>6. QED
  BY <1>5

\* Induction over the sequences.
LEMMA SequenceInduction ==
  ASSUME NEW W, NEW T \in SUBSET Seq(W), <<>> \in T, \A s \in T, x \in W : Append(s, x) \in T
  PROVE  T = Seq(W)
<1> DEFINE U == {n \in Nat : \A s \in Seq(W) : Len(s) = n => s \in T}
<1>1. 0 \in U
  BY EmptySeq
<1>2. ASSUME NEW n \in U PROVE n + 1 \in U
  <2>1. ASSUME NEW s \in Seq(W), Len(s) = n + 1 PROVE s \in T
    <3>1. n \in Nat
      OBVIOUS
    <3>2. PICK r \in Seq(W), x \in W : s = Append(r, x)
      <4>1. s # <<>>
        BY <2>1, <3>1
      <4>2. QED
        BY <4>1, SequenceEmptyOrAppend
    <3>3. Len(r) = n
      BY <2>1, <3>1, <3>2
    <3>4. r \in T
      BY <3>3
    <3>5. QED
      BY <3>2, <3>4
  <2>2. QED
    BY <2>1
<1>3. U = Nat
  <2>1. U \in SUBSET Nat
    OBVIOUS
  <2> HIDE DEF U
  <2>2. QED
    BY <1>1, <1>2, <2>1, Induction
<1>4. \A s \in Seq(W) : Len(s) \in U
  <2>1. \A s \in Seq(W) : Len(s) \in Nat
    OBVIOUS
  <2> HIDE DEF U
  <2>2. QED
    BY <1>3, <2>1
<1>5. QED
  BY <1>4

-----------------------------------------------------------------------------
\* The three folds, by name.
Base(kind) == IF kind = "split" THEN [lines |-> <<>>, rest |-> <<>>] ELSE <<>>
\* Their steps.
By(kind, v, x) ==
  IF kind = "split" THEN AddPart(v, x) ELSE IF kind = "keep" THEN Keep(v, x) ELSE Join(v, x)

\* F is the function a fold recurs on, over the sets of places of s; the fold is its value
\* at all of them.
FoldOf(F, kind, s, P) ==
  F = [S \in SUBSET P |-> IF S = {} THEN Base(kind) ELSE By(kind, F[S \ {Max(S)}], s[Max(S)])]
Folded(kind, s, v) == \E F : FoldOf(F, kind, s, 1..Len(s)) /\ v = F[1..Len(s)]

\* The last place, by which a fold recurs.
LEMMA MaxOfRange == ASSUME NEW k \in Nat, k > 0 PROVE Max(1..k) = k
BY DEF Max

LEMMA SetMax == ASSUME NEW n \in Nat, NEW S \in SUBSET (1..(n + 1)), n + 1 \in S PROVE Max(S) = n + 1
<1>1. \A y \in S : n + 1 >= y
  OBVIOUS
<1>2. \A x \in S : (\A y \in S : x >= y) => x = n + 1
  OBVIOUS
<1>3. Max(S) \in S /\ \A y \in S : Max(S) >= y
  BY <1>1 DEF Max
<1>4. QED
  BY <1>2, <1>3

\* There is such a function for one place more, and so for any number of them.
LEMMA FoldExtends ==
  ASSUME NEW n \in Nat, NEW s, NEW kind, NEW F, FoldOf(F, kind, s, 1..n)
  PROVE  \E G : FoldOf(G, kind, s, 1..(n + 1))
<1> DEFINE G == [S \in SUBSET (1..(n + 1)) |->
                   IF n + 1 \in S THEN By(kind, F[S \ {n + 1}], s[n + 1]) ELSE F[S]]
           E(S) == IF S = {} THEN Base(kind) ELSE By(kind, G[S \ {Max(S)}], s[Max(S)])
<1>1. ASSUME NEW S \in SUBSET (1..(n + 1)), n + 1 \in S
      PROVE  G[S] = E(S)
  <2>1. Max(S) = n + 1
    BY <1>1, SetMax
  <2>2. S \ {n + 1} \in SUBSET (1..n)
    BY <1>1
  <2>3. G[S \ {n + 1}] = F[S \ {n + 1}]
    BY <2>2
  <2>4. QED
    BY <1>1, <2>1, <2>3
<1>2. ASSUME NEW S \in SUBSET (1..(n + 1)), n + 1 \notin S
      PROVE  G[S] = E(S)
  <2>1. S \in SUBSET (1..n)
    BY <1>2
  <2>2. G[S \ {Max(S)}] = F[S \ {Max(S)}]
    <3> DEFINE m == Max(S)
    <3> HIDE DEF m
    <3>1. S \ {m} \in SUBSET (1..(n + 1)) /\ n + 1 \notin S \ {m}
      BY <1>2
    <3>2. G[S \ {m}] = F[S \ {m}]
      BY <3>1
    <3>3. QED
      BY <3>2 DEF m
  <2>3. F[S] = IF S = {} THEN Base(kind) ELSE By(kind, F[S \ {Max(S)}], s[Max(S)])
    BY <2>1 DEF FoldOf
  <2>4. G[S] = F[S]
    BY <1>2
  <2>5. QED
    BY <2>2, <2>3, <2>4
<1>3. G = [S \in SUBSET (1..(n + 1)) |-> E(S)]
  <2> HIDE DEF E
  <2>1. \A S \in SUBSET (1..(n + 1)) : G[S] = E(S)
    BY <1>1, <1>2
  <2>2. QED
    BY <2>1
<1>4. QED
  BY <1>3 DEF FoldOf

LEMMA FoldExists ==
  ASSUME NEW s, NEW kind
  PROVE  \A n \in Nat : \E F : FoldOf(F, kind, s, 1..n)
<1> DEFINE T == {n \in Nat : \E F : FoldOf(F, kind, s, 1..n)}
<1>1. 0 \in T
  <2>1. FoldOf([S \in SUBSET (1..0) |-> Base(kind)], kind, s, 1..0)
    BY DEF FoldOf
  <2>2. QED
    BY <2>1
<1>2. \A n \in T : n + 1 \in T
  BY FoldExtends
<1>3. T = Nat
  <2> HIDE DEF T
  <2>1. T \in SUBSET Nat
    BY DEF T
  <2>2. QED
    BY <1>1, <1>2, <2>1, Induction
<1>4. QED
  BY <1>3

\* The operators of the model are such folds.
LEMMA FoldsAreFolded ==
  ASSUME NEW W, NEW s \in Seq(W)
  PROVE  /\ Folded("split", s, SplitText(s))
         /\ Folded("keep", s, Matching(s))
         /\ Folded("join", s, Flatten(s))
<1>1. DOMAIN s = 1..Len(s) /\ Len(s) \in Nat
  OBVIOUS
<1>2. \A kind : \E F : FoldOf(F, kind, s, DOMAIN s)
  BY <1>1, FoldExists
<1>3. Folded("split", s, SplitText(s))
  <2> DEFINE Is(F) == F = [S \in SUBSET (DOMAIN s) |->
                             IF S = {} THEN [lines |-> <<>>, rest |-> <<>>] ELSE AddPart(F[S \ {Max(S)}], s[Max(S)])]
  <2>1. \A F : FoldOf(F, "split", s, DOMAIN s) <=> Is(F)
    BY DEF FoldOf, Base, By
  <2>2. \E F : Is(F)
    BY <1>2, <2>1
  <2>3. \E F : Is(F) /\ SplitText(s) = F[DOMAIN s]
    BY <2>2 DEF SplitText, FoldLeft, MapThenFoldSet
  <2>4. QED
    BY <1>1, <2>1, <2>3 DEF Folded
<1>4. Folded("keep", s, Matching(s))
  <2> DEFINE Is(F) == F = [S \in SUBSET (DOMAIN s) |->
                             IF S = {} THEN <<>> ELSE Keep(F[S \ {Max(S)}], s[Max(S)])]
  <2>1. \A F : FoldOf(F, "keep", s, DOMAIN s) <=> Is(F)
    BY DEF FoldOf, Base, By
  <2>2. \E F : Is(F)
    BY <1>2, <2>1
  <2>3. \E F : Is(F) /\ Matching(s) = F[DOMAIN s]
    BY <2>2 DEF Matching, FoldLeft, MapThenFoldSet
  <2>4. QED
    BY <1>1, <2>1, <2>3 DEF Folded
<1>5. Folded("join", s, Flatten(s))
  <2> DEFINE Is(F) == F = [S \in SUBSET (DOMAIN s) |->
                             IF S = {} THEN <<>> ELSE Join(F[S \ {Max(S)}], s[Max(S)])]
  <2>1. \A F : FoldOf(F, "join", s, DOMAIN s) <=> Is(F)
    BY DEF FoldOf, Base, By
  <2>2. \E F : Is(F)
    BY <1>2, <2>1
  <2>3. \E F : Is(F) /\ Flatten(s) = F[DOMAIN s]
    BY <2>2 DEF Flatten, FoldLeft, MapThenFoldSet
  <2>4. QED
    BY <1>1, <2>1, <2>3 DEF Folded
<1>6. QED
  BY <1>3, <1>4, <1>5

\* A fold takes its base for no elements and its step for one more.
LEMMA FoldOfNone == ASSUME NEW kind, NEW v, Folded(kind, <<>>, v) PROVE v = Base(kind)
BY DEF Folded, FoldOf

LEMMA FoldOfAppend ==
  ASSUME NEW W, NEW s \in Seq(W), NEW x \in W, NEW kind, NEW v, NEW u,
         Folded(kind, s, v), Folded(kind, Append(s, x), u)
  PROVE  u = By(kind, v, x)
<1> DEFINE t == Append(s, x)
           n == Len(s)
<1>1. n \in Nat /\ Len(t) = n + 1 /\ t[n + 1] = x /\ \A m \in 1..n : t[m] = s[m]
  OBVIOUS
<1>2. PICK F : FoldOf(F, kind, s, 1..n) /\ v = F[1..n]
  BY DEF Folded
<1>3. PICK G : FoldOf(G, kind, t, 1..(n + 1)) /\ u = G[1..(n + 1)]
  BY <1>1 DEF Folded
<1> HIDE DEF t, n
<1>4. ASSUME NEW H, NEW r, NEW k \in Nat, NEW m \in 1..k, FoldOf(H, kind, r, 1..k)
      PROVE  H[1..m] = By(kind, H[1..(m - 1)], r[m])
  <2>1. Max(1..m) = m
    BY MaxOfRange
  <2>2. (1..m) \ {m} = 1..(m - 1)
    OBVIOUS
  <2>3. 1..m \in SUBSET (1..k) /\ 1..m # {}
    <3>1. m \in Nat /\ m >= 1 /\ m <= k /\ 1 \in 1..m
      OBVIOUS
    <3>2. \A j \in 1..m : j \in 1..k
      BY <3>1
    <3>3. QED
      BY <3>1, <3>2
  <2>4. H[1..m] = By(kind, H[(1..m) \ {Max(1..m)}], r[Max(1..m)])
    BY <1>4, <2>3 DEF FoldOf
  <2>5. QED
    BY <2>1, <2>2, <2>4
<1> DEFINE T == {m \in 0..n : G[1..m] = F[1..m]}
<1>5. 0 \in T
  <2>1. 1..0 = {} /\ 0 \in 0..n
    BY <1>1
  <2>2. F[{}] = Base(kind) /\ G[{}] = Base(kind)
    BY <1>2, <1>3 DEF FoldOf
  <2>3. QED
    BY <2>1, <2>2
<1>6. ASSUME NEW m \in T, m < n PROVE m + 1 \in T
  <2>1. m + 1 \in 1..n /\ m + 1 \in 1..(n + 1) /\ (m + 1) - 1 = m /\ m + 1 \in 0..n
    BY <1>1, <1>6
  <2>2. F[1..(m + 1)] = By(kind, F[1..((m + 1) - 1)], s[m + 1])
    BY <1>1, <1>2, <1>4, <2>1
  <2>3. G[1..(m + 1)] = By(kind, G[1..((m + 1) - 1)], t[m + 1])
    BY <1>1, <1>3, <1>4, <2>1
  <2>4. t[m + 1] = s[m + 1]
    BY <1>1, <2>1
  <2>5. QED
    BY <2>1, <2>2, <2>3, <2>4
<1>7. T = 0..n
  <2>1. T \in SUBSET (0..n)
    OBVIOUS
  <2> HIDE DEF T
  <2>2. QED
    BY <1>1, <1>5, <1>6, <2>1, InductionUpTo
<1>8. G[1..n] = F[1..n]
  <2>1. n \in 0..n
    BY <1>1
  <2>2. n \in T
    BY <1>7, <2>1
  <2>3. QED
    BY <2>2
<1>9. G[1..(n + 1)] = By(kind, G[1..n], t[n + 1])
  <2>1. n + 1 \in 1..(n + 1) /\ (n + 1) - 1 = n /\ n + 1 \in Nat
    BY <1>1
  <2>2. G[1..(n + 1)] = By(kind, G[1..((n + 1) - 1)], t[n + 1])
    BY <1>3, <1>4, <2>1
  <2>3. QED
    BY <2>1, <2>2
<1>10. QED
  BY <1>1, <1>2, <1>3, <1>8, <1>9

-----------------------------------------------------------------------------
\* The laws of the folds.
LEMMA FlattenNone == Flatten(<<>>) = <<>>
<1>1. <<>> \in Seq({})
  BY EmptySeq
<1>2. QED
  BY <1>1, FoldsAreFolded, FoldOfNone DEF Base

LEMMA FlattenAppend ==
  ASSUME NEW W, NEW ls \in Seq(W), NEW x \in W
  PROVE  Flatten(Append(ls, x)) = Flatten(ls) \o x
<1>1. Append(ls, x) \in Seq(W)
  OBVIOUS
<1>2. Folded("join", ls, Flatten(ls)) /\ Folded("join", Append(ls, x), Flatten(Append(ls, x)))
  BY <1>1, FoldsAreFolded
<1>3. Flatten(Append(ls, x)) = By("join", Flatten(ls), x)
  BY <1>2, FoldOfAppend
<1>4. QED
  BY <1>3 DEF By, Join

\* The same of the filter.
LEMMA MatchingNone == Matching(<<>>) = <<>>
<1>1. <<>> \in Seq({})
  BY EmptySeq
<1>2. QED
  BY <1>1, FoldsAreFolded, FoldOfNone DEF Base

LEMMA MatchingAppend ==
  ASSUME NEW W, NEW ls \in Seq(W), NEW x \in W
  PROVE  Matching(Append(ls, x)) = IF Holds(x) THEN Append(Matching(ls), x) ELSE Matching(ls)
<1>1. Append(ls, x) \in Seq(W)
  OBVIOUS
<1>2. Folded("keep", ls, Matching(ls)) /\ Folded("keep", Append(ls, x), Matching(Append(ls, x)))
  BY <1>1, FoldsAreFolded
<1>3. Matching(Append(ls, x)) = By("keep", Matching(ls), x)
  BY <1>2, FoldOfAppend
<1>4. QED
  BY <1>3 DEF By, Keep

\* The same of the split at the newlines.
LEMMA SplitNone == Lines(<<>>) = <<>> /\ Remainder(<<>>) = <<>>
<1>1. <<>> \in Seq({})
  BY EmptySeq
<1>2. SplitText(<<>>) = [lines |-> <<>>, rest |-> <<>>]
  BY <1>1, FoldsAreFolded, FoldOfNone DEF Base
<1>3. QED
  BY <1>2 DEF Lines, Remainder

LEMMA SplitAppend ==
  ASSUME NEW W, NEW t \in Seq(W), NEW p \in W
  PROVE  /\ Lines(Append(t, p)) = IF p.tail THEN Append(Lines(t), Append(Remainder(t), p)) ELSE Lines(t)
         /\ Remainder(Append(t, p)) = IF p.tail THEN <<>> ELSE Append(Remainder(t), p)
<1>1. Append(t, p) \in Seq(W)
  OBVIOUS
<1>2. Folded("split", t, SplitText(t)) /\ Folded("split", Append(t, p), SplitText(Append(t, p)))
  BY <1>1, FoldsAreFolded
<1>3. SplitText(Append(t, p)) = By("split", SplitText(t), p)
  BY <1>2, FoldOfAppend
<1>4. SplitText(Append(t, p)) = AddPart(SplitText(t), p)
  BY <1>3 DEF By
<1>5. CASE p.tail
  BY <1>4, <1>5 DEF AddPart, Lines, Remainder
<1>6. CASE ~p.tail
  BY <1>4, <1>6 DEF AddPart, Lines, Remainder
<1>7. QED
  BY <1>5, <1>6

\* The text of some lines is a text, and of one line after another the one text after the
\* other.
LEMMA FlattenType ==
  ASSUME NEW W
  PROVE  \A ls \in Seq(Seq(W)) : Flatten(ls) \in Seq(W)
<1> DEFINE T == {ls \in Seq(Seq(W)) : Flatten(ls) \in Seq(W)}
<1>1. <<>> \in T
  BY FlattenNone, EmptySeq
<1>2. ASSUME NEW ls \in T, NEW x \in Seq(W) PROVE Append(ls, x) \in T
  <2>1. ls \in Seq(Seq(W)) /\ Flatten(ls) \in Seq(W) /\ Append(ls, x) \in Seq(Seq(W))
    OBVIOUS
  <2>2. Flatten(Append(ls, x)) = Flatten(ls) \o x
    BY <2>1, FlattenAppend
  <2>3. Flatten(ls) \o x \in Seq(W)
    BY <2>1, ConcatProperties
  <2>4. QED
    BY <2>1, <2>2, <2>3
<1>3. T = Seq(Seq(W))
  <2>1. T \in SUBSET Seq(Seq(W))
    OBVIOUS
  <2> HIDE DEF T
  <2>2. QED
    BY <1>1, <1>2, <2>1, SequenceInduction
<1>4. QED
  BY <1>3

LEMMA FlattenConcat ==
  ASSUME NEW W, NEW ls \in Seq(Seq(W))
  PROVE  \A ms \in Seq(Seq(W)) : Flatten(ls \o ms) = Flatten(ls) \o Flatten(ms)
<1> DEFINE T == {ms \in Seq(Seq(W)) : Flatten(ls \o ms) = Flatten(ls) \o Flatten(ms)}
<1>0. Flatten(ls) \in Seq(W)
  BY FlattenType
<1>1. <<>> \in T
  <2>1. ls \o <<>> = ls /\ Flatten(ls) \o <<>> = Flatten(ls) /\ <<>> \in Seq(Seq(W))
    BY <1>0, ConcatEmptySeq, EmptySeq
  <2>2. QED
    BY <2>1, FlattenNone
<1>2. ASSUME NEW ms \in T, NEW x \in Seq(W) PROVE Append(ms, x) \in T
  <2>1. /\ ms \in Seq(Seq(W)) /\ Flatten(ls \o ms) = Flatten(ls) \o Flatten(ms)
        /\ Append(ms, x) \in Seq(Seq(W)) /\ ls \o ms \in Seq(Seq(W)) /\ Flatten(ms) \in Seq(W)
    BY FlattenType, ConcatProperties
  <2>2. ls \o Append(ms, x) = Append(ls \o ms, x)
    BY <2>1
  <2>3. Flatten(Append(ls \o ms, x)) = Flatten(ls \o ms) \o x
    BY <2>1, FlattenAppend
  <2>4. Flatten(Append(ms, x)) = Flatten(ms) \o x
    BY <2>1, FlattenAppend
  <2>5. (Flatten(ls) \o Flatten(ms)) \o x = Flatten(ls) \o (Flatten(ms) \o x)
    BY <1>0, <2>1, ConcatAssociative
  <2>6. QED
    BY <2>1, <2>2, <2>3, <2>4, <2>5
<1>3. T = Seq(Seq(W))
  <2>1. T \in SUBSET Seq(Seq(W))
    OBVIOUS
  <2> HIDE DEF T
  <2>2. QED
    BY <1>1, <1>2, <2>1, SequenceInduction
<1>4. QED
  BY <1>3

\* The text of one line is that line.
LEMMA FlattenOne ==
  ASSUME NEW W, NEW x \in Seq(W)
  PROVE  Flatten(<<x>>) = x
<1>1. <<x>> = Append(<<>>, x) /\ <<>> \in Seq(Seq(W)) /\ <<>> \o x = x
  BY EmptySeq, ConcatEmptySeq
<1>2. QED
  BY <1>1, FlattenNone, FlattenAppend

\* What the filter lets pass is some of the lines, and it takes lines one by one.
LEMMA MatchingType ==
  ASSUME NEW W
  PROVE  \A ls \in Seq(W) : /\ Matching(ls) \in Seq(W)
                            /\ \A j \in DOMAIN Matching(ls) : \E i \in DOMAIN ls : ls[i] = Matching(ls)[j]
<1> DEFINE P(ls) == /\ Matching(ls) \in Seq(W)
                    /\ \A j \in DOMAIN Matching(ls) : \E i \in DOMAIN ls : ls[i] = Matching(ls)[j]
           T == {ls \in Seq(W) : P(ls)}
<1>1. <<>> \in T
  BY MatchingNone, EmptySeq
<1>2. ASSUME NEW ls \in T, NEW x \in W PROVE Append(ls, x) \in T
  <2> DEFINE m == Matching(ls)
             ms == Append(ls, x)
  <2>1. ls \in Seq(W) /\ m \in Seq(W) /\ ms \in Seq(W)
    OBVIOUS
  <2>2. \A j \in DOMAIN m : \E i \in DOMAIN ls : ls[i] = m[j]
    OBVIOUS
  <2>3. Matching(ms) = IF Holds(x) THEN Append(m, x) ELSE m
    BY <2>1, MatchingAppend
  <2> HIDE DEF m
  <2>4. \A i \in DOMAIN ls : i \in DOMAIN ms /\ ms[i] = ls[i]
    BY <2>1
  <2>5. Len(ls) + 1 \in DOMAIN ms /\ ms[Len(ls) + 1] = x
    BY <2>1
  <2> HIDE DEF ms
  <2>6. \A j \in DOMAIN m : \E i \in DOMAIN ms : ms[i] = m[j]
    BY <2>2, <2>4
  <2>7. CASE Holds(x)
    <3>1. Append(m, x) \in Seq(W)
      BY <2>1
    <3>2. ASSUME NEW j \in DOMAIN Append(m, x) PROVE \E i \in DOMAIN ms : ms[i] = Append(m, x)[j]
      <4>1. CASE j \in DOMAIN m
        BY <2>1, <2>6, <4>1
      <4>2. CASE j \notin DOMAIN m
        BY <2>1, <2>5, <4>2
      <4>3. QED
        BY <4>1, <4>2
    <3>3. QED
      BY <2>1, <2>3, <2>7, <3>1, <3>2 DEF ms
  <2>8. CASE ~Holds(x)
    BY <2>1, <2>3, <2>6, <2>8 DEF ms
  <2>9. QED
    BY <2>7, <2>8
<1>3. T = Seq(W)
  <2>1. T \in SUBSET Seq(W)
    OBVIOUS
  <2> HIDE DEF T
  <2>2. QED
    BY <1>1, <1>2, <2>1, SequenceInduction
<1>4. QED
  BY <1>3

LEMMA MatchingConcat ==
  ASSUME NEW W, NEW ls \in Seq(W)
  PROVE  \A ms \in Seq(W) : Matching(ls \o ms) = Matching(ls) \o Matching(ms)
<1> DEFINE T == {ms \in Seq(W) : Matching(ls \o ms) = Matching(ls) \o Matching(ms)}
<1>0. Matching(ls) \in Seq(W)
  BY MatchingType
<1>1. <<>> \in T
  <2>1. ls \o <<>> = ls /\ Matching(ls) \o <<>> = Matching(ls) /\ <<>> \in Seq(W)
    BY <1>0, ConcatEmptySeq, EmptySeq
  <2>2. QED
    BY <2>1, MatchingNone
<1>2. ASSUME NEW ms \in T, NEW x \in W PROVE Append(ms, x) \in T
  <2>1. /\ ms \in Seq(W) /\ Matching(ls \o ms) = Matching(ls) \o Matching(ms)
        /\ Append(ms, x) \in Seq(W) /\ ls \o ms \in Seq(W) /\ Matching(ms) \in Seq(W)
    BY MatchingType, ConcatProperties
  <2>2. ls \o Append(ms, x) = Append(ls \o ms, x)
    BY <2>1
  <2>3. Matching(Append(ls \o ms, x)) = IF Holds(x) THEN Append(Matching(ls \o ms), x) ELSE Matching(ls \o ms)
    BY <2>1, MatchingAppend
  <2>4. Matching(Append(ms, x)) = IF Holds(x) THEN Append(Matching(ms), x) ELSE Matching(ms)
    BY <2>1, MatchingAppend
  <2> DEFINE a == Matching(ls)
             b == Matching(ms)
  <2> HIDE DEF T
  <2>5. Append(a \o b, x) = a \o Append(b, x)
    <3> HIDE DEF a, b
    <3>1. a \in Seq(W) /\ b \in Seq(W)
      BY <1>0, <2>1 DEF a, b
    <3>2. QED
      BY <3>1
  <2>6. QED
    BY <2>1, <2>2, <2>3, <2>4, <2>5 DEF T
<1>3. T = Seq(W)
  <2>1. T \in SUBSET Seq(W)
    OBVIOUS
  <2> HIDE DEF T
  <2>2. QED
    BY <1>1, <1>2, <2>1, SequenceInduction
<1>4. QED
  BY <1>3

\* Nothing of the text is lost at the newlines.
LEMMA SplitWhole ==
  \A t \in Text : /\ Lines(t) \in Seq(Text) /\ Remainder(t) \in Text
                  /\ Flatten(Lines(t)) \o Remainder(t) = t
<1> DEFINE P(t) == /\ Lines(t) \in Seq(Text) /\ Remainder(t) \in Text
                   /\ Flatten(Lines(t)) \o Remainder(t) = t
           T == {t \in Text : P(t)}
<1>0. Text = Seq(Part)
  BY DEF Text
<1>1. <<>> \in T
  <2>1. <<>> \in Seq(Part) /\ <<>> \in Seq(Seq(Part)) /\ <<>> \o <<>> = <<>>
    BY EmptySeq, ConcatEmptySeq
  <2>2. QED
    BY <1>0, <2>1, SplitNone, FlattenNone
<1>2. ASSUME NEW t \in T, NEW p \in Part PROVE Append(t, p) \in T
  <2> DEFINE ls == Lines(t)
             r == Remainder(t)
             u == Append(t, p)
  <2>1. /\ t \in Seq(Part) /\ ls \in Seq(Seq(Part)) /\ r \in Seq(Part) /\ Flatten(ls) \o r = t
        /\ Append(r, p) \in Seq(Part) /\ u \in Seq(Part)
    BY <1>0
  <2>2. Flatten(ls) \in Seq(Part)
    BY <2>1, FlattenType
  <2>3. /\ Lines(u) = IF p.tail THEN Append(ls, Append(r, p)) ELSE ls
        /\ Remainder(u) = IF p.tail THEN <<>> ELSE Append(r, p)
    BY <2>1, SplitAppend
  <2> HIDE DEF ls, r
  <2>4. Flatten(ls) \o Append(r, p) = Append(Flatten(ls) \o r, p)
    BY <2>1, <2>2
  <2>5. CASE p.tail
    <3>1. Lines(u) = Append(ls, Append(r, p)) /\ Remainder(u) = <<>>
      BY <2>3, <2>5
    <3>2. Flatten(Lines(u)) = Flatten(ls) \o Append(r, p)
      BY <2>1, <3>1, FlattenAppend
    <3>3. Flatten(Lines(u)) \o Remainder(u) = u
      BY <2>1, <2>4, <3>1, <3>2, ConcatEmptySeq
    <3>4. Lines(u) \in Seq(Seq(Part)) /\ Remainder(u) \in Seq(Part)
      BY <2>1, <3>1, EmptySeq
    <3>5. QED
      BY <1>0, <2>1, <3>3, <3>4
  <2>6. CASE ~p.tail
    <3>1. Lines(u) = ls /\ Remainder(u) = Append(r, p)
      BY <2>3, <2>6
    <3>2. Flatten(Lines(u)) \o Remainder(u) = u
      BY <2>1, <2>4, <3>1
    <3>3. Lines(u) \in Seq(Seq(Part)) /\ Remainder(u) \in Seq(Part)
      BY <2>1, <3>1
    <3>4. QED
      BY <1>0, <2>1, <3>2, <3>3
  <2>7. QED
    BY <2>5, <2>6
<1>3. T = Seq(Part)
  <2>1. T \in SUBSET Seq(Part)
    BY <1>0
  <2> HIDE DEF T
  <2>2. QED
    BY <1>1, <1>2, <2>1, SequenceInduction
<1>4. QED
  BY <1>0, <1>3

\* Heads and tails take turns.
TakesTurns(t) == \A i \in 1..(Len(t) - 1) : (t[i + 1].tail <=> ~t[i].tail)

\* A text where they do is split in whole lines, but for a tail it begins with and a head it
\* ends in.
LEMMA SplitInLines ==
  \A t \in Text : TakesTurns(t) =>
    /\ \A i \in DOMAIN Lines(t) : Len(Lines(t)[i]) = 2 \/ (t # <<>> /\ Lines(t)[i] = <<t[1]>>)
    /\ \A i \in DOMAIN Lines(t) : Lines(t)[i] # <<>> /\ Lines(t)[i][Len(Lines(t)[i])].tail
    /\ Remainder(t) = <<>> => t = <<>> \/ t[Len(t)].tail
    /\ Remainder(t) # <<>> => t # <<>> /\ Remainder(t) = <<t[Len(t)]>> /\ ~t[Len(t)].tail
<1> DEFINE P(t) ==
      /\ \A i \in DOMAIN Lines(t) : Len(Lines(t)[i]) = 2 \/ (t # <<>> /\ Lines(t)[i] = <<t[1]>>)
      /\ \A i \in DOMAIN Lines(t) : Lines(t)[i] # <<>> /\ Lines(t)[i][Len(Lines(t)[i])].tail
      /\ Remainder(t) = <<>> => t = <<>> \/ t[Len(t)].tail
      /\ Remainder(t) # <<>> => t # <<>> /\ Remainder(t) = <<t[Len(t)]>> /\ ~t[Len(t)].tail
    T == {t \in Text : TakesTurns(t) => P(t)}
<1>0. Text = Seq(Part)
  BY DEF Text
<1>1. <<>> \in T
  <2>1. <<>> \in Seq(Part) /\ DOMAIN <<>> = {}
    BY EmptySeq
  <2>2. QED
    BY <1>0, <2>1, SplitNone
<1>2. ASSUME NEW t \in T, NEW p \in Part PROVE Append(t, p) \in T
  <2> DEFINE ls == Lines(t)
             r == Remainder(t)
             u == Append(t, p)
  <2>1. /\ t \in Seq(Part) /\ ls \in Seq(Seq(Part)) /\ r \in Seq(Part) /\ u \in Seq(Part)
        /\ Len(u) = Len(t) + 1 /\ u[Len(u)] = p /\ u # <<>> /\ Len(t) \in Nat
        /\ \A i \in 1..Len(t) : u[i] = t[i]
    <3>1. t \in Seq(Part) /\ ls \in Seq(Seq(Part)) /\ r \in Seq(Part)
      BY <1>0, SplitWhole
    <3> HIDE DEF ls, r
    <3>2. QED
      BY <3>1
  <2>2. SUFFICES ASSUME TakesTurns(u) PROVE P(u)
    BY <1>0, <2>1
  <2>3. TakesTurns(t) /\ (t # <<>> => (p.tail <=> ~t[Len(t)].tail))
    <3>1. \A i \in 1..(Len(t) - 1) : i \in 1..(Len(u) - 1) /\ i \in 1..Len(t) /\ i + 1 \in 1..Len(t)
      BY <2>1
    <3>2. TakesTurns(t)
      BY <2>1, <2>2, <3>1 DEF TakesTurns
    <3>3. ASSUME t # <<>> PROVE p.tail <=> ~t[Len(t)].tail
      <4>1. Len(t) \in 1..(Len(u) - 1) /\ Len(t) \in 1..Len(t) /\ Len(t) + 1 = Len(u)
        BY <2>1, <3>3
      <4>2. QED
        BY <2>1, <2>2, <4>1 DEF TakesTurns
    <3>4. QED
      BY <3>2, <3>3
  <2>4. P(t)
    BY <2>3
  <2>5. /\ Lines(u) = IF p.tail THEN Append(ls, Append(r, p)) ELSE ls
        /\ Remainder(u) = IF p.tail THEN <<>> ELSE Append(r, p)
    BY <2>1, SplitAppend
  <2>6. t # <<>> => u[1] = t[1]
    BY <2>1
  <2>7. \A i \in DOMAIN ls : /\ Len(ls[i]) = 2 \/ ls[i] = <<u[1]>>
                            /\ ls[i] # <<>> /\ ls[i][Len(ls[i])].tail
    BY <2>4, <2>6
  <2>8. r = <<>> => t = <<>> \/ t[Len(t)].tail
    BY <2>4
  <2>9. r # <<>> => t # <<>> /\ r = <<t[Len(t)]>> /\ ~t[Len(t)].tail
    BY <2>4
  <2> HIDE DEF T, ls, r
  <2>10. CASE p.tail
    <3>1. r # <<>> => Len(Append(r, p)) = 2
      <4>1. r # <<>> => Len(r) = 1
        BY <2>9
      <4> DEFINE n == Len(r)
                 m == Len(Append(r, p))
      <4>2. m = n + 1
        BY <2>1, AppendProperties
      <4> HIDE DEF n, m
      <4>3. r # <<>> => m = 2
        <5>1. r # <<>> => n = 1
          BY <4>1, Zenon DEF n
        <5>2. QED
          BY <4>2, <5>1
      <4>4. QED
        BY <4>3, Zenon DEF m
    <3>2. r = <<>> => Append(r, p) = <<p>> /\ t = <<>>
      <4>1. r = <<>> => t = <<>>
        BY <2>3, <2>8, <2>10
      <4>2. Append(<<>>, p) = <<p>>
        OBVIOUS
      <4>3. QED
        BY <4>1, <4>2
    <3>3. t = <<>> => u[1] = p
      <4>1. t = <<>> => Len(t) = 0
        OBVIOUS
      <4>2. t = <<>> => Len(u) = 1
        BY <2>1, <4>1
      <4>3. QED
        BY <2>1, <4>2
    <3> DEFINE x == Append(r, p)
    <3>4. x # <<>> /\ x[Len(x)] = p /\ x \in Seq(Part)
      BY <2>1, AppendProperties
    <3>5. Len(x) = 2 \/ x = <<u[1]>>
      BY <3>1, <3>2, <3>3
    <3>6. Lines(u) = Append(ls, x) /\ Remainder(u) = <<>>
      BY <2>5, <2>10
    <3> HIDE DEF x
    <3>7. ASSUME NEW i \in DOMAIN Append(ls, x)
          PROVE  (i \in DOMAIN ls /\ Append(ls, x)[i] = ls[i]) \/ Append(ls, x)[i] = x
      <4>1. Append(ls, x) \in Seq(Seq(Part)) /\ Len(Append(ls, x)) = Len(ls) + 1 /\ Len(ls) \in Nat
        BY <2>1, <3>4
      <4>2. i \in 1..Len(ls) \/ i = Len(ls) + 1
        BY <4>1
      <4>3. QED
        BY <2>1, <3>4, <4>2
    <3>8. \A i \in DOMAIN Lines(u) : Len(Lines(u)[i]) = 2 \/ (u # <<>> /\ Lines(u)[i] = <<u[1]>>)
      BY <2>1, <2>7, <3>5, <3>6, <3>7
    <3>9. \A i \in DOMAIN Lines(u) : Lines(u)[i] # <<>> /\ Lines(u)[i][Len(Lines(u)[i])].tail
      BY <2>7, <2>10, <3>4, <3>6, <3>7
    <3>10. QED
      BY <2>1, <2>10, <3>6, <3>8, <3>9
  <2>11. CASE ~p.tail
    <3>1. r = <<>>
      BY <2>3, <2>9, <2>11
    <3>2. Lines(u) = ls /\ Remainder(u) = <<p>>
      BY <2>5, <2>11, <3>1
    <3>3. QED
      BY <2>1, <2>7, <2>11, <3>2
  <2>12. QED
    BY <2>10, <2>11
<1>3. T = Seq(Part)
  <2>1. T \in SUBSET Seq(Part)
    BY <1>0
  <2> HIDE DEF T
  <2>2. QED
    BY <1>1, <1>2, <2>1, SequenceInduction
<1>4. QED
  BY <1>0, <1>3

-----------------------------------------------------------------------------
\* A part of a line is a part of the text.
LEMMA PartsOfFlatten ==
  ASSUME NEW W
  PROVE  \A ls \in Seq(Seq(W)) : \A i \in DOMAIN ls : \A k \in DOMAIN ls[i] :
           \E n \in DOMAIN Flatten(ls) : Flatten(ls)[n] = ls[i][k]
<1> DEFINE P(ls) == \A i \in DOMAIN ls : \A k \in DOMAIN ls[i] :
                      \E n \in DOMAIN Flatten(ls) : Flatten(ls)[n] = ls[i][k]
           T == {ls \in Seq(Seq(W)) : P(ls)}
<1>1. <<>> \in T
  BY EmptySeq
<1>2. ASSUME NEW ls \in T, NEW x \in Seq(W) PROVE Append(ls, x) \in T
  <2> DEFINE f == Flatten(ls)
             ms == Append(ls, x)
             g == Flatten(ms)
  <2>1. ls \in Seq(Seq(W)) /\ P(ls)
    OBVIOUS
  <2>2. f \in Seq(W) /\ ms \in Seq(Seq(W)) /\ g = f \o x
    BY <2>1, FlattenType, FlattenAppend
  <2> HIDE DEF T
  <2>3. \A i \in DOMAIN ms : (i \in DOMAIN ls /\ ms[i] = ls[i]) \/ ms[i] = x
    BY <2>1
  <2>4. \A i \in DOMAIN ls : \A k \in DOMAIN ls[i] : \E n \in DOMAIN f : f[n] = ls[i][k]
    BY <2>1
  <2> HIDE DEF f, g, ms
  <2>5. \A n \in DOMAIN f : n \in DOMAIN g /\ g[n] = f[n]
    BY <2>2
  <2>6. \A k \in DOMAIN x : Len(f) + k \in DOMAIN g /\ g[Len(f) + k] = x[k]
    BY <2>2
  <2>7. ASSUME NEW i \in DOMAIN ms, NEW k \in DOMAIN ms[i]
        PROVE  \E n \in DOMAIN g : g[n] = ms[i][k]
    <3>1. CASE i \in DOMAIN ls /\ ms[i] = ls[i]
      BY <2>4, <2>5, <3>1
    <3>2. CASE ms[i] = x
      BY <2>6, <3>2
    <3>3. QED
      BY <2>3, <3>1, <3>2
  <2>8. QED
    BY <2>2, <2>7 DEF T, g, ms
<1>3. T = Seq(Seq(W))
  <2>1. T \in SUBSET Seq(Seq(W))
    OBVIOUS
  <2> HIDE DEF T
  <2>2. QED
    BY <1>1, <1>2, <2>1, SequenceInduction
<1>4. QED
  BY <1>3

\* No element comes twice.
Distinct(s) == \A i, j \in DOMAIN s : s[i] = s[j] => i = j

\* Lines of a text whose parts are distinct are distinct.
LEMMA LinesAreDistinct ==
  ASSUME NEW W
  PROVE  \A ls \in Seq(Seq(W)) :
           (\A i \in DOMAIN ls : ls[i] # <<>>) /\ Distinct(Flatten(ls)) => Distinct(ls)
<1> DEFINE P(ls) == (\A i \in DOMAIN ls : ls[i] # <<>>) /\ Distinct(Flatten(ls)) => Distinct(ls)
           T == {ls \in Seq(Seq(W)) : P(ls)}
<1>1. <<>> \in T
  BY EmptySeq DEF Distinct
<1>2. ASSUME NEW ls \in T, NEW x \in Seq(W) PROVE Append(ls, x) \in T
  <2> DEFINE f == Flatten(ls)
             ms == Append(ls, x)
             g == Flatten(ms)
  <2>1. ls \in Seq(Seq(W)) /\ P(ls)
    OBVIOUS
  <2>2. f \in Seq(W) /\ ms \in Seq(Seq(W)) /\ g = f \o x
    BY <2>1, FlattenType, FlattenAppend
  <2> HIDE DEF T
  <2>3. /\ \A i \in DOMAIN ls : i \in DOMAIN ms /\ ms[i] = ls[i]
        /\ DOMAIN ms = DOMAIN ls \cup {Len(ls) + 1} /\ ms[Len(ls) + 1] = x
    BY <2>1
  <2>4. \A i \in DOMAIN ls : \A k \in DOMAIN ls[i] : \E n \in DOMAIN f : f[n] = ls[i][k]
    BY <2>1, PartsOfFlatten
  <2>5. P(ls) /\ (Distinct(f) /\ (\A i \in DOMAIN ls : ls[i] # <<>>) => Distinct(ls))
    BY <2>1
  <2> HIDE DEF f, g, ms
  <2>6. \A n \in DOMAIN f : n \in DOMAIN g /\ g[n] = f[n]
    BY <2>2
  <2>7. \A k \in DOMAIN x : Len(f) + k \in DOMAIN g /\ g[Len(f) + k] = x[k] /\ Len(f) + k \notin DOMAIN f
    BY <2>2
  <2>8. ASSUME \A i \in DOMAIN ms : ms[i] # <<>>, Distinct(g) PROVE Distinct(ms)
    <3>1. Distinct(f)
      BY <2>6, <2>8 DEF Distinct
    <3>2. Distinct(ls)
      BY <2>3, <2>5, <2>8, <3>1
    <3>3. x # <<>> /\ 1 \in DOMAIN x
      BY <2>3, <2>8
    <3>4. \A i \in DOMAIN ls : ls[i] # x
      <4>1. SUFFICES ASSUME NEW i \in DOMAIN ls, ls[i] = x PROVE FALSE
        OBVIOUS
      <4>2. PICK n \in DOMAIN f : f[n] = x[1]
        BY <2>4, <3>3, <4>1
      <4>3. g[n] = g[Len(f) + 1] /\ n \in DOMAIN g /\ Len(f) + 1 \in DOMAIN g /\ Len(f) + 1 \notin DOMAIN f
        BY <2>6, <2>7, <3>3, <4>2
      <4>4. n = Len(f) + 1
        BY <2>8, <4>3 DEF Distinct
      <4>5. QED
        BY <4>2, <4>3, <4>4
    <3>5. QED
      BY <2>3, <3>2, <3>4 DEF Distinct
  <2>9. QED
    BY <2>2, <2>8 DEF T, g, ms
<1>3. T = Seq(Seq(W))
  <2>1. T \in SUBSET Seq(Seq(W))
    OBVIOUS
  <2> HIDE DEF T
  <2>2. QED
    BY <1>1, <1>2, <2>1, SequenceInduction
<1>4. QED
  BY <1>3

\* The last lines kept are an end of all of them.
LEMMA LastNIsAnEnd ==
  ASSUME NEW W, NEW s \in Seq(W), NEW n \in Nat
  PROVE  /\ LastN(s, n) \in Seq(W) /\ Len(LastN(s, n)) <= n
         /\ \E d \in Seq(W) : s = d \o LastN(s, n) /\ (Len(LastN(s, n)) < n => d = <<>>)
<1>1. CASE Len(s) <= n
  <2>1. LastN(s, n) = s
    BY <1>1 DEF LastN
  <2>2. <<>> \in Seq(W) /\ s = <<>> \o s
    BY EmptySeq, ConcatEmptySeq
  <2>3. QED
    BY <1>1, <2>1, <2>2
<1>2. CASE ~ (Len(s) <= n)
  <2> DEFINE k == Len(s) - n
             d == SubSeq(s, 1, k)
             e == SubSeq(s, k + 1, Len(s))
  <2>1. k \in Nat /\ k <= Len(s) /\ Len(s) \in Nat /\ Len(s) - k = n
    BY <1>2
  <2>2. LastN(s, n) = e
    BY <1>2 DEF LastN
  <2> HIDE DEF k
  <2>3. d \in Seq(W) /\ e \in Seq(W) /\ Len(e) = Len(s) - k
    BY <2>1
  <2>4. s = d \o e
    <3>1. Len(d \o e) = Len(s)
      <4>1. Len(d) = k
        BY <2>1
      <4>2. Len(d \o e) = Len(d) + Len(e)
        BY <2>3, ConcatProperties
      <4> HIDE DEF d, e
      <4>3. QED
        BY <2>1, <2>3, <4>1, <4>2
    <3>2. ASSUME NEW i \in 1..Len(s) PROVE s[i] = (d \o e)[i]
      <4>1. Len(d) = k /\ \A j \in 1..k : d[j] = s[j]
        BY <2>1
      <4>2. \A j \in 1..n : e[j] = s[k + j]
        BY <2>1
      <4> HIDE DEF d, e
      <4>3. (d \o e)[i] = IF i <= Len(d) THEN d[i] ELSE e[i - Len(d)]
        BY <2>3, <3>1, ConcatProperties
      <4>4. CASE i <= k
        BY <4>1, <4>3, <4>4
      <4>5. CASE ~ (i <= k)
        BY <2>1, <4>1, <4>2, <4>3, <4>5
      <4>6. QED
        BY <4>4, <4>5
    <3> HIDE DEF d, e
    <3>3. d \o e \in Seq(W)
      BY <2>3
    <3>4. QED
      BY <3>1, <3>2, <3>3, SeqEqual
  <2> HIDE DEF d, e
  <2>5. QED
    BY <2>1, <2>2, <2>3, <2>4
<1>3. QED
  BY <1>1, <1>2

\* What stands in a text after part a up to part b.
IsRange(x, s, a, b) == x = SubSeq(s, a + 1, b)

\* Beginnings and ends of a range of the file.
LEMMA EndOfRange ==
  ASSUME NEW W, NEW s \in Seq(W), NEW a \in Nat, NEW b \in Nat, a <= b, b <= Len(s),
         NEW d \in Seq(W), NEW e \in Seq(W), IsRange(d \o e, s, a, b)
  PROVE  /\ Len(d) \in Nat /\ Len(e) \in Nat /\ Len(d) + Len(e) = b - a
         /\ IsRange(d, s, a, a + Len(d))
         /\ IsRange(e, s, a + Len(d), b)
<1> DEFINE r == SubSeq(s, a + 1, b)
<1>1. r \in Seq(W) /\ Len(r) = b - a /\ \A i \in 1..(b - a) : r[i] = s[a + i]
  OBVIOUS
<1> HIDE DEF r
<1>2. r = d \o e
  BY DEF r, IsRange
<1>3. Len(r) = Len(d) + Len(e) /\ Len(d) \in Nat /\ Len(e) \in Nat
  BY <1>2, ConcatProperties
<1>4. \A i \in 1..Len(d) : d[i] = r[i]
  BY <1>2, <1>3, ConcatProperties
<1>5. \A i \in 1..Len(e) : e[i] = r[Len(d) + i]
  <2> SUFFICES ASSUME NEW i \in 1..Len(e) PROVE e[i] = r[Len(d) + i]
    OBVIOUS
  <2> DEFINE j == Len(d) + i
  <2>1. j \in 1..Len(d) + Len(e) /\ ~ (j <= Len(d)) /\ j - Len(d) = i
    BY <1>3
  <2> HIDE DEF j
  <2>2. r[j] = IF j <= Len(d) THEN d[j] ELSE e[j - Len(d)]
    BY <1>2, <2>1, ConcatProperties
  <2>3. QED
    BY <2>1, <2>2 DEF j
<1> DEFINE k == Len(d)
           m == Len(e)
<1>6. k \in Nat /\ m \in Nat /\ b - a = k + m
  BY <1>1, <1>3
<1>7. d = SubSeq(s, a + 1, a + k)
  <2> DEFINE x == SubSeq(s, a + 1, a + k)
  <2> HIDE DEF k
  <2>0. \A i \in (a + 1)..(a + k) : s[i] \in W
    BY <1>6
  <2>1. x \in Seq(W) /\ Len(x) = k /\ \A i \in 1..k : x[i] = s[a + i]
    <3> DEFINE u == a + 1
               v == a + k
    <3>1. u \in Int /\ v \in Int /\ v - u + 1 = k /\ (u <= v <=> k > 0)
      BY <1>6
    <3>2. x = SubSeq(s, u, v) /\ \A i \in u..v : s[i] \in W
      BY <2>0
    <3> HIDE DEF x, u, v
    <3>3. /\ x \in Seq(W)
          /\ Len(x) = IF u <= v THEN v - u + 1 ELSE 0
          /\ \A i \in 1..(v - u + 1) : x[i] = s[u + i - 1]
      BY <3>1, <3>2, SubSeqProperties
    <3>4. Len(x) = k
      BY <1>6, <3>1, <3>3
    <3>5. ASSUME NEW i \in 1..k PROVE x[i] = s[a + i]
      <4>1. i \in 1..(v - u + 1) /\ u + i - 1 = a + i
        BY <1>6, <3>1 DEF u
      <4>2. QED
        BY <3>3, <4>1
    <3>6. QED
      BY <3>3, <3>4, <3>5
  <2> HIDE DEF x
  <2>2. \A i \in 1..k : d[i] = x[i]
    BY <1>1, <1>4, <1>6, <2>1 DEF k
  <2>3. QED
    BY <2>1, <2>2, SeqEqual DEF k, x
<1>8. e = SubSeq(s, a + k + 1, b)
  <2> DEFINE x == SubSeq(s, a + k + 1, b)
  <2> HIDE DEF k, m
  <2>1. x \in Seq(W) /\ Len(x) = m /\ \A i \in 1..m : x[i] = s[a + k + i]
    BY <1>6
  <2> HIDE DEF x
  <2>2. ASSUME NEW i \in 1..m PROVE e[i] = x[i]
    <3>1. e[i] = r[k + i]
      BY <1>5 DEF k, m
    <3>2. r[k + i] = s[a + (k + i)]
      <4> DEFINE j == k + i
      <4>1. j \in 1..(b - a)
        BY <1>6
      <4> HIDE DEF j
      <4>2. r[j] = s[a + j]
        BY <1>1, <4>1
      <4>3. QED
        BY <4>2 DEF j
    <3>3. a + (k + i) = a + k + i
      BY <1>6
    <3>4. QED
      BY <2>1, <3>1, <3>2, <3>3
  <2>3. QED
    BY <2>1, <2>2, SeqEqual DEF m, x
<1>9. IsRange(d, s, a, a + k) /\ IsRange(e, s, a + k, b)
  BY <1>7, <1>8, Zenon DEF IsRange
<1>10. Len(d) + Len(e) = b - a
  BY <1>1, <1>3
<1>11. QED
  BY <1>3, <1>9, <1>10 DEF k

-----------------------------------------------------------------------------
(* Ranges.                                                                 *)

\* A range of a sequence.
LEMMA PartsOfRange ==
  ASSUME NEW W, NEW s \in Seq(W), NEW a \in Nat, NEW b \in Nat, b <= Len(s)
  PROVE  /\ SubSeq(s, a + 1, b) \in Seq(W)
         /\ Len(SubSeq(s, a + 1, b)) = IF a <= b THEN b - a ELSE 0
         /\ \A i \in 1..Len(SubSeq(s, a + 1, b)) : SubSeq(s, a + 1, b)[i] = s[a + i]
<1> DEFINE u == a + 1
           x == SubSeq(s, u, b)
<1>1. u \in Int /\ b \in Int /\ \A i \in u..b : s[i] \in W
  OBVIOUS
<1> HIDE DEF u
<1>2. /\ x \in Seq(W)
      /\ Len(x) = IF u <= b THEN b - u + 1 ELSE 0
      /\ \A i \in 1..(b - u + 1) : x[i] = s[u + i - 1]
  BY <1>1, SubSeqProperties
<1> HIDE DEF x
<1>3. Len(x) = IF a <= b THEN b - a ELSE 0
  BY <1>2 DEF u
<1>4. ASSUME NEW i \in 1..Len(x) PROVE x[i] = s[a + i]
  <2>1. i \in 1..(b - u + 1) /\ u + i - 1 = a + i
    BY <1>3 DEF u
  <2>2. QED
    BY <1>2, <2>1
<1>5. QED
  BY <1>2, <1>3, <1>4 DEF u, x

\* A range of a sequence is a sequence of its kind.
LEMMA RangeType ==
  ASSUME NEW W
  PROVE  \A s \in Seq(W) : \A a, b \in Nat : b <= Len(s) => SubSeq(s, a + 1, b) \in Seq(W)
<1> SUFFICES ASSUME NEW s \in Seq(W), NEW a \in Nat, NEW b \in Nat, b <= Len(s)
             PROVE  SubSeq(s, a + 1, b) \in Seq(W)
  OBVIOUS
<1> DEFINE u == a + 1
<1>1. u \in Int /\ b \in Int /\ \A i \in u..b : s[i] \in W
  OBVIOUS
<1> HIDE DEF u
<1>2. SubSeq(s, u, b) \in Seq(W)
  BY <1>1, SubSeqProperties
<1>3. QED
  BY <1>2 DEF u

\* Two ranges that meet.
LEMMA RangesMeet ==
  ASSUME NEW W, NEW s \in Seq(W), NEW a \in Nat, NEW k \in Nat, NEW b \in Nat,
         a <= k, k <= b, b <= Len(s), NEW x, IsRange(x, s, a, k), NEW y, IsRange(y, s, k, b)
  PROVE  IsRange(x \o y, s, a, b)
<1> DEFINE m == a + 1
<1>1. m \in 1..Len(s) + 1 /\ k \in (m - 1)..Len(s) /\ b \in k..Len(s)
  OBVIOUS
<1> HIDE DEF m
<1>2. SubSeq(s, m, k) \o SubSeq(s, k + 1, b) = SubSeq(s, m, b)
  BY <1>1, ConcatAdjacentSubSeq
<1>3. QED
  BY <1>2, Zenon DEF m, IsRange

-----------------------------------------------------------------------------
(* Types.                                                                  *)

\* What the helpers return.
LEMMA SmallNumbers ==
  \A m, n \in Nat : Lesser(m, n) \in Nat /\ Above(m, n) \in Nat
BY DEF Lesser, Above

LEMMA VisibleType ==
  ASSUME NEW ls \in Seq(Text)
  PROVE  Visible(ls) \in Seq(Text) /\ Len(Visible(ls)) \in Nat
<1>1. Matching(ls) \in Seq(Text)
  BY MatchingType
<1>2. Visible(ls) \in Seq(Text)
  BY <1>1 DEF Visible
<1>3. QED
  BY <1>2, LenProperties

LEMMA ReadRangeType ==
  ASSUME file \in Text, NEW from \in Nat, NEW to \in Nat
  PROVE  /\ ReadRange(from, to) \in Text
         /\ to <= Len(file) => ReadRange(from, to) = SubSeq(file, from + 1, to)
<1> DEFINE b == IF to < Len(file) THEN to ELSE Len(file)
<1>1. b \in Nat /\ b <= Len(file) /\ (to <= Len(file) => b = to)
  BY DEF Text
<1> HIDE DEF b
<1>2. SubSeq(file, from + 1, b) \in Seq(Part)
  <2>1. file \in Seq(Part)
    BY DEF Text
  <2>2. QED
    BY <1>1, <2>1, RangeType, Zenon
<1>3. QED
  BY <1>1, <1>2 DEF ReadRange, Text, b

LEMMA WithoutFragmentType ==
  ASSUME NEW t \in Text
  PROVE  WithoutFragment(t) \in Text
<1>1. CASE Lines(t) = <<>>
  BY <1>1 DEF WithoutFragment
<1>2. CASE Lines(t) # <<>>
  <2> DEFINE n == Len(Lines(t)[1])
             m == Len(t)
  <2> DEFINE x == Lines(t)[1]
  <2>1. Lines(t) \in Seq(Text)
    BY SplitWhole
  <2>2. x \in Text
    BY <1>2, <2>1
  <2> HIDE DEF x
  <2>3. t \in Seq(Part) /\ x \in Seq(Part)
    BY <2>2 DEF Text
  <2>4. n \in Nat /\ m \in Nat
    BY <2>3 DEF x
  <2> HIDE DEF n, m
  <2>5. SubSeq(t, n + 1, m) \in Seq(Part)
    <3>1. m <= Len(t)
      BY <2>4 DEF m
    <3>2. QED
      BY <2>3, <2>4, <3>1, RangeType, Zenon
  <2>6. QED
    BY <1>2, <2>5 DEF WithoutFragment, Text, n, m
<1>3. QED
  BY <1>1, <1>2

LEMMA TailLinesType ==
  ASSUME NEW t \in Text
  PROVE  TailLines(t) \in Seq(Text)
<1> DEFINE ls == Lines(t)
           ms == IF Remainder(t) = <<>> THEN <<>> ELSE <<Remainder(t)>>
<1>1. ls \in Seq(Text) /\ ms \in Seq(Text)
  BY SplitWhole
<1> HIDE DEF ls, ms
<1>2. ls \o ms \in Seq(Text)
  BY <1>1
<1>3. MaxLog \in Nat
  BY LogAssumption DEF LogAssumption
<1>4. LastN(ls \o ms, MaxLog) \in Seq(Text)
  BY <1>2, <1>3, LastNIsAnEnd
<1>5. QED
  BY <1>4 DEF TailLines, ls, ms

\* What the reducer makes of the lines it is given.
LEMMA LogsType ==
  ASSUME TypeOK, NEW ls \in Seq(Text), LogsReset(ls) \/ LogsAppend(ls)
  PROVE  /\ lines' \in Seq(Text) /\ Len(lines') <= MaxLog
         /\ follow' \in BOOLEAN /\ scroll' \in Nat /\ filter' \in BOOLEAN
<1>1. MaxLog \in Nat
  BY LogAssumption DEF LogAssumption
<1>2. \A ms \in Seq(Text) : LastN(ms, MaxLog) \in Seq(Text) /\ Len(LastN(ms, MaxLog)) <= MaxLog
  BY <1>1, LastNIsAnEnd
<1>3. lines \o ls \in Seq(Text)
  BY DEF TypeOK
<1>4. lines' \in Seq(Text) /\ Len(lines') <= MaxLog
  BY <1>2, <1>3 DEF LogsReset, LogsAppend
<1>5. scroll' \in Nat
  <2>1. Len(Visible(ls)) \in Nat
    BY VisibleType
  <2> DEFINE n == Len(Visible(ls))
  <2> HIDE DEF n
  <2>2. scroll \in Nat /\ n \in Nat
    BY <2>1 DEF TypeOK, n
  <2>3. scroll' = 0 \/ scroll' = scroll + n
    BY DEF LogsReset, LogsAppend, n
  <2>4. QED
    BY <2>2, <2>3
<1>6. QED
  BY <1>4, <1>5 DEF LogsReset, LogsAppend, TypeOK

\* A key changes no line.
LEMMA KeyType ==
  ASSUME TypeOK, Key
  PROVE  /\ lines' = lines /\ follow' \in BOOLEAN /\ scroll' \in Nat /\ filter' \in BOOLEAN
<1> DEFINE n == Len(Visible(lines))
<1>1. n \in Nat
  BY VisibleType DEF TypeOK
<1>2. Rows \in Nat /\ scroll \in Nat /\ follow \in BOOLEAN /\ filter \in BOOLEAN
  BY LogAssumption DEF LogAssumption, TypeOK
<1>3. Top \in Nat
  BY <1>1, <1>2, SmallNumbers DEF Top
<1>4. CASE ScrollKey
  <2>1. scroll + 1 \in Nat /\ Above(scroll, 1) \in Nat
    BY <1>2, SmallNumbers
  <2>2. PICK to \in Nat : LogsScroll(to)
    BY <1>4, <2>1 DEF ScrollKey
  <2>3. scroll' \in Nat
    BY <1>3, <2>2, SmallNumbers DEF LogsScroll
  <2>4. QED
    BY <1>2, <2>2, <2>3, Zenon DEF LogsScroll
<1>5. CASE TopKey
  BY <1>2, <1>3, <1>5 DEF TopKey
<1>6. CASE EndKey
  BY <1>2, <1>6 DEF EndKey
<1>7. CASE FollowKey
  BY <1>2, <1>7 DEF FollowKey
<1>8. CASE FilterKey
  BY <1>2, <1>8 DEF FilterKey
<1>9. QED
  BY <1>4, <1>5, <1>6, <1>7, <1>8 DEF Key

\* Heads and tails take turns in what is written, and no part is written twice.
LEMMA NthFacts ==
  \A n \in Nat : /\ Nth(n) \in Part
                 /\ n > 0 => Nth(n).line # 0
                 /\ Nth(n + 1).tail <=> ~Nth(n).tail
                 /\ ~Nth(n).tail => Nth(n + 1).line = Nth(n).line
<1> SUFFICES ASSUME NEW n \in Nat
             PROVE  /\ Nth(n) \in Part
                    /\ n > 0 => Nth(n).line # 0
                    /\ Nth(n + 1).tail <=> ~Nth(n).tail
                    /\ ~Nth(n).tail => Nth(n + 1).line = Nth(n).line
  OBVIOUS
<1>1. (n + 1) \div 2 \in Nat /\ (n > 0 => (n + 1) \div 2 # 0)
  OBVIOUS
<1>2. (n + 1) % 2 = 0 <=> ~(n % 2 = 0)
  OBVIOUS
<1>3. ~(n % 2 = 0) => (n + 1 + 1) \div 2 = (n + 1) \div 2
  OBVIOUS
<1>4. Nth(n) \in Part
  BY <1>1 DEF Nth, Part
<1>5. (Nth(n).tail <=> n % 2 = 0) /\ (Nth(n + 1).tail <=> (n + 1) % 2 = 0)
  BY DEF Nth
<1>6. Nth(n).line = (n + 1) \div 2 /\ Nth(n + 1).line = (n + 1 + 1) \div 2
  BY DEF Nth
<1>7. QED
  BY <1>1, <1>2, <1>3, <1>4, <1>5, <1>6

LEMMA NthIsOne ==
  \A m, n \in Nat : Nth(m) = Nth(n) => m = n
<1> SUFFICES ASSUME NEW m \in Nat, NEW n \in Nat, Nth(m) = Nth(n) PROVE m = n
  OBVIOUS
<1>1. Nth(m).line = Nth(n).line /\ (Nth(m).tail <=> Nth(n).tail)
  OBVIOUS
<1>2. (m + 1) \div 2 = (n + 1) \div 2 /\ (m % 2 = 0 <=> n % 2 = 0)
  BY <1>1 DEF Nth
<1>3. QED
  BY <1>2

\* The text the tail of the file gives, and the line it ends in.
TailText == LET start == Above(size, TailParts)
                read == ReadRange(start, size)
            IN IF start > 0 THEN WithoutFragment(read) ELSE read
\* The line it ends in.
CutOf(text) == IF Remainder(text) = <<>> THEN 0 ELSE Last(text).line

\* readLogTail in these terms.
LEMMA TailReadIs ==
  TailRead => /\ fpc = "tailread" /\ there /\ fpc' = "stat"
              /\ LogsReset(TailLines(TailText)) /\ cut' = CutOf(TailText)
              /\ position' = size /\ size' = 0
              /\ UNCHANGED <<partial, disturbed, fileVars>>
BY DEF TailRead, TailText, CutOf

LEMMA TailTextType ==
  ASSUME TypeOK
  PROVE  TailText \in Text /\ CutOf(TailText) \in Nat
<1> DEFINE start == Above(size, TailParts)
           read == ReadRange(start, size)
           text == TailText
<1>1. start \in Nat /\ size \in Nat /\ file \in Text
  BY LogAssumption, SmallNumbers DEF LogAssumption, TypeOK
<1> HIDE DEF start
<1>2. read \in Text
  BY <1>1, ReadRangeType
<1> HIDE DEF read
<1>3. text = IF start > 0 THEN WithoutFragment(read) ELSE read
  BY DEF TailText, start, read
<1> HIDE DEF text
<1>4. text \in Text
  BY <1>2, <1>3, WithoutFragmentType
<1>5. Remainder(text) # <<>> => text # <<>>
  BY SplitNone
<1>6. text # <<>> => Last(text) \in Part
  BY <1>4 DEF Text, Last
<1>7. Last(text) \in Part => Last(text).line \in Nat
  BY DEF Part
<1>8. CutOf(text) \in Nat
  BY <1>5, <1>6, <1>7 DEF CutOf
<1>9. QED
  BY <1>4, <1>8 DEF text

-----------------------------------------------------------------------------
(* Type correctness.                                                       *)

\* Every variable keeps its type.
LEMMA StepKeepsTypes == TypeOK /\ [Next]_vars => TypeOK'
<1> SUFFICES ASSUME TypeOK, [Next]_vars PROVE TypeOK'
  OBVIOUS
<1> DEFINE Screen == /\ lines \in Seq(Text) /\ Len(lines) <= MaxLog
                     /\ follow \in BOOLEAN /\ scroll \in Nat /\ filter \in BOOLEAN
           Log == there \in BOOLEAN /\ file \in Text /\ written \in Nat /\ cuts \in Nat
           Reader == /\ fpc \in {"tail", "tailread", "stat", "read", "ended"}
                     /\ size \in Nat /\ position \in Nat /\ partial \in Text
                     /\ cut \in Nat /\ disturbed \in BOOLEAN
<1>0. Screen /\ Log /\ Reader
  BY DEF TypeOK
<1>1. UNCHANGED screenVars => Screen'
  BY <1>0 DEF screenVars
<1>2. \A ls \in Seq(Text) : LogsReset(ls) \/ LogsAppend(ls) => Screen'
  BY LogsType
<1>3. UNCHANGED fileVars => Log'
  BY <1>0 DEF fileVars
<1>4. UNCHANGED readVars /\ partial' = partial => Reader'
  BY <1>0 DEF readVars
<1>5. <<>> \in Seq(Text) /\ <<>> \in Text
  BY EmptySeq DEF Text
<1>6. Len(file) \in Nat
  BY <1>0 DEF Text
<1> HIDE DEF Screen
<1>7. CASE Write
  <2>1. Nth(written + 1) \in Part
    BY <1>0, NthFacts
  <2>2. Append(file, Nth(written + 1)) \in Text
    BY <1>0, <2>1 DEF Text
  <2>3. Screen' /\ Reader' /\ Log'
    BY <1>0, <1>1, <1>7, <2>2 DEF Write, readVars
  <2>4. QED
    BY <2>3 DEF Screen, TypeOK
<1>8. CASE Truncate
  <2>1. Screen' /\ Reader' /\ Log'
    BY <1>0, <1>1, <1>5, <1>8 DEF Truncate
  <2>2. QED
    BY <2>1 DEF Screen, TypeOK
<1>9. CASE Key
  <2>1. Screen'
    BY <1>0, <1>9, KeyType DEF Screen
  <2>2. Reader' /\ Log'
    BY <1>0, <1>9 DEF Key, readVars, fileVars
  <2>3. QED
    BY <2>1, <2>2 DEF Screen, TypeOK
<1>10. CASE TailStat
  <2>1. Screen' /\ Reader' /\ Log'
    BY <1>0, <1>1, <1>2, <1>3, <1>5, <1>6, <1>10 DEF TailStat
  <2>2. QED
    BY <2>1 DEF Screen, TypeOK
<1>11. CASE TailRead
  <2>1. TailText \in Text /\ CutOf(TailText) \in Nat
    BY TailTextType
  <2>2. TailLines(TailText) \in Seq(Text)
    BY <2>1, TailLinesType
  <2>3. Screen' /\ Reader' /\ Log'
    BY <1>0, <1>2, <1>3, <1>11, <2>1, <2>2, TailReadIs
  <2>4. QED
    BY <2>3 DEF Screen, TypeOK
<1>12. CASE Stat
  <2>1. Screen'
    BY <1>1, <1>2, <1>5, <1>12 DEF Stat
  <2>2. Reader' /\ Log'
    <3>1. position' \in Nat /\ partial' \in Text /\ disturbed' \in BOOLEAN
      <4>1. \/ position' = 0 /\ partial' = <<>> /\ disturbed' = FALSE
            \/ UNCHANGED <<position, partial, disturbed>>
        BY <1>12, Zenon DEF Stat
      <4>2. partial' \in Text
        BY <1>0, <1>5, <4>1
      <4>3. position' \in Nat
        BY <1>0, <4>1
      <4>4. disturbed' \in BOOLEAN
        BY <1>0, <4>1, Zenon
      <4>5. QED
        BY <4>2, <4>3, <4>4
    <3>2. size' \in Nat /\ fpc' \in {"read", "stat"} /\ cut' = cut /\ UNCHANGED fileVars
      BY <1>6, <1>12 DEF Stat
    <3>3. QED
      BY <1>0, <1>3, <3>1, <3>2
  <2>3. QED
    BY <2>1, <2>2 DEF Screen, TypeOK
<1>13. CASE Read
  <2> DEFINE text == partial \o ReadRange(position, size)
  <2>1. text \in Text
    <3>1. ReadRange(position, size) \in Text
      BY <1>0, ReadRangeType
    <3>2. QED
      BY <1>0, <3>1 DEF Text
  <2> HIDE DEF text
  <2>2. Lines(text) \in Seq(Text) /\ Remainder(text) \in Text
    BY <2>1, SplitWhole
  <2>3. Screen'
    BY <1>1, <1>2, <1>13, <2>2 DEF Read, text
  <2>4. Reader' /\ Log'
    BY <1>0, <1>3, <1>13, <2>2 DEF Read, text
  <2>5. QED
    BY <2>3, <2>4 DEF Screen, TypeOK
<1>14. CASE Throw
  <2>1. Screen' /\ Reader' /\ Log'
    BY <1>0, <1>1, <1>3, <1>14 DEF Throw
  <2>2. QED
    BY <2>1 DEF Screen, TypeOK
<1>15. CASE UNCHANGED vars
  BY <1>0, <1>15 DEF vars, TypeOK
<1>16. QED
  BY <1>7, <1>8, <1>9, <1>10, <1>11, <1>12, <1>13, <1>14, <1>15 DEF Next, ReadStep

\* Every variable keeps its type: the screen never holds more than MAX_LOG_LINES.
THEOREM TypeCorrect == Spec => []TypeOK
<1>1. Init => TypeOK
  <2>1. <<>> \in Seq(Text) /\ <<>> \in Seq(Part) /\ Len(<<>>) = 0
    BY EmptySeq
  <2>2. 0 <= MaxLog
    BY LogAssumption DEF LogAssumption
  <2> SUFFICES ASSUME Init PROVE TypeOK
    OBVIOUS
  <2>3. lines \in Seq(Text) /\ file \in Text /\ partial \in Text
    BY <2>1 DEF Init, Text
  <2>4. Len(lines) <= MaxLog
    BY <2>1, <2>2 DEF Init
  <2>5. QED
    BY <2>3, <2>4 DEF Init, TypeOK
<1>2. QED
  BY <1>1, StepKeepsTypes, PTL DEF Spec

\* The parts in the file are the last that were written, in order.
FileInv ==
  /\ Len(file) <= written
  /\ \A i \in DOMAIN file : file[i] = Nth((written - Len(file)) + i)

\* A line is in pieces only if the tail of the file ended within it, or if the file begins so.
Whole(line) ==
  /\ line # <<>>
  /\ \/ Len(line) = 2
     \/ line[1].line = cut /\ cut # 0
     \/ file # <<>> /\ line = <<file[1]>>

\* Before the reader has read the tail it has nothing.
NothingYet == fpc \in {"tail", "tailread"} => lines = <<>> /\ partial = <<>> /\ position = 0

\* It has never read past the end of the file.
ReadUpTo ==
  /\ position <= Len(file)
  /\ fpc = "tailread" => size <= Len(file)
  /\ fpc = "read" => position < size /\ size <= Len(file)

\* What it keeps back is a head at its position; before that there is none, but for the line
\* the tail of the file ended in.
PartialInv ==
  /\ partial = <<>> \/ (position > 0 /\ partial = <<file[position]>> /\ ~file[position].tail)
  /\ \A p \in Nat : p = position - Len(partial) /\ p > 0 /\ ~file[p].tail => file[p].line = cut

\* The lines and what it keeps back are the file from part a + 1 on.
Shown(a) ==
  /\ Flatten(lines) \o partial = SubSeq(file, a + 1, position)
  /\ Len(lines) < MaxLog => a = 0 \/ a + TailParts <= position + 2

\* What the screen holds is a stretch of the file up to the position, in whole lines.
LinesInv == (\E a \in 0..position : Shown(a)) /\ \A i \in DOMAIN lines : Whole(lines[i])

\* All of it, which holds as long as the file the reader has seen is the file that is
\* there.
ReaderInv == ReadUpTo /\ PartialInv /\ (fpc \in {"stat", "read"} => LinesInv)

LogInv == FileInv /\ NothingYet /\ (~disturbed => ReaderInv)

-----------------------------------------------------------------------------
(* The file.                                                               *)

\* Heads and tails take turns in the file, and it has no part twice.
LEMMA FileInTurn ==
  ASSUME TypeOK, FileInv
  PROVE  /\ file \in Seq(Part) /\ Len(file) \in Nat /\ DOMAIN file = 1..Len(file)
         /\ TakesTurns(file) /\ Distinct(file)
         /\ \A i \in DOMAIN file : file[i] \in Part /\ file[i].line # 0
         /\ \A i \in DOMAIN file : i + 1 \in DOMAIN file /\ ~file[i].tail => file[i + 1].line = file[i].line
<1>1. file \in Seq(Part) /\ Len(file) \in Nat /\ DOMAIN file = 1..Len(file) /\ written \in Nat
  BY DEF TypeOK, Text
<1> DEFINE base == written - Len(file)
           n == Len(file)
<1>2. base \in Nat /\ n \in Nat
  BY <1>1 DEF FileInv
<1>3. \A i \in 1..n : file[i] = Nth(base + i)
  BY <1>1 DEF FileInv
<1> HIDE DEF base, n
<1>4. \A i \in 1..n : file[i].line # 0
  <2> SUFFICES ASSUME NEW i \in 1..n PROVE file[i].line # 0
    OBVIOUS
  <2> DEFINE k == base + i
  <2>1. k \in Nat /\ k > 0
    BY <1>2
  <2> HIDE DEF k
  <2>2. Nth(k).line # 0
    BY <2>1, NthFacts
  <2>3. QED
    BY <1>3, <2>2 DEF k
<1>5. ASSUME NEW i \in 1..n, i + 1 \in 1..n
      PROVE  (file[i + 1].tail <=> ~file[i].tail) /\ (~file[i].tail => file[i + 1].line = file[i].line)
  <2> DEFINE k == base + i
             j == i + 1
  <2>1. k \in Nat /\ base + j = k + 1
    BY <1>2
  <2>2. file[i] = Nth(k) /\ file[j] = Nth(base + j)
    BY <1>3, <1>5
  <2> HIDE DEF k, j
  <2>3. file[j] = Nth(k + 1)
    BY <2>1, <2>2
  <2>4. (file[j].tail <=> ~file[i].tail) /\ (~file[i].tail => file[j].line = file[i].line)
    BY <2>1, <2>2, <2>3, NthFacts
  <2>5. QED
    BY <2>4 DEF j
<1>6. TakesTurns(file)
  <2> SUFFICES ASSUME NEW i \in 1..(n - 1) PROVE file[i + 1].tail <=> ~file[i].tail
    BY DEF TakesTurns, n
  <2>1. i \in 1..n /\ i + 1 \in 1..n
    BY <1>2
  <2>2. QED
    BY <1>5, <2>1
<1>7. Distinct(file)
  <2> SUFFICES ASSUME NEW i \in 1..n, NEW j \in 1..n, file[i] = file[j] PROVE i = j
    BY <1>1 DEF Distinct, n
  <2> DEFINE k == base + i
             l == base + j
  <2>1. k \in Nat /\ l \in Nat /\ (k = l => i = j)
    BY <1>2
  <2>2. Nth(k) = Nth(l)
    BY <1>3
  <2> HIDE DEF k, l
  <2>3. QED
    BY <2>1, <2>2, NthIsOne
<1>8. \A i \in DOMAIN file : file[i] \in Part /\ file[i].line # 0
  BY <1>1, <1>4 DEF n
<1>9. QED
  BY <1>1, <1>5, <1>6, <1>7, <1>8 DEF n

\* A range of a text is a text of its kind.
LEMMA RangeInTurn ==
  ASSUME NEW s \in Seq(Part), NEW a \in Nat, NEW b \in Nat, b <= Len(s)
  PROVE  /\ TakesTurns(s) => TakesTurns(SubSeq(s, a + 1, b))
         /\ Distinct(s) => Distinct(SubSeq(s, a + 1, b))
<1> DEFINE x == SubSeq(s, a + 1, b)
<1>1. /\ x \in Seq(Part) /\ Len(x) = IF a <= b THEN b - a ELSE 0
      /\ \A i \in 1..Len(x) : x[i] = s[a + i]
  BY PartsOfRange
<1> HIDE DEF x
<1>2. Len(x) \in Nat /\ Len(s) \in Nat /\ (Len(x) > 0 => a + Len(x) <= Len(s)) /\ DOMAIN x = 1..Len(x)
      /\ DOMAIN s = 1..Len(s)
  BY <1>1
<1> DEFINE n == Len(x)
           m == Len(s)
<1>3. n \in Nat /\ m \in Nat /\ (n > 0 => a + n <= m)
  BY <1>2
<1>4. \A i \in 1..n : x[i] = s[a + i]
  BY <1>1
<1> HIDE DEF n, m
<1>5. ASSUME TakesTurns(s) PROVE TakesTurns(x)
  <2> SUFFICES ASSUME NEW i \in 1..(n - 1) PROVE x[i + 1].tail <=> ~x[i].tail
    BY DEF TakesTurns, n
  <2> DEFINE k == a + i
             j == i + 1
  <2>1. i \in 1..n /\ j \in 1..n /\ k \in 1..(m - 1) /\ a + j = k + 1
    BY <1>3
  <2>2. x[i] = s[k] /\ x[j] = s[a + j]
    BY <1>4, <2>1
  <2>3. s[k + 1].tail <=> ~s[k].tail
    BY <1>5, <2>1 DEF TakesTurns, m
  <2> HIDE DEF k, j
  <2>4. x[j].tail <=> ~x[i].tail
    BY <2>1, <2>2, <2>3
  <2>5. QED
    BY <2>4 DEF j
<1>6. ASSUME Distinct(s) PROVE Distinct(x)
  <2> SUFFICES ASSUME NEW i \in 1..n, NEW j \in 1..n, x[i] = x[j] PROVE i = j
    BY <1>2 DEF Distinct, n
  <2>1. a + i \in 1..m /\ a + j \in 1..m /\ (a + i = a + j => i = j)
    BY <1>3
  <2>2. s[a + i] = s[a + j]
    BY <1>4
  <2>3. \A k, l \in 1..m : s[k] = s[l] => k = l
    BY <1>2, <1>6 DEF Distinct, m
  <2>4. QED
    BY <2>1, <2>2, <2>3
<1>7. QED
  BY <1>5, <1>6 DEF x

\* A beginning of a text that has no part twice has none twice.
LEMMA DistinctBeginning ==
  ASSUME NEW W, NEW x \in Seq(W), NEW y \in Seq(W), Distinct(x \o y)
  PROVE  Distinct(x)
<1>1. \A i \in DOMAIN x : i \in DOMAIN (x \o y) /\ (x \o y)[i] = x[i]
  OBVIOUS
<1>2. QED
  BY <1>1 DEF Distinct

\* Ranges of a file that has grown.
LEMMA RangeOfGrown ==
  ASSUME NEW s \in Seq(Part), NEW t \in Seq(Part), Len(s) <= Len(t),
         \A i \in DOMAIN s : t[i] = s[i], NEW a \in Nat, NEW b \in Nat, b <= Len(s)
  PROVE  SubSeq(t, a + 1, b) = SubSeq(s, a + 1, b)
<1> DEFINE x == SubSeq(s, a + 1, b)
           y == SubSeq(t, a + 1, b)
<1>0. b <= Len(t) /\ DOMAIN s = 1..Len(s)
  OBVIOUS
<1>1. /\ x \in Seq(Part) /\ Len(x) = IF a <= b THEN b - a ELSE 0
      /\ \A i \in 1..Len(x) : x[i] = s[a + i]
  BY PartsOfRange
<1>2. /\ y \in Seq(Part) /\ Len(y) = IF a <= b THEN b - a ELSE 0
      /\ \A i \in 1..Len(y) : y[i] = t[a + i]
  BY <1>0, PartsOfRange
<1> HIDE DEF x, y
<1>3. Len(x) = Len(y) /\ (Len(x) > 0 => a + Len(x) <= Len(s))
  BY <1>1, <1>2
<1>4. ASSUME NEW i \in 1..Len(x) PROVE x[i] = y[i]
  <2>1. a + i \in DOMAIN s /\ i \in 1..Len(y)
    BY <1>0, <1>1, <1>3
  <2>2. QED
    BY <1>1, <1>2, <2>1
<1>5. QED
  BY <1>1, <1>2, <1>3, <1>4, SeqEqual DEF x, y

-----------------------------------------------------------------------------
(* Steps that read nothing.                                                *)

\* The file changes by being written to or truncated only.
LEMMA StepOfFile ==
  ASSUME TypeOK, [Next]_vars
  PROVE  \/ UNCHANGED fileVars
         \/ Write
         \/ Truncate
<1>1. Key \/ ReadStep => UNCHANGED fileVars
  BY DEF Key, ReadStep, TailStat, TailRead, Stat, Read, Throw
<1>2. UNCHANGED vars => UNCHANGED fileVars
  BY DEF vars, fileVars
<1>3. QED
  BY <1>1, <1>2 DEF Next

\* A write adds a part and changes no other.
LEMMA WriteGrows ==
  ASSUME TypeOK, Write
  PROVE  /\ file \in Seq(Part) /\ file' \in Seq(Part) /\ Len(file) \in Nat
         /\ Len(file') = Len(file) + 1
         /\ \A i \in DOMAIN file : i \in DOMAIN file' /\ file'[i] = file[i]
         /\ file'[Len(file) + 1] = Nth(written + 1)
<1> DEFINE p == Nth(written + 1)
<1>1. file \in Seq(Part) /\ Len(file) \in Nat /\ written \in Nat
  BY DEF TypeOK, Text
<1>2. p \in Part
  BY <1>1, NthFacts
<1>3. file' = Append(file, p)
  BY DEF Write
<1> HIDE DEF p
<1>4. QED
  BY <1>1, <1>2, <1>3 DEF p

\* Every step keeps the order of the parts.
LEMMA StepKeepsFile == TypeOK /\ FileInv /\ [Next]_vars => FileInv'
<1> SUFFICES ASSUME TypeOK, FileInv, [Next]_vars PROVE FileInv'
  OBVIOUS
<1>1. CASE UNCHANGED fileVars
  BY <1>1 DEF fileVars, FileInv
<1>2. CASE Write
  <2> DEFINE n == Len(file)
             m == Len(file')
             base == written - Len(file)
  <2>1. n \in Nat /\ m = n + 1 /\ written \in Nat /\ written' = written + 1 /\ n <= written
    BY <1>2, WriteGrows DEF FileInv, Write, TypeOK
  <2>2. DOMAIN file = 1..n /\ DOMAIN file' = 1..m /\ written' - Len(file') = base
    BY <1>2, <2>1, WriteGrows
  <2>3. \A i \in 1..n : file'[i] = Nth(base + i)
    BY <1>2, <2>2, WriteGrows DEF FileInv
  <2>4. file'[m] = Nth(base + m)
    <3>1. base + m = written + 1
      BY <2>1
    <3>2. QED
      BY <1>2, <2>1, <3>1, WriteGrows
  <2> HIDE DEF n, m, base
  <2>5. \A i \in 1..m : file'[i] = Nth(base + i)
    BY <2>1, <2>3, <2>4
  <2>6. Len(file') <= written'
    BY <2>1 DEF m
  <2>7. QED
    BY <2>2, <2>5, <2>6 DEF FileInv
<1>3. CASE Truncate
  BY <1>3 DEF Truncate, FileInv, TypeOK
<1>4. QED
  BY <1>1, <1>2, <1>3, StepOfFile

\* Every step keeps the reader without lines until it has read the tail.
LEMMA StepKeepsNothingYet == TypeOK /\ NothingYet /\ [Next]_vars => NothingYet'
<1> SUFFICES ASSUME TypeOK, NothingYet, [Next]_vars PROVE NothingYet'
  OBVIOUS
<1>1. CASE Write
  BY <1>1 DEF Write, NothingYet, readVars, screenVars
<1>2. CASE Truncate
  BY <1>2 DEF Truncate, NothingYet, screenVars
<1>3. CASE Key
  BY <1>3, KeyType DEF Key, NothingYet, readVars
<1>4. CASE TailStat
  BY <1>4 DEF TailStat, NothingYet, screenVars
<1>5. CASE TailRead \/ Stat \/ Read
  <2>1. fpc' \in {"stat", "read"}
    BY <1>5 DEF TailRead, Stat, Read
  <2>2. QED
    BY <2>1 DEF NothingYet
<1>6. CASE Throw
  BY <1>6 DEF Throw, NothingYet
<1>7. CASE UNCHANGED vars
  BY <1>7 DEF vars, NothingYet
<1>8. QED
  BY <1>1, <1>2, <1>3, <1>4, <1>5, <1>6, <1>7 DEF Next, ReadStep

\* What holds of the reader goes on holding while the file grows.
LEMMA WhileTheFileGrows ==
  ASSUME TypeOK, TypeOK', ReaderInv, lines' = lines, UNCHANGED readVars,
         Len(file) <= Len(file'), \A i \in DOMAIN file : file'[i] = file[i]
  PROVE  ReaderInv'
<1> DEFINE n == Len(file)
           m == Len(file')
           k == Len(partial)
<1>1. /\ fpc' = fpc /\ size' = size /\ position' = position /\ partial' = partial /\ cut' = cut
      /\ file \in Seq(Part) /\ file' \in Seq(Part) /\ position \in Nat /\ size \in Nat
      /\ n \in Nat /\ m \in Nat /\ n <= m /\ k \in Nat
      /\ DOMAIN file = 1..n /\ DOMAIN file' = 1..m
  BY DEF TypeOK, Text, readVars
<1>2. position <= n
  BY DEF ReaderInv, ReadUpTo
<1>3. \A i \in 1..n : file'[i] = file[i]
  BY <1>1
<1> HIDE DEF n, m, k
<1>4. ReadUpTo'
  <2>1. /\ position <= n /\ (fpc = "tailread" => size <= n) /\ (fpc = "read" => position < size /\ size <= n)
    BY DEF ReaderInv, ReadUpTo, n
  <2>2. /\ position <= m /\ (fpc = "tailread" => size <= m) /\ (fpc = "read" => position < size /\ size <= m)
    BY <1>1, <2>1
  <2>3. QED
    BY <1>1, <2>2 DEF ReadUpTo, m
<1>5. PartialInv'
  <2>1. position > 0 => file'[position] = file[position]
    BY <1>1, <1>2, <1>3
  <2>2. partial = <<>> \/ (position > 0 /\ partial = <<file'[position]>> /\ ~file'[position].tail)
    BY <2>1 DEF ReaderInv, PartialInv
  <2>3. ASSUME NEW p \in Nat, p = position - Len(partial), p > 0, ~file'[p].tail PROVE file'[p].line = cut
    <3>1. p \in 1..n
      BY <1>1, <1>2, <2>3 DEF k
    <3>2. file'[p] = file[p]
      BY <1>3, <3>1
    <3>3. file[p].line = cut
      BY <2>3, <3>2 DEF ReaderInv, PartialInv
    <3>4. QED
      BY <3>2, <3>3
  <2>4. QED
    BY <1>1, <2>2, <2>3 DEF PartialInv
<1>6. ASSUME LinesInv PROVE LinesInv'
  <2>1. PICK a \in 0..position : Shown(a)
    BY <1>6 DEF LinesInv
  <2>2. SubSeq(file', a + 1, position) = SubSeq(file, a + 1, position)
    BY <1>1, <1>2, RangeOfGrown DEF n, m
  <2>3. Shown(a)'
    BY <1>1, <2>1, <2>2 DEF Shown
  <2>4. file # <<>> => file' # <<>> /\ file'[1] = file[1]
    <3>1. file # <<>> => n > 0
      BY <1>1 DEF n
    <3>2. m > 0 => file' # <<>>
      BY <1>1 DEF m
    <3>3. QED
      BY <1>1, <1>3, <3>1, <3>2
  <2>5. \A i \in DOMAIN lines : Whole(lines[i])
    BY <1>6 DEF LinesInv
  <2>6. (\A i \in DOMAIN lines : Whole(lines[i]))'
    <3>1. \A line : Whole(line) => Whole(line)'
      BY <1>1, <2>4 DEF Whole
    <3>2. \A i \in DOMAIN lines : Whole(lines[i])'
      BY <2>5, <3>1
    <3>3. lines' = lines
      OBVIOUS
    <3>4. QED
      BY <3>2, <3>3
  <2>7. (\E b \in 0..position : Shown(b))'
    BY <1>1, <2>3
  <2>8. QED
    BY <2>6, <2>7 DEF LinesInv
<1>7. QED
  BY <1>1, <1>4, <1>5, <1>6 DEF ReaderInv

-----------------------------------------------------------------------------
(* Steps of the reader.                                                    *)

\* A reset to no lines leaves none.
LEMMA ResetToNone == LogsReset(<<>>) => lines' = <<>>
<1>1. Len(<<>>) = 0 /\ MaxLog \in Nat
  BY LogAssumption DEF LogAssumption
<1>2. LastN(<<>>, MaxLog) = <<>>
  BY <1>1 DEF LastN
<1>3. QED
  BY <1>2 DEF LogsReset

\* A reader that begins with a file has nothing of it.
LEMMA FromTheTop ==
  ASSUME file' \in Seq(Part), position' = 0, partial' = <<>>, lines' = <<>>,
         fpc' \in {"stat", "read"}, fpc' = "read" => size' > 0 /\ size' <= Len(file')
  PROVE  ReaderInv'
<1>1. Len(file') \in Nat /\ Len(partial') = 0
  OBVIOUS
<1>2. ReadUpTo'
  <2>1. position' <= Len(file')
    BY <1>1
  <2>2. QED
    BY <2>1 DEF ReadUpTo
<1>3. PartialInv'
  <2>1. \A p \in Nat : p = position' - Len(partial') => ~(p > 0)
    BY <1>1
  <2>2. QED
    BY <2>1 DEF PartialInv
<1>4. LinesInv'
  <2>1. SubSeq(file', 1, 0) = <<>>
    OBVIOUS
  <2>2. Flatten(lines') \o partial' = <<>>
    BY FlattenNone, EmptySeq
  <2>3. Shown(0)'
    <3>1. 0 + 1 = 1
      OBVIOUS
    <3>2. QED
      BY <2>1, <2>2, <3>1 DEF Shown
  <2>4. (\E a \in 0..position : Shown(a))'
    BY <2>3
  <2>5. (\A i \in DOMAIN lines : Whole(lines[i]))'
    OBVIOUS
  <2>6. QED
    BY <2>4, <2>5 DEF LinesInv
<1>5. QED
  BY <1>2, <1>3, <1>4 DEF ReaderInv

\* The stat() before the tail is read. Without a file the reader begins with nothing.
LEMMA TailStatKeepsReader ==
  ASSUME TypeOK, NothingYet, ReaderInv, TailStat
  PROVE  ReaderInv'
<1>1. /\ position = 0 /\ partial = <<>> /\ lines = <<>> /\ file \in Seq(Part)
      /\ position' = 0 /\ partial' = <<>> /\ file' = file /\ size' = Len(file) /\ cut' = cut
  BY DEF TypeOK, Text, NothingYet, TailStat, fileVars
<1>2. lines' = <<>>
  BY <1>1, ResetToNone DEF TailStat, screenVars
<1>3. CASE there
  <2>1. fpc' = "tailread"
    BY <1>3 DEF TailStat
  <2>2. ReadUpTo'
    BY <1>1, <2>1 DEF ReadUpTo
  <2>3. PartialInv'
    <3>1. Len(partial') = 0
      BY <1>1
    <3>2. \A p \in Nat : p = position' - Len(partial') => ~(p > 0)
      BY <1>1, <3>1
    <3>3. QED
      BY <1>1, <3>2 DEF PartialInv
  <2>4. QED
    BY <2>1, <2>2, <2>3 DEF ReaderInv
<1>4. CASE ~there
  <2>1. fpc' = "stat"
    BY <1>4 DEF TailStat
  <2>2. QED
    BY <1>1, <1>2, <2>1, FromTheTop
<1>5. QED
  BY <1>3, <1>4

\* The end of the reader.
LEMMA ThrowKeepsReader ==
  ASSUME TypeOK, ReaderInv, Throw
  PROVE  ReaderInv'
<1>1. /\ fpc' = "ended" /\ position' = position /\ partial' = partial /\ file' = file
      /\ cut' = cut /\ size' = size
  BY DEF Throw, fileVars
<1>2. ReadUpTo'
  BY <1>1 DEF ReaderInv, ReadUpTo
<1>3. PartialInv'
  BY <1>1 DEF ReaderInv, PartialInv
<1>4. QED
  BY <1>1, <1>2, <1>3 DEF ReaderInv

\* The stat() of a poll. A file that is shorter than the position is read from its top,
\* which is also where a reader recovers that a truncation had disturbed.
LEMMA StatKeepsReader ==
  ASSUME TypeOK, Stat, ~disturbed', ~disturbed => ReaderInv
  PROVE  ReaderInv'
<1>1. /\ file \in Seq(Part) /\ file' = file /\ size' = Len(file) /\ cut' = cut /\ Len(file) \in Nat
      /\ fpc = "stat" /\ fpc' \in {"stat", "read"} /\ (fpc' = "read" => size' > position')
  BY DEF TypeOK, Text, Stat, fileVars
<1>2. CASE there /\ size' < position
  <2>1. position' = 0 /\ partial' = <<>> /\ LogsReset(<<>>)
    BY <1>2 DEF Stat
  <2>2. lines' = <<>>
    BY <2>1, ResetToNone
  <2>3. fpc' = "read" => size' > 0 /\ size' <= Len(file')
    BY <1>1, <2>1
  <2>4. QED
    BY <1>1, <2>1, <2>2, <2>3, FromTheTop
<1>3. CASE ~(there /\ size' < position)
  <2>1. UNCHANGED <<position, partial, disturbed, screenVars>>
    BY <1>3, Zenon DEF Stat
  <2>2. position' = position /\ partial' = partial /\ lines' = lines /\ disturbed' = disturbed
    BY <2>1 DEF screenVars
  <2>3. ~disturbed
    BY <2>2, Zenon
  <2>4. ReadUpTo /\ PartialInv /\ LinesInv
    BY <1>1, <2>3 DEF ReaderInv
  <2>5. ReadUpTo'
    BY <1>1, <2>2, <2>4 DEF ReadUpTo
  <2>6. PartialInv'
    BY <1>1, <2>2, <2>4 DEF PartialInv
  <2>7. LinesInv'
    <3>1. Flatten(lines') = Flatten(lines)
      BY <2>2
    <3>2. \A a : Shown(a) => Shown(a)'
      BY <1>1, <2>2, <3>1 DEF Shown
    <3>3. (\E a \in 0..position : Shown(a))'
      BY <2>2, <2>4, <3>2 DEF LinesInv
    <3>4. \A line : Whole(line) => Whole(line)'
      BY <1>1 DEF Whole
    <3>5. (\A i \in DOMAIN lines : Whole(lines[i]))'
      BY <2>2, <2>4, <3>4 DEF LinesInv
    <3>6. QED
      BY <3>3, <3>5 DEF LinesInv
  <2>8. QED
    BY <2>5, <2>6, <2>7 DEF ReaderInv
<1>4. QED
  BY <1>2, <1>3

\* The text a read gives, with what was kept back before it, and its lines.
TextRead == partial \o ReadRange(position, size)
LinesRead == Lines(TextRead)

\* A read in these terms: with no new line the screen keeps those it has.
LEMMA ReadIs ==
  ASSUME TypeOK, Read
  PROVE  /\ fpc = "read" /\ fpc' = "stat"
         /\ lines' = LastN(lines \o LinesRead, MaxLog)
         /\ LinesRead # <<>> => LogsAppend(LinesRead)
         /\ LinesRead = <<>> => UNCHANGED screenVars
         /\ partial' = Remainder(TextRead)
         /\ position' = size /\ size' = 0 /\ UNCHANGED <<cut, disturbed, fileVars>>
<1>1. CASE LinesRead = <<>>
  <2>1. lines' = lines /\ lines \in Seq(Text) /\ Len(lines) <= MaxLog
    BY <1>1 DEF Read, LinesRead, TextRead, screenVars, TypeOK
  <2>2. lines \o <<>> = lines
    BY <2>1, ConcatEmptySeq
  <2>3. lines' = LastN(lines \o LinesRead, MaxLog)
    BY <1>1, <2>1, <2>2 DEF LastN
  <2>4. QED
    BY <1>1, <2>3 DEF Read, LinesRead, TextRead
<1>2. CASE LinesRead # <<>>
  BY <1>2 DEF Read, LinesRead, TextRead, LogsAppend
<1>3. QED
  BY <1>1, <1>2

\* It is the file from where the lines end.
LEMMA ReadText ==
  ASSUME TypeOK, ReaderInv, fpc = "read", NEW a \in 0..position, Shown(a),
         NEW p, p = position - Len(partial)
  PROVE  /\ TextRead \in Text /\ LinesRead \in Seq(Text) /\ Remainder(TextRead) \in Text
         /\ IsRange(Flatten(lines \o LinesRead) \o Remainder(TextRead), file, a, size)
         /\ p \in 0..position /\ IsRange(TextRead, file, p, size)
<1> DEFINE r == ReadRange(position, size)
           f == Flatten(lines)
           text == TextRead
           g == Flatten(LinesRead)
           z == Remainder(TextRead)
           n == Len(file)
<1>1. /\ file \in Seq(Part) /\ n \in Nat /\ position \in Nat /\ size \in Nat /\ partial \in Seq(Part)
      /\ lines \in Seq(Seq(Part)) /\ a \in Nat /\ a <= position
  BY DEF TypeOK, Text
<1>2. position < size /\ size <= n
  BY DEF ReaderInv, ReadUpTo
<1>3. IsRange(r, file, position, size) /\ r \in Seq(Part)
  BY <1>1, <1>2, ReadRangeType DEF TypeOK, Text, IsRange
<1> HIDE DEF r, n
<1>4. text = partial \o r
  BY DEF TextRead, r
<1>5. text \in Text
  <2>1. partial \o r \in Seq(Part)
    BY <1>1, <1>3, ConcatProperties
  <2>2. QED
    BY <1>4, <2>1 DEF Text
<1>6. LinesRead \in Seq(Text) /\ z \in Text /\ g \o z = text
  BY <1>5, SplitWhole DEF LinesRead
<1>7. f \in Seq(Part) /\ g \in Seq(Part) /\ z \in Seq(Part)
  BY <1>1, <1>6, FlattenType DEF Text
<1>8. Flatten(lines \o LinesRead) = f \o g
  BY <1>1, <1>6, FlattenConcat DEF Text
<1> HIDE DEF f, g, z, text
<1>9. IsRange(f \o partial, file, a, position)
  BY DEF Shown, f, IsRange
<1>10. (f \o g) \o z = f \o text
  <2>1. (f \o g) \o z = f \o (g \o z)
    BY <1>7, ConcatAssociative
  <2>2. QED
    BY <1>6, <2>1, Zenon
<1>11. f \o text = (f \o partial) \o r
  <2>0. f \in Seq(Part) /\ partial \in Seq(Part) /\ r \in Seq(Part)
    BY <1>1, <1>3, <1>7
  <2>1. (f \o partial) \o r = f \o (partial \o r)
    BY <2>0, ConcatAssociative
  <2>2. QED
    BY <1>4, <2>1, Zenon
<1>12. IsRange(f \o text, file, a, size)
  <2>1. position <= Len(file) /\ position <= size /\ size <= Len(file)
    BY <1>1, <1>2 DEF n
  <2>2. IsRange((f \o partial) \o r, file, a, size)
    BY <1>1, <1>3, <1>9, <2>1, RangesMeet
  <2>3. QED
    BY <1>11, <2>2
<1> DEFINE k == Len(f)
           l == Len(partial)
<1>13. k \in Nat /\ l \in Nat /\ k + l = position - a
  <2>1. position <= Len(file)
    BY <1>1, <1>2 DEF n
  <2>2. QED
    BY <1>1, <1>7, <1>9, <2>1, EndOfRange
<1>14. IsRange(text, file, a + k, size)
  <2>1. a <= size /\ size <= Len(file)
    BY <1>1, <1>2 DEF n
  <2>2. text \in Seq(Part)
    BY <1>5 DEF Text
  <2>3. QED
    BY <1>1, <1>7, <1>12, <2>1, <2>2, EndOfRange
<1>15. p = a + k /\ p \in 0..position
  <2>1. p = position - l
    OBVIOUS
  <2> HIDE DEF k, l
  <2>2. QED
    BY <1>1, <1>13, <2>1
<1>16. IsRange((f \o g) \o z, file, a, size)
  BY <1>10, <1>12
<1>17. QED
  BY <1>5, <1>6, <1>8, <1>14, <1>15, <1>16 DEF text, z

\* The lines that are kept are the end of what they were taken from.
LEMMA KeptIsAnEnd ==
  ASSUME NEW s \in Seq(Part), NEW a \in Nat, NEW b \in Nat, a <= b, b <= Len(s),
         NEW ms \in Seq(Text), NEW z \in Text, IsRange(Flatten(ms) \o z, s, a, b)
  PROVE  /\ LastN(ms, MaxLog) \in Seq(Text)
         /\ \E c \in a..b : /\ IsRange(Flatten(LastN(ms, MaxLog)) \o z, s, c, b)
                            /\ Len(LastN(ms, MaxLog)) < MaxLog => c = a
<1> DEFINE k == LastN(ms, MaxLog)
<1>1. MaxLog \in Nat
  BY LogAssumption DEF LogAssumption
<1>2. k \in Seq(Text)
  BY <1>1, LastNIsAnEnd
<1>3. PICK d \in Seq(Text) : ms = d \o k /\ (Len(k) < MaxLog => d = <<>>)
  BY <1>1, LastNIsAnEnd
<1> HIDE DEF k
<1> DEFINE f == Flatten(d)
           g == Flatten(k)
<1>4. Flatten(ms) = f \o g
  BY <1>2, <1>3, FlattenConcat DEF Text
<1>5. f \in Seq(Part) /\ g \in Seq(Part) /\ z \in Seq(Part)
  BY <1>2, FlattenType DEF Text
<1>6. d = <<>> => Len(f) = 0
  BY FlattenNone
<1> HIDE DEF f, g
<1>7. (f \o g) \o z = f \o (g \o z)
  BY <1>5, ConcatAssociative
<1>8. g \o z \in Seq(Part)
  BY <1>5, ConcatProperties
<1>9. IsRange(f \o (g \o z), s, a, b)
  BY <1>4, <1>7
<1>10. /\ Len(f) \in Nat /\ Len(g \o z) \in Nat /\ Len(f) + Len(g \o z) = b - a
       /\ IsRange(g \o z, s, a + Len(f), b)
  <2> DEFINE h == g \o z
  <2>1. h \in Seq(Part) /\ IsRange(f \o h, s, a, b)
    BY <1>8, <1>9
  <2> HIDE DEF h
  <2>2. Len(f) \in Nat /\ Len(h) \in Nat /\ Len(f) + Len(h) = b - a /\ IsRange(h, s, a + Len(f), b)
    BY <1>5, <2>1, EndOfRange
  <2>3. QED
    BY <2>2 DEF h
<1> DEFINE c == a + Len(f)
<1>11. c \in a..b
  <2> DEFINE m == Len(f)
             n == Len(g \o z)
  <2>1. m \in Nat /\ n \in Nat /\ m + n = b - a /\ c = a + m
    BY <1>10
  <2> HIDE DEF m, n, c
  <2>2. QED
    BY <2>1
<1>12. Len(k) < MaxLog => c = a
  BY <1>3, <1>6
<1> HIDE DEF c
<1>13. IsRange(g \o z, s, c, b)
  BY <1>10 DEF c
<1>14. QED
  BY <1>2, <1>11, <1>12, <1>13 DEF g, k

\* Each line that is kept is one of them.
LEMMA KeptAreSome ==
  ASSUME NEW W, NEW ms \in Seq(W)
  PROVE  \A i \in DOMAIN LastN(ms, MaxLog) : \E j \in DOMAIN ms : LastN(ms, MaxLog)[i] = ms[j]
<1> DEFINE k == LastN(ms, MaxLog)
<1>1. MaxLog \in Nat
  BY LogAssumption DEF LogAssumption
<1>2. k \in Seq(W)
  BY <1>1, LastNIsAnEnd
<1>3. PICK d \in Seq(W) : ms = d \o k
  BY <1>1, LastNIsAnEnd
<1> HIDE DEF k
<1>4. \A i \in DOMAIN k : Len(d) + i \in DOMAIN (d \o k) /\ (d \o k)[Len(d) + i] = k[i]
  BY <1>2
<1>5. QED
  BY <1>3, <1>4 DEF k

\* An element of two sequences in a row is an element of one of them.
LEMMA ConcatAreSome ==
  ASSUME NEW W, NEW x \in Seq(W), NEW y \in Seq(W), NEW i \in DOMAIN (x \o y)
  PROVE  (\E j \in DOMAIN x : (x \o y)[i] = x[j]) \/ (\E j \in DOMAIN y : (x \o y)[i] = y[j])
<1>1. CASE i <= Len(x)
  BY <1>1
<1>2. CASE ~(i <= Len(x))
  <2>1. i - Len(x) \in DOMAIN y /\ (x \o y)[i] = y[i - Len(x)]
    BY <1>2
  <2>2. QED
    BY <2>1
<1>3. QED
  BY <1>1, <1>2

\* A text that is a range of the file, and its lines.
LEMMA LinesOfRange ==
  ASSUME TypeOK, FileInv, NEW p \in Nat, NEW b \in Nat, p < b, b <= Len(file),
         NEW t \in Text, IsRange(t, file, p, b)
  PROVE  /\ t # <<>> /\ t[1] = file[p + 1] /\ t[Len(t)] = file[b] /\ TakesTurns(t)
         /\ \A i \in DOMAIN Lines(t) : /\ Lines(t)[i] # <<>>
                                       /\ \/ Len(Lines(t)[i]) = 2
                                          \/ Lines(t)[i] = <<file[p + 1]>> /\ file[p + 1].tail
         /\ \/ Remainder(t) = <<>> /\ file[b].tail
            \/ Remainder(t) = <<file[b]>> /\ ~file[b].tail
<1> DEFINE n == Len(t)
           ls == Lines(t)
<1>1. file \in Seq(Part) /\ TakesTurns(file)
  BY FileInTurn
<1>2. t = SubSeq(file, p + 1, b)
  BY DEF IsRange
<1>3. n = b - p /\ \A i \in 1..n : t[i] = file[p + i]
  BY <1>1, <1>2, PartsOfRange
<1>4. TakesTurns(t)
  BY <1>1, <1>2, RangeInTurn
<1>5. t[1] = file[p + 1] /\ t[n] = file[b]
  <2>1. 1 \in 1..n /\ n \in 1..n /\ p + n = b
    BY <1>3
  <2> HIDE DEF n
  <2>2. QED
    BY <1>3, <2>1
<1>6. t # <<>>
  <2>1. n # 0
    BY <1>3
  <2>2. QED
    BY <2>1
<1>7. /\ \A i \in DOMAIN ls : Len(ls[i]) = 2 \/ (t # <<>> /\ ls[i] = <<t[1]>>)
      /\ \A i \in DOMAIN ls : ls[i] # <<>> /\ ls[i][Len(ls[i])].tail
      /\ Remainder(t) = <<>> => t = <<>> \/ t[n].tail
      /\ Remainder(t) # <<>> => t # <<>> /\ Remainder(t) = <<t[n]>> /\ ~t[n].tail
  BY <1>4, SplitInLines
<1> HIDE DEF ls
<1>8. \A i \in DOMAIN ls : Len(ls[i]) = 2 \/ (ls[i] = <<file[p + 1]>> /\ file[p + 1].tail)
  <2> DEFINE q == file[p + 1]
  <2>1. ASSUME NEW i \in DOMAIN ls, Len(ls[i]) # 2 PROVE ls[i] = <<q>> /\ q.tail
    <3>1. ls[i] = <<q>>
      BY <1>5, <1>7, <2>1
    <3>2. ls[i][Len(ls[i])].tail
      BY <1>7
    <3> HIDE DEF q
    <3>3. <<q>>[Len(<<q>>)] = q
      OBVIOUS
    <3>4. q.tail
      BY <3>1, <3>2, <3>3
    <3>5. QED
      BY <3>1, <3>4, Zenon
  <2> HIDE DEF q
  <2>2. \A i \in DOMAIN ls : Len(ls[i]) = 2 \/ (ls[i] = <<q>> /\ q.tail)
    BY <2>1, Zenon
  <2>3. QED
    BY <2>2, Zenon DEF q
<1> HIDE DEF n
<1>9. (Remainder(t) = <<>> /\ file[b].tail) \/ (Remainder(t) = <<file[b]>> /\ ~file[b].tail)
  <2>1. CASE Remainder(t) = <<>>
    <3>1. t[n].tail
      BY <1>6, <1>7, <2>1, Zenon
    <3>2. file[b].tail
      BY <1>5, <3>1
    <3>3. QED
      BY <2>1, <3>2, Zenon
  <2>2. CASE Remainder(t) # <<>>
    <3>1. Remainder(t) = <<t[n]>> /\ ~t[n].tail
      BY <1>7, <2>2, Zenon
    <3>2. Remainder(t) = <<file[b]>>
      BY <1>5, <3>1
    <3>3. ~file[b].tail
      BY <1>5, <3>1
    <3>4. QED
      BY <3>2, <3>3, Zenon
  <2>3. QED
    BY <2>1, <2>2, Zenon
<1>10. QED
  BY <1>4, <1>5, <1>6, <1>7, <1>8, <1>9 DEF ls, n

\* If fewer are kept than may be, they are all.
LEMMA FewerAreAll ==
  ASSUME NEW W, NEW s \in Seq(W), NEW n \in Nat, Len(LastN(s, n)) < n
  PROVE  LastN(s, n) = s
<1>1. CASE Len(s) <= n
  BY <1>1 DEF LastN
<1>2. CASE ~(Len(s) <= n)
  <2> DEFINE k == Len(s) - n
             m == Len(s)
  <2>1. k \in Nat /\ m \in Nat /\ k <= m /\ m - k = n /\ m <= Len(s)
    BY <1>2
  <2>2. LastN(s, n) = SubSeq(s, k + 1, m)
    BY <1>2 DEF LastN
  <2> HIDE DEF k, m
  <2>3. Len(SubSeq(s, k + 1, m)) = m - k
    BY <2>1, PartsOfRange
  <2>4. QED
    BY <2>1, <2>2, <2>3
<1>3. QED
  BY <1>1, <1>2

\* What the text that was kept back becomes.
LEMMA KeptBack ==
  ASSUME TypeOK, FileInv, NEW b \in Nat, b > 0, b <= Len(file), NEW z, NEW c,
         \/ z = <<>> /\ (~file[b].tail => file[b].line = c)
         \/ z = <<file[b]>> /\ ~file[b].tail
  PROVE  /\ z = <<>> \/ (b > 0 /\ z = <<file[b]>> /\ ~file[b].tail)
         /\ \A p \in Nat : p = b - Len(z) /\ p > 0 /\ ~file[p].tail => file[p].line = c
<1>1. CASE z = <<>> /\ (~file[b].tail => file[b].line = c)
  <2>1. Len(z) = 0
    BY <1>1
  <2>2. \A p \in Nat : p = b - Len(z) => p = b
    BY <2>1
  <2>3. QED
    BY <1>1, <2>2
<1>2. CASE z = <<file[b]>> /\ ~file[b].tail
  <2> DEFINE x == file[b]
  <2>0. z = <<x>> /\ ~x.tail
    BY <1>2
  <2> HIDE DEF x
  <2>1. Len(z) = 1
    BY <2>0
  <2>2. ASSUME NEW p \in Nat, p = b - Len(z), p > 0 PROVE file[p].tail
    <3> DEFINE n == Len(file)
    <3>1. n \in Nat /\ b <= n /\ TakesTurns(file)
      BY FileInTurn
    <3> HIDE DEF n
    <3>2. p \in 1..(n - 1) /\ p + 1 = b
      BY <2>1, <2>2, <3>1
    <3>3. file[p + 1].tail <=> ~file[p].tail
      BY <3>1, <3>2 DEF TakesTurns, n
    <3>4. ~file[p + 1].tail
      BY <2>0, <3>2 DEF x
    <3>5. QED
      BY <3>3, <3>4
  <2>3. QED
    BY <1>2, <2>2
<1>3. QED
  BY <1>1, <1>2

\* A read of what has been appended. What the lines held and what the read adds meet at the
\* position, whatever was kept back; the lines that are dropped are the first.
LEMMA ReadKeepsReader ==
  ASSUME TypeOK, FileInv, ReaderInv, Read
  PROVE  ReaderInv'
<1> DEFINE p == position - Len(partial)
           t == TextRead
           ms == LinesRead
           z == Remainder(TextRead)
           all == lines \o LinesRead
<1>1. /\ fpc = "read" /\ fpc' = "stat" /\ lines' = LastN(all, MaxLog) /\ partial' = z
      /\ position' = size /\ size' = 0 /\ cut' = cut /\ file' = file
  BY ReadIs DEF fileVars
<1>2. LinesInv /\ PartialInv /\ position < size /\ size <= Len(file)
  BY <1>1 DEF ReaderInv, ReadUpTo
<1>3. PICK a \in 0..position : Shown(a)
  BY <1>2 DEF LinesInv
<1>4. /\ t \in Text /\ ms \in Seq(Text) /\ z \in Text
      /\ IsRange(Flatten(all) \o z, file, a, size)
      /\ p \in 0..position /\ IsRange(t, file, p, size)
  BY <1>1, <1>3, ReadText
<1>5. /\ position \in Nat /\ size \in Nat /\ file \in Seq(Part) /\ lines \in Seq(Text)
      /\ Len(file) \in Nat /\ MaxLog \in Nat
  BY LogAssumption DEF LogAssumption, TypeOK, Text
<1>6. all \in Seq(Text)
  BY <1>4, <1>5, ConcatProperties
<1>7. ms = Lines(t) /\ z = Remainder(t)
  BY DEF LinesRead
<1> HIDE DEF t, ms, all, z
<1>8. p \in Nat /\ p < size /\ a \in Nat /\ a <= size /\ size > 0
  BY <1>2, <1>4, <1>5
<1>9. /\ \A i \in DOMAIN ms : /\ ms[i] # <<>>
                              /\ \/ Len(ms[i]) = 2
                                 \/ ms[i] = <<file[p + 1]>> /\ file[p + 1].tail
      /\ \/ z = <<>> /\ file[size].tail
         \/ z = <<file[size]>> /\ ~file[size].tail
  <2> HIDE DEF p
  <2>1. QED
    BY <1>2, <1>4, <1>5, <1>7, <1>8, LinesOfRange
<1>10. PICK c \in a..size : /\ IsRange(Flatten(LastN(all, MaxLog)) \o z, file, c, size)
                            /\ Len(LastN(all, MaxLog)) < MaxLog => c = a
  BY <1>2, <1>4, <1>5, <1>6, <1>8, KeptIsAnEnd
<1>11. ReadUpTo'
  <2>1. position' <= Len(file') /\ fpc' # "tailread" /\ fpc' # "read"
    BY <1>1, <1>2
  <2>2. QED
    BY <2>1 DEF ReadUpTo
<1>12. PartialInv'
  <2>1. (z = <<>> /\ (~file[size].tail => file[size].line = cut)) \/ (z = <<file[size]>> /\ ~file[size].tail)
    BY <1>9
  <2>2. /\ z = <<>> \/ (size > 0 /\ z = <<file[size]>> /\ ~file[size].tail)
        /\ \A q \in Nat : q = size - Len(z) /\ q > 0 /\ ~file[q].tail => file[q].line = cut
    BY <1>2, <1>5, <1>8, <2>1, KeptBack
  <2>3. QED
    BY <1>1, <2>2 DEF PartialInv
<1>13. Shown(c)'
  <2>1. Flatten(lines') \o partial' = SubSeq(file', c + 1, position')
    BY <1>1, <1>10 DEF IsRange
  <2>2. ASSUME Len(lines') < MaxLog PROVE c = 0 \/ c + TailParts <= position' + 2
    <3>1. c = a /\ LastN(all, MaxLog) = all
      BY <1>1, <1>5, <1>6, <1>10, <2>2, FewerAreAll
    <3>2. Len(lines) < MaxLog
      <4> DEFINE m == Len(lines)
                 n == Len(ms)
                 l == Len(all)
      <4>1. m \in Nat /\ n \in Nat /\ l = m + n
        BY <1>4, <1>5, ConcatProperties DEF all, ms
      <4>2. l < MaxLog
        BY <1>1, <2>2, <3>1
      <4> HIDE DEF m, n, l
      <4>3. m < MaxLog
        BY <1>5, <4>1, <4>2
      <4>4. QED
        BY <4>3 DEF m
    <3>3. a = 0 \/ a + TailParts <= position + 2
      BY <1>3, <3>2 DEF Shown
    <3>4. TailParts \in Nat
      BY LogAssumption DEF LogAssumption
    <3>5. QED
      BY <1>1, <1>2, <1>5, <1>8, <3>1, <3>3, <3>4
  <2>3. QED
    BY <2>1, <2>2 DEF Shown
<1>14. ASSUME NEW line \in Text, Whole(line) \/ (\E j \in DOMAIN ms : line = ms[j]) PROVE Whole(line)
  <2>1. CASE Whole(line)
    BY <1>1, <2>1 DEF Whole
  <2>2. CASE \E j \in DOMAIN ms : line = ms[j]
    <3>1. line # <<>> /\ (Len(line) = 2 \/ (line = <<file[p + 1]>> /\ file[p + 1].tail))
      BY <1>9, <2>2
    <3>2. CASE Len(line) = 2
      BY <3>1, <3>2 DEF Whole
    <3>3. CASE line = <<file[p + 1]>> /\ file[p + 1].tail /\ p = 0
      <4>1. line = <<file[1]>> /\ file # <<>>
        <5>1. p + 1 = 1
          BY <3>3
        <5>2. Len(file) > 0
          BY <1>2, <1>5, <1>8
        <5>3. line = <<file[1]>>
          BY <3>3, <5>1
        <5>4. QED
          BY <1>5, <5>2, <5>3
      <4>2. QED
        BY <1>1, <3>1, <4>1 DEF Whole
    <3>4. CASE line = <<file[p + 1]>> /\ file[p + 1].tail /\ p # 0
      <4> DEFINE n == Len(file)
                 x == file[p + 1]
      <4>1. n \in Nat /\ TakesTurns(file) /\ DOMAIN file = 1..n
        BY FileInTurn
      <4>2. p \in 1..(n - 1) /\ p \in 1..n /\ p + 1 \in 1..n /\ p > 0
        BY <1>2, <1>5, <1>8, <3>4, <4>1
      <4>3. x.tail <=> ~file[p].tail
        BY <4>1, <4>2 DEF TakesTurns
      <4>4. ~file[p].tail
        BY <3>4, <4>3
      <4>5. file[p].line = cut
        BY <1>2, <1>8, <4>2, <4>4 DEF PartialInv
      <4>6. x.line = file[p].line /\ file[p].line # 0
        BY <4>1, <4>2, <4>4, FileInTurn
      <4> HIDE DEF x, n
      <4>7. line = <<x>>
        BY <3>4 DEF x
      <4>8. line[1] = x
        BY <4>7
      <4>9. line[1].line = cut /\ cut # 0
        BY <1>1, <4>5, <4>6, <4>8
      <4>10. QED
        BY <3>1, <4>9 DEF Whole
    <3>5. QED
      BY <3>1, <3>2, <3>3, <3>4
  <2>3. QED
    BY <1>14, <2>1, <2>2
<1>15. (\A i \in DOMAIN lines : Whole(lines[i]))'
  <2>1. ASSUME NEW i \in DOMAIN lines' PROVE Whole(lines'[i])
    <3> DEFINE line == lines'[i]
    <3>1. PICK j \in DOMAIN all : line = all[j]
      BY <1>1, <1>6, KeptAreSome
    <3>2. all[j] \in Text
      BY <1>6
    <3>3. (\E k \in DOMAIN lines : all[j] = lines[k]) \/ (\E k \in DOMAIN ms : all[j] = ms[k])
      BY <1>4, <1>5, ConcatAreSome DEF all, ms
    <3>4. \A k \in DOMAIN lines : Whole(lines[k])
      BY <1>2 DEF LinesInv
    <3> HIDE DEF line
    <3>5. Whole(line)
      BY <1>14, <3>1, <3>2, <3>3, <3>4
    <3>6. QED
      BY <3>5 DEF line
  <2>2. QED
    BY <1>1, <2>1 DEF Whole
<1>16. QED
  BY <1>1, <1>11, <1>12, <1>13, <1>15 DEF ReaderInv, LinesInv

\* A sequence is its first element and the rest.
LEMMA FirstAndRest ==
  ASSUME NEW W, NEW s \in Seq(W), s # <<>>
  PROVE  s[1] \in W /\ \E r \in Seq(W) : s = <<s[1]>> \o r
<1> DEFINE x == s[1]
           r == Tail(s)
<1>1. x \in W /\ r \in Seq(W) /\ Len(r) = Len(s) - 1 /\ \A i \in 1..Len(r) : r[i] = s[i + 1]
  OBVIOUS
<1>2. s = <<x>> \o r
  BY HeadTailProperties
<1> HIDE DEF x, r
<1>3. QED
  BY <1>1, <1>2 DEF x

\* The first line of a text stands at its beginning.
LEMMA FirstLine ==
  ASSUME NEW t \in Text, Lines(t) # <<>>
  PROVE  /\ Lines(t)[1] \in Text /\ WithoutFragment(t) \in Text
         /\ t = Lines(t)[1] \o WithoutFragment(t)
<1> DEFINE ls == Lines(t)
           z == Remainder(t)
           x == ls[1]
           w == WithoutFragment(t)
<1>1. ls \in Seq(Text) /\ z \in Text /\ Flatten(ls) \o z = t
  BY SplitWhole
<1>2. w = SubSeq(t, Len(x) + 1, Len(t))
  BY DEF WithoutFragment
<1>3. w \in Text
  BY WithoutFragmentType
<1> HIDE DEF ls, z, w
<1>4. x \in Text
  BY <1>1 DEF ls
<1>5. PICK r \in Seq(Text) : ls = <<x>> \o r
  BY <1>1, FirstAndRest DEF ls
<1> HIDE DEF x
<1> DEFINE f == Flatten(r)
<1>6. Flatten(ls) = x \o f
  <2>1. <<x>> \in Seq(Seq(Part)) /\ r \in Seq(Seq(Part)) /\ x \in Seq(Part)
    BY <1>4 DEF Text
  <2>2. Flatten(<<x>>) = x
    BY <2>1, FlattenOne
  <2>3. Flatten(<<x>> \o r) = Flatten(<<x>>) \o Flatten(r)
    BY <2>1, FlattenConcat
  <2>4. QED
    BY <1>5, <2>2, <2>3
<1>7. f \in Seq(Part) /\ x \in Seq(Part) /\ z \in Seq(Part) /\ t \in Seq(Part)
  BY <1>1, <1>4, FlattenType DEF Text
<1> HIDE DEF f
<1>8. (x \o f) \o z = x \o (f \o z)
  BY <1>7, ConcatAssociative
<1> DEFINE y == f \o z
<1>9. y \in Seq(Part) /\ t = x \o y
  BY <1>1, <1>6, <1>7, <1>8, ConcatProperties
<1> HIDE DEF y
<1>10. IsRange(x \o y, t, 0, Len(t))
  BY <1>7, <1>9, SubSeqFull DEF IsRange
<1>11. IsRange(y, t, 0 + Len(x), Len(t))
  <2>1. Len(t) \in Nat /\ 0 <= Len(t) /\ Len(t) <= Len(t)
    BY <1>7
  <2>2. QED
    BY <1>7, <1>9, <1>10, <2>1, EndOfRange
<1>12. y = w
  <2> DEFINE k == Len(x)
  <2>1. k \in Nat
    BY <1>7
  <2> HIDE DEF k
  <2>2. 0 + k + 1 = k + 1
    BY <2>1
  <2>3. y = SubSeq(t, 0 + k + 1, Len(t)) /\ w = SubSeq(t, k + 1, Len(t))
    BY <1>2, <1>11, Zenon DEF IsRange, k
  <2>4. QED
    BY <2>2, <2>3, Zenon
<1>13. QED
  BY <1>3, <1>4, <1>9, <1>12 DEF x, w, ls

\* What the tail of the file is: all of it, or what follows the line its cut is in.
LEMMA TailTextIs ==
  ASSUME TypeOK, FileInv, size <= Len(file)
  PROVE  \E a \in 0..size :
           /\ IsRange(TailText, file, a, size)
           /\ a = 0 \/ a + TailParts <= size + 2
           /\ a = 0 \/ file[a].tail \/ (Lines(TailText) = <<>> /\ a < size)
<1> DEFINE start == Above(size, TailParts)
           read == ReadRange(start, size)
           t == TailText
<1>1. /\ size \in Nat /\ file \in Seq(Part) /\ file \in Text /\ TailParts \in Nat /\ TailParts > 0
      /\ Len(file) \in Nat
  BY LogAssumption DEF LogAssumption, TypeOK, Text
<1>2. start \in 0..size /\ (start > 0 => start + TailParts = size)
  BY <1>1 DEF Above
<1>3. t = IF start > 0 THEN WithoutFragment(read) ELSE read
  BY DEF TailText
<1> HIDE DEF start, t
<1>4. read \in Text /\ IsRange(read, file, start, size)
  <2>1. start \in Nat
    BY <1>1, <1>2
  <2>2. read \in Text /\ read = SubSeq(file, start + 1, size)
    BY <1>1, <2>1, ReadRangeType
  <2>3. QED
    BY <2>2, Zenon DEF IsRange
<1> HIDE DEF read
<1>5. CASE ~(start > 0)
  <2>1. start = 0 /\ t = read
    BY <1>2, <1>3, <1>5
  <2>2. IsRange(t, file, 0, size) /\ 0 \in 0..size
    BY <1>1, <1>4, <2>1
  <2>3. QED
    BY <2>2 DEF t
<1>6. CASE start > 0 /\ Lines(read) = <<>>
  <2>1. t = read
    BY <1>3, <1>6 DEF WithoutFragment
  <2>2. start < size /\ start + TailParts <= size + 2
    BY <1>1, <1>2, <1>6
  <2>3. QED
    BY <1>2, <1>4, <1>6, <2>1, <2>2 DEF t
<1>7. CASE start > 0 /\ Lines(read) # <<>>
  <2> DEFINE x == Lines(read)[1]
             k == Len(x)
             a == start + k
  <2>1. x \in Seq(Part) /\ t \in Seq(Part) /\ read = x \o t
    BY <1>3, <1>4, <1>7, FirstLine DEF Text
  <2>2. start < size /\ start \in Nat
    BY <1>1, <1>2, <1>7
  <2>3. /\ TakesTurns(read) /\ x # <<>> /\ (Len(x) = 2 \/ x = <<file[start + 1]>>)
    <3>1. 1 \in DOMAIN Lines(read)
      BY <1>4, <1>7, SplitWhole
    <3>2. QED
      BY <1>1, <1>4, <2>2, <3>1, LinesOfRange
  <2>4. x[Len(x)].tail
    <3>1. 1 \in DOMAIN Lines(read)
      BY <1>4, <1>7, SplitWhole
    <3>2. QED
      BY <1>4, <2>3, <3>1, SplitInLines
  <2> HIDE DEF x
  <2>5. k \in 1..2
    <3> DEFINE q == file[start + 1]
    <3>1. x # <<>> /\ (Len(x) = 2 \/ x = <<q>>)
      BY <2>3
    <3> HIDE DEF q
    <3>2. QED
      BY <3>1
  <2>6. IsRange(x \o t, file, start, size)
    BY <1>4, <2>1
  <2>7. /\ Len(t) \in Nat /\ k + Len(t) = size - start
        /\ IsRange(x, file, start, start + k) /\ IsRange(t, file, start + k, size)
    BY <1>1, <2>1, <2>2, <2>6, EndOfRange
  <2> HIDE DEF k
  <2>8. a \in 0..size /\ a + TailParts <= size + 2 /\ a <= Len(file)
    <3> DEFINE n == Len(t)
    <3>1. n \in Nat /\ k + n = size - start
      BY <2>7
    <3> HIDE DEF n
    <3>2. QED
      BY <1>1, <1>2, <1>7, <2>5, <3>1
  <2>9. file[a].tail
    <3>1. x = SubSeq(file, start + 1, a)
      BY <2>7 DEF IsRange
    <3>2. a \in Nat
      BY <1>1, <2>8
    <3> HIDE DEF a
    <3>3. Len(x) = k /\ k \in 1..Len(x)
      BY <2>5 DEF k
    <3>4. x[k] = file[start + k]
      BY <1>1, <2>2, <2>8, <3>1, <3>2, <3>3, PartsOfRange
    <3>5. QED
      BY <2>4, <3>3, <3>4 DEF a
  <2>10. IsRange(t, file, a, size)
    BY <2>7
  <2> HIDE DEF a
  <2>11. QED
    BY <2>8, <2>9, <2>10 DEF t
<1>8. QED
  BY <1>5, <1>6, <1>7

\* The read of the tail. The last line may be in pieces from now on, and none other: a text
\* that begins after a line begins with a head.
LEMMA TailReadKeepsReader ==
  ASSUME TypeOK, FileInv, NothingYet, ReaderInv, TailRead
  PROVE  ReaderInv'
<1> DEFINE t == TailText
           ls == Lines(t)
           z == Remainder(t)
           ms == IF z = <<>> THEN <<>> ELSE <<z>>
           all == ls \o ms
           kept == LastN(all, MaxLog)
<1>1. /\ fpc = "tailread" /\ fpc' = "stat" /\ LogsReset(TailLines(t)) /\ cut' = CutOf(t)
      /\ position' = size /\ size' = 0 /\ partial' = partial /\ file' = file /\ partial = <<>>
  BY TailReadIs DEF fileVars, NothingYet
<1>2. /\ size \in Nat /\ file \in Seq(Part) /\ Len(file) \in Nat /\ MaxLog \in Nat /\ size <= Len(file)
  BY <1>1, LogAssumption DEF LogAssumption, TypeOK, Text, ReaderInv, ReadUpTo
<1>3. PICK a \in 0..size :
           /\ IsRange(TailText, file, a, size)
           /\ a = 0 \/ a + TailParts <= size + 2
           /\ a = 0 \/ file[a].tail \/ (Lines(TailText) = <<>> /\ a < size)
  BY <1>2, TailTextIs
<1>4. /\ t \in Text /\ IsRange(t, file, a, size)
      /\ a = 0 \/ file[a].tail \/ (ls = <<>> /\ a < size)
  BY <1>3, TailTextType
<1> HIDE DEF t
<1>5. ls \in Seq(Text) /\ z \in Text /\ Flatten(ls) \o z = t
  BY <1>4, SplitWhole
<1>6. kept = TailLines(t)
  BY DEF TailLines
<1>7. a < size =>
        /\ t[Len(t)] = file[size] /\ t # <<>>
        /\ \A i \in DOMAIN ls : /\ ls[i] # <<>>
                                /\ \/ Len(ls[i]) = 2
                                   \/ ls[i] = <<file[a + 1]>> /\ file[a + 1].tail
        /\ \/ z = <<>> /\ file[size].tail
           \/ z = <<file[size]>> /\ ~file[size].tail
  <2> SUFFICES ASSUME a < size
               PROVE  /\ t[Len(t)] = file[size] /\ t # <<>>
                      /\ \A i \in DOMAIN ls : /\ ls[i] # <<>>
                                              /\ \/ Len(ls[i]) = 2
                                                 \/ ls[i] = <<file[a + 1]>> /\ file[a + 1].tail
                      /\ \/ z = <<>> /\ file[size].tail
                         \/ z = <<file[size]>> /\ ~file[size].tail
    OBVIOUS
  <2>1. a \in Nat
    OBVIOUS
  <2>2. QED
    BY <1>2, <1>4, <2>1, LinesOfRange
<1>8. ~(a < size) => a = size /\ t = <<>> /\ ls = <<>> /\ z = <<>>
  <2> SUFFICES ASSUME ~(a < size) PROVE a = size /\ t = <<>> /\ ls = <<>> /\ z = <<>>
    OBVIOUS
  <2>1. a = size
    BY <1>2
  <2>2. t = SubSeq(file, size + 1, size)
    BY <1>4, <2>1 DEF IsRange
  <2>3. Len(t) = 0
    <3>1. Len(SubSeq(file, size + 1, size)) = 0
      BY <1>2, PartsOfRange
    <3>2. QED
      BY <2>2, <3>1
  <2>4. t = <<>>
    BY <1>4, <2>3 DEF Text
  <2>5. QED
    BY <2>1, <2>4, SplitNone
<1>9. cut' = IF z = <<>> THEN 0 ELSE Last(t).line
  BY <1>1 DEF CutOf
<1>10. z # <<>> => cut' = file[size].line /\ z = <<file[size]>> /\ ~file[size].tail /\ size > 0
  <2> SUFFICES ASSUME z # <<>>
               PROVE  cut' = file[size].line /\ z = <<file[size]>> /\ ~file[size].tail /\ size > 0
    OBVIOUS
  <2>1. a < size
    BY <1>8
  <2>2. Last(t) = file[size]
    BY <1>7, <2>1 DEF Last
  <2>3. cut' = file[size].line
    BY <1>9, <2>2
  <2>4. size > 0
    BY <1>2, <2>1
  <2>5. z = <<file[size]>> /\ ~file[size].tail
    BY <1>7, <2>1
  <2>6. QED
    BY <2>3, <2>4, <2>5
<1>11. z = <<>> /\ size > 0 => file[size].tail
  BY <1>2, <1>4, <1>7, <1>8
<1>12. Flatten(all) = t /\ all \in Seq(Text)
  <2>1. CASE z = <<>>
    <3>1. ms = <<>>
      BY <2>1
    <3>2. Flatten(ls) \in Seq(Part)
      BY <1>5, FlattenType DEF Text
    <3>3. Flatten(ls) \o <<>> = Flatten(ls)
      BY <3>2, ConcatEmptySeq
    <3>4. Flatten(ls) = t
      BY <1>5, <2>1, <3>3
    <3> HIDE DEF ls
    <3>5. all = ls
      BY <1>5, <3>1, ConcatEmptySeq
    <3>6. QED
      BY <1>5, <3>4, <3>5
  <2>2. CASE z # <<>>
    <3>1. ms = <<z>>
      BY <2>2
    <3> HIDE DEF ls, z
    <3>2. <<z>> \in Seq(Text) /\ ls \o <<z>> \in Seq(Text)
      BY <1>5
    <3>3. Flatten(<<z>>) = z
      BY <1>5, FlattenOne DEF Text
    <3>4. Flatten(ls \o <<z>>) = Flatten(ls) \o Flatten(<<z>>)
      BY <1>5, <3>2, FlattenConcat DEF Text
    <3>5. QED
      BY <1>5, <3>1, <3>2, <3>3, <3>4
  <2>3. QED
    BY <2>1, <2>2
<1>13. ASSUME NEW i \in DOMAIN all PROVE all[i] \in Text /\ ((\E j \in DOMAIN ls : all[i] = ls[j]) \/ (z # <<>> /\ all[i] = z))
  <2>1. ms \in Seq(Text) /\ (\A j \in DOMAIN ms : z # <<>> /\ ms[j] = z)
    BY <1>5
  <2> HIDE DEF ls, ms
  <2>2. (\E j \in DOMAIN ls : all[i] = ls[j]) \/ (\E j \in DOMAIN ms : all[i] = ms[j])
    BY <1>5, <2>1, ConcatAreSome
  <2>3. QED
    BY <1>12, <2>1, <2>2
<1> HIDE DEF all, kept, ls, z
<1>14. lines' = kept /\ kept \in Seq(Text)
  <2>1. kept \in Seq(Text) /\ Len(kept) <= MaxLog
    BY <1>2, <1>12, LastNIsAnEnd DEF kept
  <2>2. LastN(kept, MaxLog) = kept
    BY <2>1 DEF LastN
  <2>3. QED
    BY <1>1, <1>6, <2>1, <2>2 DEF LogsReset
<1>15. PICK c \in a..size : IsRange(Flatten(kept) \o <<>>, file, c, size) /\ (Len(kept) < MaxLog => c = a)
  <2>1. a \in Nat /\ a <= size /\ <<>> \in Text
    BY <1>2, EmptySeq DEF Text
  <2>2. t \o <<>> = t
    BY <1>4, ConcatEmptySeq DEF Text
  <2>3. IsRange(Flatten(all) \o <<>>, file, a, size)
    BY <1>4, <1>12, <2>2
  <2>4. QED
    <3>1. all \in Seq(Text) /\ file \in Seq(Part) /\ size \in Nat /\ size <= Len(file)
      BY <1>2, <1>12
    <3> DEFINE e == <<>>
    <3>2. e \in Text /\ IsRange(Flatten(all) \o e, file, a, size)
      BY <2>1, <2>3
    <3> HIDE DEF e
    <3>3. \E c \in a..size : /\ IsRange(Flatten(LastN(all, MaxLog)) \o e, file, c, size)
                             /\ Len(LastN(all, MaxLog)) < MaxLog => c = a
      BY <2>1, <3>1, <3>2, KeptIsAnEnd
    <3>4. QED
      BY <3>3 DEF kept, e
<1>16. ReadUpTo'
  <2>1. position' <= Len(file') /\ fpc' # "tailread" /\ fpc' # "read"
    BY <1>1, <1>2
  <2>2. QED
    BY <2>1 DEF ReadUpTo
<1>17. PartialInv'
  <2>1. \A p \in Nat : p = position' - Len(partial') => p = size
    BY <1>1, <1>2
  <2>2. size > 0 /\ ~file[size].tail => file[size].line = cut'
    BY <1>10, <1>11
  <2>3. QED
    BY <1>1, <2>1, <2>2 DEF PartialInv
<1>18. Shown(c)'
  <2>1. Flatten(lines') \o partial' = SubSeq(file', c + 1, position')
    BY <1>1, <1>14, <1>15 DEF IsRange
  <2>2. Len(lines') < MaxLog => c = 0 \/ c + TailParts <= position' + 2
    BY <1>1, <1>3, <1>14, <1>15
  <2>3. QED
    BY <2>1, <2>2 DEF Shown
<1>19. \A i \in DOMAIN lines' :
          /\ lines'[i] # <<>>
          /\ \/ Len(lines'[i]) = 2
             \/ lines'[i][1].line = cut' /\ cut' # 0
             \/ file' # <<>> /\ lines'[i] = <<file'[1]>>
  <2> SUFFICES ASSUME NEW i \in DOMAIN kept
               PROVE  /\ kept[i] # <<>>
                      /\ \/ Len(kept[i]) = 2
                         \/ kept[i][1].line = cut' /\ cut' # 0
                         \/ file # <<>> /\ kept[i] = <<file[1]>>
    BY <1>1, <1>14
  <2> DEFINE line == kept[i]
             q == file[size]
             h == file[a + 1]
  <2>1. PICK j \in DOMAIN all : line = all[j]
    BY <1>12, KeptAreSome DEF kept
  <2>2. (\E k \in DOMAIN ls : line = ls[k]) \/ (z # <<>> /\ line = z)
    BY <1>13, <2>1
  <2>3. CASE z # <<>> /\ line = z
    <3>1. line = <<q>> /\ cut' = q.line /\ size > 0
      BY <1>10, <2>3
    <3>2. size \in DOMAIN file
      BY <1>2, <3>1
    <3>3. q.line # 0
      BY <3>2, FileInTurn
    <3> HIDE DEF q, line
    <3>4. line # <<>> /\ line[1] = q
      BY <3>1
    <3>5. line[1].line = cut' /\ cut' # 0
      BY <3>1, <3>3, <3>4
    <3>6. QED
      BY <3>4, <3>5 DEF line
  <2>4. CASE \E k \in DOMAIN ls : line = ls[k]
    <3>1. a < size
      BY <1>8, <2>4
    <3>2. line # <<>> /\ (Len(line) = 2 \/ (line = <<h>> /\ h.tail))
      BY <1>7, <2>4, <3>1
    <3>3. ASSUME line = <<h>>, h.tail PROVE a = 0
      <4> SUFFICES ASSUME a # 0 PROVE FALSE
        OBVIOUS
      <4> DEFINE n == Len(file)
      <4>1. n \in Nat /\ TakesTurns(file)
        BY FileInTurn
      <4>2. size <= n
        BY <1>2
      <4> HIDE DEF n
      <4>3. a \in 1..(n - 1)
        BY <1>2, <3>1, <4>1, <4>2
      <4>4. h.tail <=> ~file[a].tail
        BY <4>1, <4>3 DEF TakesTurns, n
      <4>5. file[a].tail
        BY <1>4, <2>4
      <4>6. QED
        BY <3>3, <4>4, <4>5
    <3>4. a = 0 => h = file[1] /\ file # <<>>
      <4>1. a = 0 => a + 1 = 1
        OBVIOUS
      <4>2. Len(file) > 0
        BY <1>2, <3>1
      <4>3. QED
        BY <1>2, <4>1, <4>2
    <3> HIDE DEF line, h
    <3>5. Len(line) = 2 \/ (file # <<>> /\ line = <<file[1]>>)
      BY <3>2, <3>3, <3>4
    <3>6. QED
      BY <3>2, <3>5 DEF line
  <2>5. QED
    BY <2>2, <2>3, <2>4
<1>20. (\A i \in DOMAIN lines : Whole(lines[i]))'
  BY <1>19 DEF Whole
<1>21. (\E b \in 0..position : Shown(b))'
  <2>1. c \in 0..position'
    BY <1>1, <1>2
  <2>2. QED
    BY <1>18, <2>1
<1>22. QED
  BY <1>1, <1>16, <1>17, <1>20, <1>21 DEF ReaderInv, LinesInv

-----------------------------------------------------------------------------
(* The invariant.                                                          *)

\* Every step keeps what holds of the reader, unless it truncates the file.
LEMMA StepKeepsReader ==
  ASSUME TypeOK, TypeOK', LogInv, [Next]_vars, ~disturbed'
  PROVE  ReaderInv'
<1>1. CASE Write
  <2>1. ReaderInv /\ lines' = lines /\ UNCHANGED readVars
    BY <1>1, Zenon DEF Write, LogInv, readVars, screenVars
  <2> DEFINE n == Len(file)
             m == Len(file')
  <2>2. n \in Nat /\ m = n + 1 /\ \A i \in DOMAIN file : file'[i] = file[i]
    BY <1>1, WriteGrows
  <2>3. n <= m
    BY <2>2
  <2> HIDE DEF n, m
  <2>4. QED
    BY <2>1, <2>2, <2>3, WhileTheFileGrows DEF n, m
<1>2. CASE Truncate
  BY <1>2, Zenon DEF Truncate
<1>3. CASE Key \/ UNCHANGED vars
  <2>1. lines' = lines /\ UNCHANGED readVars /\ file' = file
    BY <1>3, KeyType DEF Key, vars, readVars, fileVars
  <2>2. disturbed' = disturbed
    BY <2>1 DEF readVars
  <2>3. ReaderInv
    BY <2>2, Zenon DEF LogInv
  <2>4. Len(file) <= Len(file')
    BY <2>1 DEF TypeOK, Text
  <2>5. QED
    BY <2>1, <2>3, <2>4, WhileTheFileGrows
<1>4. CASE TailStat \/ TailRead \/ Read \/ Throw
  <2>1. disturbed' = disturbed
    BY <1>4 DEF TailStat, TailRead, Read, Throw
  <2>2. FileInv /\ NothingYet /\ ReaderInv
    BY <2>1, Zenon DEF LogInv
  <2>3. QED
    BY <1>4, <2>2, TailStatKeepsReader, TailReadKeepsReader, ReadKeepsReader, ThrowKeepsReader
<1>5. CASE Stat
  <2>1. ~disturbed => ReaderInv
    BY DEF LogInv
  <2>2. QED
    BY <1>5, <2>1, StatKeepsReader
<1>6. QED
  BY <1>1, <1>2, <1>3, <1>4, <1>5 DEF Next, ReadStep

\* The inductive invariant.
THEOREM Inductive == Spec => []LogInv
<1>1. Init => LogInv
  <2> SUFFICES ASSUME Init PROVE LogInv
    OBVIOUS
  <2>1. /\ file = <<>> /\ written = 0 /\ fpc = "tail" /\ position = 0 /\ partial = <<>>
        /\ lines = <<>>
    BY DEF Init
  <2>2. Len(file) = 0 /\ Len(partial) = 0 /\ DOMAIN file = {}
    BY <2>1
  <2>3. FileInv /\ NothingYet
    BY <2>1, <2>2 DEF FileInv, NothingYet
  <2>4. ReadUpTo
    BY <2>1, <2>2 DEF ReadUpTo
  <2>5. PartialInv
    <3>1. \A p \in Nat : p = position - Len(partial) => ~(p > 0)
      BY <2>1, <2>2
    <3>2. QED
      BY <2>1, <3>1 DEF PartialInv
  <2>6. QED
    BY <2>1, <2>3, <2>4, <2>5 DEF LogInv, ReaderInv
<1>2. TypeOK /\ TypeOK' /\ LogInv /\ [Next]_vars => LogInv'
  <2> SUFFICES ASSUME TypeOK, TypeOK', LogInv, [Next]_vars PROVE LogInv'
    OBVIOUS
  <2>1. FileInv' /\ NothingYet'
    BY StepKeepsFile, StepKeepsNothingYet DEF LogInv
  <2>2. ~disturbed' => ReaderInv'
    BY StepKeepsReader
  <2>3. QED
    BY <2>1, <2>2 DEF LogInv
<1>3. QED
  BY <1>1, <1>2, TypeCorrect, PTL DEF Spec

-----------------------------------------------------------------------------
(* What it says of the screen.                                             *)

\* The stretch of the file the screen holds ends at the position and is as long as the
\* tail, unless lines were dropped.
LEMMA TheLogIsHeld == TypeOK /\ LogInv => HoldsTheLog
<1> SUFFICES ASSUME TypeOK, LogInv, fpc \in {"stat", "read"}, ~disturbed
             PROVE  LET text == Flatten(lines) \o partial
                        upTo == SubSeq(file, 1, position)
                    IN /\ text = LastN(upTo, Len(text))
                       /\ Len(lines) < MaxLog => Len(text) >= Lesser(position, Above(TailParts, 2))
                       /\ \A i \in DOMAIN lines :
                            \/ Len(lines[i]) = 2
                            \/ lines[i][1].line = cut /\ cut # 0
                            \/ lines[i] = <<file[1]>>
  BY Zenon DEF HoldsTheLog
<1> DEFINE text == Flatten(lines) \o partial
           upTo == SubSeq(file, 1, position)
           n == Len(text)
<1>1. ReadUpTo /\ LinesInv
  BY DEF LogInv, ReaderInv
<1>2. /\ position \in Nat /\ file \in Seq(Part) /\ Len(file) \in Nat /\ position <= Len(file)
      /\ TailParts \in Nat
  BY <1>1, LogAssumption DEF LogAssumption, TypeOK, Text, ReadUpTo
<1>3. PICK a \in 0..position : Shown(a)
  BY <1>1 DEF LinesInv
<1>4. a \in Nat /\ a <= position
  BY <1>2
<1>5. text = SubSeq(file, a + 1, position) /\ (Len(lines) < MaxLog => a = 0 \/ a + TailParts <= position + 2)
  BY <1>3 DEF Shown
<1> HIDE DEF text
<1>6. /\ text \in Seq(Part) /\ n = position - a
      /\ \A i \in 1..n : text[i] = file[a + i]
  <2>1. /\ text \in Seq(Part) /\ n = IF a <= position THEN position - a ELSE 0
        /\ \A i \in 1..n : text[i] = file[a + i]
    BY <1>2, <1>4, <1>5, PartsOfRange
  <2>2. QED
    BY <1>2, <1>4, <2>1
<1>7. /\ upTo \in Seq(Part) /\ Len(upTo) = position
      /\ \A i \in 1..position : upTo[i] = file[i]
  <2> DEFINE zero == 0
             x == SubSeq(file, zero + 1, position)
  <2>0. zero \in Nat /\ zero <= position
    BY <1>2
  <2>1. x = upTo
    OBVIOUS
  <2> HIDE DEF upTo, zero
  <2>2. /\ x \in Seq(Part) /\ Len(x) = IF zero <= position THEN position - zero ELSE 0
        /\ \A i \in 1..Len(x) : x[i] = file[zero + i]
    BY <1>2, <2>0, PartsOfRange
  <2> HIDE DEF x
  <2>3. Len(x) = position
    BY <1>2, <2>0, <2>2 DEF zero
  <2>4. \A i \in 1..position : x[i] = file[i]
    BY <1>2, <2>2, <2>3 DEF zero
  <2>5. QED
    BY <2>1, <2>2, <2>3, <2>4
<1> HIDE DEF upTo, n
<1>8. text = LastN(upTo, n)
  <2>1. n \in Nat
    BY <1>2, <1>4, <1>6
  <2>2. CASE position <= n
    <3>1. a = 0 /\ n = position
      BY <1>2, <1>4, <1>6, <2>2
    <3>2. LastN(upTo, n) = upTo
      BY <1>7, <2>2 DEF LastN
    <3>3. \A i \in 1..n : text[i] = upTo[i]
      BY <1>2, <1>6, <1>7, <3>1
    <3>4. text = upTo
      BY <1>6, <1>7, <3>1, <3>3, SeqEqual DEF n
    <3>5. QED
      BY <3>2, <3>4
  <2>3. CASE ~(position <= n)
    <3>1. LastN(upTo, n) = SubSeq(upTo, a + 1, position)
      <4>1. position - n = a
        BY <1>2, <1>4, <1>6
      <4>2. QED
        BY <1>7, <2>3, <4>1 DEF LastN
    <3> DEFINE y == SubSeq(upTo, a + 1, position)
    <3>2. /\ y \in Seq(Part) /\ Len(y) = IF a <= position THEN position - a ELSE 0
          /\ \A i \in 1..Len(y) : y[i] = upTo[a + i]
      <4>1. position <= Len(upTo)
        BY <1>2, <1>7
      <4>2. QED
        BY <1>2, <1>4, <1>7, <4>1, PartsOfRange
    <3> HIDE DEF y
    <3>3. Len(y) = n
      BY <1>2, <1>4, <1>6, <3>2
    <3>4. ASSUME NEW i \in 1..n PROVE text[i] = y[i]
      <4>1. a + i \in 1..position
        BY <1>2, <1>4, <1>6
      <4>2. QED
        BY <1>6, <1>7, <3>2, <3>3, <4>1
    <3>5. text = y
      BY <1>6, <3>2, <3>3, <3>4, SeqEqual DEF n
    <3>6. QED
      BY <3>1, <3>5 DEF y
  <2>4. QED
    BY <2>2, <2>3
<1>9. Len(lines) < MaxLog => n >= Lesser(position, Above(TailParts, 2))
  BY <1>2, <1>4, <1>5, <1>6 DEF Lesser, Above
<1>10. \A i \in DOMAIN lines :
         \/ Len(lines[i]) = 2
         \/ lines[i][1].line = cut /\ cut # 0
         \/ lines[i] = <<file[1]>>
  BY <1>1 DEF LinesInv, Whole
<1>11. QED
  BY <1>8, <1>9, <1>10 DEF text, upTo, n

\* The screen holds the log up to the reader's position, without a loss, a repetition or a
\* disorder, and shows in pieces only what the tail of the file, or the file itself, had in
\* pieces: for logs of any length, any number of truncations, and tails and screens of any
\* size.
THEOREM LogIsHeld == Spec => []HoldsTheLog
BY TheLogIsHeld, TypeCorrect, Inductive, PTL

-----------------------------------------------------------------------------
(* What is in view.                                                        *)

\* The filter lets all those pass that hold its text and no others, each once.
LEMMA MatchingPicks ==
  ASSUME NEW W
  PROVE  \A ls \in Seq(W) :
           /\ \A j \in DOMAIN Matching(ls) : Holds(Matching(ls)[j])
           /\ \A i \in DOMAIN ls : Holds(ls[i]) => \E j \in DOMAIN Matching(ls) : Matching(ls)[j] = ls[i]
           /\ Distinct(ls) => Distinct(Matching(ls))
<1> DEFINE P(ls) ==
             /\ \A j \in DOMAIN Matching(ls) : Holds(Matching(ls)[j])
             /\ \A i \in DOMAIN ls : Holds(ls[i]) => \E j \in DOMAIN Matching(ls) : Matching(ls)[j] = ls[i]
             /\ Distinct(ls) => Distinct(Matching(ls))
           T == {ls \in Seq(W) : P(ls)}
<1>1. <<>> \in T
  <2>1. DOMAIN Matching(<<>>) = {} /\ Matching(<<>>) = <<>> /\ <<>> \in Seq(W)
    BY MatchingNone, EmptySeq
  <2>2. QED
    BY <2>1
<1>2. ASSUME NEW ls \in T, NEW x \in W PROVE Append(ls, x) \in T
  <2> DEFINE m == Matching(ls)
             ms == Append(ls, x)
             k == Matching(ms)
  <2>1. ls \in Seq(W) /\ m \in Seq(W) /\ ms \in Seq(W)
    BY MatchingType
  <2>2. P(ls)
    OBVIOUS
  <2>3. k = IF Holds(x) THEN Append(m, x) ELSE m
    BY <2>1, MatchingAppend
  <2>4. \A j \in DOMAIN m : \E i \in DOMAIN ls : ls[i] = m[j]
    BY <2>1, MatchingType
  <2>5. /\ \A j \in DOMAIN m : Holds(m[j])
        /\ \A i \in DOMAIN ls : Holds(ls[i]) => \E j \in DOMAIN m : m[j] = ls[i]
        /\ Distinct(ls) => Distinct(m)
    BY <2>2
  <2> HIDE DEF T, P, m, k
  <2>6. /\ \A i \in DOMAIN ls : i \in DOMAIN ms /\ ms[i] = ls[i]
        /\ DOMAIN ms = DOMAIN ls \cup {Len(ls) + 1} /\ ms[Len(ls) + 1] = x
        /\ Len(ls) + 1 \notin DOMAIN ls
    BY <2>1
  <2> HIDE DEF ms
  <2>7. ASSUME Distinct(ms) PROVE Distinct(ls) /\ \A i \in DOMAIN ls : ls[i] # x
    BY <2>6, <2>7 DEF Distinct
  <2>8. CASE Holds(x)
    <3>1. k = Append(m, x)
      BY <2>3, <2>8
    <3>2. /\ \A j \in DOMAIN m : j \in DOMAIN k /\ k[j] = m[j]
          /\ DOMAIN k = DOMAIN m \cup {Len(m) + 1} /\ k[Len(m) + 1] = x
          /\ Len(m) + 1 \notin DOMAIN m
      BY <2>1, <3>1
    <3>3. \A j \in DOMAIN k : Holds(k[j])
      BY <2>5, <2>8, <3>2
    <3>4. \A i \in DOMAIN ms : Holds(ms[i]) => \E j \in DOMAIN k : k[j] = ms[i]
      BY <2>5, <2>6, <3>2
    <3>5. ASSUME Distinct(ms) PROVE Distinct(k)
      <4>1. \A i \in DOMAIN m : m[i] # x
        BY <2>4, <2>7, <3>5
      <4>2. Distinct(m)
        BY <2>5, <2>7, <3>5
      <4>3. QED
        BY <3>2, <4>1, <4>2 DEF Distinct
    <3>6. QED
      BY <2>1, <3>3, <3>4, <3>5 DEF T, P, ms, k
  <2>9. CASE ~Holds(x)
    <3>1. k = m
      BY <2>3, <2>9
    <3>2. \A i \in DOMAIN ms : Holds(ms[i]) => \E j \in DOMAIN k : k[j] = ms[i]
      BY <2>5, <2>6, <2>9, <3>1
    <3>3. Distinct(ms) => Distinct(k)
      BY <2>5, <2>7, <3>1
    <3>4. \A j \in DOMAIN k : Holds(k[j])
      BY <2>5, <3>1
    <3>5. QED
      BY <2>1, <3>2, <3>3, <3>4 DEF T, P, ms, k
  <2>10. QED
    BY <2>8, <2>9
<1>3. T = Seq(W)
  <2>1. T \in SUBSET Seq(W)
    OBVIOUS
  <2> HIDE DEF T
  <2>2. QED
    BY <1>1, <1>2, <2>1, SequenceInduction
<1>4. QED
  BY <1>3

\* A line is in the view if the filter lets it pass.
InView(line) == filter => Holds(line)

\* The same of the view, with a filter or without.
LEMMA VisiblePicks ==
  ASSUME NEW ls \in Seq(Text)
  PROVE  /\ Visible(ls) \in Seq(Text)
         /\ \A ms \in Seq(Text) : Visible(ls \o ms) = Visible(ls) \o Visible(ms)
         /\ Distinct(ls) => Distinct(Visible(ls))
         /\ \A j \in DOMAIN Visible(ls) : InView(Visible(ls)[j]) /\ \E i \in DOMAIN ls : ls[i] = Visible(ls)[j]
         /\ \A i \in DOMAIN ls : InView(ls[i]) => \E j \in DOMAIN Visible(ls) : Visible(ls)[j] = ls[i]
<1>1. CASE filter
  <2>1. \A ms : Visible(ms) = Matching(ms)
    BY <1>1, Zenon DEF Visible
  <2>2. \A line : InView(line) <=> Holds(line)
    BY <1>1, Zenon DEF InView
  <2>3. \A ms \in Seq(Text) : Matching(ls \o ms) = Matching(ls) \o Matching(ms)
    BY MatchingConcat
  <2>4. /\ Matching(ls) \in Seq(Text)
        /\ \A j \in DOMAIN Matching(ls) : \E i \in DOMAIN ls : ls[i] = Matching(ls)[j]
    BY MatchingType
  <2>5. QED
    BY <2>1, <2>2, <2>3, <2>4, MatchingPicks
<1>2. CASE ~filter
  <2>1. \A ms : Visible(ms) = ms
    BY <1>2, Zenon DEF Visible
  <2>2. \A line : InView(line)
    BY <1>2, Zenon DEF InView
  <2>3. Visible(ls) = ls /\ \A ms \in Seq(Text) : Visible(ls \o ms) = Visible(ls) \o Visible(ms)
    <3>1. \A ms : Visible(ls \o ms) = ls \o ms /\ Visible(ms) = ms
      BY <2>1, Zenon
    <3>2. QED
      BY <2>1, <3>1, Zenon
  <2> DEFINE v == Visible(ls)
  <2>4. v = ls
    BY <2>3
  <2> HIDE DEF v
  <2>5. /\ v \in Seq(Text) /\ (Distinct(ls) => Distinct(v))
        /\ \A j \in DOMAIN v : InView(v[j]) /\ \E i \in DOMAIN ls : ls[i] = v[j]
        /\ \A i \in DOMAIN ls : InView(ls[i]) => \E j \in DOMAIN v : v[j] = ls[i]
    BY <2>2, <2>4
  <2>6. QED
    BY <2>3, <2>5 DEF v
<1>3. QED
  BY <1>1, <1>2

\* No line comes twice.
LEMMA NoLineTwice ==
  ASSUME TypeOK, FileInv, ReaderInv, fpc = "read"
  PROVE  Distinct(lines \o LinesRead)
<1> DEFINE all == lines \o LinesRead
           z == Remainder(TextRead)
           p == position - Len(partial)
           f == Flatten(all)
<1>1. LinesInv /\ position < size /\ size <= Len(file)
  BY DEF ReaderInv, ReadUpTo
<1>2. PICK a \in 0..position : Shown(a)
  BY <1>1 DEF LinesInv
<1>3. /\ TextRead \in Text /\ LinesRead \in Seq(Text) /\ z \in Text
      /\ IsRange(f \o z, file, a, size)
      /\ p \in 0..position /\ IsRange(TextRead, file, p, size)
  BY <1>2, ReadText
<1>4. position \in Nat /\ size \in Nat /\ file \in Seq(Part) /\ lines \in Seq(Text)
  BY DEF TypeOK, Text
<1>5. all \in Seq(Text)
  BY <1>3, <1>4, ConcatProperties
<1>6. f \in Seq(Part)
  BY <1>5, FlattenType DEF Text
<1>7. a \in Nat /\ p \in Nat /\ p < size
  BY <1>1, <1>3, <1>4
<1>8. \A i \in DOMAIN LinesRead : LinesRead[i] # <<>>
  <2> HIDE DEF p
  <2>1. QED
    BY <1>1, <1>3, <1>4, <1>7, LinesOfRange DEF LinesRead
<1>9. \A i \in DOMAIN lines : lines[i] # <<>>
  BY <1>1 DEF LinesInv, Whole
<1> HIDE DEF f, z, all
<1>10. Distinct(f)
  <2>1. f \o z = SubSeq(file, a + 1, size)
    BY <1>3, Zenon DEF IsRange
  <2>2. Distinct(f \o z)
    BY <1>1, <1>4, <1>7, <2>1, FileInTurn, RangeInTurn
  <2>3. z \in Seq(Part)
    BY <1>3 DEF Text
  <2>4. QED
    BY <1>6, <2>2, <2>3, DistinctBeginning
<1>11. ASSUME NEW i \in DOMAIN all PROVE all[i] # <<>>
  <2>1. (\E j \in DOMAIN lines : all[i] = lines[j]) \/ (\E j \in DOMAIN LinesRead : all[i] = LinesRead[j])
    BY <1>3, <1>4, ConcatAreSome DEF all
  <2>2. QED
    BY <1>8, <1>9, <2>1
<1>12. QED
  BY <1>5, <1>10, <1>11, LinesAreDistinct DEF f, all, Text

\* A view that is scrolled by as many lines as come after it, of lines that lose as many at their
\* beginning, shows the same ones.
LEMMA WindowStays ==
  ASSUME NEW n \in Nat, NEW m \in Nat, NEW d \in Nat, NEW k \in Nat, n + m = d + k,
         NEW rows \in Nat, rows > 0, NEW s \in Nat, NEW j \in Nat, j > d,
         j <= n - Lesser(s, Above(n, rows)),
         j > Above(n - Lesser(s, Above(n, rows)), rows)
  PROVE  /\ j - d <= k - Lesser(s + m, Above(k, rows))
         /\ j - d > Above(k - Lesser(s + m, Above(k, rows)), rows)
<1>1. CASE n <= rows /\ k <= rows
  BY <1>1 DEF Lesser, Above
<1>2. CASE n <= rows /\ ~(k <= rows)
  BY <1>2 DEF Lesser, Above
<1>3. CASE ~(n <= rows) /\ k <= rows
  BY <1>3 DEF Lesser, Above
<1>4. CASE ~(n <= rows) /\ ~(k <= rows)
  <2>1. CASE s <= n - rows
    BY <1>4, <2>1 DEF Lesser, Above
  <2>2. CASE ~(s <= n - rows)
    BY <1>4, <2>2 DEF Lesser, Above
  <2>3. QED
    BY <2>1, <2>2
<1>5. QED
  BY <1>1, <1>2, <1>3, <1>4

\* The part of a sequence from one index to another.
LEMMA InSlice ==
  ASSUME NEW W, NEW v \in Seq(W), NEW s \in Nat, NEW e \in Nat, e <= Len(v)
  PROVE  /\ \A i \in DOMAIN SubSeq(v, s + 1, e) :
              s + i \in 1..e /\ s + i > s /\ SubSeq(v, s + 1, e)[i] = v[s + i]
         /\ \A j \in 1..e : j > s => \E i \in DOMAIN SubSeq(v, s + 1, e) : SubSeq(v, s + 1, e)[i] = v[j]
<1> DEFINE w == SubSeq(v, s + 1, e)
           n == Len(w)
<1>1. w \in Seq(W) /\ n = (IF s <= e THEN e - s ELSE 0) /\ \A i \in 1..n : w[i] = v[s + i]
  BY PartsOfRange
<1>2. DOMAIN w = 1..n /\ n \in Nat
  BY <1>1
<1> HIDE DEF w, n
<1>3. ASSUME NEW i \in 1..n PROVE s + i \in 1..e /\ s + i > s /\ w[i] = v[s + i]
  <2>1. w[i] = v[s + i]
    BY <1>1
  <2>2. s + i \in 1..e /\ s + i > s
    BY <1>1
  <2>3. QED
    BY <2>1, <2>2
<1>4. ASSUME NEW j \in 1..e, j > s PROVE \E i \in 1..n : w[i] = v[j]
  <2> DEFINE i == j - s
  <2>1. i \in 1..n /\ s + i = j
    BY <1>1, <1>4
  <2> HIDE DEF i
  <2>2. w[i] = v[j]
    BY <1>1, <2>1
  <2>3. QED
    BY <2>1, <2>2
<1>5. QED
  BY <1>2, <1>3, <1>4 DEF w

\* The part of a view of the lines that the screen shows.
EndOf(v, above) == Len(v) - Lesser(above, Above(Len(v), Rows))
Shows(v, above) == SubSeq(v, Above(EndOf(v, above), Rows) + 1, EndOf(v, above))

\* The window in these terms, and the places it shows.
LEMMA WindowIs == Window = Shows(Visible(lines), scroll)
BY DEF Window, Top, Shows, EndOf

LEMMA ShowsIs ==
  ASSUME NEW v \in Seq(Text), NEW above \in Nat
  PROVE  /\ EndOf(v, above) \in Nat /\ EndOf(v, above) <= Len(v) /\ Above(EndOf(v, above), Rows) \in Nat
         /\ \A i \in DOMAIN Shows(v, above) :
              \E j \in 1..EndOf(v, above) : j > Above(EndOf(v, above), Rows) /\ Shows(v, above)[i] = v[j]
         /\ \A j \in 1..EndOf(v, above) : j > Above(EndOf(v, above), Rows) =>
              \E i \in DOMAIN Shows(v, above) : Shows(v, above)[i] = v[j]
<1> DEFINE n == Len(v)
           e == EndOf(v, above)
           s == Above(e, Rows)
           w == Shows(v, above)
<1>1. n \in Nat /\ Rows \in Nat
  BY LogAssumption DEF LogAssumption
<1>2. w = SubSeq(v, s + 1, e) /\ e = n - Lesser(above, Above(n, Rows))
  BY DEF Shows, EndOf
<1> HIDE DEF n, e, w
<1>3. e \in Nat /\ e <= n
  BY <1>1, <1>2 DEF Lesser, Above
<1>4. s \in Nat
  BY <1>1, <1>3, SmallNumbers
<1> HIDE DEF s
<1>5. e <= Len(v)
  BY <1>3 DEF n
<1>6. /\ \A i \in DOMAIN w : s + i \in 1..e /\ s + i > s /\ w[i] = v[s + i]
      /\ \A j \in 1..e : j > s => \E i \in DOMAIN w : w[i] = v[j]
  <2> DEFINE y == SubSeq(v, s + 1, e)
  <2>1. /\ \A i \in DOMAIN y : s + i \in 1..e /\ s + i > s /\ y[i] = v[s + i]
        /\ \A j \in 1..e : j > s => \E i \in DOMAIN y : y[i] = v[j]
    BY <1>3, <1>4, <1>5, InSlice
  <2> HIDE DEF y
  <2>2. w = y
    BY <1>2 DEF y
  <2>3. QED
    BY <2>1, <2>2
<1>7. QED
  BY <1>3, <1>4, <1>5, <1>6 DEF n, e, s, w

\* A line that was in view and is kept has as many places of the view before it fewer as
\* were dropped, and the window has moved by as many: it is in view still.
LEMMA ReadKeepsView ==
  ASSUME TypeOK, TypeOK', LogInv, Read, ~follow, ~disturbed, LinesRead # <<>>,
         NEW i \in DOMAIN Window, Held(Window[i], lines')
  PROVE  Held(Window[i], Window')
<1> DEFINE ms == LinesRead
           all == lines \o ms
           v == Visible(lines)
           u == Visible(ms)
           k == Visible(lines')
           m == Len(u)
           x == Window[i]
<1>1. /\ fpc = "read" /\ lines' = LastN(all, MaxLog) /\ LogsAppend(ms)
  BY ReadIs
<1>2. filter' = filter /\ scroll' = scroll + m
  BY <1>1, Zenon DEF LogsAppend
<1>3. /\ lines \in Seq(Text) /\ lines' \in Seq(Text) /\ scroll \in Nat /\ MaxLog \in Nat
      /\ Rows \in Nat /\ Rows > 0
  BY LogAssumption DEF LogAssumption, TypeOK
<1>4. ms \in Seq(Text) /\ Distinct(all)
  <2>1. FileInv /\ ReaderInv
    BY Zenon DEF LogInv
  <2>2. LinesInv
    BY <1>1, <2>1 DEF ReaderInv
  <2>3. PICK a \in 0..position : Shown(a)
    BY <2>2 DEF LinesInv
  <2>4. ms \in Seq(Text)
    BY <1>1, <2>1, <2>3, ReadText
  <2>5. QED
    BY <1>1, <2>1, <2>4, NoLineTwice
<1>5. all \in Seq(Text)
  BY <1>3, <1>4, ConcatProperties
<1>6. PICK d \in Seq(Text) : all = d \o lines'
  BY <1>1, <1>3, <1>5, LastNIsAnEnd
<1> HIDE DEF all
<1> DEFINE w == Visible(d)
           va == Visible(all)
<1>7. v \in Seq(Text) /\ u \in Seq(Text) /\ k \in Seq(Text) /\ w \in Seq(Text) /\ va \in Seq(Text)
  BY <1>3, <1>4, <1>5, VisiblePicks
<1>8. va = v \o u /\ va = w \o k /\ Distinct(va)
  BY <1>3, <1>4, <1>5, <1>6, VisiblePicks DEF all
<1>9. Window = Shows(v, scroll) /\ Window' = Shows(k, scroll + m)
  <2>1. Visible(lines)' = k
    BY <1>2, Zenon DEF Visible
  <2>2. QED
    BY <1>2, <2>1, WindowIs DEF Window, Top, Shows, EndOf
<1>10. m \in Nat /\ Len(v) \in Nat /\ Len(k) \in Nat /\ Len(w) \in Nat
  BY <1>7
<1> HIDE DEF v, u, k, w, va, ms, m
<1>11. PICK j \in 1..EndOf(v, scroll) : j > Above(EndOf(v, scroll), Rows) /\ x = v[j]
  <2> DEFINE y == Shows(v, scroll)
  <2>1. \A o \in DOMAIN y : \E j \in 1..EndOf(v, scroll) : j > Above(EndOf(v, scroll), Rows) /\ y[o] = v[j]
    BY <1>3, <1>7, ShowsIs
  <2> HIDE DEF y
  <2>2. Window = y
    BY <1>9 DEF y
  <2>3. QED
    BY <2>1, <2>2
<1> HIDE DEF x
<1>12. EndOf(v, scroll) \in Nat /\ EndOf(v, scroll) <= Len(v)
  BY <1>3, <1>7, ShowsIs
<1>13. j \in 1..Len(v)
  BY <1>10, <1>12
<1>14. InView(x)
  <2>1. \A o \in DOMAIN v : InView(v[o])
    BY <1>3, VisiblePicks DEF v
  <2>2. j \in DOMAIN v
    BY <1>7, <1>13
  <2>3. QED
    BY <1>11, <2>1, <2>2
<1>15. PICK q \in DOMAIN lines' : lines'[q] = x
  BY DEF Held, x
<1>16. PICK l \in DOMAIN k : k[l] = x
  BY <1>3, <1>14, <1>15, VisiblePicks DEF k
<1>17. Len(v) + m = Len(w) + Len(k)
  <2>1. Len(v \o u) = Len(v) + Len(u)
    BY <1>7, ConcatProperties
  <2>2. Len(w \o k) = Len(w) + Len(k)
    BY <1>7, ConcatProperties
  <2>3. v \o u = w \o k
    BY <1>8
  <2>4. m = Len(u)
    BY DEF m
  <2>5. QED
    BY <2>1, <2>2, <2>3, <2>4
<1>18. j = Len(w) + l /\ l \in 1..Len(k)
  <2>1. l \in 1..Len(k)
    BY <1>7
  <2>2. va[j] = x /\ j \in DOMAIN va
    <3>1. va = v \o u
      BY <1>8
    <3>2. j \in DOMAIN (v \o u) /\ (v \o u)[j] = v[j]
      BY <1>7, <1>13
    <3>3. QED
      BY <1>11, <3>1, <3>2
  <2>3. va[Len(w) + l] = x /\ Len(w) + l \in DOMAIN va
    BY <1>7, <1>8, <1>16, <2>1
  <2>4. QED
    BY <1>8, <2>1, <2>2, <2>3 DEF Distinct
<1>19. /\ l <= EndOf(k, scroll + m) /\ l > Above(EndOf(k, scroll + m), Rows)
  <2> DEFINE n == Len(v)
             kk == Len(k)
             dd == Len(w)
  <2>1. /\ n \in Nat /\ kk \in Nat /\ dd \in Nat /\ n + m = dd + kk /\ j = dd + l /\ l \in Nat /\ l > 0
    BY <1>10, <1>17, <1>18
  <2>2. j <= n - Lesser(scroll, Above(n, Rows)) /\ j > Above(n - Lesser(scroll, Above(n, Rows)), Rows)
    BY <1>11 DEF EndOf
  <2> HIDE DEF n, kk, dd
  <2>3. j \in Nat /\ j > dd /\ j - dd = l
    BY <2>1
  <2>4. /\ j - dd <= kk - Lesser(scroll + m, Above(kk, Rows))
        /\ j - dd > Above(kk - Lesser(scroll + m, Above(kk, Rows)), Rows)
    <3>1. scroll \in Nat /\ Rows \in Nat /\ Rows > 0 /\ m \in Nat
      BY <1>3, <1>10
    <3>2. QED
      BY <2>1, <2>2, <2>3, <3>1, WindowStays
  <2>5. QED
    BY <2>3, <2>4 DEF EndOf, kk
<1>20. \E o \in DOMAIN Shows(k, scroll + m) : Shows(k, scroll + m)[o] = k[l]
  <2> DEFINE sc == scroll + m
  <2>1. sc \in Nat
    BY <1>3, <1>10
  <2> HIDE DEF sc
  <2>2. EndOf(k, sc) \in Nat /\ EndOf(k, sc) <= Len(k)
    BY <1>7, <2>1, ShowsIs
  <2>3. l \in 1..EndOf(k, sc) /\ l > Above(EndOf(k, sc), Rows)
    BY <1>18, <1>19, <2>2 DEF sc
  <2>4. \E o \in DOMAIN Shows(k, sc) : Shows(k, sc)[o] = k[l]
    BY <1>7, <2>1, <2>3, ShowsIs
  <2>5. QED
    BY <2>4 DEF sc
<1>21. QED
  BY <1>9, <1>16, <1>20 DEF Held, x

\* New lines arrive below what is in view: as long as the view does not follow, every line
\* of it that is kept stays in it. For any filter state, scroll, screen and number of
\* lines, those that arrive and those that are dropped at once among them.
THEOREM ViewStays == Spec => SameLinesInView
<1>1. TypeOK /\ TypeOK' /\ LogInv /\ [Next]_vars =>
        [(~follow /\ fpc = "read" /\ fpc' = "stat" /\ ~disturbed) =>
          \A i \in DOMAIN Window : Held(Window[i], lines') => Held(Window[i], Window')]_vars
  <2> SUFFICES ASSUME TypeOK, TypeOK', LogInv, Next, ~follow, fpc = "read", fpc' = "stat", ~disturbed,
                      NEW i \in DOMAIN Window, Held(Window[i], lines')
               PROVE  Held(Window[i], Window')
    BY Zenon
  <2>1. Read
    <3>1. ~Write /\ ~Truncate /\ ~Key
      BY DEF Write, Truncate, Key, readVars
    <3>2. ~TailStat /\ ~TailRead /\ ~Stat /\ ~Throw
      BY DEF TailStat, TailRead, Stat, Throw
    <3>3. QED
      BY <3>1, <3>2 DEF Next, ReadStep
  <2>2. CASE LinesRead = <<>>
    <3>1. UNCHANGED screenVars
      BY <2>1, <2>2, ReadIs
    <3>2. Window' = Window
      BY <3>1 DEF screenVars, Window, Top, Visible
    <3>3. QED
      BY <3>2 DEF Held
  <2>3. CASE LinesRead # <<>>
    BY <2>1, <2>3, ReadKeepsView
  <2>4. QED
    BY <2>2, <2>3
<1>2. QED
  BY <1>1, TypeCorrect, Inductive, PTL DEF Spec, SameLinesInView
=============================================================================
