-------------------------- MODULE ExpressionsProofs --------------------------
(***************************************************************************)
(* Proofs about the evaluation of operands: the two stacks of evalExpr give*)
(* every well-formed operand the value that the grammar gives it.          *)
(***************************************************************************)
EXTENDS Expressions, FiniteSetTheorems, SequenceTheorems, WellFoundedInduction, TLAPS

(* Every set of numbers has a least element, and a bounded one a greatest. *)
LEMMA LeastOf ==
  ASSUME NEW T, T \subseteq Nat, T # {}
  PROVE  \E x \in T : \A y \in T : x <= y
<1> DEFINE R == StrictSubsetOrdering(Nat)
           F == {0..x : x \in T}
<1>1. F \subseteq FiniteSubsetsOf(Nat) /\ F # {}
  <2>1. ASSUME NEW x \in T PROVE 0..x \in FiniteSubsetsOf(Nat)
    <3>1. IsFiniteSet(0..x)
      BY FS_Interval
    <3>2. 0..x \subseteq Nat
      OBVIOUS
    <3>3. QED
      BY <3>1, <3>2 DEF FiniteSubsetsOf
  <2>2. QED
    BY <2>1
<1>2. \A x, y \in Nat : y < x => <<0..y, 0..x>> \in R
  <2>1. ASSUME NEW x \in Nat, NEW y \in Nat, y < x
        PROVE  0..y \subseteq 0..x /\ 0..y # 0..x /\ 0..x \subseteq Nat
    BY <2>1
  <2>2. QED
    BY <2>1, Zenon DEF StrictSubsetOrdering
<1>3. \E D \in F : \A C \in F : <<C, D>> \notin R
  <2>1. IsWellFoundedOn(R, FiniteSubsetsOf(Nat))
    BY FS_StrictSubsetOrderingWellFounded
  <2> HIDE DEF R, F
  <2>2. QED
    BY <1>1, <2>1, WFMin
<1>4. PICK x \in T : \A y \in T : <<0..y, 0..x>> \notin R
  BY <1>3
<1> HIDE DEF R
<1>5. ASSUME NEW y \in T PROVE x <= y
  <2>1. ~(y < x)
    BY <1>2, <1>4
  <2>2. QED
    BY <2>1
<1>6. QED
  BY <1>5

LEMMA GreatestOf ==
  ASSUME NEW T, NEW n \in Nat, T \subseteq 0..n, T # {}
  PROVE  \E x \in T : \A y \in T : y <= x
<1> DEFINE U == {n - x : x \in T}
<1>1. \A x \in T : x \in Nat /\ x <= n
  OBVIOUS
<1>2. U \subseteq Nat
  BY <1>1
<1>3. \E u \in U : \A v \in U : u <= v
  <2>1. U # {}
    OBVIOUS
  <2> HIDE DEF U
  <2>2. QED
    BY <1>2, <2>1, LeastOf
<1>4. PICK x \in T : \A v \in U : n - x <= v
  BY <1>3
<1>5. ASSUME NEW y \in T PROVE y <= x
  BY <1>1, <1>4
<1>6. QED
  BY <1>5

----------------------------------------------------------------------------
(***************************************************************************)
(* The tokens of a text and the depth of its parentheses.                  *)
(***************************************************************************)
Tokens == DOMAIN ValueOf \cup Symbols
IsText == text \in Seq(Tokens)

LEMMA Levels ==
  /\ DOMAIN PREC = {"|", "&", "+", "-", "*"}
  /\ \A o \in DOMAIN PREC : PREC[o] \in Nat
BY DEF PREC

LEMMA Kinds ==
  /\ \A t \in DOMAIN ValueOf : t \notin DOMAIN PREC /\ t \notin Signs /\ t # "(" /\ t # ")"
  /\ \A t \in DOMAIN PREC : t # "(" /\ t # ")" /\ t # "~" /\ t # "u-" /\ t # "u~" /\ t # "none"
  /\ \A t \in Signs : t # "(" /\ t # ")"
BY ExpressionsAssumption, Levels DEF Symbols, Signs

(* Depth counts parentheses.                                               *)
LEMMA DepthGoesOn ==
  ASSUME IsText
  PROVE  /\ Depth(0) = 0
         /\ \A i \in 0..Len(text) : Depth(i) \in Int
         /\ \A i \in 1..Len(text) :
              Depth(i) = Depth(i - 1) + AsBit(text[i] = "(") - AsBit(text[i] = ")")
<1> DEFINE Have(i, t) == {k \in 1..i : text[k] = t}
<1>1. \A i \in Nat : \A t : IsFiniteSet(Have(i, t)) /\ Cardinality(Have(i, t)) \in Nat
  <2>1. ASSUME NEW i \in Nat, NEW t PROVE IsFiniteSet(Have(i, t))
    <3>1. IsFiniteSet(1..i)
      BY FS_Interval
    <3>2. Have(i, t) \subseteq 1..i
      OBVIOUS
    <3>3. QED
      BY <3>1, <3>2, FS_Subset
  <2>2. QED
    BY <2>1, FS_CardinalityType
<1>2. ASSUME NEW i \in Nat \ {0}, NEW t
      PROVE  Cardinality(Have(i, t)) = Cardinality(Have(i - 1, t)) + AsBit(text[i] = t)
  <2>1. CASE text[i] = t
    <3>1. Have(i, t) = Have(i - 1, t) \cup {i}
      BY <2>1
    <3>2. i \notin Have(i - 1, t)
      OBVIOUS
    <3>3. IsFiniteSet(Have(i - 1, t))
      BY <1>1
    <3> HIDE DEF Have
    <3>4. QED
      BY <2>1, <3>1, <3>2, <3>3, FS_AddElement DEF AsBit
  <2>2. CASE text[i] # t
    <3>1. Have(i, t) = Have(i - 1, t)
      BY <2>2
    <3>2. Cardinality(Have(i - 1, t)) \in Nat
      BY <1>1
    <3> HIDE DEF Have
    <3>3. QED
      BY <2>2, <3>1, <3>2 DEF AsBit
  <2>3. QED
    BY <2>1, <2>2
<1>3. \A i : Depth(i) = Cardinality(Have(i, "(")) - Cardinality(Have(i, ")"))
  BY DEF Depth
<1>4. Have(0, "(") = {} /\ Have(0, ")") = {}
  OBVIOUS
<1>5. Len(text) \in Nat
  BY DEF IsText
<1> HIDE DEF Have
<1>6. Depth(0) = 0
  BY <1>3, <1>4, FS_EmptySet
<1>7. \A i \in 0..Len(text) : Depth(i) \in Int
  BY <1>1, <1>3, <1>5
<1>8. ASSUME NEW i \in 1..Len(text)
      PROVE  Depth(i) = Depth(i - 1) + AsBit(text[i] = "(") - AsBit(text[i] = ")")
  <2>1. i \in Nat \ {0} /\ i - 1 \in Nat
    BY <1>5
  <2>2. AsBit(text[i] = "(") \in Int /\ AsBit(text[i] = ")") \in Int
    BY DEF AsBit
  <2>3. /\ Cardinality(Have(i, "(")) = Cardinality(Have(i - 1, "(")) + AsBit(text[i] = "(")
        /\ Cardinality(Have(i, ")")) = Cardinality(Have(i - 1, ")")) + AsBit(text[i] = ")")
    BY <1>2, <2>1
  <2>4. Cardinality(Have(i - 1, "(")) \in Int /\ Cardinality(Have(i - 1, ")")) \in Int
    BY <1>1, <2>1
  <2>5. QED
    BY <1>3, <2>2, <2>3, <2>4
<1>9. QED
  BY <1>6, <1>7, <1>8

(***************************************************************************)
(* The value of a span                                                     *)
(***************************************************************************)
(* Of the operators in a span one is applied last.                         *)
(* Of the outermost operators of a span one is applied last.               *)
LEMMA OneIsLast ==
  ASSUME IsText, NEW i \in 1..Len(text), NEW j \in 1..Len(text), Outermost(i, j) # {}
  PROVE  LastApplied(i, j) \in Outermost(i, j)
<1> DEFINE O == Outermost(i, j)
           level(k) == PREC[text[k]]
           T == {level(k) : k \in O}
<1>1. \A k \in O : k \in (i + 1)..(j - 1) /\ level(k) \in Nat
  BY Levels DEF Outermost, IsBinary
<1>2. T \subseteq Nat /\ T # {}
  BY <1>1
<1>3. PICK v \in T : \A u \in T : v <= u
  <2> HIDE DEF T
  <2>1. QED
    BY <1>2, LeastOf
<1> DEFINE U == {k \in O : level(k) = v}
<1>4. U \subseteq 0..j /\ U # {} /\ j \in Nat
  BY <1>1, <1>3
<1>5. PICK k \in U : \A l \in U : l <= k
  <2> HIDE DEF U
  <2>1. QED
    BY <1>4, GreatestOf
<1>6. ASSUME NEW l \in O PROVE level(l) > level(k) \/ (level(l) = level(k) /\ l <= k)
  <2>1. level(k) = v /\ v <= level(l) /\ level(l) \in Nat /\ v \in Nat
    BY <1>1, <1>3, <1>5
  <2>2. level(l) = v => l <= k
    BY <1>5
  <2> HIDE DEF level
  <2>3. QED
    BY <2>1, <2>2
<1>7. k \in O
  BY <1>5
<1>8. QED
  BY <1>6, <1>7, Zenon DEF LastApplied

----------------------------------------------------------------------------
(***************************************************************************)
(* SpanValue is the function its equations say: there is one, and only one.*)
(***************************************************************************)
Spans == (DOMAIN text) \X (DOMAIN text)

(* What f makes of the span from i to j.                                   *)
Made(f, i, j) ==
  IF i >= j THEN ValueOf[text[i]]
  ELSE IF Outermost(i, j) # {}
  THEN Compute(text[LastApplied(i, j)], f[<<i, LastApplied(i, j) - 1>>],
               f[<<LastApplied(i, j) + 1, j>>])
  ELSE IF text[i] = "-" THEN -f[<<i + 1, j>>]
  ELSE IF text[i] = "~" THEN -1 - f[<<i + 1, j>>]
  ELSE f[<<i + 1, j - 1>>]

(* A span is made of shorter ones.                                         *)
LEMMA MadeOfShorter ==
  ASSUME IsText, NEW i \in 1..Len(text), NEW j \in 1..Len(text), NEW f, NEW g,
         \A a, b \in 1..Len(text) : b - a < j - i => f[<<a, b>>] = g[<<a, b>>]
  PROVE  Made(f, i, j) = Made(g, i, j)
<1> DEFINE k == LastApplied(i, j)
<1>1. CASE i >= j
  BY <1>1 DEF Made
<1>2. CASE i < j /\ Outermost(i, j) # {}
  <2>1. k \in (i + 1)..(j - 1)
    BY <1>2, OneIsLast DEF Outermost
  <2> HIDE DEF k
  <2>2. k - 1 \in 1..Len(text) /\ k + 1 \in 1..Len(text) /\ (k - 1) - i < j - i /\ j - (k + 1) < j - i
    BY <2>1
  <2>3. f[<<i, k - 1>>] = g[<<i, k - 1>>] /\ f[<<k + 1, j>>] = g[<<k + 1, j>>]
    BY <2>2
  <2>4. ~(i >= j) /\ Outermost(i, j) # {}
    BY <1>2
  <2>5. /\ Made(f, i, j) = Compute(text[k], f[<<i, k - 1>>], f[<<k + 1, j>>])
        /\ Made(g, i, j) = Compute(text[k], g[<<i, k - 1>>], g[<<k + 1, j>>])
    BY <2>4, Zenon DEF Made, k
  <2>6. QED
    BY <2>3, <2>5, Zenon
<1>3. CASE i < j /\ Outermost(i, j) = {}
  <2>1. i + 1 \in 1..Len(text) /\ j - 1 \in 1..Len(text)
    BY <1>3
  <2>2. f[<<i + 1, j>>] = g[<<i + 1, j>>]
    BY <2>1
  <2>3. f[<<i + 1, j - 1>>] = g[<<i + 1, j - 1>>]
    BY <2>1
  <2>4. QED
    BY <1>3, <2>2, <2>3, Zenon DEF Made
<1>4. QED
  BY <1>1, <1>2, <1>3

(* f keeps the equations of the spans up to the width n.                   *)
MadeUpTo(f, n) ==
  /\ DOMAIN f = Spans
  /\ \A i, j \in 1..Len(text) : j - i <= n => f[<<i, j>>] = Made(f, i, j)

LEMMA ValuesExist ==
  ASSUME IsText, NEW n \in Nat
  PROVE  \E f : MadeUpTo(f, n)
<1> DEFINE T == {m \in Nat : ~\E f : MadeUpTo(f, m)}
           P == 1..Len(text)
<1>1. DOMAIN text = P /\ Len(text) \in Nat
  BY DEF IsText
<1>2. Spans = P \X P
  BY <1>1 DEF Spans
<1>3. ASSUME T # {} PROVE FALSE
  <2>1. PICK m \in T : \A o \in T : m <= o
    BY <1>3, LeastOf
  <2>2. \E f : DOMAIN f = Spans /\ \A i, j \in P : j - i < m => f[<<i, j>>] = Made(f, i, j)
    <3>1. CASE m = 0
      <4> DEFINE f == [p \in Spans |-> ValueOf[text[p[1]]]]
      <4>1. ASSUME NEW i \in P, NEW j \in P, j - i < 0
            PROVE  f[<<i, j>>] = Made(f, i, j)
        <5>1. f[<<i, j>>] = ValueOf[text[i]]
          BY <1>2
        <5>2. i >= j
          BY <1>1, <4>1
        <5> HIDE DEF f
        <5>3. QED
          BY <5>1, <5>2, Zenon DEF Made
      <4>2. DOMAIN f = Spans
        OBVIOUS
      <4> HIDE DEF f
      <4>3. QED
        BY <3>1, <4>1, <4>2
    <3>2. CASE m # 0
      <4>1. m - 1 \in Nat /\ m - 1 \notin T
        BY <2>1, <3>2
      <4>2. PICK f : MadeUpTo(f, m - 1)
        BY <4>1
      <4>3. DOMAIN f = Spans
        BY <4>2 DEF MadeUpTo
      <4>4. ASSUME NEW i \in P, NEW j \in P, j - i < m
            PROVE  f[<<i, j>>] = Made(f, i, j)
        <5>1. j - i <= m - 1
          BY <1>1, <4>1, <4>4
        <5>2. QED
          BY <4>2, <5>1 DEF MadeUpTo
      <4>5. QED
        BY <4>3, <4>4
    <3>3. QED
      BY <3>1, <3>2
  <2>3. PICK f : DOMAIN f = Spans /\ \A i, j \in P : j - i < m => f[<<i, j>>] = Made(f, i, j)
    BY <2>2
  <2> DEFINE g == [p \in Spans |-> IF p[2] - p[1] < m THEN f[p] ELSE Made(f, p[1], p[2])]
  <2>4. \A i, j \in P : g[<<i, j>>] = IF j - i < m THEN f[<<i, j>>] ELSE Made(f, i, j)
    BY <1>2
  <2>5. DOMAIN g = Spans
    OBVIOUS
  <2> HIDE DEF g
  <2>6. ASSUME NEW i \in P, NEW j \in P, j - i <= m
        PROVE  g[<<i, j>>] = Made(g, i, j)
    <3>1. \A a, b \in P : b - a < j - i => f[<<a, b>>] = g[<<a, b>>]
      BY <1>1, <2>1, <2>4, <2>6
    <3>2. Made(f, i, j) = Made(g, i, j)
      BY <3>1, MadeOfShorter
    <3>3. QED
      BY <2>3, <2>4, <3>2
  <2>7. MadeUpTo(g, m)
    BY <2>5, <2>6 DEF MadeUpTo
  <2>8. QED
    BY <2>1, <2>7
<1>4. QED
  BY <1>3

LEMMA SpanValueIsMade ==
  IsText => SpanValue = [p \in Spans |-> Made(SpanValue, p[1], p[2])]
<1>0. SUFFICES ASSUME IsText PROVE SpanValue = [p \in Spans |-> Made(SpanValue, p[1], p[2])]
  OBVIOUS
<1> DEFINE Means(m) == m = [p \in Spans |-> Made(m, p[1], p[2])]
<1>1. DOMAIN text = 1..Len(text) /\ Len(text) \in Nat
  BY DEF IsText
<1>2. Spans = (1..Len(text)) \X (1..Len(text))
  BY <1>1 DEF Spans
<1>3. PICK f : MadeUpTo(f, Len(text))
  BY <1>0, <1>1, ValuesExist
<1>4. Means([p \in Spans |-> f[p]])
  <2> DEFINE g == [p \in Spans |-> f[p]]
  <2>1. \A a, b \in 1..Len(text) : f[<<a, b>>] = g[<<a, b>>]
    BY <1>2
  <2>2. ASSUME NEW p \in Spans PROVE g[p] = Made(g, p[1], p[2])
    <3>1. p = <<p[1], p[2]>> /\ p[1] \in 1..Len(text) /\ p[2] \in 1..Len(text)
      BY <1>2
    <3>2. p[2] - p[1] <= Len(text)
      BY <1>1, <3>1
    <3>3. f[<<p[1], p[2]>>] = Made(f, p[1], p[2])
      BY <1>3, <3>1, <3>2 DEF MadeUpTo
    <3> HIDE DEF g
    <3>4. Made(f, p[1], p[2]) = Made(g, p[1], p[2])
      BY <1>0, <2>1, <3>1, MadeOfShorter
    <3>5. QED
      BY <2>1, <3>1, <3>3, <3>4
  <2>3. g = [p \in Spans |-> g[p]]
    BY Zenon
  <2> HIDE DEF g
  <2>4. g = [p \in Spans |-> Made(g, p[1], p[2])]
    BY <2>2, <2>3, Zenon
  <2>5. QED
    BY <2>4, Zenon DEF g
<1>5. SpanValue = CHOOSE m : Means(m)
  BY Zenon DEF SpanValue, Made, Spans
<1>6. Means(SpanValue)
  BY <1>4, <1>5
<1>7. QED
  BY <1>6

LEMMA SpanValues ==
  ASSUME IsText, NEW i \in 1..Len(text), NEW j \in 1..Len(text)
  PROVE  SpanValue[<<i, j>>] = Made(SpanValue, i, j)
<1>1. DOMAIN text = 1..Len(text)
  BY DEF IsText
<1>2. <<i, j>> \in Spans
  BY <1>1 DEF Spans
<1>3. SpanValue = [p \in Spans |-> Made(SpanValue, p[1], p[2])]
  BY SpanValueIsMade
<1>4. <<i, j>>[1] = i /\ <<i, j>>[2] = j
  OBVIOUS
<1>5. QED
  BY <1>2, <1>3, <1>4

LEMMA SpanValueIsMap ==
  IsText => SpanValue = [p \in Spans |-> SpanValue[p]]
BY SpanValueIsMade

(* The grammar depends on the text only, which no step changes.            *)
LEMMA GrammarIsRigid ==
  ASSUME text' = text
  PROVE  /\ \A i : Depth(i)' = Depth(i) /\ EndsOperand(i)' = EndsOperand(i)
                   /\ IsBinary(i)' = IsBinary(i) /\ IsSign(i)' = IsSign(i)
         /\ \A i, j : Outermost(i, j)' = Outermost(i, j)
<1>1. \A i : Depth(i)' = Depth(i)
  BY DEF Depth
<1>2. \A i : EndsOperand(i)' = EndsOperand(i) /\ IsBinary(i)' = IsBinary(i) /\ IsSign(i)' = IsSign(i)
  BY DEF EndsOperand, IsBinary, IsSign
<1>3. \A i, j : Outermost(i, j)' = Outermost(i, j)
  BY <1>1, <1>2 DEF Outermost
<1>4. QED
  BY <1>1, <1>2, <1>3

LEMMA LastAppliedIsRigid ==
  ASSUME text' = text
  PROVE  \A i, j : LastApplied(i, j)' = LastApplied(i, j)
BY GrammarIsRigid DEF LastApplied

(* f keeps all the equations.                                              *)
Fits(f) == \A i, j \in 1..Len(text) : f[<<i, j>>] = Made(f, i, j)

Alike(f, g) == \A i, j \in 1..Len(text) : f[<<i, j>>] = g[<<i, j>>]

(* Two functions that do agree: take the narrowest span where they differ. *)
LEMMA OneMeaning ==
  ASSUME IsText, NEW f, NEW g, Fits(f), Fits(g)
  PROVE  Alike(f, g)
<1> DEFINE P == 1..Len(text)
           Differ(m) == \E i, j \in P : j - i + Len(text) = m /\ f[<<i, j>>] # g[<<i, j>>]
           T == {m \in Nat : Differ(m)}
<1>1. Len(text) \in Nat
  BY DEF IsText
<1>2. ASSUME T # {} PROVE FALSE
  <2>1. T \subseteq Nat
    OBVIOUS
  <2>2. PICK m \in T : \A o \in T : m <= o
    <3> HIDE DEF T
    <3>1. QED
      BY <1>2, <2>1, LeastOf
  <2>3. Differ(m) /\ m \in Nat /\ \A o \in Nat : o < m => ~Differ(o)
    <3> HIDE DEF Differ
    <3>1. QED
      BY <2>2
  <2>4. PICK i \in P, j \in P : j - i + Len(text) = m /\ f[<<i, j>>] # g[<<i, j>>]
    BY <2>3
  <2>5. \A a, b \in P : b - a < j - i => f[<<a, b>>] = g[<<a, b>>]
    <3>1. SUFFICES ASSUME NEW a \in P, NEW b \in P, b - a < j - i PROVE f[<<a, b>>] = g[<<a, b>>]
      OBVIOUS
    <3>2. b - a + Len(text) \in Nat /\ b - a + Len(text) < m
      BY <1>1, <2>4, <3>1
    <3>3. ~Differ(b - a + Len(text))
      BY <2>3, <3>2
    <3>4. QED
      BY <3>3
  <2> HIDE DEF T, Differ
  <2>6. Made(f, i, j) = Made(g, i, j)
    BY <2>5, MadeOfShorter, Zenon
  <2>7. QED
    BY <2>4, <2>6 DEF Fits
<1>3. ASSUME NEW i \in P, NEW j \in P, f[<<i, j>>] # g[<<i, j>>] PROVE FALSE
  <2>1. j - i + Len(text) \in Nat
    BY <1>1
  <2>2. Differ(j - i + Len(text))
    BY <1>3
  <2> HIDE DEF Differ
  <2>3. QED
    BY <1>2, <2>1, <2>2
<1>4. QED
  BY <1>3 DEF Alike

LEMMA FitsAreAlike ==
  ASSUME IsText
  PROVE  \A f, g : Fits(f) /\ Fits(g) => Alike(f, g)
<1>1. SUFFICES ASSUME NEW f, NEW g, Fits(f), Fits(g) PROVE Alike(f, g)
  BY Zenon
<1>2. QED
  BY <1>1, OneMeaning

LEMMA SpansAreMade ==
  IsText => Fits(SpanValue)
BY SpanValues DEF Fits

LEMMA SpanValueIsRigid ==
  ASSUME IsText, text' = text
  PROVE  SpanValue' = SpanValue
<1>0. IsText'
  BY DEF IsText
<1>1. Fits(SpanValue)'
  BY <1>0, SpansAreMade, PTL
<1>2. \A f, i, j : Made(f, i, j)' = Made(f, i, j)
  BY GrammarIsRigid, LastAppliedIsRigid DEF Made
<1>3. Fits(SpanValue')
  BY <1>1, <1>2 DEF Fits
<1>4. Fits(SpanValue)
  BY SpansAreMade
<1>5. Alike(SpanValue', SpanValue)
  BY <1>3, <1>4, FitsAreAlike, Zenon
<1>6. (SpanValue = [p \in Spans |-> SpanValue[p]])'
  BY <1>0, SpanValueIsMap, PTL
<1>7. SpanValue' = [p \in Spans |-> SpanValue'[p]]
  BY <1>6 DEF Spans
<1>8. SpanValue = [p \in Spans |-> SpanValue[p]]
  BY SpanValueIsMap
<1>9. \A p \in Spans : SpanValue'[p] = SpanValue[p]
  <2>1. DOMAIN text = 1..Len(text)
    BY DEF IsText
  <2>2. \A p \in Spans : p = <<p[1], p[2]>> /\ p[1] \in 1..Len(text) /\ p[2] \in 1..Len(text)
    BY <2>1 DEF Spans
  <2>3. ASSUME NEW p \in Spans PROVE SpanValue'[p] = SpanValue[p]
    <3>1. p = <<p[1], p[2]>> /\ p[1] \in 1..Len(text) /\ p[2] \in 1..Len(text)
      BY <2>2
    <3>2. SpanValue'[<<p[1], p[2]>>] = SpanValue[<<p[1], p[2]>>]
      BY <1>5, <3>1, Zenon DEF Alike
    <3>3. QED
      BY <3>1, <3>2
  <2>4. QED
    BY <2>3
<1>10. QED
  BY <1>7, <1>8, <1>9, Zenon

LEMMA WellFormedIsRigid ==
  ASSUME text' = text
  PROVE (WellFormed' <=> WellFormed) /\ (SignsLast' <=> SignsLast)
BY GrammarIsRigid DEF WellFormed, SignsLast, Balanced

----------------------------------------------------------------------------
(***************************************************************************)
(* What the grammar makes of an operand in parentheses, after a sign, and on*)
(* both sides of a binary operator.                                        *)
(***************************************************************************)
(* What stands between the positions q and x, and the operators of its level.*)
Mean(q, x) == SpanValue[<<q + 1, x - 1>>]
Between(q, x) == {l \in (q + 2)..(x - 2) : IsBinary(l) /\ Depth(l) = Depth(q)}

(* A well-formed text alternates operands and operators.                   *)
LEMMA OperandStarts ==
  ASSUME IsText, WellFormed, NEW i \in 1..Len(text)
  PROVE  /\ ~EndsOperand(i - 1) => text[i] \in DOMAIN ValueOf \cup Signs \cup {"("}
         /\ EndsOperand(i - 1) => text[i] \in DOMAIN PREC \cup {")"}
         /\ ~EndsOperand(i - 1) => text[i] # ")" /\ ~IsBinary(i)
         /\ IsBinary(i) => ~EndsOperand(i) /\ text[i] # "(" /\ text[i] # ")"
         /\ IsSign(i) => ~EndsOperand(i) /\ text[i] # "(" /\ text[i] # ")"
<1>1. i \in DOMAIN text
  BY DEF IsText
<1>2. QED
  BY <1>1, Kinds, Zenon DEF WellFormed, IsBinary, IsSign, EndsOperand

LEMMA OutermostAreBetween ==
  ASSUME IsText, WellFormed, NEW q \in 0..Len(text), NEW x \in 1..(Len(text) + 1),
         q + 1 < x, ~EndsOperand(q)
  PROVE  Outermost(q + 1, x - 1) = Between(q, x)
<1>1. Len(text) \in Nat
  BY DEF IsText
<1>2. q + 1 \in 1..Len(text) /\ (q + 1) - 1 = q
  BY <1>1
<1>3. text[q + 1] # ")"
  BY <1>2, OperandStarts
<1>4. Depth(q + 1) - AsBit(text[q + 1] = "(") = Depth(q)
  <2>1. Depth(q + 1) = Depth(q) + AsBit(text[q + 1] = "(") - AsBit(text[q + 1] = ")")
    BY <1>2, DepthGoesOn
  <2>2. Depth(q) \in Int
    BY DepthGoesOn
  <2>3. QED
    BY <1>3, <2>1, <2>2 DEF AsBit
<1>5. (q + 1) + 1 = q + 2 /\ (x - 1) - 1 = x - 2
  BY <1>1
<1>6. QED
  BY <1>4, <1>5 DEF Outermost, Between

LEMMA OneValue ==
  ASSUME IsText, NEW x \in 1..Len(text)
  PROVE  Mean(x - 1, x + 1) = ValueOf[text[x]] /\ Between(x - 1, x + 1) = {}
<1>1. (x - 1) + 1 = x /\ (x + 1) - 1 = x
  BY DEF IsText
<1>2. SpanValue[<<x, x>>] = ValueOf[text[x]]
  <2>1. x >= x
    BY DEF IsText
  <2>2. SpanValue[<<x, x>>] = Made(SpanValue, x, x)
    BY SpanValues
  <2>3. QED
    BY <2>1, <2>2, Zenon DEF Made
<1>3. Between(x - 1, x + 1) = {}
  BY DEF IsText, Between
<1>4. QED
  BY <1>1, <1>2, <1>3 DEF Mean

LEMMA InParentheses ==
  ASSUME IsText, WellFormed, NEW q \in 0..Len(text), NEW x \in 1..Len(text),
         q + 2 < x, ~EndsOperand(q), text[q + 1] = "(",
         \A l \in (q + 1)..(x - 1) : Depth(l) >= Depth(q + 1)
  PROVE  Mean(q, x + 1) = Mean(q + 1, x) /\ Between(q, x + 1) = {}
<1>1. Len(text) \in Nat
  BY DEF IsText
<1>2. q + 1 \in 1..Len(text) /\ (q + 1) - 1 = q /\ (x + 1) - 1 = x /\ x + 1 \in 1..(Len(text) + 1)
  BY <1>1
<1>3. Depth(q + 1) = Depth(q) + 1 /\ Depth(q) \in Int
  <2>1. Depth(q + 1) = Depth(q) + AsBit(text[q + 1] = "(") - AsBit(text[q + 1] = ")")
    BY <1>2, DepthGoesOn
  <2>2. Depth(q) \in Int
    BY DepthGoesOn
  <2>3. AsBit(text[q + 1] = "(") = 1 /\ AsBit(text[q + 1] = ")") = 0
    BY DEF AsBit
  <2>4. QED
    BY <2>1, <2>2, <2>3
<1>4. Between(q, x + 1) = {}
  BY <1>3, <1>2 DEF Between
<1>5. Outermost(q + 1, x) = {}
  <2>1. Outermost(q + 1, (x + 1) - 1) = Between(q, x + 1)
    <3>1. q + 1 < x + 1
      BY <1>1
    <3>2. QED
      BY <1>2, <3>1, OutermostAreBetween
  <2>2. QED
    BY <1>2, <1>4, <2>1
<1>6. Mean(q, x + 1) = SpanValue[<<q + 1, x>>]
  BY <1>2 DEF Mean
<1>7. SpanValue[<<q + 1, x>>] = Made(SpanValue, q + 1, x)
  BY <1>2, SpanValues
<1>8. ~(q + 1 >= x)
  BY <1>1
<1>9. text[q + 1] # "-" /\ text[q + 1] # "~"
  BY Kinds DEF Signs
<1>10. Made(SpanValue, q + 1, x) = SpanValue[<<(q + 1) + 1, x - 1>>]
  BY <1>5, <1>8, <1>9, Zenon DEF Made
<1>11. QED
  BY <1>4, <1>6, <1>7, <1>10 DEF Mean

LEMMA AfterASign ==
  ASSUME IsText, WellFormed, SignsLast, NEW q \in 0..Len(text), NEW x \in 1..(Len(text) + 1),
         q + 2 < x, ~EndsOperand(q), IsSign(q + 1),
         \A l \in (q + 1)..(x - 1) : Depth(l) >= Depth(q + 1)
  PROVE  /\ Mean(q, x) = IF text[q + 1] = "-" THEN -Mean(q + 1, x) ELSE -1 - Mean(q + 1, x)
         /\ Between(q, x) = {}
<1>1. Len(text) \in Nat
  BY DEF IsText
<1>2. q + 1 \in 1..Len(text) /\ (q + 1) - 1 = q /\ x - 1 \in 1..Len(text)
  BY <1>1
<1>3. Depth(q + 1) = Depth(q) /\ Depth(q) \in Int
  BY <1>2, DepthGoesOn, OperandStarts DEF AsBit
<1>4. ASSUME NEW k \in (q + 2)..(x - 2), IsBinary(k), Depth(k) = Depth(q) PROVE FALSE
  <2>1. q + 1 \in DOMAIN text /\ k \in DOMAIN text /\ q + 1 < k
    BY <1>1, <1>2 DEF IsText
  <2>2. PICK l \in (q + 1)..k : Depth(l) < Depth(q + 1)
    BY <1>3, <1>4, <2>1 DEF SignsLast
  <2>3. l \in (q + 1)..(x - 1) /\ Depth(l) \in Int
    BY <1>1, DepthGoesOn
  <2>4. QED
    BY <1>3, <2>2, <2>3
<1>5. Between(q, x) = {}
  BY <1>4 DEF Between
<1>6. Outermost(q + 1, x - 1) = {}
  BY <1>1, <1>5, OutermostAreBetween
<1>7. SpanValue[<<q + 1, x - 1>>] = Made(SpanValue, q + 1, x - 1)
  BY <1>2, SpanValues
<1>8. ~(q + 1 >= x - 1)
  BY <1>1
<1>9. text[q + 1] = "-" \/ text[q + 1] = "~"
  BY DEF IsSign, Signs
<1>10. Made(SpanValue, q + 1, x - 1) =
         IF text[q + 1] = "-" THEN -SpanValue[<<(q + 1) + 1, x - 1>>]
         ELSE -1 - SpanValue[<<(q + 1) + 1, x - 1>>]
  BY <1>6, <1>8, <1>9, Zenon DEF Made
<1>11. QED
  BY <1>5, <1>7, <1>10, Zenon DEF Mean

LEMMA TwoOperands ==
  ASSUME IsText, WellFormed, NEW q \in 0..Len(text), NEW y \in 1..Len(text), NEW x \in 1..(Len(text) + 1),
         q + 1 < y, y + 1 < x, ~EndsOperand(q), IsBinary(y), Depth(y) = Depth(q)
  PROVE  Between(q, x) = Between(q, y) \cup {y} \cup Between(y, x)
<1>1. Len(text) \in Nat
  BY DEF IsText
<1>2. EndsOperand(y - 1) /\ ~EndsOperand(y)
  BY OperandStarts DEF IsBinary
<1>3. ASSUME NEW l \in (q + 2)..(x - 2), IsBinary(l), l # y
      PROVE  l \in (q + 2)..(y - 2) \/ l \in (y + 2)..(x - 2)
  <2>1. l \in 1..Len(text)
    BY <1>1
  <2>2. EndsOperand(l - 1) /\ ~EndsOperand(l)
    BY <1>3, <2>1, OperandStarts DEF IsBinary
  <2>3. l # y - 1
    BY <1>2, <2>2
  <2>4. l - 1 # y
    BY <1>2, <2>2
  <2>5. QED
    BY <1>1, <1>3, <2>3, <2>4
<1>4. y \in (q + 2)..(x - 2)
  BY <1>1
<1>5. Between(q, y) \subseteq Between(q, x) /\ Between(y, x) \subseteq Between(q, x) /\ y \in Between(q, x)
  BY <1>1, <1>4 DEF Between
<1>6. ASSUME NEW l \in Between(q, x), l # y PROVE l \in Between(q, y) \/ l \in Between(y, x)
  BY <1>3, <1>6 DEF Between
<1>7. QED
  BY <1>5, <1>6

(* No other operator is the last of a span.                                *)
LEMMA LastIsOne ==
  ASSUME IsText, NEW i \in 1..Len(text), NEW j \in 1..Len(text), NEW y \in Outermost(i, j),
         \A l \in Outermost(i, j) : PREC[text[l]] > PREC[text[y]] \/ (PREC[text[l]] = PREC[text[y]] /\ l <= y)
  PROVE  LastApplied(i, j) = y
<1> DEFINE level(k) == PREC[text[k]]
           Best(k) == \A l \in Outermost(i, j) : level(l) > level(k) \/ (level(l) = level(k) /\ l <= k)
           z == LastApplied(i, j)
<1>1. \A k \in Outermost(i, j) : k \in Int /\ level(k) \in Int
  <2>1. Len(text) \in Nat
    BY DEF IsText
  <2>2. \A k \in Outermost(i, j) : k \in (i + 1)..(j - 1) /\ text[k] \in DOMAIN PREC
    BY DEF Outermost, IsBinary
  <2>3. \A k \in Outermost(i, j) : level(k) \in Nat
    BY <2>2, Levels, Zenon
  <2>4. QED
    BY <2>1, <2>2, <2>3
<1>2. z \in Outermost(i, j) /\ Best(y)
  BY OneIsLast
<1>3. z = CHOOSE k \in Outermost(i, j) : Best(k)
  BY Zenon DEF LastApplied
<1>4. Best(z)
  <2> HIDE DEF Best, z
  <2>1. QED
    BY <1>2, <1>3
<1>5. level(y) > level(z) \/ (level(y) = level(z) /\ y <= z)
  BY <1>4
<1>6. level(z) > level(y) \/ (level(z) = level(y) /\ z <= y)
  BY <1>2
<1>7. z \in Int /\ level(z) \in Int /\ y \in Int /\ level(y) \in Int
  BY <1>1, <1>2
<1> HIDE DEF z, level
<1>8. z = y
  BY <1>5, <1>6, <1>7
<1>9. QED
  BY <1>8 DEF z

(* An operator is applied last when those on its left bind at least as     *)
(* tightly and those on its right more tightly.                            *)
LEMMA LastOfTwo ==
  ASSUME IsText, WellFormed, NEW q \in 0..Len(text), NEW y \in 1..Len(text), NEW x \in 1..(Len(text) + 1),
         q + 1 < y, y + 1 < x, ~EndsOperand(q), IsBinary(y), Depth(y) = Depth(q),
         \A l \in Between(q, y) : PREC[text[l]] >= PREC[text[y]],
         \A l \in Between(y, x) : PREC[text[l]] > PREC[text[y]]
  PROVE  Mean(q, x) = Compute(text[y], Mean(q, y), Mean(y, x))
<1>1. Len(text) \in Nat
  BY DEF IsText
<1>2. Between(q, x) = Between(q, y) \cup {y} \cup Between(y, x)
  BY TwoOperands
<1>3. Outermost(q + 1, x - 1) = Between(q, x)
  BY OutermostAreBetween
<1>4. q + 1 \in 1..Len(text) /\ x - 1 \in 1..Len(text) /\ ~(q + 1 >= x - 1)
  BY <1>1
<1>5. ASSUME NEW l \in Outermost(q + 1, x - 1)
      PROVE  PREC[text[l]] > PREC[text[y]] \/ (PREC[text[l]] = PREC[text[y]] /\ l <= y)
  <2>1. PREC[text[y]] \in Nat /\ PREC[text[l]] \in Nat
    BY Levels DEF Outermost, IsBinary
  <2>2. CASE l \in Between(q, y)
    <3>1. l <= y
      BY <1>1, <2>2 DEF Between
    <3>2. PREC[text[l]] >= PREC[text[y]]
      BY <2>2
    <3>3. QED
      BY <2>1, <3>1, <3>2
  <2>3. CASE l = y
    BY <2>3
  <2>4. CASE l \in Between(y, x)
    BY <2>4
  <2>5. QED
    BY <1>2, <1>3, <2>2, <2>3, <2>4
<1>6. y \in Outermost(q + 1, x - 1)
  BY <1>2, <1>3
<1>7. LastApplied(q + 1, x - 1) = y
  BY <1>4, <1>5, <1>6, LastIsOne
<1>8. SpanValue[<<q + 1, x - 1>>] = Made(SpanValue, q + 1, x - 1)
  BY <1>4, SpanValues
<1>9. Made(SpanValue, q + 1, x - 1) = Compute(text[y], SpanValue[<<q + 1, y - 1>>], SpanValue[<<y + 1, x - 1>>])
  <2>1. Outermost(q + 1, x - 1) # {}
    BY <1>6
  <2>2. QED
    BY <1>4, <1>7, <2>1, Zenon DEF Made
<1>10. QED
  BY <1>8, <1>9, Zenon DEF Mean

----------------------------------------------------------------------------
(***************************************************************************)
(* The stacks of evalExpr while it reads a well-formed text.               *)
(***************************************************************************)
StackOps == DOMAIN PREC \cup {"(", "u-", "u~"}

(* p is where the operators of the stack s stand, c how many values wait   *)
(* below each; nx is read next.                                            *)
StackTypes(p, c, nx, s) ==
  /\ nx \in Nat \ {0} /\ nx <= Len(text) + 1 /\ s \in Seq(StackOps)
  /\ p \in [Nat -> Nat] /\ c \in [Nat -> Nat] /\ p[0] = 0 /\ c[0] = 0
(* The operators stand before nx, and an operand has to come after each.   *)
Places(p, nx, s) == \A k \in 0..Len(s) : p[k] < nx /\ ~EndsOperand(p[k])
InOrder(p, c, s) == \A j, k \in 0..Len(s) : j < k => p[j] < p[k] /\ c[j] <= c[k]
(* A binary operator waits for a second value, the others for their first. *)
OpBit(t) == AsBit(t \in DOMAIN PREC)
Counts(c, s) == \A k \in 1..Len(s) : c[k] = c[k - 1] + OpBit(s[k])
Stack(p, c, nx, s) ==
  StackTypes(p, c, nx, s) /\ Places(p, nx, s) /\ InOrder(p, c, s) /\ Counts(c, s)

(* The parentheses on the stack are the ones open at nx.                   *)
Nesting(p, nx, s) ==
  /\ \A k \in 1..Len(s) : Depth(p[k]) = Depth(p[k - 1]) + AsBit(s[k] = "(")
  /\ \A k \in 0..Len(s) : \A l \in p[k]..(nx - 1) : Depth(l) >= Depth(p[k])
  /\ Depth(nx - 1) = Depth(p[Len(s)])

SignOp(t) == IF t = "-" THEN "u-" ELSE "u~"

(* The k-th operator: a parenthesis or a sign stands right after the one   *)
(* below it; a binary operator has the value of all that stands between on *)
(* the value stack, whose operators bind at least as tightly, and it binds *)
(* more tightly than a binary one right below it.                          *)
Item(p, c, o, s, k) ==
  \/ s[k] = "(" /\ text[p[k]] = "(" /\ p[k] = p[k - 1] + 1
  \/ s[k] \in {"u-", "u~"} /\ s[k] = SignOp(text[p[k]]) /\ IsSign(p[k]) /\ p[k] = p[k - 1] + 1
  \/ /\ s[k] \in DOMAIN PREC /\ s[k] = text[p[k]] /\ IsBinary(p[k]) /\ p[k - 1] + 1 < p[k]
     /\ o[c[k]] = Number(Mean(p[k - 1], p[k]))
     /\ \A l \in Between(p[k - 1], p[k]) : PREC[text[l]] >= PREC[s[k]]
     /\ k > 1 /\ s[k - 1] \in DOMAIN PREC => PREC[s[k - 1]] < PREC[s[k]]

Items(p, c, o, s, m) == \A k \in 1..m : Item(p, c, o, s, k)

(* v is the value of what was read since q, where t stands; the operators  *)
(* in it bind more tightly than t, and at least as tightly as the one at nx.*)
Operand(q, nx, v, t) ==
  /\ q + 1 < nx
  /\ v = Number(Mean(q, nx))
  /\ \A l \in Between(q, nx) :
       /\ t \in DOMAIN PREC => PREC[text[l]] > PREC[t]
       /\ nx <= Len(text) /\ IsBinary(nx) => PREC[text[l]] >= PREC[text[nx]]

TopOf(s) == IF s = <<>> THEN "none" ELSE s[Len(s)]

(* The stacks o and s when nx is read next, values being members of V.     *)
Reading(p, c, V, nx, o, s) ==
  /\ Stack(p, c, nx, s) /\ Nesting(p, nx, s)
  /\ Items(p, c, o, s, Len(s))
  /\ o \in Seq(V)
  /\ IF EndsOperand(nx - 1)
     THEN Len(o) = c[Len(s)] + 1 /\ Operand(p[Len(s)], nx, o[Len(o)], TopOf(s))
     ELSE Len(o) = c[Len(s)] /\ nx = p[Len(s)] + 1

----------------------------------------------------------------------------
LEMMA ItemStays ==
  ASSUME NEW k \in Nat \ {0}, NEW p, NEW c, NEW o, NEW s, NEW p1, NEW c1, NEW o1, NEW s1,
         p1[k] = p[k], p1[k - 1] = p[k - 1], c1[k] = c[k], s1[k] = s[k],
         k > 1 => s1[k - 1] = s[k - 1],
         s[k] \in DOMAIN PREC => o1[c[k]] = o[c[k]],
         Item(p, c, o, s, k)
  PROVE  Item(p1, c1, o1, s1, k)
BY Zenon DEF Item

LEMMA Pushed ==
  ASSUME NEW V, NEW s \in Seq(V), NEW t
  PROVE  /\ Append(s, t) \in Seq(V \cup {t}) /\ Len(Append(s, t)) = Len(s) + 1
         /\ \A k \in 1..Len(s) : Append(s, t)[k] = s[k]
         /\ Append(s, t)[Len(s) + 1] = t
<1>1. s \in Seq(V \cup {t})
  OBVIOUS
<1>2. QED
  BY <1>1

LEMMA Popped ==
  ASSUME NEW V, NEW s \in Seq(V), s # <<>>
  PROVE  /\ Front(s) \in Seq(V) /\ Len(Front(s)) = Len(s) - 1
         /\ \A k \in 1..(Len(s) - 1) : Front(s)[k] = s[k]
         /\ Len(s) \in Nat \ {0} /\ Last(s) = s[Len(s)] /\ s[Len(s)] \in V
<1>1. Len(s) \in Nat \ {0} /\ s[Len(s)] \in V
  OBVIOUS
<1>2. Front(s) \in Seq(V)
  BY <1>1 DEF Front
<1>3. /\ Len(SubSeq(s, 1, Len(s) - 1)) = Len(s) - 1
      /\ \A k \in 1..(Len(s) - 1) : SubSeq(s, 1, Len(s) - 1)[k] = s[k]
  <2>1. \A k \in 1..(Len(s) - 1) : s[k] \in V
    OBVIOUS
  <2> DEFINE n == Len(s) - 1
  <2>2. n \in Nat /\ 1 \in Int
    BY <1>1
  <2> HIDE DEF n
  <2>3. \A k \in 1..n : s[k] \in V
    BY <2>1 DEF n
  <2>4. /\ Len(SubSeq(s, 1, n)) = IF 1 <= n THEN n - 1 + 1 ELSE 0
        /\ \A k \in 1..(n - 1 + 1) : SubSeq(s, 1, n)[k] = s[1 + k - 1]
    BY <2>2, <2>3, SubSeqProperties
  <2>5. n - 1 + 1 = n /\ (~(1 <= n) => n = 0)
    BY <2>2
  <2>6. Len(SubSeq(s, 1, n)) = n
    BY <2>4, <2>5
  <2>7. \A k \in 1..n : SubSeq(s, 1, n)[k] = s[k]
    <3>1. \A k \in 1..n : 1 + k - 1 = k
      BY <2>2
    <3>2. QED
      BY <2>4, <2>5, <3>1
  <2>8. QED
    BY <2>6, <2>7 DEF n
<1>4. ASSUME NEW k \in 1..(Len(s) - 1) PROVE Front(s)[k] = s[k]
  BY <1>3, Zenon DEF Front
<1>5. Last(s) = s[Len(s)]
  BY DEF Last
<1>6. QED
  BY <1>1, <1>2, <1>3, <1>4, <1>5, Zenon DEF Front

LEMMA StackFacts ==
  ASSUME IsText, NEW p, NEW c, NEW nx, NEW s, Stack(p, c, nx, s)
  PROVE  /\ Len(text) \in Nat /\ nx \in Nat \ {0} /\ nx <= Len(text) + 1
         /\ s \in Seq(StackOps) /\ Len(s) \in Nat
         /\ p \in [Nat -> Nat] /\ c \in [Nat -> Nat] /\ p[0] = 0 /\ c[0] = 0
         /\ \A k \in 0..Len(s) : p[k] \in Nat /\ c[k] \in Nat /\ p[k] < nx /\ ~EndsOperand(p[k])
         /\ p[Len(s)] \in Nat /\ c[Len(s)] \in Nat /\ p[Len(s)] < nx /\ ~EndsOperand(p[Len(s)])
<1>1. Len(text) \in Nat
  BY DEF IsText
<1>2. StackTypes(p, c, nx, s) /\ Places(p, nx, s)
  BY DEF Stack
<1>3. s \in Seq(StackOps) /\ Len(s) \in Nat
  BY <1>2 DEF StackTypes
<1>4. nx \in Nat \ {0} /\ nx <= Len(text) + 1 /\ p \in [Nat -> Nat] /\ c \in [Nat -> Nat] /\ p[0] = 0 /\ c[0] = 0
  BY <1>2 DEF StackTypes
<1>5. \A k \in 0..Len(s) : p[k] < nx /\ ~EndsOperand(p[k])
  BY <1>2 DEF Places
<1> DEFINE m == Len(s)
<1>6. m \in Nat
  BY <1>3
<1> HIDE DEF m
<1>7. m \in 0..m /\ \A k \in 0..m : k \in Nat
  BY <1>6
<1>8. \A k \in 0..m : p[k] \in Nat /\ c[k] \in Nat
  BY <1>4, <1>7
<1>9. \A k \in 0..m : p[k] < nx /\ ~EndsOperand(p[k])
  BY <1>5 DEF m
<1>10. p[m] \in Nat /\ c[m] \in Nat /\ p[m] < nx /\ ~EndsOperand(p[m])
  BY <1>7, <1>8, <1>9
<1>11. QED
  BY <1>1, <1>3, <1>4, <1>8, <1>9, <1>10, Zenon DEF m

LEMMA StackAdvances ==
  ASSUME IsText, NEW p, NEW c, NEW nx, NEW s, Stack(p, c, nx, s), nx <= Len(text)
  PROVE  Stack(p, c, nx + 1, s)
<1>1. StackTypes(p, c, nx, s) /\ Places(p, nx, s)
  BY DEF Stack
<1>2. nx \in Nat \ {0} /\ Len(text) \in Nat /\ \A k \in 0..Len(s) : p[k] \in Nat
  BY StackFacts
<1>3. nx + 1 \in Nat \ {0} /\ nx + 1 <= Len(text) + 1 /\ \A i \in Nat : i < nx => i < nx + 1
  BY <1>2
<1>4. StackTypes(p, c, nx + 1, s)
  BY <1>1, <1>3, Zenon DEF StackTypes
<1>5. Places(p, nx + 1, s)
  BY <1>1, <1>2, <1>3, Zenon DEF Places
<1>6. QED
  BY <1>4, <1>5, Zenon DEF Stack

LEMMA NestingAdvances ==
  ASSUME IsText, NEW p, NEW c, NEW nx, NEW s, Stack(p, c, nx, s), Nesting(p, nx, s),
         nx <= Len(text), Depth(nx) = Depth(nx - 1)
  PROVE  Nesting(p, nx + 1, s)
<1>1. Len(text) \in Nat /\ nx \in Nat /\ (nx + 1) - 1 = nx
  BY StackFacts
<1>2. ASSUME NEW k \in 0..Len(s), NEW l \in p[k]..nx PROVE Depth(l) >= Depth(p[k])
  <2>0. p[k] \in Nat /\ p[k] < nx
    BY StackFacts, Zenon
  <2>1. p[k] \in Nat /\ p[k] <= nx - 1
    BY <1>1, <2>0
  <2>2. CASE l = nx
    <3>1. nx - 1 \in p[k]..(nx - 1)
      BY <1>1, <2>1
    <3>2. Depth(nx - 1) >= Depth(p[k])
      BY <3>1 DEF Nesting
    <3>3. QED
      BY <2>2, <3>2
  <2>3. CASE l # nx
    <3>1. l \in p[k]..(nx - 1)
      BY <1>1, <2>1, <2>3
    <3>2. QED
      BY <3>1 DEF Nesting
  <2>4. QED
    BY <2>2, <2>3
<1>3. QED
  BY <1>1, <1>2 DEF Nesting

(* g is f with x at m + 1.                                                 *)
Grown(f, g, m, x) == g \in [Nat -> Nat] /\ g[m + 1] = x /\ \A k \in 0..m : g[k] = f[k]
(* s1 is s with t on top.                                                  *)
OnTop(s, s1, t) ==
  /\ s1 \in Seq(StackOps) /\ Len(s1) = Len(s) + 1 /\ s1[Len(s) + 1] = t
  /\ \A k \in 1..Len(s) : s1[k] = s[k]

LEMMA Grow ==
  ASSUME NEW p \in [Nat -> Nat], NEW m \in Nat, NEW x \in Nat
  PROVE  \E q : Grown(p, q, m, x)
<1>1. m + 1 \in Nat /\ \A k \in 0..m : k \in Nat /\ k # m + 1
  OBVIOUS
<1>2. Grown(p, [p EXCEPT ![m + 1] = x], m, x)
  BY <1>1 DEF Grown
<1>3. QED
  BY <1>2, Zenon

LEMMA PushOne ==
  ASSUME NEW s \in Seq(StackOps), NEW t \in StackOps
  PROVE  OnTop(s, Append(s, t), t)
<1>1. StackOps \cup {t} = StackOps
  OBVIOUS
<1>2. QED
  BY <1>1, Pushed DEF OnTop

LEMMA PushStack ==
  ASSUME IsText, NEW p, NEW c, NEW nx, NEW s, Stack(p, c, nx, s), nx <= Len(text),
         NEW t \in StackOps, ~EndsOperand(nx), NEW bit \in Nat, bit = OpBit(t),
         NEW p1, NEW c1, NEW s1,
         Grown(p, p1, Len(s), nx), Grown(c, c1, Len(s), c[Len(s)] + bit), OnTop(s, s1, t)
  PROVE  Stack(p1, c1, nx + 1, s1)
<1> DEFINE m == Len(s)
<1>1. Len(text) \in Nat /\ nx \in Nat \ {0} /\ m \in Nat
  BY StackFacts
<1>2. p[0] = 0 /\ c[0] = 0
  BY StackFacts
<1>3. c[m] \in Nat
  BY StackFacts
<1>4. p1 \in [Nat -> Nat] /\ p1[m + 1] = nx /\ \A k \in 0..m : p1[k] = p[k]
  BY Zenon DEF Grown
<1>5. c1 \in [Nat -> Nat] /\ c1[m + 1] = c[m] + bit /\ \A k \in 0..m : c1[k] = c[k]
  BY Zenon DEF Grown
<1>6. /\ s1 \in Seq(StackOps) /\ Len(s1) = m + 1 /\ s1[m + 1] = t
      /\ \A k \in 1..m : s1[k] = s[k]
  BY Zenon DEF OnTop
<1> HIDE DEF m
<1>7. \A k \in 0..m : p[k] < nx /\ ~EndsOperand(p[k]) /\ p[k] \in Nat /\ c[k] \in Nat
  BY StackFacts DEF m
<1>8. InOrder(p, c, s) /\ Counts(c, s)
  BY DEF Stack
<1>9. StackTypes(p1, c1, nx + 1, s1)
  <2>1. nx + 1 \in Nat \ {0} /\ nx + 1 <= Len(text) + 1
    BY <1>1
  <2>2. 0 \in 0..m
    BY <1>1
  <2>3. QED
    BY <1>2, <1>4, <1>5, <1>6, <2>1, <2>2 DEF StackTypes
<1>10. Places(p1, nx + 1, s1)
  <2>1. ASSUME NEW k \in 0..(m + 1) PROVE p1[k] < nx + 1 /\ ~EndsOperand(p1[k])
    <3>1. CASE k = m + 1
      BY <1>1, <1>4, <3>1
    <3>2. CASE k \in 0..m
      <4>1. p1[k] = p[k] /\ p[k] < nx /\ ~EndsOperand(p[k]) /\ p[k] \in Nat
        BY <1>4, <1>7, <3>2, Zenon
      <4>2. nx \in Nat
        BY <1>1
      <4>3. p[k] < nx + 1
        BY <4>1, <4>2
      <4>4. QED
        BY <4>1, <4>3, Zenon
    <3>3. QED
      BY <1>1, <3>1, <3>2
  <2>2. QED
    BY <1>6, <2>1 DEF Places
<1>11. InOrder(p1, c1, s1)
  <2>1. ASSUME NEW j \in 0..(m + 1), NEW k \in 0..(m + 1), j < k PROVE p1[j] < p1[k] /\ c1[j] <= c1[k]
    <3>1. j \in 0..m
      BY <1>1, <2>1
    <3>2. p1[j] = p[j] /\ c1[j] = c[j] /\ p[j] < nx /\ c[j] \in Nat
      BY <1>4, <1>5, <1>7, <3>1
    <3>3. CASE k = m + 1
      <4>1. c[j] <= c[m]
        <5>1. m \in 0..m /\ (j < m \/ j = m)
          BY <1>1, <3>1
        <5>2. CASE j < m
          BY <1>8, <3>1, <5>1, <5>2 DEF InOrder, m
        <5>3. CASE j = m
          BY <3>2, <5>3
        <5>4. QED
          BY <5>1, <5>2, <5>3
      <4>2. c[m] \in Nat
        BY <1>3
      <4>3. p1[k] = nx /\ c1[k] = c[m] + bit
        BY <1>4, <1>5, <3>3, Zenon
      <4>4. c[j] <= c[m] + bit
        BY <3>2, <4>1, <4>2
      <4>5. QED
        BY <3>2, <4>3, <4>4, Zenon
    <3>4. CASE k \in 0..m
      <4>1. p[j] < p[k] /\ c[j] <= c[k]
        BY <1>8, <2>1, <3>1, <3>4 DEF InOrder, m
      <4>2. QED
        BY <1>4, <1>5, <3>2, <3>4, <4>1
    <3>5. QED
      BY <1>1, <3>3, <3>4
  <2>2. QED
    BY <1>6, <2>1 DEF InOrder
<1>12. Counts(c1, s1)
  <2>1. ASSUME NEW k \in 1..(m + 1) PROVE c1[k] = c1[k - 1] + OpBit(s1[k])
    <3>1. CASE k = m + 1
      <4>1. k - 1 = m /\ m \in 0..m
        BY <1>1, <3>1
      <4>2. s1[k] = t
        BY <1>6, <3>1
      <4>3. c1[k] = c[m] + bit /\ c1[k - 1] = c[m]
        BY <1>5, <3>1, <4>1
      <4>4. QED
        BY <4>2, <4>3, Zenon
    <3>2. CASE k \in 1..m
      <4>1. k \in 0..m /\ k - 1 \in 0..m
        BY <1>1, <3>2
      <4>2. c[k] = c[k - 1] + OpBit(s[k])
        BY <1>8, <3>2 DEF Counts, m
      <4>3. c1[k] = c[k] /\ c1[k - 1] = c[k - 1] /\ s1[k] = s[k]
        BY <1>5, <1>6, <3>2, <4>1
      <4>4. QED
        BY <4>2, <4>3, Zenon
    <3>3. QED
      BY <1>1, <3>1, <3>2
  <2>2. QED
    BY <1>6, <2>1 DEF Counts
<1>13. QED
  BY <1>9, <1>10, <1>11, <1>12 DEF Stack

----------------------------------------------------------------------------
(***************************************************************************)
(* An operator is pushed, a value or a parenthesis is read.                *)
(***************************************************************************)
LEMMA PushNesting ==
  ASSUME IsText, NEW p, NEW c, NEW nx, NEW s, Stack(p, c, nx, s), Nesting(p, nx, s), nx <= Len(text),
         NEW t, Depth(nx) = Depth(nx - 1) + AsBit(t = "("),
         NEW p1, NEW s1, Grown(p, p1, Len(s), nx), OnTop(s, s1, t)
  PROVE  Nesting(p1, nx + 1, s1)
<1> DEFINE m == Len(s)
           bit == AsBit(t = "(")
<1>1. Len(text) \in Nat /\ nx \in Nat \ {0} /\ m \in Nat /\ (nx + 1) - 1 = nx
  BY StackFacts
<1>2. p1 \in [Nat -> Nat] /\ p1[m + 1] = nx /\ \A k \in 0..m : p1[k] = p[k]
  BY Zenon DEF Grown
<1>3. Len(s1) = m + 1 /\ s1[m + 1] = t /\ \A k \in 1..m : s1[k] = s[k]
  BY Zenon DEF OnTop
<1>4. /\ \A k \in 1..m : Depth(p[k]) = Depth(p[k - 1]) + AsBit(s[k] = "(")
      /\ \A k \in 0..m : \A l \in p[k]..(nx - 1) : Depth(l) >= Depth(p[k])
      /\ Depth(nx - 1) = Depth(p[m])
  BY Zenon DEF Nesting
<1>5. \A k \in 0..m : p[k] \in Nat /\ p[k] < nx
  BY StackFacts
<1>6. Depth(nx) = Depth(nx - 1) + bit
  OBVIOUS
<1>7. bit \in {0, 1}
  BY DEF AsBit
<1>8. Depth(nx) \in Int /\ Depth(nx - 1) \in Int
  <2>1. nx \in 0..Len(text) /\ nx - 1 \in 0..Len(text)
    BY <1>1
  <2>2. QED
    BY <2>1, DepthGoesOn
<1> HIDE DEF m, bit
<1>9. ASSUME NEW k \in 1..(m + 1)
      PROVE  Depth(p1[k]) = Depth(p1[k - 1]) + AsBit(s1[k] = "(")
  <2>1. CASE k = m + 1
    <3>1. k - 1 = m /\ m \in 0..m
      BY <1>1, <2>1
    <3>2. p1[k] = nx /\ p1[k - 1] = p[m] /\ s1[k] = t
      BY <1>2, <1>3, <2>1, <3>1, Zenon
    <3>3. Depth(nx) = Depth(p[m]) + AsBit(t = "(")
      BY <1>4, <1>6, Zenon DEF bit
    <3>4. QED
      BY <3>2, <3>3
  <2>2. CASE k \in 1..m
    <3>1. k \in 0..m /\ k - 1 \in 0..m
      BY <1>1, <2>2
    <3>2. p1[k] = p[k] /\ p1[k - 1] = p[k - 1] /\ s1[k] = s[k]
      BY <1>2, <1>3, <2>2, <3>1, Zenon
    <3>3. Depth(p[k]) = Depth(p[k - 1]) + AsBit(s[k] = "(")
      BY <1>4, <2>2
    <3>4. QED
      BY <3>2, <3>3
  <2>3. QED
    BY <1>1, <2>1, <2>2
<1>10. ASSUME NEW k \in 0..(m + 1), NEW l \in p1[k]..nx PROVE Depth(l) >= Depth(p1[k])
  <2>1. CASE k = m + 1
    <3>1. p1[k] = nx
      BY <1>2, <2>1, Zenon
    <3>2. l = nx
      BY <1>1, <1>10, <3>1
    <3>3. QED
      BY <1>8, <3>1, <3>2
  <2>2. CASE k \in 0..m
    <3>1. p1[k] = p[k] /\ p[k] \in Nat /\ p[k] < nx
      BY <1>2, <1>5, <2>2, Zenon
    <3>2. CASE l = nx
      <4>1. nx - 1 \in p[k]..(nx - 1)
        BY <1>1, <3>1
      <4>2. Depth(nx - 1) >= Depth(p[k])
        BY <1>4, <2>2, <4>1, Zenon
      <4>3. Depth(p[k]) \in Int
        <5>1. p[k] \in 0..Len(text)
          BY <1>1, <3>1
        <5>2. QED
          BY <5>1, DepthGoesOn
      <4>4. Depth(nx) >= Depth(p[k])
        BY <1>6, <1>7, <1>8, <4>2, <4>3
      <4>5. QED
        BY <3>1, <3>2, <4>4
    <3>3. CASE l # nx
      <4>1. l \in p[k]..(nx - 1)
        BY <1>1, <3>1, <3>3
      <4>2. QED
        BY <1>4, <2>2, <3>1, <4>1, Zenon
    <3>4. QED
      BY <3>2, <3>3
  <2>3. QED
    BY <1>1, <2>1, <2>2
<1>11. Depth(nx) = Depth(p1[m + 1])
  BY <1>2
<1>12. QED
  BY <1>1, <1>3, <1>9, <1>10, <1>11 DEF Nesting

(* The values below stay while those above come and go.                    *)
Share(p, c, o, s, p1, c1, o1, s1, m) ==
  /\ \A k \in 0..m : p1[k] = p[k] /\ c1[k] = c[k]
  /\ \A k \in 1..m : s1[k] = s[k]
  /\ \A v \in 1..c[m] : o1[v] = o[v]

LEMMA ItemsStay ==
  ASSUME IsText, NEW p, NEW c, NEW nx, NEW s, Stack(p, c, nx, s), NEW o,
         Items(p, c, o, s, Len(s)),
         NEW m \in 0..Len(s), NEW p1, NEW c1, NEW s1, NEW o1,
         Share(p, c, o, s, p1, c1, o1, s1, m)
  PROVE  Items(p1, c1, o1, s1, m)
<1>0. /\ \A k \in 0..m : p1[k] = p[k] /\ c1[k] = c[k]
      /\ \A k \in 1..m : s1[k] = s[k]
      /\ \A v \in 1..c[m] : o1[v] = o[v]
      /\ \A k \in 1..Len(s) : Item(p, c, o, s, k)
  BY Zenon DEF Share, Items
<1>1. Len(s) \in Nat
  BY StackFacts
<1>2. SUFFICES ASSUME NEW k \in 1..m PROVE Item(p1, c1, o1, s1, k)
  BY Zenon DEF Items
<1>3. k \in Nat \ {0} /\ k \in 0..m /\ k - 1 \in 0..m /\ k \in 1..Len(s) /\ (k > 1 => k - 1 \in 1..m)
      /\ k - 1 \in 0..Len(s) /\ k \in 0..Len(s)
  BY <1>1
<1>4. p1[k] = p[k] /\ p1[k - 1] = p[k - 1] /\ c1[k] = c[k] /\ s1[k] = s[k] /\ (k > 1 => s1[k - 1] = s[k - 1])
  BY <1>0, <1>3, Zenon
<1>5. Item(p, c, o, s, k)
  BY <1>0, <1>3, Zenon
<1>6. ASSUME s[k] \in DOMAIN PREC PROVE o1[c[k]] = o[c[k]]
  <2>1. c[k] = c[k - 1] + OpBit(s[k])
    BY <1>3, Zenon DEF Stack, Counts
  <2>2. OpBit(s[k]) = 1
    BY <1>6 DEF OpBit, AsBit
  <2>3. c[k] \in Nat /\ c[k - 1] \in Nat /\ c[m] \in Nat
    BY <1>3, StackFacts
  <2>4. c[k] <= c[m]
    <3>1. k = m \/ k < m
      BY <1>1
    <3>2. CASE k < m
      <4>1. InOrder(p, c, s)
        BY DEF Stack
      <4>2. QED
        BY <1>3, <3>2, <4>1 DEF InOrder
    <3>3. CASE k = m
      BY <2>3, <3>3
    <3>4. QED
      BY <3>1, <3>2, <3>3
  <2>5. c[k] \in 1..c[m]
    BY <2>1, <2>2, <2>3, <2>4
  <2>6. QED
    BY <1>0, <2>5, Zenon
<1>7. QED
  BY <1>3, <1>4, <1>5, <1>6, ItemStays, Zenon

LEMMA SameDepth ==
  ASSUME IsText, NEW i \in 1..Len(text), text[i] # "(", text[i] # ")"
  PROVE  Depth(i) = Depth(i - 1)
<1>1. AsBit(text[i] = "(") = 0 /\ AsBit(text[i] = ")") = 0
  BY DEF AsBit
<1>2. i \in Nat /\ i - 1 \in 0..Len(text)
  BY DEF IsText
<1>3. Depth(i - 1) \in Int
  BY <1>2, DepthGoesOn
<1>4. Depth(i) = Depth(i - 1) + AsBit(text[i] = "(") - AsBit(text[i] = ")")
  BY DepthGoesOn
<1>5. QED
  BY <1>1, <1>3, <1>4

LEMMA ReadingFacts ==
  ASSUME IsText, NEW p, NEW c, NEW V, NEW nx, NEW o, NEW s, Reading(p, c, V, nx, o, s)
  PROVE  /\ Stack(p, c, nx, s) /\ Nesting(p, nx, s)
         /\ Items(p, c, o, s, Len(s))
         /\ o \in Seq(V)
         /\ EndsOperand(nx - 1) =>
              Len(o) = c[Len(s)] + 1 /\ Operand(p[Len(s)], nx, o[Len(o)], TopOf(s))
         /\ ~EndsOperand(nx - 1) => Len(o) = c[Len(s)] /\ nx = p[Len(s)] + 1
         /\ Len(text) \in Nat /\ nx \in Nat \ {0} /\ nx <= Len(text) + 1
         /\ s \in Seq(StackOps) /\ Len(s) \in Nat
         /\ p[Len(s)] \in Nat /\ c[Len(s)] \in Nat /\ p[Len(s)] < nx /\ ~EndsOperand(p[Len(s)])
         /\ c \in [Nat -> Nat] /\ p \in [Nat -> Nat] /\ p[0] = 0 /\ c[0] = 0
<1>1. Stack(p, c, nx, s)
  BY DEF Reading
<1>2. QED
  BY <1>1, StackFacts, Zenon DEF Reading

LEMMA ValueIsRead ==
  ASSUME IsText, WellFormed, NEW p, NEW c, NEW V, NEW nx, NEW o, NEW s, Reading(p, c, V, nx, o, s),
         nx <= Len(text), text[nx] \in DOMAIN ValueOf
  PROVE  \E W : Reading(p, c, W, nx + 1, Append(o, Number(ValueOf[text[nx]])), s)
<1> DEFINE m == Len(s)
           v == Number(ValueOf[text[nx]])
           o1 == Append(o, v)
           W == V \cup {v}
<1>0. Len(text) \in Nat /\ nx \in Nat \ {0} /\ m \in Nat /\ c[m] \in Nat /\ p[m] \in Nat
  BY ReadingFacts, Zenon
<1>1. /\ Len(text) \in Nat /\ nx \in Nat \ {0} /\ m \in Nat /\ c[m] \in Nat /\ p[m] \in Nat
      /\ nx \in 1..Len(text) /\ (nx + 1) - 1 = nx
  BY <1>0
<1>2. text[nx] \notin DOMAIN PREC /\ text[nx] # "(" /\ text[nx] # ")"
  BY Kinds
<1>3. ~EndsOperand(nx - 1) /\ EndsOperand(nx)
  <2>1. EndsOperand(nx - 1) => text[nx] \in DOMAIN PREC \cup {")"}
    BY <1>1, OperandStarts
  <2>2. EndsOperand(nx)
    BY <1>1 DEF EndsOperand
  <2>3. QED
    BY <1>2, <2>1, <2>2
<1>4. Len(o) = c[m] /\ nx = p[m] + 1
  <2>1. ~EndsOperand(nx - 1) => Len(o) = c[m] /\ nx = p[m] + 1
    BY ReadingFacts
  <2>2. QED
    BY <1>3, <2>1, Zenon
<1>5. Stack(p, c, nx, s) /\ Nesting(p, nx, s)
  BY ReadingFacts, Zenon
<1>6. Stack(p, c, nx + 1, s)
  BY <1>5, StackAdvances, Zenon
<1>7. Nesting(p, nx + 1, s)
  <2>1. Depth(nx) = Depth(nx - 1)
    BY <1>1, <1>2, SameDepth
  <2>2. QED
    BY <1>5, <2>1, NestingAdvances, Zenon
<1>8. /\ o1 \in Seq(W) /\ Len(o1) = c[m] + 1 /\ o1[Len(o1)] = v
      /\ \A k \in 1..c[m] : o1[k] = o[k]
  <2>1. o \in Seq(V)
    BY ReadingFacts, Zenon
  <2>2. QED
    BY <1>4, <2>1, Pushed
<1> HIDE DEF o1, W, v
<1>9. Items(p, c, o1, s, m)
  <2>1. m \in 0..m
    BY <1>1
  <2>2. Items(p, c, o, s, m)
    BY ReadingFacts, Zenon
  <2>3. Share(p, c, o, s, p, c, o1, s, m)
    BY <1>8, Zenon DEF Share
  <2>4. QED
    BY <1>5, <2>1, <2>2, <2>3, ItemsStay, Zenon
<1>10. Operand(p[m], nx + 1, v, TopOf(s))
  <2>1. nx - 1 = p[m] /\ p[m] + 1 < nx + 1
    BY <1>1, <1>4
  <2>2. Mean(nx - 1, nx + 1) = ValueOf[text[nx]] /\ Between(nx - 1, nx + 1) = {}
    BY <1>1, OneValue
  <2>3. v = Number(Mean(p[m], nx + 1)) /\ Between(p[m], nx + 1) = {}
    BY <2>1, <2>2 DEF v
  <2> HIDE DEF m
  <2>4. QED
    BY <2>1, <2>3, Zenon DEF Operand
<1>11. Reading(p, c, W, nx + 1, o1, s)
  BY <1>1, <1>3, <1>6, <1>7, <1>8, <1>9, <1>10, Zenon DEF Reading
<1>12. QED
  BY <1>11, Zenon DEF o1, v

(* What t on the stack s says of the operator at nx.                       *)
FitsOnTop(p, c, nx, o, s, t, bit) ==
  \A p1, c1, s1 :
    /\ p1[Len(s)] = p[Len(s)] /\ p1[Len(s) + 1] = nx /\ c1[Len(s) + 1] = c[Len(s)] + bit
    /\ s1[Len(s) + 1] = t /\ (Len(s) > 0 => s1[Len(s)] = s[Len(s)])
    => Item(p1, c1, o, s1, Len(s) + 1)

LEMMA OperatorIsPushed ==
  ASSUME IsText, NEW p, NEW c, NEW V, NEW nx, NEW o, NEW s, Reading(p, c, V, nx, o, s),
         nx <= Len(text), ~EndsOperand(nx), NEW t \in StackOps,
         Depth(nx) = Depth(nx - 1) + AsBit(t = "("),
         Len(o) = c[Len(s)] + OpBit(t), FitsOnTop(p, c, nx, o, s, t, OpBit(t))
  PROVE  \E p1, c1 : Reading(p1, c1, V, nx + 1, o, Append(s, t))
<1> DEFINE m == Len(s)
           s1 == Append(s, t)
           bit == OpBit(t)
<1>0. Len(text) \in Nat /\ nx \in Nat \ {0} /\ m \in Nat /\ c[m] \in Nat /\ p[m] \in Nat
  BY ReadingFacts, Zenon
<1>1. bit \in Nat
  BY DEF OpBit, AsBit
<1> HIDE DEF bit
<1>2. c[m] + bit \in Nat /\ (nx + 1) - 1 = nx /\ nx \in Nat /\ (m + 1) - 1 = m /\ m \in 0..m
  BY <1>0, <1>1
<1>5. Stack(p, c, nx, s) /\ Nesting(p, nx, s) /\ p \in [Nat -> Nat] /\ c \in [Nat -> Nat] /\ s \in Seq(StackOps)
  BY ReadingFacts, Zenon
<1>7. PICK p1 : Grown(p, p1, m, nx)
  BY <1>0, <1>2, <1>5, Grow
<1>8. PICK c1 : Grown(c, c1, m, c[m] + bit)
  BY <1>0, <1>2, <1>5, Grow
<1>9. OnTop(s, s1, t)
  BY <1>5, PushOne
<1> HIDE DEF s1
<1>10. Stack(p1, c1, nx + 1, s1)
  BY <1>1, <1>5, <1>7, <1>8, <1>9, PushStack DEF bit
<1>12. Nesting(p1, nx + 1, s1)
  BY <1>5, <1>7, <1>9, PushNesting
<1>13. /\ \A k \in 0..m : p1[k] = p[k] /\ c1[k] = c[k]
       /\ \A k \in 1..m : s1[k] = s[k]
       /\ Len(s1) = m + 1 /\ s1[m + 1] = t /\ p1[m + 1] = nx /\ c1[m + 1] = c[m] + bit
  BY <1>7, <1>8, <1>9, Zenon DEF Grown, OnTop
<1>14. Items(p1, c1, o, s1, m)
  <2>1. Items(p, c, o, s, m)
    BY ReadingFacts, Zenon
  <2>2. Share(p, c, o, s, p1, c1, o, s1, m)
    BY <1>13, Zenon DEF Share
  <2>3. QED
    BY <1>2, <1>5, <2>1, <2>2, ItemsStay, Zenon
<1>15. Item(p1, c1, o, s1, m + 1)
  <2>1. m > 0 => m \in 1..m
    BY <1>0
  <2>2. QED
    BY <1>2, <1>13, <2>1, Zenon DEF FitsOnTop, bit
<1>16. Items(p1, c1, o, s1, m + 1)
  <2>1. \A k \in 1..(m + 1) : k \in 1..m \/ k = m + 1
    BY <1>0
  <2>2. QED
    BY <1>14, <1>15, <2>1, Zenon DEF Items
<1>17. o \in Seq(V)
  BY ReadingFacts, Zenon
<1>18. Reading(p1, c1, V, nx + 1, o, s1)
  <2>1. Len(o) = c1[Len(s1)] /\ nx + 1 = p1[Len(s1)] + 1
    BY <1>13, Zenon DEF bit
  <2>2. ~EndsOperand((nx + 1) - 1)
    BY <1>2
  <2>3. Items(p1, c1, o, s1, Len(s1))
    BY <1>13, <1>16, Zenon
  <2>4. QED
    BY <1>10, <1>12, <1>17, <2>1, <2>2, <2>3, Zenon DEF Reading
<1>19. QED
  BY <1>18, Zenon DEF s1

LEMMA ParenthesisIsOpened ==
  ASSUME IsText, WellFormed, NEW p, NEW c, NEW V, NEW nx, NEW o, NEW s, Reading(p, c, V, nx, o, s),
         nx <= Len(text), text[nx] = "("
  PROVE  /\ ~EndsOperand(nx)
         /\ \E p1, c1 : Reading(p1, c1, V, nx + 1, o, Append(s, "("))
<1> DEFINE m == Len(s)
<1>0. Len(text) \in Nat /\ nx \in Nat \ {0} /\ m \in Nat /\ c[m] \in Nat /\ p[m] \in Nat
  BY ReadingFacts, Zenon
<1>1. nx \in 1..Len(text) /\ (m + 1) - 1 = m /\ c[m] + 0 = c[m]
  BY <1>0
<1>2. "(" \notin DOMAIN PREC /\ "(" # ")" /\ "(" \notin DOMAIN ValueOf
  BY Kinds
<1>3. ~EndsOperand(nx - 1) /\ ~EndsOperand(nx)
  <2>1. EndsOperand(nx - 1) => text[nx] \in DOMAIN PREC \cup {")"}
    BY <1>1, OperandStarts
  <2>2. ~EndsOperand(nx)
    BY <1>2 DEF EndsOperand
  <2>3. QED
    BY <1>2, <2>1, <2>2
<1>4. Len(o) = c[m] /\ nx = p[m] + 1
  <2>1. ~EndsOperand(nx - 1) => Len(o) = c[m] /\ nx = p[m] + 1
    BY ReadingFacts
  <2>2. QED
    BY <1>3, <2>1, Zenon
<1>6. OpBit("(") = 0
  BY <1>2 DEF OpBit, AsBit
<1>9. "(" \in StackOps
  BY DEF StackOps
<1>11. Depth(nx) = Depth(nx - 1) + AsBit("(" = "(")
  <2>1. Depth(nx) = Depth(nx - 1) + AsBit(text[nx] = "(") - AsBit(text[nx] = ")")
    BY <1>1, DepthGoesOn
  <2>2. Depth(nx - 1) \in Int
    <3>1. nx - 1 \in 0..Len(text)
      BY <1>1
    <3>2. QED
      BY <3>1, DepthGoesOn
  <2>3. AsBit(text[nx] = "(") = 1 /\ AsBit(text[nx] = ")") = 0 /\ AsBit("(" = "(") = 1
    BY <1>2 DEF AsBit
  <2>4. QED
    BY <2>1, <2>2, <2>3
<1>12. FitsOnTop(p, c, nx, o, s, "(", 0)
  BY <1>1, <1>4, Zenon DEF FitsOnTop, Item
<1>13. Len(o) = c[Len(s)] + OpBit("(")
  BY <1>1, <1>4, <1>6, Zenon
<1> HIDE DEF m
<1>14. FitsOnTop(p, c, nx, o, s, "(", OpBit("("))
  BY <1>6, <1>12, Zenon
<1>15. QED
  BY <1>3, <1>9, <1>11, <1>13, <1>14, OperatorIsPushed

LEMMA SignIsPushed ==
  ASSUME IsText, WellFormed, NEW p, NEW c, NEW V, NEW nx, NEW o, NEW s, Reading(p, c, V, nx, o, s),
         nx <= Len(text), text[nx] \in Signs, ~EndsOperand(nx - 1)
  PROVE  /\ ~EndsOperand(nx)
         /\ \E p1, c1 : Reading(p1, c1, V, nx + 1, o, Append(s, SignOp(text[nx])))
<1> DEFINE m == Len(s)
           t == SignOp(text[nx])
<1>0. Len(text) \in Nat /\ nx \in Nat \ {0} /\ m \in Nat /\ c[m] \in Nat /\ p[m] \in Nat
  BY ReadingFacts, Zenon
<1>1. nx \in 1..Len(text) /\ (m + 1) - 1 = m /\ c[m] + 0 = c[m]
  BY <1>0
<1>2. IsSign(nx)
  BY DEF IsSign
<1>3. ~EndsOperand(nx) /\ text[nx] # "(" /\ text[nx] # ")"
  BY <1>1, <1>2, OperandStarts
<1>4. Len(o) = c[m] /\ nx = p[m] + 1
  <2>1. ~EndsOperand(nx - 1) => Len(o) = c[m] /\ nx = p[m] + 1
    BY ReadingFacts
  <2>2. QED
    BY <2>1, Zenon
<1>5. t \in {"u-", "u~"}
  BY DEF SignOp
<1> HIDE DEF t
<1>6. OpBit(t) = 0 /\ t \in StackOps
  BY <1>5, Kinds DEF OpBit, AsBit, StackOps
<1>7. Depth(nx) = Depth(nx - 1) + AsBit(t = "(")
  <2>1. Depth(nx) = Depth(nx - 1)
    BY <1>1, <1>3, SameDepth
  <2>2. AsBit(t = "(") = 0
    BY <1>5 DEF AsBit
  <2>3. Depth(nx - 1) \in Int
    <3>1. nx - 1 \in 0..Len(text)
      BY <1>1
    <3>2. QED
      BY <3>1, DepthGoesOn
  <2>4. QED
    BY <2>1, <2>2, <2>3
<1>12. FitsOnTop(p, c, nx, o, s, t, 0)
  BY <1>1, <1>2, <1>4, <1>5, Zenon DEF FitsOnTop, Item, t
<1>13. Len(o) = c[Len(s)] + OpBit(t)
  BY <1>1, <1>4, <1>6, Zenon
<1> HIDE DEF m
<1>14. FitsOnTop(p, c, nx, o, s, t, OpBit(t))
  BY <1>6, <1>12, Zenon
<1>15. \E p1, c1 : Reading(p1, c1, V, nx + 1, o, Append(s, t))
  BY <1>3, <1>6, <1>7, <1>13, <1>14, OperatorIsPushed
<1>16. QED
  BY <1>3, <1>15, Zenon DEF t

LEMMA BinaryIsPushed ==
  ASSUME IsText, WellFormed, NEW p, NEW c, NEW V, NEW nx, NEW o, NEW s, Reading(p, c, V, nx, o, s),
         nx <= Len(text), IsBinary(nx),
         ~(TopOf(s) \in DOMAIN PREC /\ PREC[TopOf(s)] >= PREC[text[nx]])
  PROVE  /\ ~EndsOperand(nx)
         /\ \E p1, c1 : Reading(p1, c1, V, nx + 1, o, Append(s, text[nx]))
<1> DEFINE m == Len(s)
           t == text[nx]
<1>0. Len(text) \in Nat /\ nx \in Nat \ {0} /\ m \in Nat /\ c[m] \in Nat /\ p[m] \in Nat
  BY ReadingFacts, Zenon
<1>1. nx \in 1..Len(text) /\ (m + 1) - 1 = m /\ (m + 1 > 1 => m > 0) /\ (m > 0 => s # <<>>)
  BY <1>0
<1>2. t \in DOMAIN PREC /\ EndsOperand(nx - 1)
  BY DEF IsBinary
<1>3. ~EndsOperand(nx) /\ text[nx] # "(" /\ text[nx] # ")"
  BY <1>1, OperandStarts
<1>4. Len(o) = c[m] + 1 /\ Operand(p[m], nx, o[Len(o)], TopOf(s))
  <2>1. EndsOperand(nx - 1) => Len(o) = c[m] + 1 /\ Operand(p[m], nx, o[Len(o)], TopOf(s))
    BY ReadingFacts
  <2>2. QED
    BY <1>2, <2>1, Zenon
<1>6. OpBit(t) = 1 /\ t \in StackOps
  BY <1>2 DEF OpBit, AsBit, StackOps
<1>7. Depth(nx) = Depth(nx - 1) + AsBit(t = "(")
  <2>1. Depth(nx) = Depth(nx - 1)
    BY <1>1, <1>3, SameDepth
  <2>2. AsBit(t = "(") = 0
    BY <1>3 DEF AsBit
  <2>3. Depth(nx - 1) \in Int
    <3>1. nx - 1 \in 0..Len(text)
      BY <1>1
    <3>2. QED
      BY <3>1, DepthGoesOn
  <2>4. QED
    BY <2>1, <2>2, <2>3
<1>8. /\ p[m] + 1 < nx /\ o[c[m] + 1] = Number(Mean(p[m], nx))
      /\ \A l \in Between(p[m], nx) : PREC[text[l]] >= PREC[t]
  BY <1>4, Zenon DEF Operand
<1>9. m > 0 /\ s[m] \in DOMAIN PREC => PREC[s[m]] < PREC[t]
  <2>1. ASSUME m > 0, s[m] \in DOMAIN PREC PROVE PREC[s[m]] < PREC[t]
    <3>1. TopOf(s) = s[m]
      BY <1>1, <2>1, Zenon DEF TopOf
    <3>2. ~(PREC[s[m]] >= PREC[t])
      BY <2>1, <3>1
    <3>3. PREC[s[m]] \in Nat /\ PREC[t] \in Nat
      BY <1>2, <2>1, Levels, Zenon
    <3>4. QED
      BY <3>2, <3>3
  <2>2. QED
    BY <2>1, Zenon
<1>12. FitsOnTop(p, c, nx, o, s, t, 1)
  <2>1. SUFFICES ASSUME NEW p1, NEW c1, NEW s1,
                        p1[m] = p[m], p1[m + 1] = nx, c1[m + 1] = c[m] + 1,
                        s1[m + 1] = t, m > 0 => s1[m] = s[m]
                 PROVE  Item(p1, c1, o, s1, m + 1)
    BY Zenon DEF FitsOnTop
  <2>2. s1[m + 1] \in DOMAIN PREC /\ s1[m + 1] = text[p1[m + 1]] /\ IsBinary(p1[m + 1])
        /\ p1[m] + 1 < p1[m + 1]
    BY <1>2, <1>8, <2>1
  <2>3. o[c1[m + 1]] = Number(Mean(p1[m], p1[m + 1]))
    BY <1>8, <2>1
  <2>4. \A l \in Between(p1[m], p1[m + 1]) : PREC[text[l]] >= PREC[s1[m + 1]]
    BY <1>8, <2>1
  <2>5. m + 1 > 1 /\ s1[m] \in DOMAIN PREC => PREC[s1[m]] < PREC[s1[m + 1]]
    BY <1>1, <1>9, <2>1
  <2> HIDE DEF m, t
  <2>6. QED
    BY <1>1, <2>2, <2>3, <2>4, <2>5, Zenon DEF Item
<1>13. Len(o) = c[Len(s)] + OpBit(t)
  BY <1>4, <1>6, Zenon
<1> HIDE DEF m, t
<1>14. FitsOnTop(p, c, nx, o, s, t, OpBit(t))
  BY <1>6, <1>12, Zenon
<1>15. \E p1, c1 : Reading(p1, c1, V, nx + 1, o, Append(s, t))
  BY <1>3, <1>6, <1>7, <1>13, <1>14, OperatorIsPushed
<1>16. QED
  BY <1>3, <1>15, Zenon DEF t

----------------------------------------------------------------------------
----------------------------------------------------------------------------
(***************************************************************************)
(* An operator or a parenthesis is popped.                                 *)
(***************************************************************************)
LEMMA PopStack ==
  ASSUME IsText, NEW p, NEW c, NEW nx, NEW s, Stack(p, c, nx, s), s # <<>>
  PROVE  Stack(p, c, nx, Front(s))
<1> DEFINE m == Len(s)
           f == Front(s)
<1>1. m \in Nat \ {0} /\ Len(f) = m - 1 /\ f \in Seq(StackOps) /\ \A k \in 1..(m - 1) : f[k] = s[k]
  BY StackFacts, Popped
<1>2. StackTypes(p, c, nx, s) /\ Places(p, nx, s) /\ InOrder(p, c, s) /\ Counts(c, s)
  BY DEF Stack
<1> HIDE DEF f
<1>3. StackTypes(p, c, nx, f)
  BY <1>1, <1>2, Zenon DEF StackTypes
<1>4. \A k \in 0..(m - 1) : k \in 0..m
  BY <1>1
<1>5. \A k \in 1..(m - 1) : k \in 1..m
  BY <1>1
<1>6. Places(p, nx, f)
  BY <1>1, <1>2, <1>4, Zenon DEF Places
<1>7. InOrder(p, c, f)
  BY <1>1, <1>2, <1>4, Zenon DEF InOrder
<1>8. Counts(c, f)
  BY <1>1, <1>2, <1>5, Zenon DEF Counts
<1>9. QED
  BY <1>3, <1>6, <1>7, <1>8, Zenon DEF Stack, f

LEMMA PopNesting ==
  ASSUME IsText, NEW p, NEW c, NEW nx, NEW s, Stack(p, c, nx, s), Nesting(p, nx, s), s # <<>>,
         s[Len(s)] # "("
  PROVE  Nesting(p, nx, Front(s)) /\ Depth(p[Len(s)]) = Depth(p[Len(s) - 1])
<1> DEFINE m == Len(s)
           f == Front(s)
<1>1. m \in Nat \ {0} /\ Len(f) = m - 1 /\ \A k \in 1..(m - 1) : f[k] = s[k]
  BY StackFacts, Popped
<1>2. m \in 1..m /\ m - 1 \in 0..m /\ (\A k \in 0..(m - 1) : k \in 0..m) /\ (\A k \in 1..(m - 1) : k \in 1..m)
  BY <1>1
<1>3. p[m - 1] \in Nat /\ p[m - 1] < nx /\ nx \in Nat /\ Len(text) \in Nat /\ nx <= Len(text) + 1
  BY <1>2, StackFacts
<1>4. Depth(p[m - 1]) \in Int
  <2>1. p[m - 1] \in 0..Len(text)
    BY <1>3
  <2>2. QED
    BY <2>1, DepthGoesOn
<1>5. /\ \A k \in 1..m : Depth(p[k]) = Depth(p[k - 1]) + AsBit(s[k] = "(")
      /\ \A k \in 0..m : \A l \in p[k]..(nx - 1) : Depth(l) >= Depth(p[k])
      /\ Depth(nx - 1) = Depth(p[m])
  BY Zenon DEF Nesting
<1>6. AsBit(s[m] = "(") = 0
  BY DEF AsBit
<1>7. Depth(p[m]) = Depth(p[m - 1])
  <2>1. Depth(p[m]) = Depth(p[m - 1]) + AsBit(s[m] = "(")
    BY <1>2, <1>5, Zenon
  <2>2. QED
    BY <1>4, <1>6, <2>1
<1> HIDE DEF f
<1>8. Nesting(p, nx, f)
  BY <1>1, <1>2, <1>5, <1>7, Zenon DEF Nesting
<1>9. QED
  BY <1>7, <1>8, Zenon DEF f

LEMMA PopParenthesis ==
  ASSUME IsText, NEW p, NEW c, NEW nx, NEW s, Stack(p, c, nx, s), Nesting(p, nx, s), s # <<>>,
         s[Len(s)] = "(", nx <= Len(text), text[nx] = ")"
  PROVE  Stack(p, c, nx + 1, Front(s)) /\ Nesting(p, nx + 1, Front(s))
<1> DEFINE m == Len(s)
           f == Front(s)
<1>1. m \in Nat \ {0} /\ Len(f) = m - 1 /\ \A k \in 1..(m - 1) : f[k] = s[k]
  BY StackFacts, Popped
<1>2. m \in 1..m /\ m - 1 \in 0..m /\ (\A k \in 0..(m - 1) : k \in 0..m) /\ (\A k \in 1..(m - 1) : k \in 1..m)
  BY <1>1
<1>3. p[m - 1] \in Nat /\ p[m - 1] < nx /\ nx \in Nat \ {0} /\ Len(text) \in Nat /\ nx <= Len(text) + 1
      /\ \A k \in 0..m : p[k] \in Nat /\ p[k] < nx
  BY <1>2, StackFacts
<1>4. Stack(p, c, nx + 1, f)
  BY PopStack, StackAdvances
<1>5. /\ \A k \in 1..m : Depth(p[k]) = Depth(p[k - 1]) + AsBit(s[k] = "(")
      /\ \A k \in 0..m : \A l \in p[k]..(nx - 1) : Depth(l) >= Depth(p[k])
      /\ Depth(nx - 1) = Depth(p[m])
  BY Zenon DEF Nesting
<1>6. AsBit(s[m] = "(") = 1 /\ AsBit(text[nx] = "(") = 0 /\ AsBit(text[nx] = ")") = 1
  <2>1. "(" # ")"
    OBVIOUS
  <2>2. QED
    BY <2>1 DEF AsBit
<1>7. Depth(p[m - 1]) \in Int
  <2>1. p[m - 1] \in 0..Len(text)
    BY <1>3
  <2>2. QED
    BY <2>1, DepthGoesOn
<1>8. Depth(nx) = Depth(p[m - 1])
  <2>1. Depth(p[m]) = Depth(p[m - 1]) + 1
    BY <1>2, <1>5, <1>6, Zenon
  <2>2. Depth(nx) = Depth(nx - 1) + 0 - 1
    <3>1. nx \in 1..Len(text)
      BY <1>3
    <3>2. QED
      BY <1>6, <3>1, DepthGoesOn
  <2>3. QED
    BY <1>5, <1>7, <2>1, <2>2
<1> HIDE DEF f, m
<1>9. ASSUME NEW k \in 0..(m - 1), NEW l \in p[k]..nx PROVE Depth(l) >= Depth(p[k])
  <2>1. p[k] \in Nat /\ p[k] < nx
    BY <1>2, <1>3
  <2>2. CASE l = nx
    <3>1. k \in 0..m /\ p[m - 1] \in p[k]..(nx - 1)
      <4>1. k = m - 1 \/ (k < m - 1 /\ k \in 0..m)
        BY <1>1
      <4>2. p[k] <= p[m - 1]
        <5>1. CASE k = m - 1
          BY <1>3, <5>1
        <5>2. CASE k < m - 1 /\ k \in 0..m
          <6>1. p[k] < p[m - 1]
            BY <1>2, <5>2, Zenon DEF Stack, InOrder, m
          <6>2. QED
            BY <1>3, <2>1, <6>1
        <5>3. QED
          BY <4>1, <5>1, <5>2
      <4>3. QED
        BY <1>2, <1>3, <2>1, <4>2
    <3>2. Depth(p[m - 1]) >= Depth(p[k])
      BY <1>5, <3>1, Zenon
    <3>3. QED
      BY <1>8, <2>2, <3>2
  <2>3. CASE l # nx
    <3>1. l \in p[k]..(nx - 1) /\ k \in 0..m
      BY <1>2, <1>3, <2>1, <2>3
    <3>2. QED
      BY <1>5, <3>1, Zenon
  <2>4. QED
    BY <2>2, <2>3
<1>10. (nx + 1) - 1 = nx
  BY <1>3
<1>11. Nesting(p, nx + 1, f)
  BY <1>1, <1>2, <1>5, <1>8, <1>9, <1>10, Zenon DEF Nesting
<1>12. QED
  BY <1>4, <1>11, Zenon DEF f

LEMMA ParenthesisIsClosed ==
  ASSUME IsText, WellFormed, NEW p, NEW c, NEW V, NEW nx, NEW o, NEW s, Reading(p, c, V, nx, o, s),
         nx <= Len(text), text[nx] = ")", s # <<>>, s[Len(s)] = "("
  PROVE  EndsOperand(nx) /\ Reading(p, c, V, nx + 1, o, Front(s))
<1> DEFINE m == Len(s)
           f == Front(s)
           q == p[m - 1]
<1>0. /\ Len(text) \in Nat /\ nx \in Nat \ {0} /\ m \in Nat /\ c[m] \in Nat /\ p[m] \in Nat
      /\ Stack(p, c, nx, s) /\ Nesting(p, nx, s) /\ s \in Seq(StackOps) /\ o \in Seq(V)
  BY ReadingFacts, Zenon
<1>1. m \in Nat \ {0} /\ Len(f) = m - 1 /\ \A k \in 1..(m - 1) : f[k] = s[k]
  BY <1>0, Popped
<1>2. /\ nx \in 1..Len(text) /\ (nx + 1) - 1 = nx /\ m \in 1..m /\ m \in 0..m /\ m - 1 \in 0..m
      /\ nx >= 1
  BY <1>0, <1>1
<1>3. EndsOperand(nx - 1) /\ EndsOperand(nx)
  <2>1. ~EndsOperand(nx - 1) => text[nx] # ")"
    BY <1>2, OperandStarts
  <2>2. EndsOperand(nx)
    BY <1>2 DEF EndsOperand
  <2>3. QED
    BY <2>1, <2>2
<1>4. Len(o) = c[m] + 1 /\ Operand(p[m], nx, o[Len(o)], TopOf(s))
  <2>1. EndsOperand(nx - 1) => Len(o) = c[m] + 1 /\ Operand(p[m], nx, o[Len(o)], TopOf(s))
    BY ReadingFacts
  <2>2. QED
    BY <1>3, <2>1, Zenon
<1>5. Stack(p, c, nx + 1, f) /\ Nesting(p, nx + 1, f)
  BY <1>0, PopParenthesis
<1> HIDE DEF f
<1>6. text[p[m]] = "(" /\ p[m] = q + 1
  <2>1. Item(p, c, o, s, m)
    <3>1. Items(p, c, o, s, m)
      BY ReadingFacts, Zenon
    <3>2. QED
      BY <1>2, <3>1, Zenon DEF Items
  <2>2. "(" \notin {"u-", "u~"} /\ "(" \notin DOMAIN PREC
    BY Kinds
  <2>3. QED
    BY <2>1, <2>2, Zenon DEF Item
<1>7. q \in Nat /\ ~EndsOperand(q) /\ c[m - 1] \in Nat /\ q < nx
  BY <1>0, <1>2, StackFacts
<1>8. c[m] = c[m - 1]
  <2>1. c[m] = c[m - 1] + OpBit(s[m])
    BY <1>0, <1>2, Zenon DEF Stack, Counts
  <2>2. OpBit(s[m]) = 0
    <3>1. "(" \notin DOMAIN PREC
      BY Kinds
    <3>2. QED
      BY <3>1 DEF OpBit, AsBit
  <2>3. QED
    BY <1>7, <2>1, <2>2
<1>9. \A l \in (q + 1)..(nx - 1) : Depth(l) >= Depth(q + 1)
  BY <1>0, <1>2, <1>6, Zenon DEF Nesting
<1>10. p[m] + 1 < nx /\ o[Len(o)] = Number(Mean(p[m], nx))
  BY <1>4, Zenon DEF Operand
<1>11. Mean(q, nx + 1) = Mean(q + 1, nx) /\ Between(q, nx + 1) = {}
  <2>1. q + 2 < nx
    BY <1>6, <1>7, <1>10
  <2>2. text[q + 1] = "(" /\ q \in 0..Len(text)
    BY <1>0, <1>6, <1>7
  <2>3. QED
    BY <1>2, <1>7, <1>9, <2>1, <2>2, InParentheses
<1>12. Operand(q, nx + 1, o[Len(o)], TopOf(f))
  <2>1. q + 1 < nx + 1
    BY <1>0, <1>7
  <2>2. QED
    BY <1>6, <1>10, <1>11, <2>1, Zenon DEF Operand
<1>13. Items(p, c, o, f, m - 1)
  <2>1. Share(p, c, o, s, p, c, o, f, m - 1)
    BY <1>1, Zenon DEF Share
  <2>2. Items(p, c, o, s, m)
    BY ReadingFacts, Zenon
  <2>3. QED
    BY <1>0, <1>2, <2>1, <2>2, ItemsStay, Zenon
<1>14. Reading(p, c, V, nx + 1, o, f)
  <2>1. EndsOperand((nx + 1) - 1)
    BY <1>2, <1>3
  <2>2. Len(o) = c[Len(f)] + 1
    BY <1>1, <1>4, <1>8, Zenon
  <2>3. Items(p, c, o, f, Len(f)) /\ Operand(p[Len(f)], nx + 1, o[Len(o)], TopOf(f))
    BY <1>1, <1>12, <1>13, Zenon
  <2>4. QED
    BY <1>0, <1>5, <2>1, <2>2, <2>3, Zenon DEF Reading
<1>15. QED
  BY <1>3, <1>14, Zenon DEF f

(* The top operator has taken its values.                                  *)
LEMMA OperatorIsApplied ==
  ASSUME IsText, NEW p, NEW c, NEW V, NEW nx, NEW o, NEW s, Reading(p, c, V, nx, o, s),
         EndsOperand(nx - 1), s # <<>>, s[Len(s)] # "(",
         NEW W, NEW o1 \in Seq(W), Len(o1) = c[Len(s) - 1] + 1,
         \A v \in 1..c[Len(s) - 1] : o1[v] = o[v],
         Operand(p[Len(s) - 1], nx, o1[Len(o1)], TopOf(Front(s)))
  PROVE  Reading(p, c, W, nx, o1, Front(s))
<1> DEFINE m == Len(s)
           f == Front(s)
<1>0. Stack(p, c, nx, s) /\ Nesting(p, nx, s) /\ s \in Seq(StackOps)
  BY ReadingFacts, Zenon
<1>1. m \in Nat \ {0} /\ Len(f) = m - 1 /\ \A k \in 1..(m - 1) : f[k] = s[k]
  BY <1>0, Popped
<1>2. m - 1 \in 0..m
  BY <1>1
<1>3. Stack(p, c, nx, f) /\ Nesting(p, nx, f)
  BY <1>0, PopStack, PopNesting
<1>4. Items(p, c, o1, f, m - 1)
  <2>1. Share(p, c, o, s, p, c, o1, f, m - 1)
    BY <1>1, Zenon DEF Share
  <2>2. Items(p, c, o, s, m)
    BY ReadingFacts, Zenon
  <2>3. QED
    BY <1>0, <1>2, <2>1, <2>2, ItemsStay, Zenon
<1> HIDE DEF f
<1>5. Operand(p[Len(f)], nx, o1[Len(o1)], TopOf(f)) /\ Len(o1) = c[Len(f)] + 1
  BY <1>1, Zenon DEF f
<1>6. Items(p, c, o1, f, Len(f))
  BY <1>1, <1>4, Zenon
<1>7. QED
  BY <1>3, <1>5, <1>6, Zenon DEF Reading, f

(* The facts of a top operator that is no parenthesis.                     *)
LEMMA TopFacts ==
  ASSUME IsText, NEW p, NEW c, NEW V, NEW nx, NEW o, NEW s, Reading(p, c, V, nx, o, s),
         EndsOperand(nx - 1), s # <<>>
  PROVE  /\ Len(s) \in Nat \ {0} /\ TopOf(s) = s[Len(s)] /\ s[Len(s)] \in StackOps
         /\ Item(p, c, o, s, Len(s))
         /\ Len(o) = c[Len(s)] + 1 /\ Operand(p[Len(s)], nx, o[Len(o)], s[Len(s)])
         /\ p[Len(s) - 1] \in Nat /\ ~EndsOperand(p[Len(s) - 1]) /\ p[Len(s) - 1] <= Len(text)
         /\ c[Len(s) - 1] \in Nat /\ c[Len(s)] = c[Len(s) - 1] + OpBit(s[Len(s)])
         /\ p[Len(s)] \in Nat /\ p[Len(s)] < nx
         /\ nx \in 1..(Len(text) + 1) /\ Len(text) \in Nat /\ o \in Seq(V)
         /\ \A l \in p[Len(s)]..(nx - 1) : Depth(l) >= Depth(p[Len(s)])
<1> DEFINE m == Len(s)
<1>0. /\ Stack(p, c, nx, s) /\ Nesting(p, nx, s) /\ s \in Seq(StackOps) /\ o \in Seq(V)
      /\ Len(text) \in Nat /\ nx \in Nat \ {0} /\ nx <= Len(text) + 1 /\ p[m] \in Nat /\ p[m] < nx
  BY ReadingFacts, Zenon
<1>1. m \in Nat \ {0} /\ s[m] \in StackOps
  BY <1>0, Popped
<1>2. TopOf(s) = s[m]
  BY Zenon DEF TopOf
<1>3. EndsOperand(nx - 1) => Len(o) = c[m] + 1 /\ Operand(p[m], nx, o[Len(o)], TopOf(s))
  BY ReadingFacts
<1>4. Len(o) = c[m] + 1 /\ Operand(p[m], nx, o[Len(o)], s[m])
  BY <1>2, <1>3
<1>5. m \in 1..m /\ m \in 0..m /\ m - 1 \in 0..m /\ nx \in 1..(Len(text) + 1)
  BY <1>0, <1>1
<1>6. Item(p, c, o, s, m)
  <2>1. Items(p, c, o, s, m)
    BY ReadingFacts, Zenon
  <2>2. QED
    BY <1>5, <2>1, Zenon DEF Items
<1>7. p[m - 1] \in Nat /\ ~EndsOperand(p[m - 1]) /\ c[m - 1] \in Nat /\ p[m - 1] < nx
  BY <1>0, <1>5, StackFacts
<1>8. p[m - 1] <= Len(text)
  BY <1>0, <1>7
<1>9. c[m] = c[m - 1] + OpBit(s[m])
  BY <1>0, <1>5, Zenon DEF Stack, Counts
<1>10. \A l \in p[m]..(nx - 1) : Depth(l) >= Depth(p[m])
  BY <1>0, <1>5, Zenon DEF Nesting
<1>11. QED
  BY <1>0, <1>1, <1>2, <1>4, <1>5, <1>6, <1>7, <1>8, <1>9, <1>10, Zenon

LEMMA SignIsApplied ==
  ASSUME IsText, WellFormed, SignsLast,
         NEW p, NEW c, NEW V, NEW nx, NEW o, NEW s, Reading(p, c, V, nx, o, s),
         EndsOperand(nx - 1), s # <<>>, s[Len(s)] \in {"u-", "u~"}
  PROVE  /\ Operand(p[Len(s) - 1], nx,
                    Number(IF s[Len(s)] = "u-" THEN -Mean(p[Len(s)], nx) ELSE -1 - Mean(p[Len(s)], nx)),
                    TopOf(Front(s)))
         /\ Len(o) = c[Len(s) - 1] + 1 /\ o[Len(o)] = Number(Mean(p[Len(s)], nx))
<1> DEFINE m == Len(s)
           t == s[m]
           q == p[m - 1]
           v == Number(IF t = "u-" THEN -Mean(p[m], nx) ELSE -1 - Mean(p[m], nx))
<1>1. /\ Item(p, c, o, s, m) /\ Len(o) = c[m] + 1 /\ Operand(p[m], nx, o[Len(o)], t)
      /\ q \in Nat /\ ~EndsOperand(q) /\ q <= Len(text) /\ c[m - 1] \in Nat /\ c[m] = c[m - 1] + OpBit(t)
      /\ nx \in 1..(Len(text) + 1) /\ Len(text) \in Nat
      /\ \A l \in p[m]..(nx - 1) : Depth(l) >= Depth(p[m])
  BY TopFacts
<1>2. t \in {"u-", "u~"} /\ t # "(" /\ t \notin DOMAIN PREC
  BY Kinds
<1>3. t = SignOp(text[p[m]]) /\ IsSign(p[m]) /\ p[m] = q + 1
  BY <1>1, <1>2, Zenon DEF Item
<1>4. OpBit(t) = 0
  BY <1>2 DEF OpBit, AsBit
<1>5. p[m] + 1 < nx /\ o[Len(o)] = Number(Mean(p[m], nx))
  BY <1>1, Zenon DEF Operand
<1>6. q + 2 < nx /\ q \in 0..Len(text) /\ q + 1 < nx
  BY <1>1, <1>3, <1>5
<1>7. IsSign(q + 1) /\ \A l \in (q + 1)..(nx - 1) : Depth(l) >= Depth(q + 1)
  BY <1>1, <1>3, Zenon
<1> HIDE DEF q, m
<1>8. /\ Mean(q, nx) = IF text[q + 1] = "-" THEN -Mean(q + 1, nx) ELSE -1 - Mean(q + 1, nx)
      /\ Between(q, nx) = {}
  BY <1>1, <1>6, <1>7, AfterASign
<1>9. (t = "u-") <=> (text[q + 1] = "-")
  <2>1. "u-" # "u~"
    OBVIOUS
  <2>2. QED
    BY <1>3, <2>1, Zenon DEF SignOp
<1>10. v = Number(Mean(q, nx))
  BY <1>3, <1>8, <1>9, Zenon
<1>11. Operand(q, nx, v, TopOf(Front(s)))
  <2> HIDE DEF v
  <2>1. QED
    BY <1>6, <1>8, <1>10, Zenon DEF Operand
<1>12. c[m] = c[m - 1]
  BY <1>1, <1>4
<1>13. QED
  BY <1>1, <1>5, <1>11, <1>12, Zenon DEF m, q

LEMMA BinaryIsApplied ==
  ASSUME IsText, WellFormed,
         NEW p, NEW c, NEW V, NEW nx, NEW o, NEW s, Reading(p, c, V, nx, o, s),
         EndsOperand(nx - 1), s # <<>>, s[Len(s)] \in DOMAIN PREC,
         nx <= Len(text) /\ IsBinary(nx) => PREC[s[Len(s)]] >= PREC[text[nx]]
  PROVE  /\ Operand(p[Len(s) - 1], nx,
                    Number(Compute(s[Len(s)], Mean(p[Len(s) - 1], p[Len(s)]), Mean(p[Len(s)], nx))),
                    TopOf(Front(s)))
         /\ Len(o) = c[Len(s)] + 1 /\ c[Len(s)] = c[Len(s) - 1] + 1
         /\ o[Len(o)] = Number(Mean(p[Len(s)], nx))
         /\ o[c[Len(s)]] = Number(Mean(p[Len(s) - 1], p[Len(s)]))
<1> DEFINE m == Len(s)
           t == s[m]
           q == p[m - 1]
           y == p[m]
           f == Front(s)
<1>1. /\ Item(p, c, o, s, m) /\ Len(o) = c[m] + 1 /\ Operand(y, nx, o[Len(o)], t)
      /\ q \in Nat /\ ~EndsOperand(q) /\ q <= Len(text) /\ c[m - 1] \in Nat /\ c[m] = c[m - 1] + OpBit(t)
      /\ nx \in 1..(Len(text) + 1) /\ Len(text) \in Nat /\ y \in Nat /\ y < nx
      /\ m \in Nat \ {0}
  BY TopFacts
<1>2. t \notin {"u-", "u~"} /\ t # "("
  BY Kinds
<1>3. /\ t = text[y] /\ IsBinary(y) /\ q + 1 < y /\ o[c[m]] = Number(Mean(q, y))
      /\ \A l \in Between(q, y) : PREC[text[l]] >= PREC[t]
      /\ m > 1 /\ s[m - 1] \in DOMAIN PREC => PREC[s[m - 1]] < PREC[t]
  BY <1>1, <1>2, Zenon DEF Item
<1>4. OpBit(t) = 1
  BY DEF OpBit, AsBit
<1>5. /\ y + 1 < nx /\ o[Len(o)] = Number(Mean(y, nx))
      /\ \A l \in Between(y, nx) : /\ PREC[text[l]] > PREC[t]
                                   /\ nx <= Len(text) /\ IsBinary(nx) => PREC[text[l]] >= PREC[text[nx]]
  BY <1>1, Zenon DEF Operand
<1>6. Depth(y) = Depth(q)
  <2>1. Stack(p, c, nx, s) /\ Nesting(p, nx, s)
    BY ReadingFacts, Zenon
  <2>2. QED
    BY <1>2, <2>1, PopNesting
<1>7. q \in 0..Len(text) /\ y \in 1..Len(text) /\ q + 1 < nx
  BY <1>1, <1>3, <1>5
<1>8. t \in DOMAIN PREC /\ PREC[t] \in Nat
  BY Levels
<1>9. m > 1 => TopOf(f) = s[m - 1]
  <2>1. s \in Seq(StackOps)
    BY ReadingFacts, Zenon
  <2>2. ASSUME m > 1 PROVE TopOf(f) = s[m - 1]
    <3>1. Len(f) = m - 1 /\ \A k \in 1..(m - 1) : f[k] = s[k]
      BY <2>1, Popped
    <3>2. m - 1 \in 1..(m - 1) /\ m - 1 # 0
      BY <1>1, <2>2
    <3>3. f # <<>>
      BY <3>1, <3>2
    <3> HIDE DEF f
    <3>4. QED
      BY <3>1, <3>2, <3>3, Zenon DEF TopOf
  <2>3. QED
    BY <2>2, Zenon
<1>10. m = 1 => TopOf(f) = "none"
  <2>1. s \in Seq(StackOps)
    BY ReadingFacts, Zenon
  <2>2. m = 1 => Len(f) = 0 /\ f \in Seq(StackOps)
    BY <2>1, Popped
  <2>3. m = 1 => f = <<>>
    <3> HIDE DEF f, m
    <3>1. QED
      BY <2>2
  <2>4. QED
    BY <2>3, Zenon DEF TopOf
<1> HIDE DEF q, y, f, m, t
<1>11. /\ Mean(q, nx) = Compute(text[y], Mean(q, y), Mean(y, nx))
       /\ Between(q, nx) = Between(q, y) \cup {y} \cup Between(y, nx)
  BY <1>1, <1>3, <1>5, <1>6, <1>7, LastOfTwo, TwoOperands
<1>12. ASSUME NEW l \in Between(q, nx)
       PROVE  /\ TopOf(f) \in DOMAIN PREC => PREC[text[l]] > PREC[TopOf(f)]
              /\ nx <= Len(text) /\ IsBinary(nx) => PREC[text[l]] >= PREC[text[nx]]
  <2>1. PREC[text[l]] >= PREC[t] /\ PREC[text[l]] \in Nat
    <3>1. text[l] \in DOMAIN PREC
      BY DEF Between, IsBinary
    <3>2. PREC[text[l]] \in Nat
      BY <3>1, Levels, Zenon
    <3>3. CASE l \in Between(q, y)
      BY <1>3, <3>2, <3>3
    <3>4. CASE l = y
      <4>1. PREC[text[l]] = PREC[t]
        BY <1>3, <3>4, Zenon
      <4>2. QED
        BY <1>8, <4>1
    <3>5. CASE l \in Between(y, nx)
      <4>1. PREC[text[l]] > PREC[t]
        BY <1>5, <3>5, Zenon
      <4>2. QED
        BY <1>8, <3>2, <4>1
    <3>6. QED
      BY <1>11, <3>3, <3>4, <3>5
  <2>2. ASSUME TopOf(f) \in DOMAIN PREC PROVE PREC[text[l]] > PREC[TopOf(f)]
    <3>1. m > 1
      BY <1>1, <1>10, <2>2, Kinds
    <3>2. PREC[TopOf(f)] < PREC[t]
      BY <1>3, <1>9, <2>2, <3>1, Zenon
    <3>3. PREC[TopOf(f)] \in Nat
      BY <2>2, Levels, Zenon
    <3>4. QED
      BY <1>8, <2>1, <3>2, <3>3
  <2>3. ASSUME nx <= Len(text), IsBinary(nx) PROVE PREC[text[l]] >= PREC[text[nx]]
    <3>1. PREC[t] >= PREC[text[nx]]
      BY <2>3 DEF t, m
    <3>2. PREC[text[nx]] \in Nat
      BY <2>3, Levels, Zenon DEF IsBinary
    <3>3. QED
      BY <1>8, <2>1, <3>1, <3>2
  <2>4. QED
    BY <2>2, <2>3, Zenon
<1>13. Operand(q, nx, Number(Compute(t, Mean(q, y), Mean(y, nx))), TopOf(f))
  BY <1>3, <1>7, <1>11, <1>12, Zenon DEF Operand
<1>14. QED
  BY <1>1, <1>3, <1>4, <1>5, <1>13, Zenon DEF q, y, f, m, t

----------------------------------------------------------------------------
(***************************************************************************)
(* What the actions make of it.                                            *)
(***************************************************************************)
LEMMA ReadingIsRigid ==
  ASSUME IsText, text' = text
  PROVE  \A p, c, V, nx, o, s : Reading(p, c, V, nx, o, s)' = Reading(p, c, V, nx, o, s)
<1>1. /\ \A i : Depth(i)' = Depth(i) /\ EndsOperand(i)' = EndsOperand(i)
                /\ IsBinary(i)' = IsBinary(i) /\ IsSign(i)' = IsSign(i)
  BY GrammarIsRigid
<1>2. \A q, x : Mean(q, x)' = Mean(q, x)
  BY SpanValueIsRigid DEF Mean
<1>3. \A q, x : Between(q, x)' = Between(q, x)
  BY <1>1 DEF Between
<1>4. \A p, c, nx, s : Stack(p, c, nx, s)' = Stack(p, c, nx, s)
  <2>1. \A p, nx, s : Places(p, nx, s)' = Places(p, nx, s)
    BY <1>1 DEF Places
  <2>2. \A p, c, nx, s : StackTypes(p, c, nx, s)' = StackTypes(p, c, nx, s)
    BY DEF StackTypes
  <2>3. QED
    BY <2>1, <2>2 DEF Stack
<1>5. \A p, nx, s : Nesting(p, nx, s)' = Nesting(p, nx, s)
  BY <1>1 DEF Nesting
<1>6. \A p, c, o, s, k : Item(p, c, o, s, k)' = Item(p, c, o, s, k)
  BY <1>1, <1>2, <1>3 DEF Item
<1>7. \A q, nx, v, t : Operand(q, nx, v, t)' = Operand(q, nx, v, t)
  BY <1>1, <1>2, <1>3 DEF Operand
<1>8. QED
  BY <1>1, <1>4, <1>5, <1>6, <1>7 DEF Reading, Items

(* evalExpr expects what the grammar does, and the stacks are as above.    *)
ReadsOn ==
  /\ expectVal = ~EndsOperand(next - 1)
  /\ \E p, c, V : Reading(p, c, V, next, out, ops)

Understood ==
  WellFormed /\ SignsLast => IF verdict = "reading" THEN ReadsOn ELSE HasItsMeaning

LEMMA ReadsOnKept ==
  ASSUME IsText, text' = text, WellFormed, SignsLast,
         (expectVal' = TRUE) <=> ~EndsOperand(next' - 1), expectVal' \in BOOLEAN,
         \E p, c, V : Reading(p, c, V, next', out', ops')
  PROVE  ReadsOn'
<1>1. PICK p, c, V : Reading(p, c, V, next', out', ops')
  OBVIOUS
<1>2. \A nx, o, s : Reading(p, c, V, nx, o, s)' = Reading(p, c, V, nx, o, s)
  BY ReadingIsRigid
<1>3. \A i : EndsOperand(i)' = EndsOperand(i)
  BY GrammarIsRigid
<1>4. (expectVal = ~EndsOperand(next - 1))'
  BY <1>3
<1>5. Reading(p, c, V, next, out, ops)'
  BY <1>1, <1>2
<1>6. QED
  BY <1>4, <1>5 DEF ReadsOn

LEMMA Trimmed ==
  ASSUME NEW V, NEW s \in Seq(V), NEW n \in 0..Len(s), NEW x, NEW t, t = Append(SubSeq(s, 1, n), x)
  PROVE  /\ t \in Seq(V \cup {x}) /\ Len(t) = n + 1 /\ t[Len(t)] = x
         /\ \A k \in 1..n : t[k] = s[k]
<1> DEFINE u == SubSeq(s, 1, n)
<1>1. n \in Nat /\ 1 \in Int
  <2>1. Len(s) \in Nat
    OBVIOUS
  <2>2. QED
    BY <2>1
<1>2. \A k \in 1..n : s[k] \in V
  OBVIOUS
<1>3. /\ u \in Seq(V) /\ Len(u) = IF 1 <= n THEN n - 1 + 1 ELSE 0
      /\ \A k \in 1..(n - 1 + 1) : u[k] = s[1 + k - 1]
  BY <1>1, <1>2, SubSeqProperties
<1>4. n - 1 + 1 = n /\ (~(1 <= n) => n = 0) /\ \A k \in 1..n : 1 + k - 1 = k
  BY <1>1
<1>5. u \in Seq(V) /\ Len(u) = n /\ \A k \in 1..n : u[k] = s[k]
  BY <1>3, <1>4
<1> HIDE DEF u
<1>6. /\ Append(u, x) \in Seq(V \cup {x}) /\ Len(Append(u, x)) = n + 1 /\ Append(u, x)[n + 1] = x
      /\ \A k \in 1..n : Append(u, x)[k] = u[k]
  BY <1>5, Pushed
<1>7. t = Append(u, x)
  BY DEF u
<1>8. QED
  BY <1>5, <1>6, <1>7, Zenon

LEMMA OneFieldChanges ==
  ASSUME NEW x, NEW y, NEW b
  PROVE  [[n |-> x, nan |-> b] EXCEPT !.n = y] = [n |-> y, nan |-> b]
OBVIOUS

LEMMA Negated ==
  ASSUME NEW x
  PROVE  [Number(x) EXCEPT !.n = -@] = Number(-x) /\ Number(x).n = x
<1>1. Number(x).n = x
  BY DEF Number
<1>2. \A y : [Number(x) EXCEPT !.n = y] = Number(y)
  BY OneFieldChanges, Zenon DEF Number
<1>3. QED
  BY <1>1, <1>2, Zenon

LEMMA TopOpIs ==
  ASSUME ops \in Seq(StackOps)
  PROVE  /\ TopOp = TopOf(ops)
         /\ TopOp = "none" <=> ops = <<>>
         /\ ops # <<>> => TopOp = ops[Len(ops)] /\ ops[Len(ops)] \in StackOps
<1>1. CASE ops = <<>>
  BY <1>1 DEF TopOp, TopOf
<1>2. CASE ops # <<>>
  <2>1. Last(ops) = ops[Len(ops)] /\ ops[Len(ops)] \in StackOps
    BY <1>2, Popped
  <2>2. "none" \notin StackOps
    BY Kinds DEF StackOps
  <2>3. QED
    BY <1>2, <2>1, <2>2 DEF TopOp, TopOf
<1>3. QED
  BY <1>1, <1>2

LEMMA ApplyKeeps ==
  ASSUME IsText, WellFormed, SignsLast, ReadsOn, EndsOperand(next - 1), Apply, expectVal \in BOOLEAN,
         TopOp # "none", TopOp # "(",
         next <= Len(text) /\ IsBinary(next) /\ TopOp \in DOMAIN PREC => PREC[TopOp] >= PREC[text[next]]
  PROVE  ReadsOn'
<1>1. PICK p, c, V : Reading(p, c, V, next, out, ops)
  BY DEF ReadsOn
<1> DEFINE m == Len(ops)
           t == ops[m]
<1>2. ops \in Seq(StackOps) /\ out \in Seq(V)
  BY <1>1, ReadingFacts, Zenon
<1>3. ops # <<>> /\ TopOp = t /\ t \in StackOps
  BY <1>2, TopOpIs
<1>4. m \in Nat \ {0} /\ c[m - 1] \in Nat
  BY <1>1, <1>3, TopFacts
<1>5. /\ ops' = Front(ops) /\ text' = text /\ next' = next /\ expectVal' = expectVal
  BY DEF Apply
<1>6. \E W : Reading(p, c, W, next, out', Front(ops))
  <2>1. CASE t \in {"u-", "u~"}
    <3> DEFINE old == Mean(p[m], next)
               v == Number(IF t = "u-" THEN -old ELSE -1 - old)
    <3>1. /\ Operand(p[m - 1], next, v, TopOf(Front(ops)))
          /\ Len(out) = c[m - 1] + 1 /\ out[Len(out)] = Number(old)
      BY <1>1, <1>3, <2>1, SignIsApplied
    <3> HIDE DEF old
    <3>2. Len(out) >= 1 /\ Len(out) + 1 - 1 = Len(out) /\ Len(out) - 1 = c[m - 1] /\ c[m - 1] \in 0..Len(out)
      BY <1>4, <3>1
    <3>3. Pop(1) = Number(old)
      BY <3>1, <3>2, Zenon DEF Pop
    <3>4. out' = Append(SubSeq(out, 1, c[m - 1]), v)
      <4>1. CASE t = "u-"
        <5>1. out' = Append(Rest(1), [Pop(1) EXCEPT !.n = -@])
          BY <1>3, <4>1 DEF Apply
        <5>2. [Pop(1) EXCEPT !.n = -@] = v
          <6>1. v = Number(-old)
            BY <4>1, Zenon
          <6>2. QED
            BY <3>3, <6>1, Negated
        <5>3. QED
          BY <3>2, <5>1, <5>2, Zenon DEF Rest
      <4>2. CASE t = "u~"
        <5>1. out' = Append(Rest(1), Number(-1 - Pop(1).n))
          BY <1>3, <4>2 DEF Apply
        <5>2. Number(-1 - Pop(1).n) = v
          <6>1. v = Number(-1 - old)
            <7>1. t # "u-"
              BY <4>2
            <7>2. QED
              BY <7>1, Zenon
          <6>2. Pop(1).n = old
            BY <3>3, Negated, Zenon
          <6>3. QED
            BY <6>1, <6>2, Zenon
        <5>3. QED
          BY <3>2, <5>1, <5>2, Zenon DEF Rest
      <4>3. QED
        BY <2>1, <4>1, <4>2
    <3> HIDE DEF v
    <3>5. /\ out' \in Seq(V \cup {v}) /\ Len(out') = c[m - 1] + 1 /\ out'[Len(out')] = v
          /\ \A k \in 1..c[m - 1] : out'[k] = out[k]
      BY <1>2, <3>2, <3>4, Trimmed
    <3>6. t # "("
      BY <2>1
    <3>7. QED
      BY <1>1, <1>3, <3>1, <3>5, <3>6, OperatorIsApplied
  <2>2. CASE t \in DOMAIN PREC
    <3> DEFINE a == Mean(p[m - 1], p[m])
               b == Mean(p[m], next)
               v == Number(Compute(t, a, b))
    <3>0. next <= Len(text) /\ IsBinary(next) => PREC[t] >= PREC[text[next]]
      BY <1>3, <2>2
    <3>1. /\ Operand(p[m - 1], next, v, TopOf(Front(ops)))
          /\ Len(out) = c[m] + 1 /\ c[m] = c[m - 1] + 1
          /\ out[Len(out)] = Number(b) /\ out[c[m]] = Number(a)
      BY <1>1, <1>3, <2>2, <3>0, BinaryIsApplied
    <3> HIDE DEF a, b
    <3>2. /\ Len(out) >= 1 /\ Len(out) >= 2 /\ Len(out) + 1 - 1 = Len(out) /\ Len(out) + 1 - 2 = c[m]
          /\ Len(out) - 2 = c[m - 1] /\ c[m - 1] \in 0..Len(out)
      BY <1>4, <3>1
    <3>3. Pop(1) = Number(b) /\ Pop(2) = Number(a)
      BY <3>1, <3>2, Zenon DEF Pop
    <3>4. out' = Append(SubSeq(out, 1, c[m - 1]), v)
      <4>1. TopOp # "u-" /\ TopOp # "u~"
        BY <1>3, <2>2, Kinds
      <4>2. Pop(1).n = b /\ Pop(2).n = a /\ ~Pop(1).nan /\ ~Pop(2).nan
        BY <3>3 DEF Number
      <4>3. out' = Append(Rest(2), Number(Compute(TopOp, Pop(2).n, Pop(1).n)))
        BY <4>1, <4>2 DEF Apply
      <4>4. QED
        BY <1>3, <3>2, <4>2, <4>3, Zenon DEF Rest
    <3> HIDE DEF v
    <3>5. /\ out' \in Seq(V \cup {v}) /\ Len(out') = c[m - 1] + 1 /\ out'[Len(out')] = v
          /\ \A k \in 1..c[m - 1] : out'[k] = out[k]
      BY <1>2, <3>2, <3>4, Trimmed
    <3>6. t # "("
      BY <2>2, Kinds
    <3>7. QED
      BY <1>1, <1>3, <3>1, <3>5, <3>6, OperatorIsApplied
  <2>3. QED
    BY <1>3, <2>1, <2>2 DEF StackOps
<1>7. \E q, d, W : Reading(q, d, W, next', out', ops')
  BY <1>5, <1>6, Zenon
<1>8. (expectVal' = TRUE) <=> ~EndsOperand(next' - 1)
  BY <1>5 DEF ReadsOn
<1>9. QED
  BY <1>5, <1>7, <1>8, ReadsOnKept

LEMMA ExpectsAndHas ==
  ASSUME IsText, WellFormed, ReadsOn, next <= Len(text), expectVal \in BOOLEAN
  PROVE  /\ next \in 1..Len(text) /\ (next + 1) - 1 = next
         /\ expectVal <=> ~EndsOperand(next - 1)
         /\ text[next] \in DOMAIN ValueOf \cup Signs \cup {"("} => expectVal \/ text[next] \in DOMAIN PREC
         /\ expectVal => text[next] \in DOMAIN ValueOf \cup Signs \cup {"("}
         /\ ~expectVal => text[next] \in DOMAIN PREC \cup {")"}
<1>1. PICK p, c, V : Reading(p, c, V, next, out, ops)
  BY DEF ReadsOn
<1>2. Len(text) \in Nat /\ next \in Nat \ {0}
  BY <1>1, ReadingFacts, Zenon
<1>3. next \in 1..Len(text) /\ (next + 1) - 1 = next
  BY <1>2
<1>4. expectVal <=> ~EndsOperand(next - 1)
  BY DEF ReadsOn
<1>5. /\ ~EndsOperand(next - 1) => text[next] \in DOMAIN ValueOf \cup Signs \cup {"("}
      /\ EndsOperand(next - 1) => text[next] \in DOMAIN PREC \cup {")"}
  BY <1>3, OperandStarts
<1>6. QED
  BY <1>3, <1>4, <1>5, Kinds

LEMMA TakeValueKeeps ==
  ASSUME IsText, WellFormed, SignsLast, ReadsOn, TakeValue, expectVal \in BOOLEAN
  PROVE  ReadsOn' /\ verdict' = verdict
<1>1. /\ next <= Len(text) /\ text[next] \in DOMAIN ValueOf
      /\ out' = Append(out, Number(ValueOf[text[next]])) /\ ops' = ops
      /\ next' = next + 1 /\ expectVal' = FALSE /\ text' = text /\ verdict' = verdict
  BY DEF TakeValue, AtToken, Tok, Reads
<1>2. PICK p, c, V : Reading(p, c, V, next, out, ops)
  BY DEF ReadsOn
<1>3. \E W : Reading(p, c, W, next', out', ops')
  BY <1>1, <1>2, ValueIsRead
<1>4. EndsOperand(next' - 1)
  <2>1. next \in 1..Len(text) /\ (next + 1) - 1 = next
    BY <1>1, ExpectsAndHas
  <2>2. EndsOperand(next)
    BY <1>1, <2>1 DEF EndsOperand
  <2>3. QED
    BY <1>1, <2>1, <2>2
<1>5. (expectVal' = TRUE) <=> ~EndsOperand(next' - 1)
  BY <1>1, <1>4
<1>6. ReadsOn'
  BY <1>1, <1>3, <1>5, ReadsOnKept
<1>7. QED
  BY <1>1, <1>6

LEMMA OpenKeeps ==
  ASSUME IsText, WellFormed, SignsLast, ReadsOn, Open, expectVal \in BOOLEAN
  PROVE  ReadsOn' /\ verdict' = verdict
<1>1. /\ next <= Len(text) /\ text[next] = "(" /\ out' = out /\ ops' = Append(ops, "(")
      /\ next' = next + 1 /\ expectVal' = TRUE /\ text' = text /\ verdict' = verdict
  BY DEF Open, AtToken, Tok, Reads
<1>2. PICK p, c, V : Reading(p, c, V, next, out, ops)
  BY DEF ReadsOn
<1>3. ~EndsOperand(next) /\ \E p1, c1 : Reading(p1, c1, V, next', out', ops')
  BY <1>1, <1>2, ParenthesisIsOpened
<1>4. (expectVal' = TRUE) <=> ~EndsOperand(next' - 1)
  <2>1. (next + 1) - 1 = next
    BY <1>1, ExpectsAndHas
  <2>2. QED
    BY <1>1, <1>3, <2>1
<1>5. ReadsOn'
  BY <1>1, <1>3, <1>4, ReadsOnKept
<1>6. QED
  BY <1>1, <1>5

LEMMA SignKeeps ==
  ASSUME IsText, WellFormed, SignsLast, ReadsOn, Sign, expectVal \in BOOLEAN
  PROVE  ReadsOn' /\ verdict' = verdict
<1>1. /\ next <= Len(text) /\ text[next] \in Signs /\ expectVal /\ out' = out
      /\ ops' = Append(ops, SignOp(text[next]))
      /\ next' = next + 1 /\ expectVal' = TRUE /\ text' = text /\ verdict' = verdict
  BY DEF Sign, AtToken, Tok, Reads, SignOp
<1>2. PICK p, c, V : Reading(p, c, V, next, out, ops)
  BY DEF ReadsOn
<1>3. ~EndsOperand(next - 1) /\ (next + 1) - 1 = next
  BY <1>1, ExpectsAndHas
<1>4. ~EndsOperand(next) /\ \E p1, c1 : Reading(p1, c1, V, next', out', ops')
  BY <1>1, <1>2, <1>3, SignIsPushed
<1>5. (expectVal' = TRUE) <=> ~EndsOperand(next' - 1)
  BY <1>1, <1>3, <1>4
<1>6. ReadsOn'
  BY <1>1, <1>4, <1>5, ReadsOnKept
<1>7. QED
  BY <1>1, <1>6

LEMMA CloseKeeps ==
  ASSUME IsText, WellFormed, SignsLast, ReadsOn, Close, expectVal \in BOOLEAN
  PROVE  ReadsOn' /\ verdict' = verdict
<1>1. next <= Len(text) /\ text[next] = ")"
  BY DEF Close, AtToken, Tok
<1>2. PICK p, c, V : Reading(p, c, V, next, out, ops)
  BY DEF ReadsOn
<1>3. /\ ops \in Seq(StackOps) /\ Len(text) \in Nat /\ next \in Nat \ {0} /\ p[0] = 0
      /\ Stack(p, c, next, ops) /\ Nesting(p, next, ops)
  BY <1>2, ReadingFacts, Zenon
<1>4. next \in 1..Len(text) /\ (next + 1) - 1 = next /\ EndsOperand(next - 1)
  <2>1. text[next] \notin DOMAIN ValueOf \cup Signs \cup {"("}
    BY <1>1, Kinds
  <2>2. QED
    BY <1>1, <2>1, ExpectsAndHas
<1>5. TopOp # "none"
  <2>1. SUFFICES ASSUME ops = <<>> PROVE FALSE
    BY <1>3, TopOpIs
  <2>2. Depth(next - 1) = Depth(p[0])
    <3>1. Depth(next - 1) = Depth(p[Len(ops)])
      BY <1>3, Zenon DEF Nesting
    <3>2. Len(ops) = 0
      BY <2>1
    <3>3. QED
      BY <3>1, <3>2
  <2>3. Depth(next - 1) = 0
    BY <1>3, <2>2, DepthGoesOn
  <2>4. Depth(next) = -1
    <3>1. Depth(next) = Depth(next - 1) + AsBit(text[next] = "(") - AsBit(text[next] = ")")
      BY <1>4, DepthGoesOn
    <3>2. AsBit(text[next] = "(") = 0 /\ AsBit(text[next] = ")") = 1
      BY <1>1 DEF AsBit
    <3>3. QED
      BY <2>3, <3>1, <3>2
  <2>5. Depth(next) >= 0
    <3>1. next \in DOMAIN text
      BY <1>4 DEF IsText
    <3>2. QED
      BY <3>1 DEF WellFormed, Balanced
  <2>6. QED
    BY <2>4, <2>5
<1>6. CASE TopOp = "("
  <2>1. ops # <<>> /\ ops[Len(ops)] = "("
    BY <1>3, <1>5, <1>6, TopOpIs
  <2>2. /\ ops' = Front(ops) /\ out' = out /\ next' = next + 1 /\ expectVal' = FALSE
        /\ text' = text /\ verdict' = verdict
    BY <1>5, <1>6 DEF Close, Reads
  <2>3. EndsOperand(next) /\ Reading(p, c, V, next + 1, out, Front(ops))
    BY <1>1, <1>2, <2>1, ParenthesisIsClosed
  <2>4. (expectVal' = TRUE) <=> ~EndsOperand(next' - 1)
    BY <1>4, <2>2, <2>3
  <2>5. \E q, d, W : Reading(q, d, W, next', out', ops')
    BY <2>2, <2>3, Zenon
  <2>6. ReadsOn'
    BY <2>2, <2>4, <2>5, ReadsOnKept
  <2>7. QED
    BY <2>2, <2>6
<1>7. CASE TopOp # "("
  <2>1. Apply
    BY <1>5, <1>7 DEF Close
  <2>2. ~IsBinary(next)
    BY <1>1, Kinds DEF IsBinary
  <2>3. ReadsOn'
    BY <1>4, <1>5, <1>7, <2>1, <2>2, ApplyKeeps
  <2>4. QED
    BY <2>1, <2>3 DEF Apply
<1>8. QED
  BY <1>6, <1>7

LEMMA BinaryKeeps ==
  ASSUME IsText, WellFormed, SignsLast, ReadsOn, Binary, expectVal \in BOOLEAN
  PROVE  ReadsOn' /\ verdict' = verdict
<1>1. next <= Len(text) /\ text[next] \in DOMAIN PREC /\ ~(expectVal /\ text[next] \in Signs)
  BY DEF Binary, AtToken, Tok
<1>2. PICK p, c, V : Reading(p, c, V, next, out, ops)
  BY DEF ReadsOn
<1>3. ops \in Seq(StackOps)
  BY <1>2, ReadingFacts, Zenon
<1>4. next \in 1..Len(text) /\ (next + 1) - 1 = next /\ EndsOperand(next - 1)
  <2>1. expectVal => text[next] \in DOMAIN ValueOf \cup Signs \cup {"("}
    BY <1>1, ExpectsAndHas
  <2>2. ~expectVal
    BY <1>1, <2>1, Kinds
  <2>3. QED
    BY <1>1, <2>2, ExpectsAndHas
<1>5. IsBinary(next)
  BY <1>1, <1>4 DEF IsBinary
<1>6. CASE Higher
  <2>1. Apply
    BY <1>6 DEF Binary
  <2>2. TopOp \in DOMAIN PREC /\ PREC[TopOp] >= PREC[text[next]]
    BY <1>6 DEF Higher, Tok
  <2>3. TopOp # "none" /\ TopOp # "("
    BY <2>2, Kinds
  <2>4. ReadsOn'
    BY <1>4, <2>1, <2>2, <2>3, ApplyKeeps
  <2>5. QED
    BY <2>1, <2>4 DEF Apply
<1>7. CASE ~Higher
  <2>1. /\ ops' = Append(ops, text[next]) /\ out' = out
        /\ next' = next + 1 /\ expectVal' = TRUE /\ text' = text /\ verdict' = verdict
    BY <1>7 DEF Binary, Reads, Tok
  <2>2. ~(TopOf(ops) \in DOMAIN PREC /\ PREC[TopOf(ops)] >= PREC[text[next]])
    <3>1. TopOp = TopOf(ops)
      BY <1>3, TopOpIs
    <3>2. QED
      BY <1>7, <3>1, Zenon DEF Higher, Tok
  <2>3. ~EndsOperand(next) /\ \E p1, c1 : Reading(p1, c1, V, next', out', ops')
    BY <1>1, <1>2, <1>5, <2>1, <2>2, BinaryIsPushed
  <2>4. (expectVal' = TRUE) <=> ~EndsOperand(next' - 1)
    BY <1>4, <2>1, <2>3
  <2>5. ReadsOn'
    BY <2>1, <2>3, <2>4, ReadsOnKept
  <2>6. QED
    BY <2>1, <2>5
<1>8. QED
  BY <1>6, <1>7

LEMMA NoValueIsWritten ==
  ASSUME IsText, WellFormed, ReadsOn, NoValue, expectVal \in BOOLEAN
  PROVE  FALSE
<1>1. next <= Len(text) /\ text[next] = "~" /\ ~expectVal
  BY DEF NoValue, AtToken, Tok
<1>2. text[next] \in DOMAIN PREC \cup {")"}
  BY <1>1, ExpectsAndHas
<1>3. QED
  BY <1>1, <1>2, Kinds

LEMMA FinishIsRight ==
  ASSUME IsText, WellFormed, SignsLast, ReadsOn, Finish, expectVal \in BOOLEAN
  PROVE  IF verdict' = "reading" THEN ReadsOn' ELSE HasItsMeaning'
<1>1. verdict = "reading" /\ next > Len(text) /\ text' = text
  BY DEF Finish, Reject, Apply
<1>2. PICK p, c, V : Reading(p, c, V, next, out, ops)
  BY DEF ReadsOn
<1>3. /\ ops \in Seq(StackOps) /\ Len(text) \in Nat /\ next \in Nat \ {0} /\ p[0] = 0 /\ next <= Len(text) + 1
      /\ Stack(p, c, next, ops) /\ Nesting(p, next, ops) /\ p \in [Nat -> Nat] /\ c[0] = 0
  BY <1>2, ReadingFacts, Zenon
<1>4. next = Len(text) + 1 /\ next - 1 = Len(text)
  <2>1. Len(text) \in Nat /\ next \in Nat /\ next <= Len(text) + 1 /\ next > Len(text)
    BY <1>1, <1>3
  <2>2. QED
    BY <2>1
<1>5. EndsOperand(next - 1) /\ Depth(next - 1) = 0 /\ Len(text) >= 1
  BY <1>4 DEF WellFormed, Balanced, EndsOperand
<1>6. text # <<>>
  BY <1>5
<1>7. TopOp # "("
  <2>1. SUFFICES ASSUME TopOp = "(" PROVE FALSE
    OBVIOUS
  <2>2. ops # <<>> /\ ops[Len(ops)] = "("
    BY <1>3, <2>1, TopOpIs
  <2> DEFINE m == Len(ops)
  <2>3. m \in Nat \ {0} /\ m \in 1..m /\ p[m - 1] \in Nat /\ p[m - 1] <= Len(text)
    <3>1. m \in Nat \ {0}
      BY <1>3, <2>2
    <3>2. p[m - 1] \in Nat /\ p[m - 1] <= Len(text)
      BY <1>2, <1>5, <2>2, TopFacts
    <3>3. QED
      BY <3>1, <3>2
  <2>4. Depth(p[m]) = Depth(p[m - 1]) + AsBit(ops[m] = "(") /\ Depth(next - 1) = Depth(p[m])
    BY <1>3, <2>3, Zenon DEF Nesting
  <2>5. AsBit(ops[m] = "(") = 1
    BY <2>2 DEF AsBit
  <2>6. Depth(p[m - 1]) \in Int /\ Depth(p[m - 1]) >= 0
    <3>1. CASE p[m - 1] = 0
      BY <3>1, DepthGoesOn
    <3>2. CASE p[m - 1] # 0
      <4>1. p[m - 1] \in DOMAIN text /\ p[m - 1] \in 0..Len(text)
        BY <1>3, <2>3, <3>2 DEF IsText
      <4>2. QED
        BY <4>1, DepthGoesOn DEF WellFormed, Balanced
    <3>3. QED
      BY <3>1, <3>2
  <2> HIDE DEF m
  <2>7. QED
    BY <1>5, <2>4, <2>5, <2>6
<1>8. CASE TopOp # "none"
  <2>1. Apply
    BY <1>6, <1>7, <1>8 DEF Finish
  <2>2. ~(next <= Len(text))
    BY <1>3, <1>4
  <2>3. ReadsOn'
    BY <1>5, <1>7, <1>8, <2>1, <2>2, ApplyKeeps
  <2>4. verdict' = "reading"
    BY <1>1, <2>1 DEF Apply
  <2>5. QED
    BY <2>3, <2>4
<1>9. CASE TopOp = "none"
  <2>1. ops = <<>> /\ Len(ops) = 0
    BY <1>3, <1>9, TopOpIs
  <2>2. out' = out /\ verdict' = IF Len(out) = 1 THEN "value" ELSE "rejected"
    BY <1>6, <1>7, <1>9 DEF Finish
  <2>3. Len(out) = c[Len(ops)] + 1 /\ Operand(p[Len(ops)], next, out[Len(out)], TopOf(ops))
    <3>1. EndsOperand(next - 1) =>
            Len(out) = c[Len(ops)] + 1 /\ Operand(p[Len(ops)], next, out[Len(out)], TopOf(ops))
      BY <1>2, ReadingFacts
    <3>2. QED
      BY <1>5, <3>1, Zenon
  <2>4. Len(out) = 1 /\ Operand(0, next, out[1], TopOf(ops))
    BY <1>3, <2>1, <2>3
  <2>5. out[1] = Number(Mean(0, next))
    BY <2>4, Zenon DEF Operand
  <2>6. Mean(0, next) = GrammarValue
    BY <1>4 DEF Mean, GrammarValue
  <2>7. GrammarValue' = GrammarValue
    BY <1>1, SpanValueIsRigid DEF GrammarValue
  <2>8. verdict' = "value" /\ out'[1] = Number(GrammarValue')
    BY <2>2, <2>4, <2>5, <2>6, <2>7
  <2>9. QED
    BY <2>8 DEF HasItsMeaning
<1>10. QED
  BY <1>8, <1>9

----------------------------------------------------------------------------
(***************************************************************************)
(* The parentheses of any text, well-formed or not: those on the stack are *)
(* the ones that are open, so none is left when a value is returned.       *)
(***************************************************************************)
(* lev counts the parentheses that are open below each operator of s.      *)
OpenBelow(lev, nx, s) ==
  /\ lev \in [Nat -> Nat] /\ lev[0] = 0 /\ s \in Seq(StackOps)
  /\ nx \in Nat \ {0} /\ nx <= Len(text) + 1
  /\ \A k \in 1..Len(s) : lev[k] = lev[k - 1] + AsBit(s[k] = "(")
  /\ lev[Len(s)] = Depth(nx - 1)
  /\ \A i \in 0..(nx - 1) : Depth(i) >= 0

LEMMA OpenBelowFacts ==
  ASSUME IsText, NEW lev, NEW nx, NEW s, OpenBelow(lev, nx, s)
  PROVE  /\ lev \in [Nat -> Nat] /\ lev[0] = 0 /\ s \in Seq(StackOps) /\ Len(s) \in Nat
         /\ Len(text) \in Nat /\ nx \in Nat \ {0} /\ nx <= Len(text) + 1
         /\ lev[Len(s)] \in Nat /\ lev[Len(s)] = Depth(nx - 1)
<1>1. lev \in [Nat -> Nat] /\ lev[0] = 0 /\ s \in Seq(StackOps) /\ nx \in Nat \ {0}
      /\ nx <= Len(text) + 1 /\ lev[Len(s)] = Depth(nx - 1)
  BY Zenon DEF OpenBelow
<1>2. Len(s) \in Nat
  BY <1>1
<1>3. lev[Len(s)] \in Nat
  BY <1>1, <1>2, Zenon
<1>4. Len(text) \in Nat
  BY DEF IsText
<1>5. QED
  BY <1>1, <1>2, <1>3, <1>4, Zenon

LEMMA OpenBelowPushed ==
  ASSUME IsText, NEW lev, NEW nx, NEW s, OpenBelow(lev, nx, s), nx <= Len(text), NEW t \in StackOps,
         Depth(nx) = Depth(nx - 1) + AsBit(t = "(")
  PROVE  \E l : OpenBelow(l, nx + 1, Append(s, t))
<1> DEFINE m == Len(s)
           bit == AsBit(t = "(")
           s1 == Append(s, t)
<1>1. /\ lev \in [Nat -> Nat] /\ lev[0] = 0 /\ s \in Seq(StackOps) /\ m \in Nat
      /\ Len(text) \in Nat /\ nx \in Nat \ {0} /\ lev[m] \in Nat /\ lev[m] = Depth(nx - 1)
  BY OpenBelowFacts, Zenon
<1>2. bit \in Nat
  BY DEF AsBit
<1> HIDE DEF bit
<1>3. lev[m] + bit \in Nat /\ (nx + 1) - 1 = nx /\ nx + 1 \in Nat \ {0} /\ nx + 1 <= Len(text) + 1
      /\ 0 \in 0..m
  <2>1. lev[m] + bit \in Nat
    <3>1. lev[m] \in Nat
      BY <1>1
    <3> HIDE DEF m
    <3>2. QED
      BY <1>2, <3>1
  <2>2. QED
    BY <1>1, <2>1
<1>4. PICK l : Grown(lev, l, m, lev[m] + bit)
  BY <1>1, <1>3, Grow
<1>5. l \in [Nat -> Nat] /\ l[m + 1] = lev[m] + bit /\ \A k \in 0..m : l[k] = lev[k]
  BY <1>4, Zenon DEF Grown
<1>6. s1 \in Seq(StackOps) /\ Len(s1) = m + 1 /\ s1[m + 1] = t /\ \A k \in 1..m : s1[k] = s[k]
  BY <1>1, PushOne, Zenon DEF OnTop
<1>7. /\ \A k \in 1..m : lev[k] = lev[k - 1] + AsBit(s[k] = "(")
      /\ \A i \in 0..(nx - 1) : Depth(i) >= 0
  BY Zenon DEF OpenBelow
<1> HIDE DEF m, s1
<1>8. ASSUME NEW k \in 1..(m + 1) PROVE l[k] = l[k - 1] + AsBit(s1[k] = "(")
  <2>1. CASE k = m + 1
    <3>1. k - 1 = m /\ m \in 0..m
      BY <1>1, <2>1
    <3>2. s1[k] = t /\ l[k] = lev[m] + bit /\ l[k - 1] = lev[m]
      BY <1>5, <1>6, <2>1, <3>1, Zenon
    <3>3. QED
      BY <3>2 DEF bit
  <2>2. CASE k \in 1..m
    <3>1. k \in 0..m /\ k - 1 \in 0..m
      BY <1>1, <2>2
    <3>2. s1[k] = s[k] /\ l[k] = lev[k] /\ l[k - 1] = lev[k - 1]
      BY <1>5, <1>6, <2>2, <3>1, Zenon
    <3>3. lev[k] = lev[k - 1] + AsBit(s[k] = "(")
      BY <1>7, <2>2
    <3>4. QED
      BY <3>2, <3>3
  <2>3. QED
    BY <1>1, <2>1, <2>2
<1>9. Depth(nx) = lev[m] + bit
  BY <1>1 DEF bit
<1>10. ASSUME NEW i \in 0..nx PROVE Depth(i) >= 0
  <2>1. CASE i = nx
    BY <1>3, <1>9, <2>1
  <2>2. CASE i # nx
    <3>1. i \in 0..(nx - 1)
      BY <1>1, <2>2
    <3>2. QED
      BY <1>7, <3>1, Zenon
  <2>3. QED
    BY <2>1, <2>2
<1>11. OpenBelow(l, nx + 1, s1)
  BY <1>1, <1>3, <1>5, <1>6, <1>8, <1>9, <1>10, Zenon DEF OpenBelow
<1>12. QED
  BY <1>11, Zenon DEF s1

LEMMA OpenBelowAdvances ==
  ASSUME IsText, NEW lev, NEW nx, NEW s, OpenBelow(lev, nx, s), nx <= Len(text), Depth(nx) = Depth(nx - 1)
  PROVE  OpenBelow(lev, nx + 1, s)
<1>1. /\ lev \in [Nat -> Nat] /\ lev[0] = 0 /\ s \in Seq(StackOps)
      /\ Len(text) \in Nat /\ nx \in Nat \ {0} /\ lev[Len(s)] = Depth(nx - 1)
  BY OpenBelowFacts, Zenon
<1>2. (nx + 1) - 1 = nx /\ nx + 1 \in Nat \ {0} /\ nx + 1 <= Len(text) + 1 /\ nx - 1 \in 0..(nx - 1)
  BY <1>1
<1>3. /\ \A k \in 1..Len(s) : lev[k] = lev[k - 1] + AsBit(s[k] = "(")
      /\ \A i \in 0..(nx - 1) : Depth(i) >= 0
  BY Zenon DEF OpenBelow
<1>4. ASSUME NEW i \in 0..nx PROVE Depth(i) >= 0
  <2>1. CASE i = nx
    <3>1. Depth(nx - 1) >= 0
      BY <1>2, <1>3, Zenon
    <3>2. QED
      BY <2>1, <3>1
  <2>2. CASE i # nx
    <3>1. i \in 0..(nx - 1)
      BY <1>1, <2>2
    <3>2. QED
      BY <1>3, <3>1, Zenon
  <2>3. QED
    BY <2>1, <2>2
<1>5. QED
  BY <1>1, <1>2, <1>3, <1>4, Zenon DEF OpenBelow

LEMMA OpenBelowPopped ==
  ASSUME IsText, NEW lev, NEW nx, NEW s, OpenBelow(lev, nx, s), s # <<>>
  PROVE  /\ s[Len(s)] # "(" => OpenBelow(lev, nx, Front(s))
         /\ s[Len(s)] = "(" /\ nx <= Len(text) /\ text[nx] = ")" => OpenBelow(lev, nx + 1, Front(s))
<1> DEFINE m == Len(s)
           f == Front(s)
<1>1. /\ lev \in [Nat -> Nat] /\ lev[0] = 0 /\ s \in Seq(StackOps)
      /\ Len(text) \in Nat /\ nx \in Nat \ {0} /\ nx <= Len(text) + 1 /\ lev[m] = Depth(nx - 1)
  BY OpenBelowFacts, Zenon
<1>2. m \in Nat \ {0} /\ f \in Seq(StackOps) /\ Len(f) = m - 1 /\ \A k \in 1..(m - 1) : f[k] = s[k]
  BY <1>1, Popped
<1>3. /\ \A k \in 1..m : lev[k] = lev[k - 1] + AsBit(s[k] = "(")
      /\ \A i \in 0..(nx - 1) : Depth(i) >= 0
  BY Zenon DEF OpenBelow
<1>4. m \in 1..m /\ m - 1 \in Nat /\ \A k \in 1..(m - 1) : k \in 1..m
  BY <1>2
<1>5. lev[m - 1] \in Nat
  BY <1>1, <1>4, Zenon
<1>6. lev[m] = lev[m - 1] + AsBit(s[m] = "(")
  BY <1>3, <1>4, Zenon
<1>7. \A k \in 1..(m - 1) : lev[k] = lev[k - 1] + AsBit(f[k] = "(")
  BY <1>2, <1>3, <1>4, Zenon
<1> HIDE DEF f, m
<1>8. ASSUME s[m] # "(" PROVE OpenBelow(lev, nx, f)
  <2>1. AsBit(s[m] = "(") = 0
    BY <1>8 DEF AsBit
  <2>2. lev[m - 1] = Depth(nx - 1)
    <3>1. lev[m] = lev[m - 1] + 0 /\ lev[m] = Depth(nx - 1)
      BY <1>1, <1>6, <2>1, Zenon
    <3>2. QED
      BY <1>5, <3>1
  <2>3. QED
    BY <1>1, <1>2, <1>3, <1>7, <2>2, Zenon DEF OpenBelow
<1>9. ASSUME s[m] = "(", nx <= Len(text), text[nx] = ")" PROVE OpenBelow(lev, nx + 1, f)
  <2>1. AsBit(s[m] = "(") = 1 /\ AsBit(text[nx] = "(") = 0 /\ AsBit(text[nx] = ")") = 1
    <3>1. "(" # ")"
      OBVIOUS
    <3>2. QED
      BY <1>9, <3>1 DEF AsBit
  <2>2. (nx + 1) - 1 = nx /\ nx + 1 \in Nat \ {0} /\ nx + 1 <= Len(text) + 1 /\ nx \in 1..Len(text)
    BY <1>1, <1>9
  <2>3. Depth(nx) = Depth(nx - 1) + 0 - 1
    BY <2>1, <2>2, DepthGoesOn
  <2>4. Depth(nx) = lev[m - 1]
    <3>1. lev[m] = lev[m - 1] + 1 /\ lev[m] = Depth(nx - 1)
      BY <1>1, <1>6, <2>1, Zenon
    <3>2. QED
      BY <1>5, <2>3, <3>1
  <2>5. ASSUME NEW i \in 0..nx PROVE Depth(i) >= 0
    <3>1. CASE i = nx
      BY <1>5, <2>4, <3>1
    <3>2. CASE i # nx
      <4>1. i \in 0..(nx - 1)
        BY <1>1, <3>2
      <4>2. QED
        BY <1>3, <4>1, Zenon
    <3>3. QED
      BY <3>1, <3>2
  <2>6. QED
    BY <1>1, <1>2, <1>7, <2>2, <2>4, <2>5, Zenon DEF OpenBelow
<1>10. QED
  BY <1>8, <1>9, Zenon DEF f, m

(* The parentheses on the stack are those that are open.                   *)
Nested == \E lev : OpenBelow(lev, next, ops)

LEMMA NestedIsKept ==
  ASSUME IsText, text' = text, \E lev : OpenBelow(lev, next', ops')
  PROVE  Nested'
<1>1. \A i : Depth(i)' = Depth(i)
  BY GrammarIsRigid
<1>2. \A lev, nx, s : OpenBelow(lev, nx, s)' = OpenBelow(lev, nx, s)
  BY <1>1 DEF OpenBelow
<1>3. PICK lev : OpenBelow(lev, next', ops')
  OBVIOUS
<1>4. OpenBelow(lev, next, ops)'
  BY <1>2, <1>3
<1>5. QED
  BY <1>4 DEF Nested

LEMMA ApplyNests ==
  ASSUME IsText, Nested, Apply, TopOp # "none", TopOp # "("
  PROVE  Nested'
<1>1. PICK lev : OpenBelow(lev, next, ops)
  BY DEF Nested
<1>2. ops \in Seq(StackOps)
  BY <1>1, OpenBelowFacts
<1>3. ops # <<>> /\ ops[Len(ops)] # "("
  BY <1>2, TopOpIs
<1>4. OpenBelow(lev, next, Front(ops))
  BY <1>1, <1>3, OpenBelowPopped
<1>5. text' = text /\ next' = next /\ ops' = Front(ops)
  BY DEF Apply
<1>6. QED
  BY <1>4, <1>5, NestedIsKept

LEMMA NestedStep ==
  ASSUME IsText, Nested, verdict = "reading", ExprNext
  PROVE  IF verdict' = "reading" THEN Nested' ELSE verdict' = "value" => Balanced'
<1>1. PICK lev : OpenBelow(lev, next, ops)
  BY DEF Nested
<1>2. ops \in Seq(StackOps) /\ Len(text) \in Nat /\ next \in Nat \ {0} /\ next <= Len(text) + 1
  BY <1>1, OpenBelowFacts
<1>3. next <= Len(text) => next \in 1..Len(text)
  BY <1>2
<1>5. CASE TakeValue
  <2>1. /\ next <= Len(text) /\ text[next] \in DOMAIN ValueOf /\ ops' = ops
        /\ next' = next + 1 /\ text' = text /\ verdict' = verdict
    BY <1>5 DEF TakeValue, AtToken, Tok, Reads
  <2>2. Depth(next) = Depth(next - 1)
    BY <1>3, <2>1, Kinds, SameDepth
  <2>3. OpenBelow(lev, next', ops')
    BY <1>1, <2>1, <2>2, OpenBelowAdvances
  <2>4. QED
    BY <2>1, <2>3, NestedIsKept
<1>6. CASE NoValue
  BY <1>6 DEF NoValue, Reject
<1>7. CASE Open
  <2>1. /\ next <= Len(text) /\ text[next] = "(" /\ ops' = Append(ops, "(")
        /\ next' = next + 1 /\ text' = text /\ verdict' = verdict
    BY <1>7 DEF Open, AtToken, Tok, Reads
  <2>2. Depth(next) = Depth(next - 1) + AsBit("(" = "(")
    <3>1. Depth(next) = Depth(next - 1) + AsBit(text[next] = "(") - AsBit(text[next] = ")")
      BY <1>3, <2>1, DepthGoesOn
    <3>2. Depth(next - 1) \in Int
      <4>1. next - 1 \in 0..Len(text)
        BY <1>3, <2>1
      <4>2. QED
        BY <4>1, DepthGoesOn
    <3>3. AsBit(text[next] = "(") = 1 /\ AsBit(text[next] = ")") = 0 /\ AsBit("(" = "(") = 1
      <4>1. "(" # ")"
        OBVIOUS
      <4>2. QED
        BY <2>1, <4>1 DEF AsBit
    <3>4. QED
      BY <3>1, <3>2, <3>3
  <2>3. \E l : OpenBelow(l, next', ops')
    <3>1. "(" \in StackOps
      BY DEF StackOps
    <3>2. QED
      BY <1>1, <2>1, <2>2, <3>1, OpenBelowPushed
  <2>4. QED
    BY <2>1, <2>3, NestedIsKept
<1>8. CASE Close
  <2>1. next <= Len(text) /\ text[next] = ")"
    BY <1>8 DEF Close, AtToken, Tok
  <2>2. CASE TopOp = "none"
    BY <1>8, <2>2 DEF Close, Reject
  <2>3. CASE TopOp = "("
    <3>1. ops' = Front(ops) /\ next' = next + 1 /\ text' = text /\ verdict' = verdict
      BY <1>8, <2>3 DEF Close, Reads
    <3>2. ops # <<>> /\ ops[Len(ops)] = "("
      BY <1>2, <2>3, TopOpIs
    <3>3. OpenBelow(lev, next', ops')
      BY <1>1, <2>1, <3>1, <3>2, OpenBelowPopped
    <3>4. QED
      BY <3>1, <3>3, NestedIsKept
  <2>4. CASE TopOp # "none" /\ TopOp # "("
    <3>1. Apply
      BY <1>8, <2>4 DEF Close
    <3>2. QED
      BY <2>4, <3>1, ApplyNests DEF Apply
  <2>5. QED
    BY <2>2, <2>3, <2>4
<1>9. CASE Sign
  <2>1. /\ next <= Len(text) /\ text[next] \in Signs /\ ops' = Append(ops, SignOp(text[next]))
        /\ next' = next + 1 /\ text' = text /\ verdict' = verdict
    BY <1>9 DEF Sign, AtToken, Tok, Reads, SignOp
  <2> DEFINE t == SignOp(text[next])
  <2>2. t \in {"u-", "u~"}
    BY DEF SignOp
  <2>3. Depth(next) = Depth(next - 1)
    BY <1>3, <2>1, Kinds, SameDepth
  <2> HIDE DEF t
  <2>4. AsBit(t = "(") = 0 /\ t \in StackOps
    BY <2>2 DEF AsBit, StackOps
  <2>5. Depth(next - 1) \in Int
    <3>1. next - 1 \in 0..Len(text)
      BY <1>3, <2>1
    <3>2. QED
      BY <3>1, DepthGoesOn
  <2>6. Depth(next) = Depth(next - 1) + AsBit(t = "(")
    BY <2>3, <2>4, <2>5
  <2>7. \E l : OpenBelow(l, next + 1, Append(ops, t))
    BY <1>1, <2>1, <2>4, <2>6, OpenBelowPushed
  <2>8. \E l : OpenBelow(l, next', ops')
    BY <2>1, <2>7 DEF t
  <2>9. QED
    BY <2>1, <2>8, NestedIsKept
<1>10. CASE Binary
  <2>1. CASE Higher
    <3>1. Apply
      BY <1>10, <2>1 DEF Binary
    <3>2. TopOp # "none" /\ TopOp # "("
      BY <2>1, Kinds DEF Higher
    <3>3. QED
      BY <3>1, <3>2, ApplyNests DEF Apply
  <2>2. CASE ~Higher
    <3> DEFINE t == text[next]
    <3>1. /\ next <= Len(text) /\ t \in DOMAIN PREC /\ ops' = Append(ops, t)
          /\ next' = next + 1 /\ text' = text /\ verdict' = verdict
      BY <1>10, <2>2 DEF Binary, AtToken, Tok, Reads
    <3>2. t # "(" /\ t # ")"
      BY <3>1, Kinds
    <3>3. Depth(next) = Depth(next - 1)
      BY <1>3, <3>1, <3>2, SameDepth
    <3>4. AsBit(t = "(") = 0 /\ t \in StackOps
      BY <3>1, <3>2 DEF AsBit, StackOps
    <3>5. Depth(next - 1) \in Int
      <4>1. next - 1 \in 0..Len(text)
        BY <1>3, <3>1
      <4>2. QED
        BY <4>1, DepthGoesOn
    <3> HIDE DEF t
    <3>6. Depth(next) = Depth(next - 1) + AsBit(t = "(")
      BY <3>3, <3>4, <3>5
    <3>7. \E l : OpenBelow(l, next', ops')
      BY <1>1, <3>1, <3>4, <3>6, OpenBelowPushed
    <3>8. QED
      BY <3>1, <3>7, NestedIsKept
  <2>3. QED
    BY <2>1, <2>2
<1>11. CASE Finish
  <2>1. next > Len(text) /\ text' = text
    BY <1>11 DEF Finish, Reject, Apply
  <2>2. CASE verdict' = "reading"
    <3>1. Apply /\ TopOp # "(" /\ TopOp # "none"
      BY <1>11, <2>2 DEF Finish, Reject
    <3>2. QED
      BY <2>2, <3>1, ApplyNests
  <2>3. CASE verdict' = "value"
    <3>1. TopOp = "none"
      BY <1>11, <2>3 DEF Finish, Reject, Apply
    <3>2. ops = <<>> /\ Len(ops) = 0
      BY <1>2, <3>1, TopOpIs
    <3>3. next - 1 = Len(text)
      BY <1>2, <2>1
    <3>4. /\ lev[0] = 0 /\ lev[Len(ops)] = Depth(next - 1)
          /\ \A i \in 0..(next - 1) : Depth(i) >= 0
      BY <1>1, Zenon DEF OpenBelow
    <3>5. Depth(Len(text)) = 0 /\ \A i \in 0..Len(text) : Depth(i) >= 0
      BY <3>2, <3>3, <3>4
    <3>6. DOMAIN text \subseteq 0..Len(text)
      BY DEF IsText
    <3>7. Balanced
      BY <3>5, <3>6, Zenon DEF Balanced
    <3>8. Balanced'
      BY <2>1, <3>7, GrammarIsRigid DEF Balanced
    <3>9. QED
      BY <2>3, <3>8
  <2>4. QED
    BY <2>2, <2>3
<1>12. QED
  BY <1>5, <1>6, <1>7, <1>8, <1>9, <1>10, <1>11 DEF ExprNext

----------------------------------------------------------------------------
(***************************************************************************)
(* The inductive invariant.                                                *)
(***************************************************************************)
ExprInv ==
  /\ text \in Texts /\ expectVal \in BOOLEAN
  /\ IF verdict = "reading" THEN Nested ELSE verdict = "value" => Balanced
  /\ Understood

LEMMA TextsAreTokens ==
  ASSUME text \in Texts
  PROVE  IsText
BY ExpressionsAssumption DEF IsText, Tokens

LEMMA ExprStarts == ExprInit => ExprInv
<1>1. SUFFICES ASSUME ExprInit PROVE ExprInv
  OBVIOUS
<1>2. /\ text \in Texts /\ next = 1 /\ out = <<>> /\ ops = <<>> /\ expectVal = TRUE
      /\ verdict = "reading"
  BY <1>1 DEF ExprInit
<1>3. IsText /\ Len(text) \in Nat
  BY <1>2, TextsAreTokens DEF IsText
<1> DEFINE z == [k \in Nat |-> 0]
<1>4. z \in [Nat -> Nat] /\ z[0] = 0
  OBVIOUS
<1> HIDE DEF z
<1>5. next \in Nat \ {0} /\ next - 1 = 0 /\ next <= Len(text) + 1 /\ next = 0 + 1
  BY <1>2, <1>3
<1>6. ops \in Seq(StackOps) /\ Len(ops) = 0 /\ out \in Seq({}) /\ Len(out) = 0
  BY <1>2
<1>7. Depth(0) = 0 /\ ~EndsOperand(0)
  BY <1>3, DepthGoesOn DEF EndsOperand
<1>8. (\A k \in 1..0 : FALSE) /\ (\A k \in 0..0 : k = 0)
  OBVIOUS
<1>9. OpenBelow(z, next, ops)
  BY <1>4, <1>5, <1>6, <1>7, <1>8 DEF OpenBelow
<1>10. Stack(z, z, next, ops)
  <2>1. StackTypes(z, z, next, ops)
    BY <1>4, <1>5, <1>6, Zenon DEF StackTypes
  <2>2. Places(z, next, ops)
    BY <1>2, <1>4, <1>6, <1>7, <1>8 DEF Places
  <2>3. InOrder(z, z, ops)
    BY <1>6, <1>8 DEF InOrder
  <2>4. Counts(z, ops)
    BY <1>6, <1>8 DEF Counts
  <2>5. QED
    BY <2>1, <2>2, <2>3, <2>4 DEF Stack
<1>11. Nesting(z, next, ops)
  BY <1>4, <1>5, <1>6, <1>7, <1>8 DEF Nesting
<1>12. Reading(z, z, {}, next, out, ops)
  BY <1>4, <1>5, <1>6, <1>7, <1>8, <1>10, <1>11 DEF Reading, Items
<1>13. ReadsOn
  BY <1>2, <1>5, <1>7, <1>12 DEF ReadsOn
<1>14. Nested
  BY <1>9 DEF Nested
<1>15. QED
  BY <1>2, <1>13, <1>14 DEF ExprInv, Understood

LEMMA UnderstoodStep ==
  ASSUME IsText, WellFormed, SignsLast, ReadsOn, expectVal \in BOOLEAN, verdict = "reading", ExprNext
  PROVE  IF verdict' = "reading" THEN ReadsOn' ELSE HasItsMeaning'
<1>1. CASE TakeValue
  BY <1>1, TakeValueKeeps
<1>2. CASE NoValue
  BY <1>2, NoValueIsWritten
<1>3. CASE Open
  BY <1>3, OpenKeeps
<1>4. CASE Close
  BY <1>4, CloseKeeps
<1>5. CASE Sign
  BY <1>5, SignKeeps
<1>6. CASE Binary
  BY <1>6, BinaryKeeps
<1>7. CASE Finish
  BY <1>7, FinishIsRight
<1>8. QED
  BY <1>1, <1>2, <1>3, <1>4, <1>5, <1>6, <1>7 DEF ExprNext

LEMMA ExprStep == ExprInv /\ [ExprNext]_exprVars => ExprInv'
<1>1. SUFFICES ASSUME ExprInv, [ExprNext]_exprVars PROVE ExprInv'
  OBVIOUS
<1>2. IsText /\ text \in Texts /\ expectVal \in BOOLEAN
  BY <1>1, TextsAreTokens DEF ExprInv
<1>3. CASE ExprNext
  <2>1. verdict = "reading"
    BY <1>3 DEF ExprNext, TakeValue, NoValue, Open, Close, Sign, Binary, Finish, AtToken
  <2>2. text' = text
    BY <1>3 DEF ExprNext, TakeValue, NoValue, Open, Close, Sign, Binary, Finish, Reads, Reject, Apply
  <2>3. expectVal' \in BOOLEAN
    BY <1>2, <1>3 DEF ExprNext, TakeValue, NoValue, Open, Close, Sign, Binary, Finish, Reads, Reject, Apply
  <2>4. IF verdict' = "reading" THEN Nested' ELSE verdict' = "value" => Balanced'
    BY <1>1, <1>2, <1>3, <2>1, NestedStep DEF ExprInv
  <2>5. Understood'
    <3>1. (WellFormed' <=> WellFormed) /\ (SignsLast' <=> SignsLast)
      BY <2>2, WellFormedIsRigid
    <3>2. ASSUME WellFormed, SignsLast PROVE IF verdict' = "reading" THEN ReadsOn' ELSE HasItsMeaning'
      <4>1. ReadsOn
        BY <1>1, <2>1, <3>2 DEF ExprInv, Understood
      <4>2. QED
        BY <1>2, <1>3, <2>1, <3>2, <4>1, UnderstoodStep
    <3>3. QED
      BY <3>1, <3>2 DEF Understood
  <2>6. QED
    BY <1>2, <2>2, <2>3, <2>4, <2>5 DEF ExprInv
<1>4. CASE UNCHANGED exprVars
  <2>1. /\ text' = text /\ next' = next /\ out' = out /\ ops' = ops /\ expectVal' = expectVal
        /\ verdict' = verdict
    BY <1>4 DEF exprVars
  <2>2. (WellFormed' <=> WellFormed) /\ (SignsLast' <=> SignsLast)
    BY <2>1, WellFormedIsRigid
  <2>3. Nested => Nested'
    BY <1>2, <2>1, NestedIsKept DEF Nested
  <2>4. Balanced => Balanced'
    BY <2>1, GrammarIsRigid DEF Balanced
  <2>5. WellFormed /\ SignsLast /\ ReadsOn => ReadsOn'
    <3>1. SUFFICES ASSUME WellFormed, SignsLast, ReadsOn PROVE ReadsOn'
      OBVIOUS
    <3>2. (expectVal' = TRUE) <=> ~EndsOperand(next' - 1)
      BY <2>1, <3>1 DEF ReadsOn
    <3>3. \E p, c, V : Reading(p, c, V, next', out', ops')
      BY <2>1, <3>1 DEF ReadsOn
    <3>4. QED
      BY <1>2, <2>1, <3>1, <3>2, <3>3, ReadsOnKept
  <2>6. HasItsMeaning => HasItsMeaning'
    <3>1. GrammarValue' = GrammarValue
      BY <1>2, <2>1, SpanValueIsRigid DEF GrammarValue
    <3>2. QED
      BY <2>1, <3>1 DEF HasItsMeaning
  <2>7. Understood'
    BY <1>1, <2>1, <2>2, <2>5, <2>6 DEF ExprInv, Understood
  <2>8. QED
    BY <1>1, <2>1, <2>3, <2>4, <2>7 DEF ExprInv
<1>5. QED
  BY <1>1, <1>3, <1>4

(* evalExpr gives a well-formed operand the value the grammar gives it     *)
(* (asm.js, apply() and the loop over the tokens: * before + and -, these  *)
(* before & and |, from left to right, parentheses first), whatever its    *)
(* length and nesting, as long as no binary operator follows a sign inside *)
(* the same parentheses; and it accepts no operand whose parentheses do not*)
(* match.                                                                  *)
THEOREM OperandsAreEvaluated == ExprSpec => []EvaluatesByPrecedence
<1>1. ExprInv => EvaluatesByPrecedence
  BY DEF ExprInv, Understood, EvaluatesByPrecedence
<1>2. QED
  BY <1>1, ExprStarts, ExprStep, PTL DEF ExprSpec
=============================================================================
