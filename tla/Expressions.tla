---------------------------- MODULE Expressions ----------------------------
(***************************************************************************)
(* evalExpr of runtime/asm.js: operands are evaluated with two stacks, one  *)
(* of values and one of operators.  A text is its tokens: names of values,  *)
(* operators and parentheses.  The operators left out, ^ / % << >>, differ   *)
(* from these in what they compute and in their place in PREC only.         *)
(***************************************************************************)
EXTENDS Bits, SequencesExt

CONSTANTS
  Texts,        \* the operands that are evaluated
  ValueOf       \* token -> number: parseNum, or resolve of a name

VARIABLES
  text,
  next,         \* the token that is read next
  out,          \* values, some of them not a number
  ops,          \* operators and open parentheses
  expectVal,
  verdict       \* "reading", "value" or "rejected"

exprVars == <<text, next, out, ops, expectVal, verdict>>

PREC == [o \in {"|", "&", "+", "-", "*"} |->
           CASE o = "|" -> 2 [] o = "&" -> 4 [] o = "*" -> 7 [] OTHER -> 6]
Signs == {"-", "~"}
Symbols == DOMAIN PREC \cup Signs \cup {"(", ")"}

(* Texts are cut into tokens, and no number or name is written as a symbol. *)
ASSUME ExpressionsAssumption ==
  /\ DOMAIN ValueOf \cap Symbols = {}
  /\ Texts \subseteq Seq(DOMAIN ValueOf \cup Symbols)

Number(n) == [n |-> n, nan |-> FALSE]
NaN == [n |-> 0, nan |-> TRUE]

(* a & b of two's complement integers below 2^15. *)
BitAnd(a, b) ==
  MapThenSumSet(LAMBDA i : Weight[i] * Bit(a, i) * Bit(b, i), 0..14)
    - AsBit(a < 0 /\ b < 0) * Weight[15]

Compute(o, a, b) ==
  CASE o = "+" -> a + b [] o = "-" -> a - b [] o = "*" -> a * b
    [] o = "&" -> BitAnd(a, b) [] o = "|" -> a + b - BitAnd(a, b)

ExprInit ==
  /\ text \in Texts /\ next = 1
  /\ out = <<>> /\ ops = <<>> /\ expectVal = TRUE
  /\ verdict = "reading"

----------------------------------------------------------------------------
Tok == text[next]
AtToken == verdict = "reading" /\ next <= Len(text)
TopOp == IF ops = <<>> THEN "none" ELSE Last(ops)

(* apply(): the top operator takes its values.  An empty stack gives         *)
(* undefined, of which + - * make NaN and the bit operators 0.              *)
Pop(k) == IF Len(out) >= k THEN out[Len(out) + 1 - k] ELSE NaN
Rest(k) == SubSeq(out, 1, Len(out) - k)
Apply ==
  LET a == Pop(2)
      b == Pop(1)
      nan == TopOp \in {"+", "-", "*"} /\ (a.nan \/ b.nan)
  IN /\ ops' = Front(ops)
     /\ out' = CASE TopOp = "u-" -> Append(Rest(1), [b EXCEPT !.n = -@])
                 [] TopOp = "u~" -> Append(Rest(1), Number(-1 - b.n))
                 [] OTHER -> Append(Rest(2), IF nan THEN NaN
                                             ELSE Number(Compute(TopOp, a.n, b.n)))
     /\ UNCHANGED <<text, next, expectVal, verdict>>

Reads(val) == next' = next + 1 /\ expectVal' = val /\ UNCHANGED <<text, verdict>>
Reject == verdict' = "rejected" /\ UNCHANGED <<text, next, out, ops, expectVal>>

(* A value, also after another one; "~" where no value is expected is looked *)
(* up like a name, and nothing has it.                                      *)
TakeValue ==
  /\ AtToken /\ Tok \in DOMAIN ValueOf
  /\ out' = Append(out, Number(ValueOf[Tok])) /\ UNCHANGED ops
  /\ Reads(FALSE)

NoValue == AtToken /\ Tok = "~" /\ ~expectVal /\ Reject

Open == AtToken /\ Tok = "(" /\ ops' = Append(ops, Tok) /\ UNCHANGED out /\ Reads(TRUE)

Close ==
  /\ AtToken /\ Tok = ")"
  /\ CASE TopOp = "none" -> Reject
       [] TopOp = "(" -> ops' = Front(ops) /\ UNCHANGED out /\ Reads(FALSE)
       [] OTHER -> Apply

Sign ==
  /\ AtToken /\ expectVal /\ Tok \in Signs
  /\ ops' = Append(ops, IF Tok = "-" THEN "u-" ELSE "u~") /\ UNCHANGED out
  /\ Reads(TRUE)

(* Mutant: operators of the same level wait for each other. *)
HigherOnly == TopOp \in DOMAIN PREC /\ PREC[TopOp] > PREC[Tok]

(* PREC has no entry for the signs: no operator after a sign applies it. *)
Higher == TopOp \in DOMAIN PREC /\ PREC[TopOp] >= PREC[Tok]

(* A binary operator, also where a value is expected. *)
Binary ==
  /\ AtToken /\ Tok \in DOMAIN PREC /\ ~(expectVal /\ Tok \in Signs)
  /\ IF Higher THEN Apply
     ELSE ops' = Append(ops, Tok) /\ UNCHANGED out /\ Reads(TRUE)

(* The end: what is on the stack is applied; one value has to be left.       *)
Finish ==
  /\ verdict = "reading" /\ next > Len(text)
  /\ CASE TopOp = "(" \/ text = <<>> -> Reject
       [] TopOp # "(" /\ TopOp # "none" -> Apply
       [] OTHER -> /\ verdict' = IF Len(out) = 1 THEN "value" ELSE "rejected"
                   /\ UNCHANGED <<text, next, out, ops, expectVal>>

ExprNext == TakeValue \/ NoValue \/ Open \/ Close \/ Sign \/ Binary \/ Finish

ExprSpec == ExprInit /\ [][ExprNext]_exprVars

----------------------------------------------------------------------------
(* What an expression means: the grammar, over the positions of text.        *)
EndsOperand(i) == i >= 1 /\ text[i] \in DOMAIN ValueOf \cup {")"}
IsBinary(i) == EndsOperand(i - 1) /\ text[i] \in DOMAIN PREC
IsSign(i)   == ~EndsOperand(i - 1) /\ text[i] \in Signs
Depth(i) == Cardinality({k \in 1..i : text[k] = "("}) - Cardinality({k \in 1..i : text[k] = ")"})

Balanced ==
  /\ \A i \in DOMAIN text : Depth(i) >= 0
  /\ Depth(Len(text)) = 0

WellFormed ==
  /\ Balanced /\ EndsOperand(Len(text))
  /\ \A i \in DOMAIN text :
       IF EndsOperand(i - 1) THEN text[i] \in DOMAIN PREC \cup {")"}
       ELSE text[i] \in DOMAIN ValueOf \cup Signs \cup {"("}

(* The operator of positions i to j that is applied last: the rightmost of   *)
(* the lowest level outside of parentheses.                                 *)
Outermost(i, j) ==
  {k \in (i+1)..(j-1) : IsBinary(k) /\ Depth(k) = Depth(i) - AsBit(text[i] = "(")}
LastApplied(i, j) ==
  CHOOSE k \in Outermost(i, j) : \A l \in Outermost(i, j) :
    PREC[text[l]] > PREC[text[k]] \/ (PREC[text[l]] = PREC[text[k]] /\ l <= k)

(* The value of positions i to j. *)
SpanValue ==
  LET m[p \in (DOMAIN text) \X (DOMAIN text)] ==
        LET i == p[1]
            j == p[2]
        IN IF i >= j THEN ValueOf[text[i]]
           ELSE IF Outermost(i, j) # {}
           THEN LET k == LastApplied(i, j)
                IN Compute(text[k], m[<<i, k - 1>>], m[<<k + 1, j>>])
           ELSE IF text[i] = "-" THEN -m[<<i + 1, j>>]
           ELSE IF text[i] = "~" THEN -1 - m[<<i + 1, j>>]
           ELSE m[<<i + 1, j - 1>>]
  IN m
GrammarValue == SpanValue[<<1, Len(text)>>]

(* No binary operator comes after a sign inside the same parentheses. *)
SignsLast ==
  \A i, k \in DOMAIN text :
    IsSign(i) /\ IsBinary(k) /\ i < k /\ Depth(k) = Depth(i) =>
      \E l \in i..k : Depth(l) < Depth(i)

HasItsMeaning == verdict = "value" /\ out[1] = Number(GrammarValue)

(* evalExpr gives a well-formed operand its value: * before + and -, these   *)
(* before & and |, from left to right, parentheses first; and never accepts  *)
(* one whose parentheses do not match.  Where a binary operator follows a    *)
(* sign it does not: that is UnaryBindsTightest.                            *)
EvaluatesByPrecedence ==
  verdict # "reading" =>
    /\ WellFormed /\ SignsLast => HasItsMeaning
    /\ verdict = "value" => Balanced

(* "Supports & | ^ + - * / << >> ( ) and unary - ~" (asm.js:143-144).         *)
UnaryBindsTightest ==
  verdict # "reading" /\ WellFormed => HasItsMeaning

=============================================================================
