-------------------------- MODULE AssemblerProofs --------------------------
(***************************************************************************)
(* Proofs about the ends of a program's way from source to flash.           *)
(*                                                                         *)
(* The two passes of assembleInner (asm.js): whatever the source, its macros *)
(* and its ORGs, the second pass walks through the very addresses the first  *)
(* one gave to the lines.                                                   *)
(*                                                                         *)
(* parse (hex.rs): whatever lines a file has, the image is the one that its  *)
(* records say, taken together.                                             *)
(*                                                                         *)
(* Between them, toIntelHex (asm.js) and parse: whatever the program, every  *)
(* word arrives; and whichever byte of the file goes wrong, none does.       *)
(*                                                                         *)
(* Beside them, decodeHex (test-asm.js): whatever the text, what the test     *)
(* compares is what parse puts into flash.                                  *)
(*                                                                         *)
(* And what the passes hand over is a program, of 14-bit words within the    *)
(* 2K of flash.                                                             *)
(***************************************************************************)
EXTENDS Assembler, HexOracle, FiniteSetTheorems, SequenceTheorems, WellFoundedInduction, TLAPS

(***************************************************************************)
(* The addresses of the lines                                               *)
(***************************************************************************)
(* The value of an operand at address a, by a table of symbols. *)
ValueAt(table, arg, a) ==
  arg.plus + CASE arg.base = NoName -> 0
               [] arg.base = "$" -> a
               [] arg.base \in DOMAIN table -> table[arg.base]
               [] OTHER -> BuiltIns[arg.base]

(* The address after a line that stands at a. *)
After(table, l, a) ==
  IF l.op = "ORG" THEN ValueAt(table, l.arg, a) % 8192
  ELSE IF SizeOf(l.op) > 0 THEN a + SizeOf(l.op)
  ELSE a

(* A name that has its value for good: of the table, of the chip or none. *)
Settled(table, arg) ==
  arg.base \in {NoName, "$"} \cup DOMAIN table \cup DOMAIN BuiltIns

(* addrs gives the lines before line k the addresses that their sizes and    *)
(* the ORGs between them say, and the table has those of their labels. *)
Traced(code, addrs, table, k) ==
  /\ addrs[1] = 0
  /\ \A n \in 1..(k - 1) :
       /\ addrs[n + 1] = After(table, code[n], addrs[n])
       /\ code[n].op = "ORG" => Settled(table, code[n].arg)
       /\ code[n].label # NoName /\ code[n].op # "EQU" =>
            /\ code[n].label \in DOMAIN table
            /\ table[code[n].label] = addrs[n]

(* The first pass has come to line at. *)
FirstPass ==
  /\ \A name \in DOMAIN symbols : \E n \in 1..(at - 1) : lines[n].label = name
  /\ AllDefinedOnce => \E addrs : Traced(lines, addrs, symbols, at) /\ addrs[at] = lc

(* The first pass ended at line last, and the second one walks after it. *)
Follows(addrs, last) ==
  /\ Traced(lines, addrs, symbols, last)
  /\ last \in Nat /\ (last > Len(lines) \/ lines[last].op = "END")
  /\ at <= last /\ addrs[at] = lc
  /\ \A n \in DOMAIN placed : n \in 1..last /\ n < last /\ placed[n] = addrs[n]

SecondPass == AllDefinedOnce => \E addrs, last : Follows(addrs, last)

(* What the second pass has assembled. *)
Done ==
  AllDefinedOnce => \E addrs, last :
    /\ Traced(lines, addrs, symbols, last) /\ last \in Nat
    /\ \A n \in DOMAIN placed : n \in 1..(last - 1) /\ placed[n] = addrs[n]

AsmInv ==
  /\ at \in Nat \ {0}
  /\ \E S : lines \in Seq(S)
  /\ phase = "preprocess" => symbols = NoEntries /\ lc = 0
  /\ phase \in {"preprocess", "pass1"} => placed = NoEntries
  /\ phase = "pass1" => at <= Len(lines) + 1 /\ FirstPass
  /\ phase = "pass2" => SecondPass
  /\ phase = "assembled" => Done

LEMMA ValueHere == \A arg : Value(arg) = ValueAt(symbols, arg, lc)
BY DEF Value, ValueAt

LEMMA Sizes ==
  /\ \A op : SizeOf(op) \in {0, 1, 2}
  /\ \A op \in {"none", "EQU", "LIST", "__CONFIG", "DW", "ORG", "END"} : SizeOf(op) = 0
  /\ SizeOf("BANKSEL") = 2
  /\ \A op \in DOMAIN OPS : SizeOf(op) = 1 /\ op \notin {"EQU", "ORG", "END", "BANKSEL"}
<1>1. \A op \in {"BANKSEL", "none", "EQU", "LIST", "__CONFIG", "DW", "ORG", "END"} : op \notin DOMAIN OPS
  BY DEF OPS
<1>2. QED
  BY <1>1 DEF SizeOf

(* A name that no line before gave a value leaves the addresses as they are. *)
LEMMA TableGrows ==
  ASSUME NEW addrs, NEW table, NEW k \in Nat, Traced(lines, addrs, table, k),
         NEW name, name \notin DOMAIN table, name \notin DOMAIN BuiltIns, name # NoName, NEW v
  PROVE  Traced(lines, addrs, With(table, name, v), k)
<1> DEFINE wider == With(table, name, v)
<1>1. /\ DOMAIN wider = DOMAIN table \cup {name} /\ wider[name] = v
      /\ \A x \in DOMAIN table : wider[x] = table[x]
  BY DEF With
<1> HIDE DEF wider
<1>2. ASSUME NEW arg, NEW a, Settled(table, arg)
      PROVE  ValueAt(wider, arg, a) = ValueAt(table, arg, a) /\ Settled(wider, arg)
  <2>1. Settled(wider, arg)
    BY <1>1, <1>2 DEF Settled
  <2>2. arg.base \in {NoName, "$"} \/ arg.base \in DOMAIN table \/ arg.base \in DOMAIN BuiltIns
    BY <1>2 DEF Settled
  <2>3. arg.base \notin {NoName, "$"} => (arg.base \in DOMAIN wider <=> arg.base \in DOMAIN table)
    BY <1>1, <2>2
  <2>4. ValueAt(wider, arg, a) = ValueAt(table, arg, a)
    BY <1>1, <2>3 DEF ValueAt
  <2>5. QED
    BY <2>1, <2>4
<1>3. ASSUME NEW n \in 1..(k - 1)
      PROVE  /\ addrs[n + 1] = After(wider, lines[n], addrs[n])
             /\ lines[n].op = "ORG" => Settled(wider, lines[n].arg)
  BY <1>2 DEF Traced, After
<1>4. ASSUME NEW n \in 1..(k - 1), lines[n].label # NoName, lines[n].op # "EQU"
      PROVE  lines[n].label \in DOMAIN wider /\ wider[lines[n].label] = addrs[n]
  BY <1>1, <1>4 DEF Traced
<1>5. QED
  BY <1>3, <1>4 DEF Traced, wider

(* The label of line at has no other value yet. *)
LEMMA FreshLabel ==
  ASSUME at \in Nat \ {0}, FirstPass, AllDefinedOnce, at \in DOMAIN lines,
         \E S : lines \in Seq(S), Here.label # NoName
  PROVE  Here.label \notin DOMAIN symbols /\ Here.label \notin DOMAIN BuiltIns
<1>1. Definitions(Here.label) = {at} /\ Here.label \notin DOMAIN BuiltIns
  BY DEF AllDefinedOnce, Here
<1>2. ASSUME Here.label \in DOMAIN symbols PROVE FALSE
  <2>1. PICK n \in 1..(at - 1) : lines[n].label = Here.label
    BY <1>2 DEF FirstPass
  <2>2. n \in DOMAIN lines
    <3>1. PICK S : lines \in Seq(S)
      OBVIOUS
    <3>2. QED
      BY <2>1, <3>1
  <2>3. n \in Definitions(Here.label)
    BY <2>1, <2>2 DEF Definitions
  <2>4. QED
    BY <1>1, <2>1, <2>3
<1>3. QED
  BY <1>1, <1>2

(* The table with the label of line at, or as it was. *)
LEMMA TraceStays ==
  ASSUME at \in Nat \ {0}, FirstPass, AllDefinedOnce, at \in DOMAIN lines,
         \E S : lines \in Seq(S), NEW addrs, Traced(lines, addrs, symbols, at), NEW v
  PROVE  Traced(lines, addrs, WithSymbol(Here.label, v), at)
<1>1. CASE Here.label = NoName
  BY <1>1 DEF WithSymbol
<1>2. CASE Here.label # NoName
  <2>1. Here.label \notin DOMAIN symbols /\ Here.label \notin DOMAIN BuiltIns
    BY <1>2, FreshLabel
  <2>2. Traced(lines, addrs, With(symbols, Here.label, v), at)
    BY <1>2, <2>1, TableGrows
  <2>3. QED
    BY <1>2, <2>2 DEF WithSymbol
<1>3. QED
  BY <1>1, <1>2

(* One line further. *)
LEMMA TraceGoesOn ==
  ASSUME NEW addrs, NEW table, NEW k \in Nat \ {0}, Traced(lines, addrs, table, k),
         lines[k].op = "ORG" => Settled(table, lines[k].arg),
         lines[k].label # NoName /\ lines[k].op # "EQU" =>
            lines[k].label \in DOMAIN table /\ table[lines[k].label] = addrs[k],
         NEW a, a = After(table, lines[k], addrs[k])
  PROVE  \E next : Traced(lines, next, table, k + 1) /\ next[k + 1] = a
<1> DEFINE next == [n \in 1..(k + 1) |-> IF n = k + 1 THEN a ELSE addrs[n]]
<1>1. next[k + 1] = a /\ \A n \in 1..k : next[n] = addrs[n]
  OBVIOUS
<1> HIDE DEF next
<1>2. next[1] = 0
  BY <1>1 DEF Traced
<1>3. ASSUME NEW n \in 1..k
      PROVE  /\ next[n + 1] = After(table, lines[n], next[n])
             /\ lines[n].op = "ORG" => Settled(table, lines[n].arg)
             /\ lines[n].label # NoName /\ lines[n].op # "EQU" =>
                  /\ lines[n].label \in DOMAIN table
                  /\ table[lines[n].label] = next[n]
  <2>1. CASE n = k
    BY <1>1, <2>1
  <2>2. CASE n # k
    <3>1. n \in 1..(k - 1) /\ n + 1 \in 1..k
      BY <2>2
    <3>2. QED
      BY <1>1, <3>1 DEF Traced
  <2>3. QED
    BY <2>1, <2>2
<1>4. k + 1 - 1 = k
  OBVIOUS
<1>5. Traced(lines, next, table, k + 1)
  BY <1>2, <1>3, <1>4 DEF Traced
<1>6. QED
  BY <1>1, <1>5

(***************************************************************************)
(* The steps                                                                *)
(***************************************************************************)
LEMMA AsmStarts == AsmInit => AsmInv
<1> SUFFICES ASSUME AsmInit PROVE AsmInv
  OBVIOUS
<1>1. at = 1 /\ phase = "preprocess" /\ lines = <<>> /\ symbols = NoEntries /\ lc = 0
      /\ placed = NoEntries
  BY DEF AsmInit
<1>2. lines \in Seq({})
  BY <1>1
<1>3. QED
  BY <1>1, <1>2 DEF AsmInv

(* preprocess leaves the passes alone, and gives at most one line at a time. *)
LEMMA PreprocessGoes ==
  ASSUME Preprocess
  PROVE  /\ phase = "preprocess" /\ UNCHANGED passVars
         /\ lines' = lines \/ \E l : lines' = Append(lines, l)
         /\ \/ phase' \in {"preprocess", "failed"} /\ (at' = at \/ at' = at + 1)
            \/ phase' = "pass1" /\ at' = 1
<1> DEFINE Same == phase = "preprocess" /\ UNCHANGED passVars
           Grows == lines' = lines \/ \E l : lines' = Append(lines, l)
           Goes == \/ phase' = phase /\ at' = at + 1
                   \/ phase' = phase /\ at' = at
                   \/ phase' = "failed" /\ at' = at
                   \/ phase' = "pass1" /\ at' = 1
<1>1. Same /\ Grows /\ Goes
  <2>1. CASE ReadMacroBody
    BY <2>1 DEF ReadMacroBody, AtRawLine, NextRaw
  <2>2. CASE ReadCblockEntry
    <3>1. phase = "preprocess" /\ (NextRaw \/ FailsHere)
      BY <2>2, SMTT(20) DEF ReadCblockEntry, AtRawLine
    <3>2. Same /\ Goes
      BY <3>1 DEF NextRaw, FailsHere, Fails
    <3>3. Grows
      BY <2>2, SMTT(20) DEF ReadCblockEntry
    <3>4. QED
      BY <3>2, <3>3
  <2>3. CASE CloseCblock
    BY <2>3 DEF CloseCblock, AtRawLine, NextRaw
  <2>4. CASE ReadHashLine
    BY <2>4 DEF ReadHashLine, AtRawLine, NextRaw, FailsHere, Fails
  <2>5. CASE OpenCblock
    <3>1. phase = "preprocess" /\ lines' = lines
      BY <2>5 DEF OpenCblock, AtRawLine
    <3>2. NextRaw \/ FailsHere
      BY <2>5 DEF OpenCblock
    <3>3. QED
      BY <3>1, <3>2 DEF NextRaw, FailsHere, Fails
  <2>6. CASE OpenMacro
    BY <2>6 DEF OpenMacro, AtRawLine, NextRaw
  <2>7. CASE ReadPlainLine
    BY <2>7, ZenonT(30) DEF ReadPlainLine, AtRawLine, NextRaw
  <2>8. CASE Expand
    <3>1. Same /\ Goes
      BY <2>8, ZenonT(30) DEF Expand, Fails
    <3>2. Grows
      BY <2>8, ZenonT(30) DEF Expand
    <3>3. QED
      BY <3>1, <3>2
  <2>9. CASE FinishPreprocess
    BY <2>9 DEF FinishPreprocess, preVars, Fails
  <2>10. QED
    BY <2>1, <2>2, <2>3, <2>4, <2>5, <2>6, <2>7, <2>8, <2>9 DEF Preprocess
<1>2. QED
  BY <1>1

LEMMA PreprocessStep ==
  ASSUME AsmInv, Preprocess
  PROVE  AsmInv'
<1> DEFINE Grows == lines' = lines \/ \E l : lines' = Append(lines, l)
<1>2. \/ phase' \in {"preprocess", "failed"} /\ (at' = at \/ at' = at + 1)
      \/ phase' = "pass1" /\ at' = 1
  BY PreprocessGoes
<1>3. Grows /\ symbols' = symbols /\ lc' = lc /\ placed' = placed /\ phase = "preprocess"
  BY PreprocessGoes DEF passVars
<1>4. \E S : lines' \in Seq(S)
  <2>1. PICK S : lines \in Seq(S)
    BY DEF AsmInv
  <2>2. ASSUME NEW l, lines' = Append(lines, l)
        PROVE  lines' \in Seq(S \cup {l})
    BY <2>1, <2>2
  <2>3. QED
    BY <1>3, <2>1, <2>2
<1>6. symbols' = NoEntries /\ lc' = 0 /\ placed' = NoEntries
  BY <1>3 DEF AsmInv
<1>7. at' \in Nat \ {0}
  <2>1. at \in Nat \ {0} /\ (at' = at \/ at' = at + 1 \/ at' = 1)
    BY <1>2 DEF AsmInv
  <2>2. QED
    BY <2>1
<1>8. ASSUME phase' = "pass1" PROVE at' <= Len(lines') + 1 /\ FirstPass'
  <2>1. at' = 1
    BY <1>2, <1>8
  <2>2. Len(lines') \in Nat
    BY <1>4
  <2>3. \A name : name \notin DOMAIN symbols'
    BY <1>6 DEF NoEntries
  <2>4. \E addrs : Traced(lines', addrs, symbols', 1) /\ addrs[1] = 0
    <3> DEFINE zero == [n \in {1} |-> 0]
    <3>1. zero[1] = 0
      OBVIOUS
    <3>2. Traced(lines', zero, symbols', 1)
      BY <3>1 DEF Traced
    <3>3. QED
      BY <3>1, <3>2
  <2>5. FirstPass'
    BY <1>6, <2>1, <2>3, <2>4, Zenon DEF FirstPass
  <2>6. QED
    BY <2>1, <2>2, <2>5
<1>9. phase' \in {"preprocess", "failed", "pass1"}
  BY <1>2
<1>10. QED
  BY <1>4, <1>6, <1>7, <1>8, <1>9 DEF AsmInv

(* Neither pass touches the source, nor the lines. *)
LEMMA LinesStay ==
  ASSUME Elsewhere
  PROVE  lines' = lines /\ (AllDefinedOnce' <=> AllDefinedOnce)
BY DEF Elsewhere, preVars, AllDefinedOnce, Definitions

(* A step of the first pass that takes line at. *)
LEMMA FirstPassGoesOn ==
  ASSUME AsmInv, AtLine("pass1"), Elsewhere, placed' = placed,
         at' = at + 1, phase' = phase,
         NEW v, symbols' = WithSymbol(Here.label, v),
         Here.op = "ORG" => Settled(symbols', Here.arg),
         Here.op # "EQU" => v = lc,
         AllDefinedOnce => lc' = After(symbols', Here, lc)
  PROVE  AsmInv'
<1>1. /\ at \in Nat \ {0} /\ phase = "pass1" /\ at <= Len(lines) /\ FirstPass
      /\ placed = NoEntries
  BY DEF AsmInv, AtLine
<1>2. PICK S : lines \in Seq(S)
  BY DEF AsmInv
<1>3. at \in DOMAIN lines /\ Len(lines) \in Nat
  <2>1. Len(lines) \in Nat /\ DOMAIN lines = 1..Len(lines)
    BY <1>2
  <2>2. at \in 1..Len(lines)
    BY <1>1, <2>1
  <2>3. QED
    BY <2>1, <2>2
<1>4. lines' = lines /\ (AllDefinedOnce' <=> AllDefinedOnce)
  BY LinesStay
<1>5. \A name \in DOMAIN symbols' : \E n \in 1..at : lines[n].label = name
  <2>1. \A name \in DOMAIN symbols' : name \in DOMAIN symbols \/ name = Here.label
    BY DEF WithSymbol, With
  <2>2. QED
    BY <1>1, <2>1 DEF FirstPass, Here
<1>6. ASSUME AllDefinedOnce
      PROVE  \E next : Traced(lines, next, symbols', at + 1) /\ next[at + 1] = lc'
  <2>1. PICK addrs : Traced(lines, addrs, symbols, at) /\ addrs[at] = lc
    BY <1>1, <1>6 DEF FirstPass
  <2>2. Traced(lines, addrs, symbols', at)
    BY <1>1, <1>2, <1>3, <1>6, <2>1, TraceStays
  <2>3. Here.label # NoName /\ Here.op # "EQU" =>
          Here.label \in DOMAIN symbols' /\ symbols'[Here.label] = addrs[at]
    BY <2>1 DEF WithSymbol, With
  <2>4. lc' = After(symbols', Here, addrs[at])
    BY <1>6, <2>1
  <2>5. QED
    BY <1>1, <2>2, <2>3, <2>4, TraceGoesOn DEF Here
<1>7. at' - 1 = at
  BY <1>1
<1>8. FirstPass'
  <2>1. \A name \in DOMAIN symbols' : \E n \in 1..(at' - 1) : lines'[n].label = name
    BY <1>4, <1>5, <1>7
  <2>2. AllDefinedOnce' =>
          \E addrs : Traced(lines', addrs, symbols', at') /\ addrs[at'] = lc'
    BY <1>4, <1>6
  <2>3. QED
    BY <2>1, <2>2, Zenon DEF FirstPass
<1>9. QED
  BY <1>1, <1>2, <1>3, <1>4, <1>8 DEF AsmInv

(* A step that fails. *)
LEMMA FailingStep ==
  ASSUME AsmInv, lines' = lines, phase' = "failed", at' = at
  PROVE  AsmInv'
BY DEF AsmInv

LEMMA DefineStep ==
  ASSUME AsmInv, Define
  PROVE  AsmInv'
<1>1. /\ AtLine("pass1") /\ Here.op = "EQU" /\ Elsewhere /\ lc' = lc /\ placed' = placed
  BY DEF Define
<1>2. lines' = lines
  BY <1>1, LinesStay
<1>3. CASE Here.label # NoName /\ Defined(Here.arg)
  <2>1. symbols' = WithSymbol(Here.label, Value(Here.arg))
    BY <1>3 DEF Define
  <2>2. at' = at + 1 /\ phase' = phase
    BY <1>3 DEF Define, Takes
  <2>3. After(symbols', Here, lc) = lc
    BY <1>1, Sizes DEF After
  <2>4. QED
    BY <1>1, <2>1, <2>2, <2>3, FirstPassGoesOn
<1>4. CASE ~(Here.label # NoName /\ Defined(Here.arg))
  <2>1. phase' = "failed" /\ at' = at
    BY <1>4 DEF Define, Takes, Fails
  <2>2. QED
    BY <1>2, <2>1, FailingStep
<1>5. QED
  BY <1>3, <1>4

LEMMA LocateStep ==
  ASSUME AsmInv, Locate
  PROVE  AsmInv'
<1> DEFINE op == Here.op
           ok == op # "DW" /\ (Known(op) \/ (op = "none" /\ Here.arg = NoArg))
<1>1. AtLine("pass1") /\ op \notin {"EQU", "ORG", "END"} /\ Elsewhere /\ placed' = placed
  BY DEF Locate
<1>2. /\ Takes(ok)
      /\ symbols' = IF op = "DW" THEN symbols ELSE WithSymbol(Here.label, lc)
      /\ lc' = IF ok /\ SizeOf(op) > 0 THEN lc + SizeOf(op) ELSE lc
  BY DEF Locate
<1>3. lines' = lines
  BY <1>1, LinesStay
<1>4. CASE ok
  <2>1. symbols' = WithSymbol(Here.label, lc)
    BY <1>2, <1>4
  <2>2. at' = at + 1 /\ phase' = phase
    BY <1>2, <1>4 DEF Takes
  <2>3. lc' = After(symbols', Here, lc)
    BY <1>1, <1>2, <1>4 DEF After
  <2>4. QED
    BY <1>1, <2>1, <2>2, <2>3, FirstPassGoesOn
<1>5. CASE ~ok
  <2>1. phase' = "failed" /\ at' = at
    BY <1>2, <1>5 DEF Takes, Fails
  <2>2. QED
    BY <1>3, <2>1, FailingStep
<1>6. QED
  BY <1>4, <1>5

LEMMA RelocateStep ==
  ASSUME AsmInv, Relocate
  PROVE  AsmInv'
<1> DEFINE labelled == Here.arg.base = Here.label /\ Here.label # NoName
           ok == labelled \/ Defined(Here.arg)
<1>1. AtLine("pass1") /\ Here.op = "ORG" /\ Elsewhere /\ placed' = placed
  BY DEF Relocate
<1>2. /\ Takes(ok) /\ symbols' = WithSymbol(Here.label, lc)
      /\ lc' = IF ~ok THEN lc
               ELSE IF labelled THEN (Here.arg.plus + lc) % 8192 ELSE Origin(Here.arg)
  BY DEF Relocate
<1>3. lines' = lines
  BY <1>1, LinesStay
<1>4. CASE ok
  <2>1. at' = at + 1 /\ phase' = phase
    BY <1>2, <1>4 DEF Takes
  <2>2. Settled(symbols', Here.arg)
    BY <1>2, <1>4 DEF Settled, Defined, WithSymbol, With
  <2>3. After(symbols', Here, lc) = ValueAt(symbols', Here.arg, lc) % 8192
    BY <1>1 DEF After
  <2>4. ASSUME labelled PROVE lc' = After(symbols', Here, lc)
    <3>1. lc' = (Here.arg.plus + lc) % 8192
      BY <1>2, <1>4, <2>4
    <3>2. Here.arg.base \in DOMAIN symbols' /\ symbols'[Here.arg.base] = lc
      BY <1>2, <2>4 DEF WithSymbol, With
    <3>3. ValueAt(symbols', Here.arg, lc) = Here.arg.plus + lc
      BY <2>4, <3>2 DEF ValueAt
    <3>4. QED
      BY <2>3, <3>1, <3>3
  <2>5. ASSUME ~labelled PROVE lc' = After(symbols', Here, lc)
    <3>1. lc' = Origin(Here.arg)
      BY <1>2, <1>4, <2>5
    <3>2. ValueAt(symbols', Here.arg, lc) = ValueAt(symbols, Here.arg, lc)
      BY <1>2, <2>5 DEF ValueAt, WithSymbol, With
    <3>3. QED
      BY <2>3, <3>1, <3>2, ValueHere DEF Origin
  <2>6. QED
    BY <1>1, <1>2, <2>1, <2>2, <2>4, <2>5, FirstPassGoesOn
<1>5. CASE ~ok
  <2>1. phase' = "failed" /\ at' = at
    BY <1>2, <1>5 DEF Takes, Fails
  <2>2. QED
    BY <1>3, <2>1, FailingStep
<1>6. QED
  BY <1>4, <1>5

LEMMA FinishPass1Step ==
  ASSUME AsmInv, FinishPass1
  PROVE  AsmInv'
<1>1. /\ phase = "pass1" /\ phase' = "pass2" /\ at' = 1 /\ lc' = 0 /\ placed' = placed
      /\ Elsewhere
  BY DEF FinishPass1
<1>2. lines' = lines /\ (AllDefinedOnce' <=> AllDefinedOnce)
  BY <1>1, LinesStay
<1>3. at \in Nat \ {0} /\ at <= Len(lines) + 1 /\ FirstPass /\ placed = NoEntries
  BY <1>1 DEF AsmInv
<1>4. PICK S : lines \in Seq(S)
  BY DEF AsmInv
<1>5. ASSUME AllDefinedOnce PROVE \E addrs, last : Follows(addrs, last)'
  <2>1. PICK addrs : Traced(lines, addrs, symbols, at) /\ addrs[at] = lc
    BY <1>3, <1>5 DEF FirstPass
  <2>2. Traced(lines, addrs, symbols', at)
    <3>1. CASE symbols' = symbols
      BY <2>1, <3>1
    <3>2. CASE at <= Len(lines) /\ symbols' = WithSymbol(Here.label, lc)
      <4>1. at \in DOMAIN lines
        BY <1>3, <1>4, <3>2
      <4>2. QED
        BY <1>3, <1>4, <1>5, <2>1, <3>2, <4>1, TraceStays
    <3>3. QED
      BY <3>1, <3>2 DEF FinishPass1
  <2>3. at > Len(lines) \/ lines[at].op = "END"
    BY DEF FinishPass1, Here
  <2>4. addrs[1] = 0
    BY <2>1 DEF Traced
  <2>5. \A n \in DOMAIN placed' : FALSE
    BY <1>1, <1>3 DEF NoEntries
  <2>6. PICK last : last = at
    OBVIOUS
  <2>7. Follows(addrs, last)'
    BY <1>1, <1>2, <1>3, <2>2, <2>3, <2>4, <2>5, <2>6 DEF Follows
  <2>8. QED
    BY <2>7
<1>6. SecondPass'
  BY <1>2, <1>5 DEF SecondPass
<1>7. QED
  BY <1>1, <1>2, <1>4, <1>6 DEF AsmInv

(* A step of the second pass that takes line at. *)
LEMMA SecondPassGoesOn ==
  ASSUME AsmInv, AtLine("pass2"), Here.op # "END", Elsewhere, symbols' = symbols,
         at' = at + 1, phase' = phase, placed' = With(placed, at, lc),
         lc' = After(symbols, Here, lc)
  PROVE  AsmInv'
<1>1. /\ at \in Nat \ {0} /\ phase = "pass2" /\ at <= Len(lines) /\ SecondPass
  BY DEF AsmInv, AtLine
<1>2. PICK S : lines \in Seq(S)
  BY DEF AsmInv
<1>3. lines' = lines /\ (AllDefinedOnce' <=> AllDefinedOnce) /\ Len(lines) \in Nat
  BY <1>2, LinesStay
<1>4. ASSUME AllDefinedOnce PROVE \E addrs, last : Follows(addrs, last)'
  <2>1. PICK addrs, last : Follows(addrs, last)
    BY <1>1, <1>4 DEF SecondPass
  <2>2. /\ Traced(lines, addrs, symbols, last) /\ last \in Nat
        /\ last > Len(lines) \/ lines[last].op = "END"
        /\ at <= last /\ addrs[at] = lc
        /\ \A n \in DOMAIN placed : n \in 1..last /\ n < last /\ placed[n] = addrs[n]
    BY <2>1 DEF Follows
  <2>3. at < last
    <3>1. at # last
      BY <1>1, <1>3, <2>2 DEF Here
    <3>2. QED
      BY <1>1, <2>2, <3>1
  <2>4. addrs[at + 1] = lc'
    <3>1. at \in 1..(last - 1)
      BY <1>1, <2>2, <2>3
    <3>2. addrs[at + 1] = After(symbols, lines[at], addrs[at])
      BY <2>2, <3>1 DEF Traced
    <3>3. QED
      BY <2>2, <3>2 DEF Here
  <2>5. \A n \in DOMAIN placed' : n \in 1..last /\ n < last /\ placed'[n] = addrs[n]
    <3>1. /\ DOMAIN placed' = DOMAIN placed \cup {at} /\ placed'[at] = lc
          /\ \A n \in DOMAIN placed : n # at => placed'[n] = placed[n]
      BY DEF With
    <3>2. at \in 1..last
      BY <1>1, <2>2
    <3>3. QED
      BY <2>2, <2>3, <3>1, <3>2
  <2>6. at' <= last /\ addrs[at'] = lc'
    BY <1>1, <2>2, <2>3, <2>4
  <2>7. Follows(addrs, last)'
    BY <1>3, <2>2, <2>5, <2>6 DEF Follows
  <2>8. QED
    BY <2>7
<1>5. SecondPass'
  BY <1>3, <1>4 DEF SecondPass
<1>6. QED
  BY <1>1, <1>2, <1>3, <1>5 DEF AsmInv

LEMMA PassStep ==
  ASSUME AsmInv, Pass
  PROVE  AsmInv'
<1>1. /\ AtLine("pass2") /\ Here.op \in {"none", "EQU", "LIST"} /\ Elsewhere
      /\ symbols' = symbols /\ lc' = lc /\ at' = at + 1 /\ phase' = phase
      /\ placed' = With(placed, at, lc)
  BY DEF Pass, Takes, NotePlace
<1>2. After(symbols, Here, lc) = lc /\ Here.op # "END"
  BY <1>1, Sizes DEF After
<1>3. QED
  BY <1>1, <1>2, SecondPassGoesOn

LEMMA RelocateAgainStep ==
  ASSUME AsmInv, RelocateAgain
  PROVE  AsmInv'
<1>1. /\ AtLine("pass2") /\ Here.op = "ORG" /\ Elsewhere /\ symbols' = symbols
      /\ at' = at + 1 /\ phase' = phase /\ placed' = With(placed, at, lc)
      /\ lc' = Origin(Here.arg)
  BY DEF RelocateAgain, Takes, NotePlace
<1>2. lc' = After(symbols, Here, lc) /\ Here.op # "END"
  BY <1>1, ValueHere DEF After, Origin
<1>3. QED
  BY <1>1, <1>2, SecondPassGoesOn

LEMMA ConfigureStep ==
  ASSUME AsmInv, Configure
  PROVE  AsmInv'
<1>1. /\ AtLine("pass2") /\ Here.op = "__CONFIG" /\ Elsewhere /\ symbols' = symbols
      /\ lc' = lc /\ placed' = With(placed, at, lc) /\ Takes(Defined(Here.arg))
  BY DEF Configure, NotePlace
<1>2. After(symbols, Here, lc) = lc /\ Here.op # "END"
  BY <1>1, Sizes DEF After
<1>3. CASE Defined(Here.arg)
  <2>1. at' = at + 1 /\ phase' = phase
    BY <1>1, <1>3 DEF Takes
  <2>2. QED
    BY <1>1, <1>2, <2>1, SecondPassGoesOn
<1>4. CASE ~Defined(Here.arg)
  <2>1. phase' = "failed" /\ at' = at
    BY <1>1, <1>4 DEF Takes, Fails
  <2>2. QED
    BY <1>1, <2>1, LinesStay, FailingStep
<1>5. QED
  BY <1>3, <1>4

(* A line of as many words as the first pass counted. *)
LEMMA PutStep ==
  ASSUME AsmInv, AtLine("pass2"), NEW ok, NEW ws, Put(ok, ws),
         Here.op \notin {"END", "ORG"}, SizeOf(Here.op) > 0, Len(ws) = SizeOf(Here.op)
  PROVE  AsmInv'
<1>1. Elsewhere /\ symbols' = symbols /\ placed' = With(placed, at, lc) /\ Takes(ok /\ Fits(ws))
  BY DEF Put, NotePlace
<1>2. CASE ok /\ Fits(ws)
  <2>1. at' = at + 1 /\ phase' = phase
    BY <1>1, <1>2 DEF Takes
  <2>2. lc' = After(symbols, Here, lc)
    BY <1>2 DEF Put, After
  <2>3. QED
    BY <1>1, <2>1, <2>2, SecondPassGoesOn
<1>3. CASE ~(ok /\ Fits(ws))
  <2>1. phase' = "failed" /\ at' = at
    BY <1>1, <1>3 DEF Takes, Fails
  <2>2. QED
    BY <1>1, <2>1, LinesStay, FailingStep
<1>4. QED
  BY <1>2, <1>3

LEMMA SelectBankStep ==
  ASSUME AsmInv, SelectBank
  PROVE  AsmInv'
<1>1. AtLine("pass2") /\ Here.op = "BANKSEL"
  BY DEF SelectBank
<1>2. \E ok, ws : Put(ok, ws) /\ Len(ws) = 2
  <2> DEFINE ok == Here.arg.base # NoName /\ Here.arg.plus = 0 /\ Defined(Here.arg)
             v == IF ok THEN Value(Here.arg) % 512 ELSE 0
             SetOrClear(bit, on) == Encode([m |-> IF on = 1 THEN "BSF" ELSE "BCF",
                                            f |-> 3, d |-> FALSE, bit |-> bit, k |-> 0])
             ws == <<SetOrClear(5, Bit(v, 7)), SetOrClear(6, Bit(v, 8))>>
  <2>1. Put(ok, ws)
    BY DEF SelectBank
  <2>2. Len(ws) = 2
    OBVIOUS
  <2>3. QED
    BY <2>1, <2>2
<1>3. PICK ok, ws : Put(ok, ws) /\ Len(ws) = 2
  BY <1>2
<1>4. SizeOf(Here.op) = 2 /\ Here.op \notin {"END", "ORG"}
  BY <1>1, Sizes
<1>5. SizeOf(Here.op) > 0 /\ Len(ws) = SizeOf(Here.op)
  BY <1>3, <1>4
<1>6. QED
  BY <1>1, <1>3, <1>4, <1>5, PutStep, Zenon

LEMMA EmitStep ==
  ASSUME AsmInv, Emit
  PROVE  AsmInv'
<1>1. AtLine("pass2") /\ Here.op \in DOMAIN OPS
  BY DEF Emit
<1>2. \E ok, code : Put(ok, <<code>>)
  BY Zenon DEF Emit
<1>3. PICK ok, code : Put(ok, <<code>>)
  BY <1>2
<1>4. Len(<<code>>) = 1
  OBVIOUS
<1>5. SizeOf(Here.op) = 1 /\ Here.op \notin {"END", "ORG"}
  BY <1>1, Sizes
<1>6. QED
  BY <1>1, <1>3, <1>4, <1>5, PutStep

LEMMA FinishPass2Step ==
  ASSUME AsmInv, FinishPass2
  PROVE  AsmInv'
<1>1. phase = "pass2" /\ phase' = "assembled" /\ at' = at /\ Elsewhere
      /\ symbols' = symbols /\ placed' = placed
  BY DEF FinishPass2, passVars
<1>2. lines' = lines /\ (AllDefinedOnce' <=> AllDefinedOnce)
  BY <1>1, LinesStay
<1>3. at \in Nat \ {0} /\ (\E S : lines \in Seq(S)) /\ SecondPass
  BY <1>1 DEF AsmInv
<1>4. Done'
  <2> SUFFICES ASSUME AllDefinedOnce
               PROVE \E addrs, last :
                       /\ Traced(lines, addrs, symbols, last) /\ last \in Nat
                       /\ \A n \in DOMAIN placed : n \in 1..(last - 1) /\ placed[n] = addrs[n]
    BY <1>1, <1>2 DEF Done
  <2>1. PICK addrs, last : Follows(addrs, last)
    BY <1>3 DEF SecondPass
  <2>2. \A n \in DOMAIN placed : n \in 1..(last - 1) /\ placed[n] = addrs[n]
    BY <2>1 DEF Follows
  <2>3. Traced(lines, addrs, symbols, last) /\ last \in Nat
    BY <2>1 DEF Follows
  <2>4. QED
    BY <2>2, <2>3
<1>5. QED
  BY <1>1, <1>2, <1>3, <1>4 DEF AsmInv

LEMMA AsmStep == AsmInv /\ [AsmNext]_asmVars => AsmInv'
<1> SUFFICES ASSUME AsmInv, [AsmNext]_asmVars PROVE AsmInv'
  OBVIOUS
<1>1. CASE Preprocess
  BY <1>1, PreprocessStep
<1>2. CASE Pass1
  BY <1>2, DefineStep, LocateStep, RelocateStep, FinishPass1Step DEF Pass1
<1>3. CASE Pass2
  BY <1>3, PassStep, RelocateAgainStep, ConfigureStep, SelectBankStep, EmitStep,
     FinishPass2Step DEF Pass2
<1>4. CASE UNCHANGED asmVars
  <2>1. at' = at /\ lines' = lines /\ phase' = phase /\ symbols' = symbols /\ lc' = lc
        /\ placed' = placed
    BY <1>4 DEF asmVars
  <2>2. QED
    BY <2>1 DEF AsmInv, FirstPass, SecondPass, Done, Follows, AllDefinedOnce, Definitions
<1>5. QED
  BY <1>1, <1>2, <1>3, <1>4 DEF AsmNext

(* Whatever program is assembled, with whatever macros, CBLOCKs, #defines,     *)
(* ORGs and forward references: when no name has two definitions, a label is *)
(* the address at which the second pass of assembleInner puts its line.     *)
THEOREM LabelsAreAddresses == AsmSpec => []LabelsNameTheirCode
<1>1. AsmInv => LabelsNameTheirCode
  <2> SUFFICES ASSUME AsmInv, phase = "assembled", AllDefinedOnce, NEW n \in DOMAIN placed,
                      lines[n].label # NoName, lines[n].op # "EQU"
               PROVE  symbols[lines[n].label] = placed[n]
    BY DEF LabelsNameTheirCode, IsPlace
  <2>1. Done
    BY DEF AsmInv
  <2>2. PICK addrs, last : /\ Traced(lines, addrs, symbols, last)
                           /\ \A m \in DOMAIN placed : m \in 1..(last - 1) /\ placed[m] = addrs[m]
    BY <2>1 DEF Done
  <2>3. n \in 1..(last - 1) /\ placed[n] = addrs[n]
    BY <2>2
  <2>4. QED
    BY <2>2, <2>3 DEF Traced
<1>2. AsmSpec => []AsmInv
  BY AsmStarts, AsmStep, PTL DEF AsmSpec
<1>3. QED
  BY <1>1, <1>2, PTL

(***************************************************************************)
(* The loader.  Line by line the byte map has, for every address, the last   *)
(* byte that the lines before gave for it (Tells); at the end of the file    *)
(* that is what the whole file says, since nothing behind it counts.         *)
(***************************************************************************)
(* What is so far in a byte map m after the lines before line k of a file f: *)
(* for each address the last byte that is given for it, and no other.        *)
Tells(m, f, k) ==
  /\ m = [a \in DOMAIN m |-> m[a]]
  /\ DOMAIN m = {AddressOf(f, g) : g \in GivenBefore(f, k)}
  /\ DOMAIN m \subseteq Nat \X Nat
  /\ \A a \in DOMAIN m : \E g \in GivenBefore(f, k) :
       /\ AddressOf(f, g) = a /\ ByteOf(f, g) = m[a]
       /\ \A o \in GivenBefore(f, k) : AddressOf(f, o) = a => o[1] <= g[1]

(* No record gives two bytes for one address. *)
OnceARecord(f, k) ==
  \A g, o \in GivenBefore(f, k) :
    g[1] = o[1] /\ AddressOf(f, g) = AddressOf(f, o) => g = o

LoaderTypes ==
  file \in Seq(Lines) /\ lineNo \in Nat \ {0} /\ lineNo <= Len(file) + 1

ReadSoFar ==
  status = "reading" =>
    /\ base = BaseAt(file, lineNo) /\ base \in Nat \X Nat
    /\ Counts(file, lineNo)
    /\ Tells(bytes, file, lineNo) /\ OnceARecord(file, lineNo)

LoaderInv == LoaderTypes /\ ReadSoFar /\ LoadsWhatTheRecordsSay

LEMMA BytesAreSmall == \A x \in Byte : x \in Nat /\ x < 256
BY DEF Byte

LEMMA GivenIs ==
  ASSUME NEW f, NEW k
  PROVE  \A g : g \in GivenBefore(f, k) <=>
           \E n \in 1..(k - 1) : /\ Counts(f, n) /\ IsKind(f, n, {0})
                                 /\ g \in {n} \X (0..(Count(f[n].bytes) - 1))
BY DEF GivenBefore

(* One line on. *)
LEMMA GivenByLine ==
  ASSUME NEW f, NEW k \in Nat \ {0}, Counts(f, k)
  PROVE  /\ IsKind(f, k, {0}) =>
              GivenBefore(f, k + 1) =
                GivenBefore(f, k) \cup ({k} \X (0..(Count(f[k].bytes) - 1)))
         /\ ~IsKind(f, k, {0}) => GivenBefore(f, k + 1) = GivenBefore(f, k)
<1>1. 1..((k + 1) - 1) = (1..(k - 1)) \cup {k}
  OBVIOUS
<1> DEFINE Own(n, g) == /\ Counts(f, n) /\ IsKind(f, n, {0})
                        /\ g \in {n} \X (0..(Count(f[n].bytes) - 1))
<1>2. \A j, g : g \in GivenBefore(f, j) <=> \E n \in 1..(j - 1) : Own(n, g)
  BY GivenIs
<1>3. \A g : g \in GivenBefore(f, k + 1) <=> \E n \in 1..(k - 1) \cup {k} : Own(n, g)
  BY <1>1, <1>2
<1>4. \A g : Own(k, g) <=> IsKind(f, k, {0}) /\ g \in {k} \X (0..(Count(f[k].bytes) - 1))
  OBVIOUS
<1>5. \A g : g \in GivenBefore(f, k + 1) <=>
        \/ g \in GivenBefore(f, k)
        \/ IsKind(f, k, {0}) /\ g \in {k} \X (0..(Count(f[k].bytes) - 1))
  <2> HIDE DEF Own
  <2>1. \A g : g \in GivenBefore(f, k + 1) <=> g \in GivenBefore(f, k) \/ Own(k, g)
    BY <1>2, <1>3
  <2>2. QED
    BY <1>4, <2>1
<1>6. QED
  BY <1>5

LEMMA CountsByLine ==
  ASSUME NEW f, NEW k \in Nat \ {0}, Counts(f, k), ~IsKind(f, k, {1})
  PROVE  Counts(f, k + 1)
<1>1. 1..((k + 1) - 1) = (1..(k - 1)) \cup {k}
  OBVIOUS
<1>2. QED
  BY <1>1, Zenon DEF Counts

LEMMA BaseByLine ==
  ASSUME NEW f, NEW k \in Nat \ {0}
  PROVE  /\ IsKind(f, k, {2, 4}) =>
              BaseAt(f, k + 1) =
                IF Kind(f[k].bytes) = 2 THEN SegmentBase(DataOf(f[k].bytes))
                ELSE LinearBase(DataOf(f[k].bytes))
         /\ ~IsKind(f, k, {2, 4}) => BaseAt(f, k + 1) = BaseAt(f, k)
<1> DEFINE Movers(n) == {m \in 1..(n - 1) : IsKind(f, m, {2, 4})}
           Top(S)    == CHOOSE m \in S : \A o \in S : o <= m
           BaseOf(m) == IF Kind(f[m].bytes) = 2 THEN SegmentBase(DataOf(f[m].bytes))
                        ELSE LinearBase(DataOf(f[m].bytes))
<1>1. \A n : BaseAt(f, n) = IF Movers(n) = {} THEN <<0, 0>> ELSE BaseOf(Top(Movers(n)))
  BY DEF BaseAt
<1>2. 1..((k + 1) - 1) = (1..(k - 1)) \cup {k} /\ \A m \in 1..(k - 1) : m < k
  OBVIOUS
<1>3. CASE IsKind(f, k, {2, 4})
  <2>1. k \in Movers(k + 1) /\ \A o \in Movers(k + 1) : o <= k /\ o \in Nat
    BY <1>2, <1>3
  <2>2. Top(Movers(k + 1)) = k
    <3> HIDE DEF Movers
    <3>1. \E m \in Movers(k + 1) : \A o \in Movers(k + 1) : o <= m
      BY <2>1
    <3>2. \A o \in Movers(k + 1) : o <= Top(Movers(k + 1))
      BY <3>1
    <3>3. Top(Movers(k + 1)) \in Movers(k + 1)
      BY <3>1
    <3>4. QED
      BY <2>1, <3>2, <3>3
  <2>3. QED
    BY <1>1, <1>3, <2>1, <2>2
<1>4. CASE ~IsKind(f, k, {2, 4})
  <2>1. Movers(k + 1) = Movers(k)
    BY <1>2, <1>4
  <2>2. QED
    BY <1>1, <1>4, <2>1
<1>5. QED
  BY <1>3, <1>4

----------------------------------------------------------------------------
(* A sound record *)

LEMMA RecordBytes ==
  ASSUME NEW f \in Seq(Lines), NEW k \in Nat \ {0}, k <= Len(f),
         f[k].shape = "record", Fault(f[k]) = "none"
  PROVE  /\ f[k].bytes \in Seq(Byte) /\ Len(f[k].bytes) = Count(f[k].bytes) + 5
         /\ Count(f[k].bytes) \in Byte /\ Kind(f[k].bytes) \in Byte
         /\ f[k].bytes[2] \in Byte /\ f[k].bytes[3] \in Byte
         /\ \A i \in 0..(Count(f[k].bytes) - 1) : f[k].bytes[5 + i] \in Byte
<1> DEFINE b == f[k].bytes
<1>1. f[k] \in Lines
  OBVIOUS
<1>2. b \in Seq(Byte)
  BY <1>1 DEF Lines
<1>3. ~(Len(b) < 5) /\ ~(Len(b) # Count(b) + 5)
  BY DEF Fault
<1> HIDE DEF b
<1>4. Len(b) \in Nat /\ b \in [1..Len(b) -> Byte]
  BY <1>2
<1>5. Len(b) >= 5
  BY <1>3, <1>4
<1>6. b[1] \in Byte /\ b[2] \in Byte /\ b[3] \in Byte /\ b[4] \in Byte
  BY <1>4, <1>5
<1>7. Count(b) \in Byte /\ Kind(b) \in Byte
  BY <1>6 DEF Count, Kind
<1>8. Count(b) \in Nat
  BY <1>7, BytesAreSmall
<1>9. \A i \in 0..(Count(b) - 1) : 5 + i \in 1..Len(b)
  BY <1>3, <1>4, <1>8
<1>10. \A i \in 0..(Count(b) - 1) : b[5 + i] \in Byte
  BY <1>4, <1>9
<1>11. QED
  BY <1>2, <1>3, <1>6, <1>7, <1>10 DEF b

LEMMA Bases ==
  ASSUME NEW d, d[1] \in Byte, d[2] \in Byte
  PROVE  SegmentBase(d) \in Nat \X Nat /\ LinearBase(d) \in Nat \X Nat
<1>1. 256 * d[1] + d[2] \in Nat
  BY BytesAreSmall
<1> DEFINE v == 256 * d[1] + d[2]
<1> HIDE DEF v
<1>2. \A x \in Nat : x \div 4096 \in Nat /\ (16 * x) % 65536 \in Nat
  OBVIOUS
<1>3. SegmentBase(d) = <<v \div 4096, (16 * v) % 65536>> /\ LinearBase(d) = <<v, 0>>
  BY DEF SegmentBase, LinearBase, v
<1>4. QED
  BY <1>1, <1>2, <1>3 DEF v

LEMMA DataBytes ==
  ASSUME NEW f \in Seq(Lines), NEW k \in Nat \ {0}, k <= Len(f),
         f[k].shape = "record", Fault(f[k]) = "none", ~(Count(f[k].bytes) < 2)
  PROVE  DataOf(f[k].bytes)[1] \in Byte /\ DataOf(f[k].bytes)[2] \in Byte
<1> DEFINE b == f[k].bytes
           d == DataOf(b)
<1>1. /\ b \in Seq(Byte) /\ Len(b) = Count(b) + 5 /\ Count(b) \in Nat
      /\ Count(b) >= 2
      /\ \A i \in 0..(Count(b) - 1) : b[5 + i] \in Byte
  <2>1. Count(b) \in Nat
    BY RecordBytes, BytesAreSmall
  <2>2. QED
    BY <2>1, RecordBytes
<1> HIDE DEF b
<1>2. d = [i \in 1..(4 + Count(b) - 5 + 1) |-> b[5 + i - 1]]
  BY <1>1 DEF DataOf
<1>3. 1 \in 1..(4 + Count(b) - 5 + 1) /\ 2 \in 1..(4 + Count(b) - 5 + 1)
  BY <1>1
<1>4. d[1] = b[5 + 1 - 1] /\ d[2] = b[5 + 2 - 1]
  BY <1>2, <1>3
<1>5. b[5 + 0] \in Byte /\ b[5 + 1] \in Byte
  BY <1>1
<1>6. QED
  BY <1>4, <1>5 DEF b

LEMMA MovedBase ==
  ASSUME NEW f \in Seq(Lines), NEW k \in Nat \ {0}, k <= Len(f),
         f[k].shape = "record", Fault(f[k]) = "none", ~(Count(f[k].bytes) < 2)
  PROVE  /\ SegmentBase(DataOf(f[k].bytes)) \in Nat \X Nat
         /\ LinearBase(DataOf(f[k].bytes)) \in Nat \X Nat
BY DataBytes, Bases

----------------------------------------------------------------------------
(* The bytes of a data record                                               *)

(* At most 256 addresses in a row, none of them twice. *)
LEMMA RowOfAddresses ==
  ASSUME NEW bs \in Nat \X Nat, NEW b,
         Count(b) \in Byte, b[2] \in Byte, b[3] \in Byte
  PROVE  /\ \A i \in 0..(Count(b) - 1) : ByteAddress(bs, b, i) \in Nat \X Nat
         /\ \A i, j \in 0..(Count(b) - 1) :
              ByteAddress(bs, b, i) = ByteAddress(bs, b, j) => i = j
<1> DEFINE c == Count(b)
           l == bs[2] + 256 * b[2] + b[3]
           h == bs[1]
<1>1. c \in Nat /\ c < 256 /\ l \in Nat /\ h \in Nat
  BY BytesAreSmall
<1>2. \A i : ByteAddress(bs, b, i) = <<(h + (l + i) \div 65536) % 65536, (l + i) % 65536>>
  BY DEF ByteAddress
<1> HIDE DEF c, l, h
<1>3. \A x \in Nat : x \div 65536 \in Nat /\ x % 65536 \in Nat
  OBVIOUS
<1>4. \A i \in 0..(c - 1) : l + i \in Nat /\ h + (l + i) \div 65536 \in Nat
  BY <1>1, <1>3
<1>5. \A i \in 0..(c - 1) : ByteAddress(bs, b, i) \in Nat \X Nat
  BY <1>2, <1>3, <1>4
<1>6. \A i, j \in 0..(c - 1) : (l + i) % 65536 = (l + j) % 65536 => i = j
  BY <1>1
<1>7. QED
  BY <1>2, <1>5, <1>6 DEF c

NoneTwice(bs, b) ==
  \A i, j \in 0..(Count(b) - 1) :
    ByteAddress(bs, b, i) = ByteAddress(bs, b, j) => i = j

(* The map m has the bytes of record b written over those that were there. *)
WritesOver(m, bs, b) ==
  /\ DOMAIN m = DOMAIN bytes \cup {ByteAddress(bs, b, i) : i \in 0..(Count(b) - 1)}
  /\ m = [a \in DOMAIN m |-> m[a]]
  /\ \A i \in 0..(Count(b) - 1) : m[ByteAddress(bs, b, i)] = b[5 + i]
  /\ \A a \in DOMAIN bytes :
       (\A i \in 0..(Count(b) - 1) : ByteAddress(bs, b, i) # a) => m[a] = bytes[a]

LEMMA WrittenOver ==
  ASSUME NEW bs, NEW b, NoneTwice(bs, b),
         \A i \in 0..(Count(b) - 1) : b[5 + i] \in Byte
  PROVE  WritesOver(WithData(bs, b), bs, b)
<1> DEFINE places == 0..(Count(b) - 1)
           addrs  == {ByteAddress(bs, b, i) : i \in places}
           ByteAt(a) == CHOOSE v \in Byte :
             \E i \in places : a = ByteAddress(bs, b, i) /\ v = b[5 + i]
           m == WithData(bs, b)
<1>1. m = [a \in addrs \cup DOMAIN bytes |-> IF a \in addrs THEN ByteAt(a) ELSE bytes[a]]
  BY DEF WithData
<1>2. ASSUME NEW i \in places
      PROVE  ByteAt(ByteAddress(bs, b, i)) = b[5 + i]
  <2> DEFINE x == ByteAddress(bs, b, i)
  <2>1. \E v \in Byte : \E j \in places : x = ByteAddress(bs, b, j) /\ v = b[5 + j]
    OBVIOUS
  <2>2. \E j \in places : x = ByteAddress(bs, b, j) /\ ByteAt(x) = b[5 + j]
    <3> HIDE DEF places, x
    <3>1. QED
      BY <2>1
  <2>3. QED
    BY <2>2 DEF NoneTwice
<1> HIDE DEF m, ByteAt, places
<1>3. DOMAIN m = DOMAIN bytes \cup addrs
  BY <1>1
<1>4. m = [a \in DOMAIN m |-> m[a]]
  BY <1>1
<1>5. \A i \in places : m[ByteAddress(bs, b, i)] = b[5 + i]
  BY <1>1, <1>2
<1>6. \A a \in DOMAIN bytes : a \notin addrs => m[a] = bytes[a]
  BY <1>1
<1>7. QED
  BY <1>3, <1>4, <1>5, <1>6 DEF WritesOver, m, places

LEMMA GivenEarlier ==
  ASSUME NEW f, NEW k \in Nat \ {0}, NEW g \in GivenBefore(f, k)
  PROVE  g[1] \in Nat /\ g[1] < k /\ \A i : g # <<k, i>>
<1>1. PICK n \in 1..(k - 1) : g \in {n} \X (0..(Count(f[n].bytes) - 1))
  BY GivenIs
<1>2. g[1] = n /\ n \in Nat /\ n < k
  BY <1>1
<1>3. QED
  BY <1>2

(* A data record at line k. *)
LEMMA DataTells ==
  ASSUME NEW f, NEW k \in Nat \ {0}, NEW b, b = f[k].bytes,
         Counts(f, k), IsKind(f, k, {0}),
         base = BaseAt(f, k), base \in Nat \X Nat,
         Tells(bytes, f, k), OnceARecord(f, k),
         Count(b) \in Byte, b[2] \in Byte, b[3] \in Byte,
         \A i \in 0..(Count(b) - 1) : b[5 + i] \in Byte
  PROVE  Tells(WithData(base, b), f, k + 1) /\ OnceARecord(f, k + 1)
<1> DEFINE places == 0..(Count(b) - 1)
           Spot(i) == ByteAddress(base, b, i)
           m   == WithData(base, b)
           old == GivenBefore(f, k)
           new == GivenBefore(f, k + 1)
<1>1. /\ \A i \in places : Spot(i) \in Nat \X Nat
      /\ \A i, j \in places : Spot(i) = Spot(j) => i = j
  BY RowOfAddresses
<1>2. /\ DOMAIN m = DOMAIN bytes \cup {Spot(i) : i \in places}
      /\ m = [a \in DOMAIN m |-> m[a]]
      /\ \A i \in places : m[Spot(i)] = b[5 + i]
      /\ \A a \in DOMAIN bytes : (\A i \in places : Spot(i) # a) => m[a] = bytes[a]
  <2>1. NoneTwice(base, b)
    BY <1>1 DEF NoneTwice
  <2>2. WritesOver(m, base, b)
    BY <2>1, WrittenOver
  <2>3. QED
    BY <2>2 DEF WritesOver
<1>3. new = old \cup ({k} \X places)
  BY GivenByLine
<1>4. \A i : AddressOf(f, <<k, i>>) = Spot(i) /\ ByteOf(f, <<k, i>>) = b[5 + i]
  BY DEF AddressOf, ByteAddress, ByteOf
<1>5. \A g \in old : g[1] \in Nat /\ g[1] < k
  BY GivenEarlier
<1>6. \A g : g \in {k} \X places <=> \E i \in places : g = <<k, i>>
  OBVIOUS
<1> HIDE DEF places, Spot, m, old, new
<1>7. DOMAIN m = {AddressOf(f, g) : g \in new}
  <2>1. DOMAIN bytes = {AddressOf(f, g) : g \in old}
    BY DEF Tells, old
  <2>2. \A a : (\E g \in {k} \X places : a = AddressOf(f, g))
                  <=> \E i \in places : a = Spot(i)
    BY <1>4, <1>6, ZenonT(60)
  <2>3. QED
    BY <1>2, <1>3, <2>1, <2>2
<1>8. DOMAIN m \subseteq Nat \X Nat
  BY <1>1, <1>2 DEF Tells
<1>9. ASSUME NEW a \in DOMAIN m
      PROVE  \E g \in new : /\ AddressOf(f, g) = a /\ ByteOf(f, g) = m[a]
                            /\ \A o \in new : AddressOf(f, o) = a => o[1] <= g[1]
  <2>1. CASE \E i \in places : Spot(i) = a
    <3>1. PICK i \in places : Spot(i) = a
      BY <2>1
    <3>2. <<k, i>> \in new /\ AddressOf(f, <<k, i>>) = a /\ ByteOf(f, <<k, i>>) = m[a]
      BY <1>2, <1>3, <1>4, <1>6, <3>1
    <3>3. \A o \in new : o[1] <= k
      BY <1>3, <1>5, <1>6
    <3>4. QED
      BY <3>2, <3>3
  <2>2. CASE ~\E i \in places : Spot(i) = a
    <3>1. a \in DOMAIN bytes /\ m[a] = bytes[a]
      BY <1>2, <2>2
    <3>2. PICK g \in old : /\ AddressOf(f, g) = a /\ ByteOf(f, g) = bytes[a]
                           /\ \A o \in old : AddressOf(f, o) = a => o[1] <= g[1]
      BY <3>1 DEF Tells, old
    <3>3. \A o \in new : AddressOf(f, o) = a => o \in old
      BY <1>3, <1>4, <1>6, <2>2
    <3>4. QED
      BY <1>3, <3>1, <3>2, <3>3
  <2>3. QED
    BY <2>1, <2>2
<1>10. ASSUME NEW g \in new, NEW o \in new, g[1] = o[1],
              AddressOf(f, g) = AddressOf(f, o)
       PROVE  g = o
  <2>1. CASE g \in old /\ o \in old
    BY <1>10, <2>1 DEF OnceARecord, old
  <2>2. CASE ~(g \in old /\ o \in old)
    <3>1. g \notin old /\ o \notin old
      BY <1>3, <1>5, <1>6, <1>10, <2>2
    <3>2. PICK i \in places, j \in places : g = <<k, i>> /\ o = <<k, j>>
      BY <1>3, <1>6, <3>1
    <3>3. Spot(i) = Spot(j)
      BY <1>4, <1>10, <3>2
    <3>4. QED
      BY <1>1, <3>2, <3>3
  <2>3. QED
    BY <2>1, <2>2
<1>11. QED
  BY <1>2, <1>7, <1>8, <1>9, <1>10 DEF Tells, OnceARecord, m, new

(* Any other line gives no bytes. *)
LEMMA OtherTells ==
  ASSUME NEW f, NEW k \in Nat \ {0}, Counts(f, k), ~IsKind(f, k, {0}),
         Tells(bytes, f, k), OnceARecord(f, k)
  PROVE  Tells(bytes, f, k + 1) /\ OnceARecord(f, k + 1)
<1>1. GivenBefore(f, k + 1) = GivenBefore(f, k)
  BY GivenByLine
<1>2. QED
  BY <1>1 DEF Tells, OnceARecord

----------------------------------------------------------------------------
(* The image                                                                *)

LEMMA LastIsTold ==
  ASSUME NEW f, NEW k, Tells(bytes, f, k), OnceARecord(f, k), NEW a \in DOMAIN bytes
  PROVE  ByteOf(f, LastFor(f, GivenBefore(f, k), a)) = bytes[a]
<1> DEFINE gs == GivenBefore(f, k)
           IsLast(g) == AddressOf(f, g) = a /\ \A o \in gs : AddressOf(f, o) = a => o[1] <= g[1]
<1>1. PICK g \in gs : IsLast(g) /\ ByteOf(f, g) = bytes[a]
  BY DEF Tells
<1>2. LastFor(f, gs, a) = CHOOSE h \in gs : IsLast(h)
  BY DEF LastFor
<1>3. PICK h \in gs : h = LastFor(f, gs, a) /\ IsLast(h)
  <2> HIDE DEF IsLast, gs
  <2>1. QED
    BY <1>1, <1>2
<1>4. \A o \in gs : o[1] \in Nat
  BY GivenIs
<1>5. g[1] <= h[1] /\ h[1] <= g[1] /\ AddressOf(f, g) = AddressOf(f, h)
  BY <1>1, <1>3
<1>6. g[1] = h[1]
  <2>1. g[1] \in Nat /\ h[1] \in Nat
    BY <1>4
  <2>2. QED
    BY <1>5, <2>1
<1>7. g = h
  BY <1>5, <1>6 DEF OnceARecord
<1>8. QED
  BY <1>1, <1>3, <1>7

(* When the lines up to k have given all that counts, the image that is made *)
(* of the bytes is the one the records say.                                 *)
LEMMA ImageIsTold ==
  ASSUME NEW f, NEW k, Tells(bytes, f, k), OnceARecord(f, k),
         GivenBefore(f, Len(f) + 1) = GivenBefore(f, k)
  PROVE  ImageRead = ImageOf(f)
<1> DEFINE gives == GivenBefore(f, Len(f) + 1)
           said  == {AddressOf(f, g) : g \in gives}
           Low(lo, hi) == {x[2] : x \in {y \in said : y[1] = 0 /\ y[2] \in lo..hi}}
           WrittenAt(a) == IF <<0, a>> \in said THEN ByteOf(f, LastFor(f, gives, <<0, a>>)) ELSE 255
           Word(a)      == (WrittenAt(a) + 256 * WrittenAt(a + 1)) % 16384
           C == CONFIG_BYTE_ADDR
           E == EEPROM_BYTE_BASE
           eeprom == {a \in Low(E, E + 2 * EEPROM_BYTES - 1) : a % 2 = 0}
           program == {a \div 2 : a \in Low(0, 2 * PROG_WORDS - 1)}
<1>1. ImageOf(f) =
         [program |-> [w \in program |-> Word(2 * w)],
          config  |-> IF Low(C, C + 1) = {} THEN NoConfig ELSE Word(C),
          eeprom  |-> [o \in {(a - E) \div 2 : a \in eeprom} |-> WrittenAt(E + 2 * o)]]
  BY DEF ImageOf
<1>2. said = DOMAIN bytes
  BY DEF Tells
<1>3. \A a : WrittenAt(a) = ByteOrFF(a)
  <2>1. \A a \in DOMAIN bytes : ByteOf(f, LastFor(f, gives, a)) = bytes[a]
    BY LastIsTold
  <2> HIDE DEF gives, said
  <2>2. QED
    BY <1>2, <2>1 DEF ByteOrFF
<1>4. \A y \in said : y[1] \in Nat /\ y[2] \in Nat /\ y = <<y[1], y[2]>>
  BY <1>2 DEF Tells
<1> HIDE DEF gives, said
<1>5. \A lo, hi, x : x \in Low(lo, hi) <=> x \in lo..hi /\ <<0, x>> \in said
  BY <1>4
<1>6. \A n, x : x \in Below(n) <=> x \in Nat /\ x < n /\ <<0, x>> \in said
  BY <1>2, <1>4 DEF Below
<1> HIDE DEF WrittenAt, Low
<1>7. \A a : Word(a) = WordFrom(a)
  BY <1>3 DEF WordFrom
<1>8. 2 * PROG_WORDS = 4096 /\ E = 16896 /\ E + 2 * EEPROM_BYTES = 17152 /\ C = 16398
  BY DEF PROG_WORDS, EEPROM_BYTE_BASE, EEPROM_BYTES, CONFIG_BYTE_ADDR
<1> HIDE DEF Word, C, E
<1>9. program = {a \div 2 : a \in Below(2 * PROG_WORDS)}
  <2>1. ASSUME NEW n \in Nat PROVE Low(0, n - 1) = Below(n)
    <3>1. \A x : x \in 0..(n - 1) <=> x \in Nat /\ x < n
      OBVIOUS
    <3>2. \A x : x \in Low(0, n - 1) <=> x \in Below(n)
      BY <1>5, <1>6, <3>1
    <3>3. QED
      BY <3>2
  <2>2. 2 * PROG_WORDS \in Nat
    BY <1>8
  <2>3. QED
    BY <2>1, <2>2
<1>10. Low(C, C + 1) = {} <=> ~Given(C)
  <2>1. \A x : x \in C..(C + 1) <=> x = C \/ x = C + 1
    BY <1>8
  <2>2. Low(C, C + 1) = {} <=> <<0, C>> \notin said /\ <<0, C + 1>> \notin said
    BY <1>5, <2>1
  <2>3. QED
    BY <1>2, <2>2 DEF Given
<1>11. eeprom = {c \in Below(E + 2 * EEPROM_BYTES) : c >= E /\ c % 2 = 0}
  <2>1. \A x : x \in E..(E + 2 * EEPROM_BYTES - 1)
                 <=> x \in Nat /\ x < E + 2 * EEPROM_BYTES /\ x >= E
    <3> DEFINE n == E + 2 * EEPROM_BYTES
    <3>1. E \in Nat /\ n \in Nat
      BY <1>8
    <3> HIDE DEF n
    <3>2. \A x : x \in E..(n - 1) <=> x \in Nat /\ x < n /\ x >= E
      BY <3>1
    <3>3. E + 2 * EEPROM_BYTES - 1 = n - 1
      BY <1>8 DEF n, EEPROM_BYTES
    <3>4. QED
      BY <3>2, <3>3 DEF n
  <2>2. \A x : x \in Low(E, E + 2 * EEPROM_BYTES - 1)
                 <=> x \in Below(E + 2 * EEPROM_BYTES) /\ x >= E
    BY <1>5, <1>6, <2>1
  <2>3. QED
    BY <2>2
<1>12. \A a \in eeprom : WrittenAt(E + 2 * ((a - E) \div 2)) = bytes[<<0, E + 2 * ((a - E) \div 2)>>]
  <2> TAKE a \in eeprom
  <2>1. a \in Nat /\ a % 2 = 0 /\ a >= E /\ <<0, a>> \in said
    BY <1>6, <1>11
  <2>2. E + 2 * ((a - E) \div 2) = a
    BY <1>8, <2>1
  <2>3. WrittenAt(a) = bytes[<<0, a>>]
    BY <1>2, <1>3, <2>1 DEF ByteOrFF
  <2>4. QED
    BY <2>2, <2>3
<1> HIDE DEF eeprom, program
<1>13. [o \in {(a - E) \div 2 : a \in eeprom} |-> WrittenAt(E + 2 * o)]
         = [o \in {(a - E) \div 2 : a \in eeprom} |-> bytes[<<0, E + 2 * o>>]]
  BY <1>12
<1>14. [w \in program |-> Word(2 * w)] = [w \in program |-> WordFrom(2 * w)]
  BY <1>7
<1>15. (IF Low(C, C + 1) = {} THEN NoConfig ELSE Word(C))
         = IF Given(C) THEN WordFrom(C) ELSE NoConfig
  BY <1>7, <1>10
<1>16. ImageRead =
         [program |-> [w \in program |-> WordFrom(2 * w)],
          config  |-> IF Given(C) THEN WordFrom(C) ELSE NoConfig,
          eeprom  |-> [o \in {(a - E) \div 2 : a \in eeprom} |-> bytes[<<0, E + 2 * o>>]]]
  BY <1>9, <1>11, Zenon DEF ImageRead, C, E
<1>17. QED
  BY <1>1, <1>13, <1>14, <1>15, <1>16, Zenon

----------------------------------------------------------------------------
(* The invariant                                                            *)

LEMMA EmptyFile ==
  ASSUME NEW f
  PROVE  /\ GivenBefore(f, 1) = {} /\ Counts(f, 1) /\ BaseAt(f, 1) = <<0, 0>>
         /\ Tells(Blank, f, 1) /\ OnceARecord(f, 1)
<1>1. 1..(1 - 1) = {}
  OBVIOUS
<1>2. GivenBefore(f, 1) = {}
  BY <1>1, GivenIs
<1>3. Counts(f, 1) /\ BaseAt(f, 1) = <<0, 0>>
  BY <1>1 DEF Counts, BaseAt
<1>4. DOMAIN Blank = {} /\ Blank = [a \in DOMAIN Blank |-> Blank[a]]
  BY DEF Blank
<1>5. QED
  BY <1>2, <1>3, <1>4 DEF Tells, OnceARecord

LEMMA StartInv ==
  ASSUME NEW f \in Seq(Lines), StartReading(f)
  PROVE  LoaderInv'
<1>1. file' = f /\ status' = "reading" /\ lineNo' = 1 /\ base' = <<0, 0>> /\ bytes' = Blank
  BY DEF StartReading
<1>2. base' = BaseAt(f, 1) /\ base' \in Nat \X Nat
  BY <1>1, EmptyFile
<1>3. Counts(f, 1) /\ Tells(bytes', f, 1) /\ OnceARecord(f, 1)
  BY <1>1, EmptyFile
<1>4. QED
  BY <1>1, <1>2, <1>3 DEF LoaderInv, LoaderTypes, ReadSoFar, LoadsWhatTheRecordsSay

LEMMA LoaderStarts == LoaderInit => LoaderInv
BY DEF LoaderInit, LoaderInv, LoaderTypes, ReadSoFar, LoadsWhatTheRecordsSay

(* A line that is not the end of the file has been read. *)
LEMMA NextLineInv ==
  ASSUME LoaderInv, Reading, NextLine, ~IsKind(file, lineNo, {1}),
         base' = BaseAt(file, lineNo + 1), base' \in Nat \X Nat,
         Tells(bytes', file, lineNo + 1), OnceARecord(file, lineNo + 1)
  PROVE  LoaderInv'
<1>1. lineNo \in Nat \ {0} /\ Counts(file, lineNo)
  BY DEF LoaderInv, LoaderTypes, ReadSoFar, Reading
<1>2. Counts(file, lineNo + 1)
  BY <1>1, CountsByLine
<1>3. file' = file /\ lineNo' = lineNo + 1 /\ lineNo' \in Nat \ {0} /\ status' = "reading"
  BY <1>1 DEF NextLine, Reading
<1>4. LoaderTypes'
  <2>1. Len(file) \in Nat /\ lineNo <= Len(file)
    BY DEF LoaderInv, LoaderTypes, Reading
  <2>2. lineNo' <= Len(file') + 1
    BY <1>1, <1>3, <2>1
  <2>3. QED
    BY <1>3, <2>2 DEF LoaderInv, LoaderTypes
<1>5. QED
  BY <1>2, <1>3, <1>4 DEF LoaderInv, ReadSoFar, LoadsWhatTheRecordsSay

LEMMA RejectsInv ==
  ASSUME LoaderInv, NEW why, Rejects(why), why \notin {"reading", "loaded"}
  PROVE  LoaderInv'
BY DEF Rejects, LoaderInv, LoaderTypes, ReadSoFar, LoadsWhatTheRecordsSay

(* What is known of the line that is read. *)
LEMMA LineIsRead ==
  ASSUME LoaderInv, Reading
  PROVE  /\ file \in Seq(Lines) /\ lineNo \in Nat \ {0} /\ lineNo <= Len(file)
         /\ base = BaseAt(file, lineNo) /\ base \in Nat \X Nat
         /\ Counts(file, lineNo)
         /\ Tells(bytes, file, lineNo) /\ OnceARecord(file, lineNo)
BY DEF LoaderInv, LoaderTypes, ReadSoFar, Reading

(* A line that gives neither bytes nor a base. *)
LEMMA NeutralLineInv ==
  ASSUME LoaderInv, Reading, NextLine, UNCHANGED <<base, bytes>>,
         ~IsKind(file, lineNo, {0}), ~IsKind(file, lineNo, {1}), ~IsKind(file, lineNo, {2, 4})
  PROVE  LoaderInv'
<1>1. BaseAt(file, lineNo + 1) = base
  BY LineIsRead, BaseByLine
<1>2. Tells(bytes, file, lineNo + 1) /\ OnceARecord(file, lineNo + 1)
  BY LineIsRead, OtherTells
<1>3. base \in Nat \X Nat
  BY LineIsRead
<1>4. QED
  BY <1>1, <1>2, <1>3, NextLineInv

LEMMA SkipBlankInv == LoaderInv /\ SkipBlank => LoaderInv'
<1> SUFFICES ASSUME LoaderInv, SkipBlank PROVE LoaderInv'
  OBVIOUS
<1>1. Reading /\ NextLine /\ UNCHANGED <<base, bytes>> /\ file[lineNo].shape = "blank"
  BY DEF SkipBlank
<1>2. \A kinds : ~IsKind(file, lineNo, kinds)
  BY <1>1 DEF IsKind
<1>3. QED
  BY <1>1, <1>2, NeutralLineInv

LEMMA BadLineInv == LoaderInv /\ BadLine => LoaderInv'
<1> SUFFICES ASSUME LoaderInv, BadLine PROVE LoaderInv'
  OBVIOUS
<1>1. \A line : Fault(line) \notin {"reading", "loaded"}
  BY DEF Fault
<1>2. QED
  BY <1>1, RejectsInv DEF BadLine

LEMMA DataLineInv == LoaderInv /\ DataLine => LoaderInv'
<1> SUFFICES ASSUME LoaderInv, DataLine PROVE LoaderInv'
  OBVIOUS
<1>1. PICK b : /\ SoundRecord(b) /\ Kind(b) = 0
               /\ bytes' = WithData(base, b) /\ NextLine /\ UNCHANGED base
  BY DEF DataLine
<1>2. /\ Reading /\ file[lineNo].shape = "record" /\ Fault(file[lineNo]) = "none"
      /\ b = file[lineNo].bytes
  BY <1>1 DEF SoundRecord
<1>3. IsKind(file, lineNo, {0}) /\ ~IsKind(file, lineNo, {1}) /\ ~IsKind(file, lineNo, {2, 4})
  BY <1>1, <1>2 DEF IsKind
<1>4. /\ Count(b) \in Byte /\ b[2] \in Byte /\ b[3] \in Byte
      /\ \A i \in 0..(Count(b) - 1) : b[5 + i] \in Byte
  BY <1>2, LineIsRead, RecordBytes
<1>5. Tells(WithData(base, b), file, lineNo + 1) /\ OnceARecord(file, lineNo + 1)
  BY <1>2, <1>3, <1>4, LineIsRead, DataTells
<1>6. BaseAt(file, lineNo + 1) = base /\ base \in Nat \X Nat
  BY <1>2, <1>3, LineIsRead, BaseByLine
<1>7. QED
  BY <1>1, <1>2, <1>3, <1>5, <1>6, NextLineInv

LEMMA BaseLineInv == LoaderInv /\ BaseLine => LoaderInv'
<1> SUFFICES ASSUME LoaderInv, BaseLine PROVE LoaderInv'
  OBVIOUS
<1> DEFINE moved(b) == IF Kind(b) = 2 THEN SegmentBase(DataOf(b)) ELSE LinearBase(DataOf(b))
<1>1. PICK b : /\ SoundRecord(b) /\ Kind(b) \in {2, 4}
               /\ IF Count(b) < 2 THEN Rejects("BadLength")
                  ELSE base' = moved(b) /\ NextLine /\ UNCHANGED <<bytes, sawData>>
  BY DEF BaseLine
<1>2. /\ Reading /\ file[lineNo].shape = "record" /\ Fault(file[lineNo]) = "none"
      /\ b = file[lineNo].bytes
  BY <1>1 DEF SoundRecord
<1>3. CASE Count(b) < 2
  BY <1>1, <1>3, RejectsInv
<1>4. CASE ~(Count(b) < 2)
  <2>1. IsKind(file, lineNo, {2, 4}) /\ ~IsKind(file, lineNo, {1}) /\ ~IsKind(file, lineNo, {0})
    BY <1>1, <1>2 DEF IsKind
  <2>2. base' = BaseAt(file, lineNo + 1)
    BY <1>1, <1>2, <1>4, <2>1, LineIsRead, BaseByLine
  <2>3. base' \in Nat \X Nat
    BY <1>1, <1>2, <1>4, LineIsRead, MovedBase
  <2>4. Tells(bytes, file, lineNo + 1) /\ OnceARecord(file, lineNo + 1)
    BY <1>2, <2>1, LineIsRead, OtherTells
  <2>5. NextLine /\ bytes' = bytes
    BY <1>1, <1>4
  <2>6. QED
    BY <1>2, <2>1, <2>2, <2>3, <2>4, <2>5, NextLineInv
<1>5. QED
  BY <1>3, <1>4

LEMMA OtherLineInv == LoaderInv /\ OtherLine => LoaderInv'
<1> SUFFICES ASSUME LoaderInv, OtherLine PROVE LoaderInv'
  OBVIOUS
<1>1. PICK b : /\ SoundRecord(b) /\ Kind(b) \notin {0, 1, 2, 4}
               /\ IF Kind(b) \in {3, 5} THEN NextLine /\ UNCHANGED <<base, bytes, sawData>>
                  ELSE Rejects("UnsupportedRecord")
  BY DEF OtherLine
<1>2. Reading /\ b = file[lineNo].bytes
  BY <1>1 DEF SoundRecord
<1>3. CASE Kind(b) \in {3, 5}
  <2>1. /\ ~IsKind(file, lineNo, {0}) /\ ~IsKind(file, lineNo, {1})
        /\ ~IsKind(file, lineNo, {2, 4})
    BY <1>1, <1>2 DEF IsKind
  <2>2. NextLine /\ UNCHANGED <<base, bytes>>
    BY <1>1, <1>3
  <2>3. QED
    BY <1>2, <2>1, <2>2, NeutralLineInv
<1>4. CASE Kind(b) \notin {3, 5}
  BY <1>1, <1>4, RejectsInv
<1>5. QED
  BY <1>3, <1>4

(* Nothing that counts comes after the line at which parse stops. *)
LEMMA AllIsRead ==
  ASSUME LoaderInv, AtEnd
  PROVE  /\ status = "reading"
         /\ GivenBefore(file, Len(file) + 1) = GivenBefore(file, lineNo)
<1>1. status = "reading" /\ lineNo \in Nat \ {0} /\ Len(file) \in Nat
  BY DEF AtEnd, SoundRecord, Reading, LoaderInv, LoaderTypes
<1>2. CASE lineNo > Len(file)
  <2>1. lineNo = Len(file) + 1
    BY <1>1, <1>2 DEF LoaderInv, LoaderTypes
  <2>2. QED
    BY <1>1, <2>1
<1>3. CASE ~(lineNo > Len(file))
  <2>1. IsKind(file, lineNo, {1}) /\ lineNo <= Len(file)
    BY <1>1, <1>3 DEF AtEnd, SoundRecord, Reading, IsKind
  <2>2. \A n \in 1..((Len(file) + 1) - 1) :
          Counts(file, n) /\ IsKind(file, n, {0}) => n \in 1..(lineNo - 1)
    <3> TAKE n \in 1..((Len(file) + 1) - 1)
    <3>1. CASE n > lineNo
      <4>1. lineNo \in 1..(n - 1)
        BY <1>1, <3>1
      <4>2. QED
        BY <2>1, <4>1 DEF Counts
    <3>2. CASE n = lineNo
      BY <2>1, <3>2 DEF IsKind
    <3>3. CASE n < lineNo
      BY <1>1, <3>3
    <3>4. QED
      BY <1>1, <3>1, <3>2, <3>3
  <2>3. \A n \in 1..(lineNo - 1) : n \in 1..((Len(file) + 1) - 1)
    BY <1>1, <2>1
  <2>4. \A g : g \in GivenBefore(file, Len(file) + 1) <=> g \in GivenBefore(file, lineNo)
    BY <2>2, <2>3, GivenIs
  <2>5. QED
    BY <2>4
<1>4. QED
  BY <1>2, <1>3

LEMMA FinishReadingInv == LoaderInv /\ FinishReading => LoaderInv'
<1> SUFFICES ASSUME LoaderInv, FinishReading PROVE LoaderInv'
  OBVIOUS
<1>1. AtEnd /\ file' = file /\ lineNo' = lineNo
  BY DEF FinishReading
<1>2. CASE sawData
  <2>1. Tells(bytes, file, lineNo) /\ OnceARecord(file, lineNo)
    BY <1>1, AllIsRead DEF LoaderInv, ReadSoFar
  <2>2. ImageRead = ImageOf(file)
    BY <1>1, <2>1, AllIsRead, ImageIsTold
  <2>3. image' = ImageOf(file') /\ status' = "loaded"
    BY <1>1, <1>2, <2>2 DEF FinishReading
  <2>4. QED
    BY <1>1, <2>3 DEF LoaderInv, LoaderTypes, ReadSoFar, LoadsWhatTheRecordsSay
<1>3. CASE ~sawData
  <2>1. status' = "NoData"
    BY <1>3 DEF FinishReading
  <2>2. QED
    BY <1>1, <2>1 DEF LoaderInv, LoaderTypes, ReadSoFar, LoadsWhatTheRecordsSay
<1>4. QED
  BY <1>2, <1>3

LEMMA LoaderStep ==
  LoaderInv /\ [LoaderNext \/ \E f \in Seq(Lines) : StartReading(f)]_loaderVars => LoaderInv'
<1>1. ASSUME LoaderInv, UNCHANGED loaderVars PROVE LoaderInv'
  BY <1>1 DEF loaderVars, LoaderInv, LoaderTypes, ReadSoFar, LoadsWhatTheRecordsSay
<1>2. QED
  BY <1>1, StartInv, SkipBlankInv, BadLineInv, DataLineInv, BaseLineInv, OtherLineInv,
     FinishReadingInv
     DEF LoaderNext

(* LoadsWhatTheRecordsSay, for every text: any number of records of any      *)
(* length and type, in any order, with any lines that are no records.       *)
THEOREM ImageIsWhatTheRecordsSay == LoaderSpec => []LoadsWhatTheRecordsSay
<1>1. LoaderInv => LoadsWhatTheRecordsSay
  BY DEF LoaderInv
<1>2. QED
  BY <1>1, LoaderStarts, LoaderStep, PTL DEF LoaderSpec


(***************************************************************************)
(* From the words to the file and back                                      *)
(*                                                                         *)
(* The sum of a record is a recursive function, and recursion is reasoned    *)
(* about here without induction over data: a claim about all its values is   *)
(* refuted at the least number where it fails, and there is a least one       *)
(* since initial segments of the naturals are ordered well.                  *)
(***************************************************************************)
LEMMA SmallIsByte == \A x \in Nat : x < 256 => x \in Byte
BY DEF Byte

(* Every set of naturals has a least number, and a bounded one a greatest. *)
LEMMA LeastOf ==
  ASSUME NEW T, T \subseteq Nat, T # {}
  PROVE  \E x \in T : \A y \in T : x <= y
<1> DEFINE R == StrictSubsetOrdering(Nat)
           F == {0..x : x \in T}
<1>1. F \subseteq FiniteSubsetsOf(Nat) /\ F # {}
  <2>1. ASSUME NEW x \in T PROVE 0..x \in FiniteSubsetsOf(Nat)
    <3>1. IsFiniteSet(0..x)
      BY FS_Interval
    <3>2. 0..x \subseteq Nat
      OBVIOUS
    <3>3. QED
      BY <3>1, <3>2 DEF FiniteSubsetsOf
  <2>2. QED
    BY <2>1
<1>2. \A x, y \in Nat : y < x => <<0..y, 0..x>> \in R
  <2>1. ASSUME NEW x \in Nat, NEW y \in Nat, y < x
        PROVE  0..y \subseteq 0..x /\ 0..y # 0..x /\ 0..x \subseteq Nat
    BY <2>1
  <2>2. QED
    BY <2>1, Zenon DEF StrictSubsetOrdering
<1>3. \E D \in F : \A C \in F : <<C, D>> \notin R
  <2>1. IsWellFoundedOn(R, FiniteSubsetsOf(Nat))
    BY FS_StrictSubsetOrderingWellFounded
  <2> HIDE DEF R, F
  <2>2. QED
    BY <1>1, <2>1, WFMin
<1>4. PICK x \in T : \A y \in T : <<0..y, 0..x>> \notin R
  BY <1>3
<1> HIDE DEF R
<1>5. ASSUME NEW y \in T PROVE x <= y
  <2>1. ~(y < x)
    BY <1>2, <1>4
  <2>2. QED
    BY <2>1
<1>6. QED
  BY <1>5

LEMMA GreatestOf ==
  ASSUME NEW T, NEW n \in Nat, T \subseteq 0..n, T # {}
  PROVE  \E x \in T : \A y \in T : y <= x
<1> DEFINE U == {n - x : x \in T}
<1>1. \A x \in T : x \in Nat /\ x <= n
  OBVIOUS
<1>2. U \subseteq Nat
  BY <1>1
<1>3. \E u \in U : \A v \in U : u <= v
  <2>1. U # {}
    OBVIOUS
  <2> HIDE DEF U
  <2>2. QED
    BY <1>2, <2>1, LeastOf
<1>4. PICK x \in T : \A v \in U : n - x <= v
  BY <1>3
<1>5. ASSUME NEW y \in T PROVE y <= x
  BY <1>1, <1>4
<1>6. QED
  BY <1>5

LEMMA Smallest ==
  ASSUME NEW n, NEW T, T \subseteq 0..n, T # {}
  PROVE  \E x \in 0..n : x \in T /\ \A y \in T : x <= y
<1>1. T \subseteq Nat
  OBVIOUS
<1>2. QED
  BY <1>1, LeastOf

(* s sums up the first n bytes of b. *)
Sums(s, b, n) ==
  s = [i \in 0..n |-> IF i = 0 THEN 0 ELSE (s[i - 1] + b[i]) % 256]

LEMMA SumsExist ==
  ASSUME NEW b, NEW n \in Nat
  PROVE  \E s : Sums(s, b, n)
<1> DEFINE T == {m \in Nat : ~\E s : Sums(s, b, m)}
<1>1. ASSUME T # {} PROVE FALSE
  <2>1. PICK m \in T : \A o \in T : m <= o
    BY <1>1, LeastOf
  <2>2. CASE m = 0
    <3>1. Sums([i \in 0..0 |-> 0], b, 0)
      BY DEF Sums
    <3>2. QED
      BY <2>2, <3>1
  <2>3. CASE m # 0
    <3>1. m - 1 \in Nat /\ m - 1 \notin T
      BY <2>1, <2>3
    <3>2. PICK s : Sums(s, b, m - 1)
      BY <3>1
    <3> DEFINE t == [i \in 0..m |-> IF i = 0 THEN 0 ELSE (s[i - 1] + b[i]) % 256]
    <3>3. \A i \in 0..(m - 1) : t[i] = s[i]
      BY <3>1, <3>2 DEF Sums
    <3>4. \A i \in 0..m : i # 0 => t[i - 1] = s[i - 1]
      BY <3>1, <3>3
    <3>5. t = [i \in 0..m |-> IF i = 0 THEN 0 ELSE (t[i - 1] + b[i]) % 256]
      BY <3>4, Zenon
    <3>6. QED
      BY <2>1, <3>5, Zenon DEF Sums
  <2>4. QED
    BY <2>2, <2>3
<1>2. QED
  BY <1>1

LEMMA SumOfIs ==
  ASSUME NEW b, Len(b) \in Nat
  PROVE  \E s : Sums(s, b, Len(b)) /\ SumOf(b) = s[Len(b)]
<1> DEFINE s == CHOOSE s : Sums(s, b, Len(b))
<1>1. Sums(s, b, Len(b))
  BY SumsExist
<1>2. SumOf(b) = s[Len(b)]
  BY DEF SumOf, Sums
<1>3. QED
  BY <1>1, <1>2

(* Sums are bytes, and depend on nothing but what is summed up. *)
LEMMA SumsAreBytes ==
  ASSUME NEW b, NEW n \in Nat, \A i \in 1..n : b[i] \in Nat,
         NEW s, Sums(s, b, n)
  PROVE  \A i \in 0..n : s[i] \in Nat /\ s[i] < 256
<1> DEFINE T == {i \in 0..n : ~(s[i] \in Nat /\ s[i] < 256)}
<1>1. ASSUME T # {} PROVE FALSE
  <2>1. PICK m \in 0..n : m \in T /\ \A o \in T : m <= o
    BY <1>1, Smallest
  <2>2. m # 0 /\ m - 1 \in 0..n /\ m - 1 \notin T
    BY <2>1 DEF Sums
  <2>3. s[m] = (s[m - 1] + b[m]) % 256 /\ b[m] \in Nat
    BY <2>2 DEF Sums
  <2>4. QED
    BY <2>1, <2>2, <2>3
<1>2. QED
  BY <1>1

Alike(f, g, S) == \A i \in S : f[i] = g[i]

LEMMA SumsAgree ==
  ASSUME NEW b, NEW c, NEW n \in Nat, NEW m \in 0..n, Alike(b, c, 1..m),
         NEW s, NEW t, Sums(s, b, n), Sums(t, c, m)
  PROVE  Alike(s, t, 0..m)
<1> DEFINE T == {i \in 0..m : s[i] # t[i]}
<1>1. ASSUME T # {} PROVE FALSE
  <2>1. PICK k \in 0..m : k \in T /\ \A o \in T : k <= o
    BY <1>1, Smallest
  <2>2. k # 0
    BY <2>1 DEF Sums
  <2>4. k - 1 \in 0..m /\ k - 1 \notin T
    BY <2>1, <2>2
  <2>3. s[k] = (s[k - 1] + b[k]) % 256 /\ t[k] = (t[k - 1] + c[k]) % 256 /\ b[k] = c[k]
    BY <2>1, <2>2 DEF Sums, Alike
  <2>5. QED
    BY <2>1, <2>3, <2>4
<1>2. QED
  BY <1>1 DEF Alike

Added(x, y) == (x + y) % 256

LEMMA SameAddend ==
  ASSUME NEW x \in Nat, x < 256, NEW y \in Nat, y < 256, NEW z \in Nat, z < 256, x # y
  PROVE  Added(x, z) # Added(y, z) /\ Added(z, x) # Added(z, y)
BY DEF Added

(* One byte more or less is noticed, whichever it is. *)
LEMMA SumsDiffer ==
  ASSUME NEW n \in Nat, NEW b, NEW c, NEW k \in 1..n,
         \A i \in 1..n : b[i] \in Byte /\ c[i] \in Byte,
         \A i \in 1..n : i # k => b[i] = c[i], b[k] # c[k],
         NEW s, NEW t, Sums(s, b, n), Sums(t, c, n)
  PROVE  s[n] # t[n]
<1>1. \A i \in 1..n : /\ b[i] \in Nat /\ b[i] < 256 /\ c[i] \in Nat /\ c[i] < 256
  BY BytesAreSmall
<1>2. \A i \in 0..n : s[i] \in Nat /\ s[i] < 256 /\ t[i] \in Nat /\ t[i] < 256
  BY <1>1, SumsAreBytes
<1>3. \A i \in 0..(k - 1) : s[i] = t[i]
  <2>1. Alike(b, c, 1..(k - 1))
    BY DEF Alike
  <2> DEFINE u == [i \in 0..(k - 1) |-> t[i]]
  <2>2. Sums(u, c, k - 1)
    <3>1. \A i \in 0..(k - 1) : i # 0 => u[i - 1] = t[i - 1]
      OBVIOUS
    <3>2. \A i \in 0..(k - 1) : u[i] = IF i = 0 THEN 0 ELSE (t[i - 1] + c[i]) % 256
      BY DEF Sums
    <3>3. u = [i \in 0..(k - 1) |-> IF i = 0 THEN 0 ELSE (u[i - 1] + c[i]) % 256]
      BY <3>1, <3>2
    <3>4. QED
      BY <3>3 DEF Sums
  <2>3. Alike(s, u, 0..(k - 1))
    <3> HIDE DEF u
    <3>1. k - 1 \in 0..n
      OBVIOUS
    <3>2. QED
      BY <2>1, <2>2, <3>1, SumsAgree
  <2>4. QED
    BY <2>3 DEF Alike
<1>4. \A i \in 1..n : s[i] = Added(s[i - 1], b[i]) /\ t[i] = Added(t[i - 1], c[i])
  BY DEF Sums, Added
<1> DEFINE T == {i \in k..n : s[i] = t[i]}
<1>5. ASSUME T # {} PROVE FALSE
  <2>0. T \subseteq 0..n
    OBVIOUS
  <2>1. PICK m \in 0..n : m \in T /\ \A o \in T : m <= o
    <3> HIDE DEF T
    <3>1. QED
      BY <1>5, <2>0, Smallest
  <2>2. CASE m = k
    <3>1. s[k - 1] = t[k - 1] /\ s[k - 1] \in Nat /\ s[k - 1] < 256
      BY <1>2, <1>3
    <3>2. /\ b[k] \in Nat /\ b[k] < 256 /\ c[k] \in Nat /\ c[k] < 256
          /\ s[k] = Added(s[k - 1], b[k]) /\ t[k] = Added(s[k - 1], c[k])
      BY <1>1, <1>4, <3>1
    <3>4. s[k] # t[k]
      BY <3>1, <3>2, SameAddend
    <3>3. QED
      BY <2>1, <2>2, <3>4
  <2>3. CASE m # k
    <3>1. m - 1 \in k..n /\ m - 1 \notin T
      BY <2>1, <2>3
    <3>2. /\ s[m - 1] # t[m - 1] /\ b[m] = c[m]
          /\ m - 1 \in 0..n /\ m \in 1..n
      BY <2>1, <2>3, <3>1
    <3>3. /\ s[m - 1] \in Nat /\ s[m - 1] < 256 /\ t[m - 1] \in Nat /\ t[m - 1] < 256
          /\ b[m] \in Nat /\ b[m] < 256
          /\ s[m] = Added(s[m - 1], b[m]) /\ t[m] = Added(t[m - 1], b[m])
      BY <1>1, <1>2, <1>4, <3>2
    <3>4. s[m] # t[m]
      BY <3>2, <3>3, SameAddend
    <3>5. QED
      BY <2>1, <3>4
  <2>4. QED
    BY <2>2, <2>3
<1>6. QED
  BY <1>5

(* The checksum makes the sum zero. *)
LEMMA ChecksumCloses ==
  ASSUME NEW h \in Seq(Byte)
  PROVE  SumOf(h \o <<(256 - SumOf(h)) % 256>>) = 0 /\ (256 - SumOf(h)) % 256 \in Byte
<1> DEFINE n == Len(h)
           ck == (256 - SumOf(h)) % 256
           full == h \o <<ck>>
<1>1. n \in Nat /\ \A i \in 1..n : h[i] \in Nat
  BY BytesAreSmall
<1>2. PICK s : Sums(s, h, n) /\ SumOf(h) = s[n]
  BY <1>1, SumOfIs
<1>3. SumOf(h) \in Nat /\ SumOf(h) < 256
  BY <1>1, <1>2, SumsAreBytes
<1>4. ck \in Nat /\ ck < 256 /\ Added(SumOf(h), ck) = 0
  <2> HIDE DEF n
  <2>1. QED
    BY <1>3 DEF Added
<1>5. ck \in Byte
  <2> HIDE DEF ck
  <2>1. QED
    BY <1>4, SmallIsByte
<1>6. Len(full) = n + 1 /\ full[n + 1] = ck /\ \A i \in 1..n : full[i] = h[i]
  <2> HIDE DEF ck
  <2>1. h \in Seq(Byte) /\ <<ck>> \in Seq(Byte)
    BY <1>5
  <2>2. QED
    BY <2>1
<1> HIDE DEF n, ck, full
<1>7. PICK t : Sums(t, full, n + 1) /\ SumOf(full) = t[n + 1]
  BY <1>1, <1>6, SumOfIs
<1>8. t[n] = s[n]
  <2> DEFINE m == n + 1
  <2>1. n \in 0..m /\ m \in Nat /\ n \in 0..n
    BY <1>1
  <2>2. Alike(t, s, 0..n)
    <3>1. Sums(t, full, m) /\ Alike(full, h, 1..n)
      BY <1>6, <1>7 DEF Alike
    <3> HIDE DEF m
    <3>2. QED
      BY <1>2, <2>1, <3>1, SumsAgree
  <2>3. QED
    BY <2>1, <2>2 DEF Alike
<1>9. t[n + 1] = Added(t[n], ck)
  BY <1>1, <1>6, <1>7 DEF Sums, Added
<1>10. SumOf(full) = 0
  BY <1>2, <1>4, <1>7, <1>8, <1>9
<1>11. QED
  BY <1>5, <1>10 DEF full, ck

(* h is p with q behind it. *)
IsJoined(h, p, q, S) ==
  /\ h \in Seq(S) /\ Len(h) = Len(p) + Len(q)
  /\ \A i \in 1..Len(p) : h[i] = p[i]
  /\ \A i \in 1..Len(q) : h[Len(p) + i] = q[i]

LEMMA Joining ==
  ASSUME NEW S, NEW p \in Seq(S), NEW q \in Seq(S)
  PROVE  IsJoined(p \o q, p, q, S)
BY DEF IsJoined

(* What rec makes of its arguments. *)
IsRec(line, a, type, data) ==
  LET b == line.bytes
  IN /\ line \in Lines /\ line.shape = "record"
     /\ Len(b) = Len(data) + 5 /\ Count(b) = Len(data)
     /\ b[2] = (a \div 256) % 256 /\ b[3] = a % 256 /\ Kind(b) = type
     /\ \A i \in 0..(Len(data) - 1) : b[5 + i] = data[i + 1]
     /\ SumOf(b) = 0

LEMMA RecIs ==
  ASSUME NEW a \in Nat, NEW type \in Byte, NEW data \in Seq(Byte), Len(data) <= 255
  PROVE  IsRec(Rec(a, type, data), a, type, data)
<1> DEFINE head == <<Len(data), (a \div 256) % 256, a % 256, type>>
           h    == head \o data
           ck   == (256 - SumOf(h)) % 256
           b    == h \o <<ck>>
<1>1. Len(data) \in Byte /\ (a \div 256) % 256 \in Byte /\ a % 256 \in Byte
  <2>1. /\ Len(data) \in Nat /\ Len(data) < 256
        /\ (a \div 256) % 256 \in Nat /\ (a \div 256) % 256 < 256
        /\ a % 256 \in Nat /\ a % 256 < 256
    OBVIOUS
  <2>2. QED
    BY <2>1, SmallIsByte
<1>2. head \in Seq(Byte) /\ Len(head) = 4
  BY <1>1
<1>0. head[1] = Len(data) /\ head[2] = (a \div 256) % 256 /\ head[3] = a % 256 /\ head[4] = type
  OBVIOUS
<1> HIDE DEF head
<1>3. /\ h \in Seq(Byte) /\ Len(h) = 4 + Len(data)
      /\ \A i \in 1..4 : h[i] = head[i]
      /\ \A i \in 1..Len(data) : h[4 + i] = data[i]
  <2>1. IsJoined(h, head, data, Byte)
    BY <1>2, Joining
  <2> HIDE DEF h
  <2>2. QED
    BY <1>2, <2>1 DEF IsJoined
<1> HIDE DEF h
<1>4. SumOf(b) = 0 /\ ck \in Byte
  BY <1>3, ChecksumCloses
<1> HIDE DEF ck
<1>5. /\ b \in Seq(Byte) /\ Len(b) = Len(data) + 5
      /\ \A i \in 1..(4 + Len(data)) : b[i] = h[i]
  BY <1>3, <1>4
<1>6. b[1] = head[1] /\ b[2] = head[2] /\ b[3] = head[3] /\ b[4] = head[4]
  BY <1>3, <1>5
<1>7. \A i \in 0..(Len(data) - 1) : b[5 + i] = data[i + 1]
  <2>1. ASSUME NEW i \in 0..(Len(data) - 1) PROVE b[5 + i] = data[i + 1]
    <3>1. i + 1 \in 1..Len(data) /\ 4 + (i + 1) = 5 + i /\ 5 + i \in 1..(4 + Len(data))
      OBVIOUS
    <3>2. h[4 + (i + 1)] = data[i + 1]
      BY <1>3, <3>1
    <3>3. QED
      BY <1>5, <3>1, <3>2
  <2>2. QED
    BY <2>1
<1> HIDE DEF b
<1>8. Rec(a, type, data) = [shape |-> "record", bytes |-> b]
  BY DEF Rec, Record, b, ck, h, head
<1>9. [shape |-> "record", bytes |-> b] \in Lines
  BY <1>5 DEF Lines, Shapes
<1>10. QED
  <2>1. SumOf(b) = 0
    BY <1>4 DEF b
  <2>2. QED
    BY <1>0, <1>5, <1>6, <1>7, <1>8, <1>9, <2>1 DEF IsRec, Count, Kind

(* Such a line is read; with another byte in any place it is an error. *)
LEMMA RecIsSound ==
  ASSUME NEW line, NEW a, NEW type, NEW data \in Seq(Byte), IsRec(line, a, type, data)
  PROVE  Fault(line) = "none"
BY DEF IsRec, Fault

LEMMA SlipIsFound ==
  ASSUME NEW line, NEW a, NEW type, NEW data \in Seq(Byte), IsRec(line, a, type, data),
         NEW k \in DOMAIN line.bytes, NEW v \in Byte, v # line.bytes[k]
  PROVE  Fault([line EXCEPT !.bytes[k] = v]) # "none"
<1> DEFINE b == line.bytes
           c == [b EXCEPT ![k] = v]
           n == Len(data) + 5
           bad == [line EXCEPT !.bytes[k] = v]
<1>1. /\ b \in Seq(Byte) /\ Len(b) = n /\ n \in Nat /\ n >= 5 /\ k \in 1..n
      /\ Count(b) + 5 = n /\ SumOf(b) = 0
  BY DEF IsRec, Lines
<1>2. /\ c \in Seq(Byte) /\ Len(c) = n /\ c[k] = v
      /\ \A i \in 1..n : i # k => c[i] = b[i]
  BY <1>1
<1>3. bad.shape = "record" /\ bad.bytes = c
  BY DEF IsRec, Lines
<1> HIDE DEF bad, c, b, n
<1>4. SumOf(c) # 0
  <2>1. PICK s : Sums(s, b, n) /\ SumOf(b) = s[n]
    BY <1>1, SumOfIs
  <2>2. PICK t : Sums(t, c, n) /\ SumOf(c) = t[n]
    BY <1>1, <1>2, SumOfIs
  <2>3. \A i \in 1..n : b[i] \in Byte /\ c[i] \in Byte
    BY <1>1, <1>2
  <2>4. b[k] # c[k]
    BY <1>2 DEF b
  <2>5. s[n] # t[n]
    BY <1>1, <1>2, <2>1, <2>2, <2>3, <2>4, SumsDiffer
  <2>6. QED
    BY <1>1, <2>1, <2>2, <2>5
<1>5. QED
  BY <1>2, <1>3, <1>4 DEF Fault, bad

(* The numbers of a finite set are counted off by their ranks: 1 to its size. *)
LEMMA RanksAreAll ==
  ASSUME NEW S, S \subseteq Nat, IsFiniteSet(S)
  PROVE  LET n == Cardinality(S)
             Rank(x) == Cardinality({t \in S : t <= x})
             Ith(i) == CHOOSE x \in S : Rank(x) = i
         IN /\ n \in Nat
            /\ \A i \in 1..n : Ith(i) \in S
            /\ \A x \in S : Rank(x) \in 1..n /\ Ith(Rank(x)) = x
<1> DEFINE n == Cardinality(S)
           Up(x) == {t \in S : t <= x}
           Rank(x) == Cardinality(Up(x))
           Ith(i) == CHOOSE x \in S : Rank(x) = i
<1>1. n \in Nat
  BY FS_CardinalityType
<1>2. \A x : IsFiniteSet(Up(x)) /\ Rank(x) \in Nat /\ Rank(x) <= n
  BY FS_Subset, FS_CardinalityType
<1>3. ASSUME NEW x \in S, NEW y \in S, x < y PROVE Rank(x) < Rank(y)
  <2>1. Up(x) \subseteq Up(y) /\ Up(x) # Up(y)
    <3>1. y \in Up(y) /\ y \notin Up(x) /\ \A t \in Up(x) : t \in S /\ t <= y
      BY <1>3
    <3>2. \A t : t \in Up(y) <=> t \in S /\ t <= y
      OBVIOUS
    <3> HIDE DEF Up
    <3>3. QED
      BY <3>1, <3>2
  <2>2. IsFiniteSet(Up(y))
    BY <1>2
  <2> HIDE DEF Up
  <2>3. Cardinality(Up(x)) <= Cardinality(Up(y)) /\ Cardinality(Up(x)) # Cardinality(Up(y))
    BY <2>1, <2>2, FS_Subset
  <2>4. QED
    BY <1>2, <2>3
<1>4. \A x \in S : Rank(x) \in 1..n
  <2>1. ASSUME NEW x \in S PROVE Rank(x) # 0
    <3>1. x \in Up(x)
      OBVIOUS
    <3>2. IsFiniteSet(Up(x))
      BY <1>2
    <3> HIDE DEF Up
    <3>3. QED
      BY <3>1, <3>2, FS_EmptySet
  <2> HIDE DEF Rank, Up, n
  <2>2. QED
    BY <1>1, <1>2, <2>1
<1>5. \A x, y \in S : Rank(x) = Rank(y) => x = y
  <2> HIDE DEF Rank, Up
  <2>1. QED
    BY <1>2, <1>3
<1>6. ASSUME NEW i \in 1..n PROVE \E x \in S : Rank(x) = i
  <2>1. SUFFICES ASSUME \A x \in S : Rank(x) # i PROVE FALSE
    OBVIOUS
  <2> DEFINE T == (1..n) \ {i}
             f == [x \in S |-> Rank(x)]
  <2>2. f \in [S -> T]
    <3> HIDE DEF Rank
    <3>1. QED
      BY <1>4, <2>1
  <2>3. IsFiniteSet(1..n) /\ Cardinality(1..n) = n
    BY <1>1, FS_Interval
  <2>4. IsFiniteSet(T) /\ Cardinality(T) = n - 1
    BY <2>3, FS_RemoveElement
  <2>5. \E x, y \in S : x # y /\ f[x] = f[y]
    <3>1. Cardinality(T) < Cardinality(S)
      BY <1>1, <2>4
    <3> HIDE DEF f, T
    <3>2. QED
      BY <2>2, <2>4, <3>1, FS_PigeonHole
  <2>6. QED
    BY <1>5, <2>5
<1>7. \A i \in 1..n : Ith(i) \in S
  BY <1>6
<1>8. \A x \in S : Ith(Rank(x)) = x
  <2> HIDE DEF Rank
  <2>1. QED
    BY <1>5
<1>9. QED
  BY <1>1, <1>4, <1>7, <1>8

(* The run of addresses without a gap that a is in begins at r. *)
FirstOf(addrs, r, a) ==
  r \in addrs /\ r <= a /\ r..a \subseteq addrs /\ r - 1 \notin addrs

Top64K == 65535
Low64K == 0..Top64K

LEMMA NoWrap == \A a \in Low64K : a \in Nat /\ a < 65536 /\ a <= Top64K /\ a % 65536 = a
<1>1. \A a \in Low64K : a \in Nat /\ a <= Top64K
  BY DEF Low64K
<1>3. Top64K < 65536 /\ Top64K \in Nat
  BY DEF Top64K
<1>2. QED
  BY <1>1, <1>3

LEMMA FewAreLow == \A a \in Nat : a < 65536 => a \in Low64K
<1>1. Top64K \in Nat /\ \A a \in Nat : a < 65536 => a <= Top64K
  BY DEF Top64K
<1>2. QED
  BY <1>1 DEF Low64K

(* Every address is in one run. *)
LEMMA RunExists ==
  ASSUME NEW addrs, addrs \subseteq Low64K, NEW a \in addrs
  PROVE  \E r : FirstOf(addrs, r, a)
<1> DEFINE T == {r \in addrs : r <= a /\ r..a \subseteq addrs}
<1>1. \A x \in addrs : x \in Nat
  BY NoWrap
<1>2. T \subseteq Nat /\ a \in T
  BY <1>1
<1>3. PICK r \in T : \A o \in T : r <= o
  BY <1>2, LeastOf
<1>4. ASSUME r - 1 \in addrs PROVE FALSE
  <2>1. (r - 1)..a = {r - 1} \cup (r..a)
    BY <1>1, <1>3
  <2>2. r - 1 \in T
    BY <1>1, <1>3, <1>4, <2>1
  <2>3. QED
    BY <1>1, <1>3, <2>2
<1>5. QED
  BY <1>3, <1>4 DEF FirstOf

LEMMA RunIsOne ==
  ASSUME NEW addrs, addrs \subseteq Low64K, NEW a \in addrs,
         NEW r, NEW q, FirstOf(addrs, r, a), FirstOf(addrs, q, a)
  PROVE  r = q
<1>1. \A x \in addrs : x \in Nat
  BY NoWrap
<1>2. r \in Nat /\ q \in Nat /\ a \in Nat
  BY <1>1 DEF FirstOf
<1>3. ~(r < q) /\ ~(q < r)
  BY <1>2 DEF FirstOf
<1>4. QED
  BY <1>2, <1>3

(* A record starts at every RecordSize-th address of a run. *)
LEMMA StartsAre ==
  ASSUME NEW addrs, addrs \subseteq Low64K, NEW a \in addrs, NEW r, FirstOf(addrs, r, a)
  PROVE  a \in RecordStarts(addrs) <=> (a - r) % RecordSize = 0
<1> DEFINE Is(s, x) == /\ s <= x /\ s..x \subseteq addrs /\ (s - 1 \notin addrs \/ s % 65536 = 0)
                       /\ \A t \in (s + 1)..x : t % 65536 # 0
           Run(x) == CHOOSE s \in addrs : Is(s, x)
<1>1. \A x \in addrs : x \in Nat /\ x % 65536 = x /\ x - 1 \in Int
  BY NoWrap
<1>2. -1 \notin addrs
  BY <1>1
<1>3. ASSUME NEW s \in addrs PROVE Is(s, a) <=> FirstOf(addrs, s, a)
  <2>1. ASSUME s..a \subseteq addrs PROVE \A t \in (s + 1)..a : t % 65536 # 0
    <3>1. ASSUME NEW t \in (s + 1)..a PROVE t % 65536 # 0
      <4>1. t \in s..a /\ t # 0
        BY <1>1
      <4>2. QED
        BY <1>1, <2>1, <4>1
    <3>2. QED
      BY <3>1
  <2>2. s % 65536 = 0 => s - 1 \notin addrs
    BY <1>1, <1>2
  <2>3. QED
    BY <2>1, <2>2 DEF FirstOf
<1>4. RecordStarts(addrs) = {x \in addrs : (x - Run(x)) % RecordSize = 0}
  BY DEF RecordStarts
<1>5. Run(a) = r
  <2>1. r \in addrs /\ Is(r, a)
    BY <1>3 DEF FirstOf
  <2>2. \A s \in addrs : Is(s, a) => s = r
    BY <1>3, RunIsOne
  <2> HIDE DEF Is
  <2>3. QED
    BY <2>1, <2>2
<1> HIDE DEF Run
<1>6. QED
  BY <1>4, <1>5

(* The next multiple of n after d is d + n. *)
LEMMA NextMultiple ==
  ASSUME NEW n \in Nat, n > 0, NEW d \in Nat, d % n = 0
  PROVE  (d + n) % n = 0
<1> DEFINE a == d + n
<1>1. a \in Nat
  OBVIOUS
<1>2. PICK q \in Int : d = q * n
  <2>1. d \div n \in Int /\ d = n * (d \div n) + (d % n)
    OBVIOUS
  <2>2. n * (d \div n) = (d \div n) * n
    BY <2>1
  <2>3. QED
    BY <2>1, <2>2
<1> HIDE DEF a
<1>3. PICK p \in Int, r \in 0..(n - 1) : a = p * n + r /\ r = a % n
  <2>1. a % n \in 0..(n - 1) /\ a \div n \in Int /\ a = n * (a \div n) + (a % n)
    BY <1>1
  <2>2. n * (a \div n) = (a \div n) * n
    BY <2>1
  <2>3. QED
    BY <2>1, <2>2
<1>4. (q + 1) * n = q * n + n /\ (q + 1) * n = p * n + r
  BY <1>2, <1>3 DEF a
<1>5. ~(p >= q + 2)
  <2> SUFFICES ASSUME p >= q + 2 PROVE FALSE
    OBVIOUS
  <2>1. p * n >= (q + 2) * n /\ (q + 2) * n = q * n + n + n
    OBVIOUS
  <2>2. p * n \in Int /\ q * n \in Int
    OBVIOUS
  <2>3. QED
    BY <1>4, <2>1, <2>2
<1>6. ~(q >= p)
  <2> SUFFICES ASSUME q >= p PROVE FALSE
    OBVIOUS
  <2>1. q * n >= p * n /\ p * n \in Int /\ q * n \in Int
    OBVIOUS
  <2>2. QED
    BY <1>4, <2>1
<1>7. p = q + 1
  BY <1>5, <1>6
<1>8. p * n \in Int
  OBVIOUS
<1>9. QED
  BY <1>3, <1>4, <1>7, <1>8 DEF a

(* The addresses from s to e make up a record. *)
IsRow(addrs, s, e) ==
  /\ e \in s..(s + RecordSize - 1) /\ s..e \subseteq addrs
  /\ (s + 1)..e \cap RecordStarts(addrs) = {}
  /\ e + 1 \notin addrs \/ e + 1 \in RecordStarts(addrs)

(* A record that starts has an end, *)
LEMMA RowsEnd ==
  ASSUME NEW addrs, addrs \subseteq Low64K, NEW s \in RecordStarts(addrs)
  PROVE  s \in addrs /\ \E e : IsRow(addrs, s, e)
<1> DEFINE starts == RecordStarts(addrs)
           R == RecordSize
           T == {e \in s..(s + R - 1) : s..e \subseteq addrs /\ (s + 1)..e \cap starts = {}}
<1>1. s \in addrs
  BY DEF RecordStarts
<1>2. \A x \in addrs : x \in Nat
  BY NoWrap
<1>3. R \in Nat /\ R >= 1
  BY RecordSizeAssumption
<1> HIDE DEF R
<1>4. T \subseteq 0..(s + R - 1) /\ s + R - 1 \in Nat /\ s \in T
  <2>1. s..s = {s} /\ (s + 1)..s = {} /\ s \in s..(s + R - 1)
    BY <1>1, <1>2, <1>3
  <2>2. QED
    BY <1>1, <1>2, <1>3, <2>1
<1>5. PICK e \in T : \A o \in T : o <= e
  <2> HIDE DEF T
  <2>1. QED
    BY <1>4, GreatestOf
<1>6. /\ e \in Nat /\ s \in Nat /\ s <= e /\ e <= s + R - 1
      /\ s..e \subseteq addrs /\ (s + 1)..e \cap starts = {}
  BY <1>1, <1>2, <1>3, <1>5
<1>10. \A o : o \in T <=> o \in s..(s + R - 1) /\ s..o \subseteq addrs /\ (s + 1)..o \cap starts = {}
  OBVIOUS
<1> HIDE DEF T
<1>7. ASSUME e + 1 \in addrs, e + 1 \notin starts PROVE FALSE
  <2>1. s..(e + 1) = (s..e) \cup {e + 1} /\ (s + 1)..(e + 1) = ((s + 1)..e) \cup {e + 1}
    BY <1>6
  <2>2. e + 1 \notin T
    BY <1>5, <1>6
  <2>3. e + 1 = s + R
    <3>1. s..(e + 1) \subseteq addrs /\ (s + 1)..(e + 1) \cap starts = {}
      BY <1>6, <1>7, <2>1
    <3>2. e + 1 \notin s..(s + R - 1)
      BY <1>10, <2>2, <3>1
    <3>3. QED
      BY <1>3, <1>6, <3>2
  <2>4. PICK r : FirstOf(addrs, r, s)
    BY <1>1, RunExists
  <2>5. r \in Nat /\ r <= s
    BY <1>2, <2>4 DEF FirstOf
  <2>6. FirstOf(addrs, r, e + 1)
    <3>1. r..(e + 1) = (r..s) \cup (s..e) \cup {e + 1}
      BY <1>6, <2>5
    <3>2. r..(e + 1) \subseteq addrs
      BY <1>6, <1>7, <2>4, <3>1 DEF FirstOf
    <3>3. QED
      BY <1>6, <2>4, <2>5, <3>2 DEF FirstOf
  <2>7. (s - r) % R = 0
    BY <1>1, <2>4, StartsAre DEF R
  <2>8. ((e + 1) - r) % R = 0
    <3>1. (e + 1) - r = (s - r) + R /\ s - r \in Nat
      BY <1>3, <1>6, <2>3, <2>5
    <3> DEFINE d == s - r
    <3>2. d \in Nat /\ d % R = 0 /\ (e + 1) - r = d + R
      BY <2>7, <3>1
    <3> HIDE DEF d
    <3>3. (d + R) % R = 0
      BY <1>3, <3>2, NextMultiple
    <3>4. QED
      BY <3>2, <3>3, Zenon
  <2>9. e + 1 \in starts
    <3> DEFINE x == e + 1
    <3>1. x \in addrs /\ FirstOf(addrs, r, x) /\ (x - r) % R = 0
      BY <1>7, <2>6, <2>8, Zenon
    <3> HIDE DEF x
    <3>2. x \in starts
      BY <3>1, StartsAre DEF R
    <3>3. QED
      BY <3>2 DEF x
  <2>10. QED
    BY <1>7, <2>9
<1>8. IsRow(addrs, s, e)
  BY <1>3, <1>6, <1>7 DEF IsRow, R
<1>9. QED
  BY <1>1, <1>8

(* and every byte of the map is in one. *)
LEMMA RowsCover ==
  ASSUME NEW addrs, addrs \subseteq Low64K, NEW a \in addrs
  PROVE  \E s \in RecordStarts(addrs) : s <= a /\ \A e : IsRow(addrs, s, e) => a <= e
<1> DEFINE starts == RecordStarts(addrs)
<1>1. \A x \in addrs : x \in Nat
  BY NoWrap
<1>2. PICK r : FirstOf(addrs, r, a)
  BY RunExists
<1>3. r \in Nat /\ r \in addrs /\ r <= a /\ a \in Nat
  BY <1>1, <1>2 DEF FirstOf
<1> DEFINE T == {s \in starts : r <= s /\ s <= a}
<1>4. r \in starts
  <2>1. FirstOf(addrs, r, r)
    <3>1. r..r \subseteq r..a
      BY <1>3
    <3>2. QED
      BY <1>2, <1>3, <3>1 DEF FirstOf
  <2>2. (r - r) % RecordSize = 0
    BY <1>3, RecordSizeAssumption
  <2>3. QED
    BY <1>3, <2>1, <2>2, StartsAre
<1>5. \A x \in starts : x \in addrs /\ x \in Nat
  BY <1>1 DEF RecordStarts
<1> HIDE DEF starts
<1>6. PICK s \in T : \A o \in T : o <= s
  <2>1. T \subseteq 0..a /\ r \in T
    <3>1. \A x \in T : x \in Nat /\ x <= a
      BY <1>5
    <3>2. r \in T
      BY <1>3, <1>4
    <3> HIDE DEF T
    <3>3. QED
      BY <1>3, <3>1, <3>2
  <2> HIDE DEF T
  <2>2. QED
    BY <1>3, <2>1, GreatestOf
<1>7. ASSUME NEW e, IsRow(addrs, s, e), ~(a <= e) PROVE FALSE
  <2>1. s \in Nat /\ e \in s..(s + RecordSize - 1) /\ r <= s
    BY <1>5, <1>6, <1>7 DEF IsRow
  <2>2. RecordSize \in Nat
    BY RecordSizeAssumption
  <2>3. e \in Nat /\ s <= e /\ e + 1 \in r..a
    BY <1>3, <1>7, <2>1, <2>2
  <2>4. e + 1 \in starts
    BY <1>2, <1>7, <2>3 DEF FirstOf, IsRow, starts
  <2>5. e + 1 \in T
    BY <1>3, <2>3, <2>4
  <2>6. QED
    BY <1>6, <2>1, <2>3, <2>5
<1>8. QED
  BY <1>6, <1>7 DEF starts

(* The bytes of the map from s to e. *)
BytesOf(m, s, e) == [i \in 1..(e - s + 1) |-> m[s + i - 1]]

LEMMA DataRecordIs ==
  ASSUME NEW m, DOMAIN m \subseteq Low64K, \A a \in DOMAIN m : m[a] \in Byte,
         NEW s \in RecordStarts(DOMAIN m)
  PROVE  \E e : /\ IsRow(DOMAIN m, s, e) /\ BytesOf(m, s, e) \in Seq(Byte)
                /\ IsRec(DataRecord(m, RecordStarts(DOMAIN m), s), s, 0, BytesOf(m, s, e))
<1> DEFINE starts == RecordStarts(DOMAIN m)
           e == CHOOSE e \in s..(s + RecordSize - 1) :
                  /\ s..e \subseteq DOMAIN m /\ (s+1)..e \cap starts = {}
                  /\ e + 1 \notin DOMAIN m \/ e + 1 \in starts
<1>1. s \in DOMAIN m /\ \E x : IsRow(DOMAIN m, s, x)
  BY RowsEnd
<1>2. IsRow(DOMAIN m, s, e)
  BY <1>1 DEF IsRow
<1>3. DataRecord(m, starts, s) = Rec(s % 65536, 0, BytesOf(m, s, e))
  BY DEF DataRecord, BytesOf
<1> HIDE DEF e
<1>4. s \in Nat /\ s % 65536 = s
  BY <1>1, NoWrap
<1>5. RecordSize \in Nat /\ RecordSize <= 255
  BY RecordSizeAssumption
<1>6. e \in Nat /\ s <= e /\ e - s + 1 <= 255 /\ s..e \subseteq DOMAIN m
  BY <1>2, <1>4, <1>5 DEF IsRow
<1>7. BytesOf(m, s, e) \in Seq(Byte) /\ Len(BytesOf(m, s, e)) = e - s + 1
  <2>1. ASSUME NEW i \in 1..(e - s + 1) PROVE m[s + i - 1] \in Byte
    <3>1. s + i - 1 \in s..e
      BY <1>4, <1>6
    <3>2. QED
      BY <1>6, <3>1
  <2>2. QED
    BY <1>4, <1>6, <2>1 DEF BytesOf
<1>8. IsRec(Rec(s, 0, BytesOf(m, s, e)), s, 0, BytesOf(m, s, e))
  <2>1. 0 \in Byte
    BY SmallIsByte
  <2>2. QED
    BY <1>4, <1>6, <1>7, <2>1, RecIs
<1>9. QED
  BY <1>2, <1>3, <1>4, <1>7, <1>8

(* What the byte map of a program has to be. *)
IsMapOf(m, w, c) ==
  LET C == CONFIG_BYTE_ADDR
  IN /\ DOMAIN m \subseteq Low64K /\ \A a \in DOMAIN m : m[a] \in Byte
     /\ \A a \in DOMAIN m : a \in {C, C + 1} \/ (a < 2 * PROG_WORDS /\ a \div 2 \in DOMAIN w)
     /\ \A x \in DOMAIN w : /\ 2 * x \in DOMAIN m /\ 2 * x + 1 \in DOMAIN m
                            /\ m[2 * x] + 256 * m[2 * x + 1] = w[x]
     /\ IF c = NoConfig THEN C \notin DOMAIN m /\ C + 1 \notin DOMAIN m
        ELSE C \in DOMAIN m /\ C + 1 \in DOMAIN m /\ m[C] + 256 * m[C + 1] = c

(* A word is what its two bytes say. *)
LEMMA WordParts ==
  \A v \in Words : /\ v \in Nat /\ v < 16384 /\ v % 256 \in Byte /\ v \div 256 \in Byte
                   /\ (v % 256) + 256 * (v \div 256) = v
<1>1. \A v \in Words : v \in Nat /\ v < 16384
  BY DEF Words
<1>2. ASSUME NEW v \in Nat, v < 16384
      PROVE  /\ v % 256 \in Nat /\ v % 256 < 256 /\ v \div 256 \in Nat /\ v \div 256 < 256
             /\ (v % 256) + 256 * (v \div 256) = v
  BY <1>2
<1>3. QED
  BY <1>1, <1>2, SmallIsByte

LEMMA WordNumbers ==
  ASSUME NEW D, D \subseteq 0..(PROG_WORDS - 1)
  PROVE  \A x \in D : x \in Nat /\ x < 2048
<1> DEFINE top == PROG_WORDS - 1
<1>1. top = 2047
  BY DEF PROG_WORDS
<1> HIDE DEF top
<1>2. \A x \in D : x \in Nat /\ x <= top
  <2>1. D \subseteq 0..top
    BY DEF top
  <2>2. QED
    BY <1>1, <2>1
<1>3. QED
  BY <1>1, <1>2

LEMMA Doubled ==
  ASSUME NEW x \in Nat, x < 2048, NEW n, n = 4095
  PROVE  2 * x \in 0..n /\ (2 * x) \div 2 = x
OBVIOUS

LEMMA ByteMapIs ==
  ASSUME NEW w, DOMAIN w \subseteq 0..(PROG_WORDS - 1), \A x \in DOMAIN w : w[x] \in Words,
         NEW c \in Words \cup {NoConfig}
  PROVE  IsMapOf(ByteMap(w, c), w, c)
<1> DEFINE C == CONFIG_BYTE_ADDR
           code == {2*x : x \in DOMAIN w} \cup {2*x + 1 : x \in DOMAIN w}
           fuse == IF c = NoConfig THEN {} ELSE {C, C + 1}
           At(a) == IF a \in fuse THEN c ELSE w[a \div 2]
           m == ByteMap(w, c)
<1>1. m = [a \in code \cup fuse |-> IF a % 2 = 0 THEN At(a) % 256 ELSE At(a) \div 256]
  BY DEF ByteMap
<1>2. C = 16398 /\ PROG_WORDS = 2048 /\ NoConfig = -1
  BY DEF CONFIG_BYTE_ADDR, PROG_WORDS, NoConfig
<1>3. NoConfig \notin Words
  BY <1>2, WordParts
<1> HIDE DEF m, C
<1>4. \A x \in DOMAIN w : x \in Nat /\ x < 2048
  BY WordNumbers
<1>5. ASSUME NEW a \in code PROVE /\ a \in Nat /\ a < 4096 /\ a \div 2 \in DOMAIN w
                                  /\ a \notin fuse /\ At(a) \in Words
  <2>1. PICK x \in DOMAIN w : a = 2 * x \/ a = 2 * x + 1
    OBVIOUS
  <2>2. a \div 2 = x /\ a \in Nat /\ a < 4096
    BY <1>4, <2>1
  <2>3. a \notin fuse
    BY <1>2, <2>2
  <2>4. QED
    BY <2>2, <2>3
<1>6. ASSUME NEW a \in fuse PROVE a \in {C, C + 1} /\ a \in Nat /\ a < 65536 /\ At(a) \in Words
  BY <1>2, <1>3
<1>7. DOMAIN m = code \cup fuse
  BY <1>1
<1>8. \A a \in DOMAIN m : m[a] \in Byte
  <2>1. ASSUME NEW a \in DOMAIN m PROVE m[a] \in Byte
    <3>1. At(a) \in Words
      BY <1>5, <1>6, <1>7
    <3>2. m[a] = At(a) % 256 \/ m[a] = At(a) \div 256
      BY <1>1, <1>7
    <3> HIDE DEF At
    <3>3. QED
      BY <3>1, <3>2, WordParts
  <2>2. QED
    BY <2>1
<1>9. DOMAIN m \subseteq Low64K
  <2>1. \A a \in DOMAIN m : a \in Nat /\ a < 65536
    <3> HIDE DEF code, fuse, At
    <3>1. QED
      BY <1>5, <1>6, <1>7
  <2>2. QED
    BY <2>1, FewAreLow
<1>10. \A a \in DOMAIN m : a \in {C, C + 1} \/ (a < 2 * PROG_WORDS /\ a \div 2 \in DOMAIN w)
  <2> HIDE DEF code, fuse, At
  <2>1. QED
    BY <1>2, <1>5, <1>6, <1>7
<1>11. ASSUME NEW x \in DOMAIN w
       PROVE  /\ 2 * x \in DOMAIN m /\ 2 * x + 1 \in DOMAIN m
              /\ m[2 * x] + 256 * m[2 * x + 1] = w[x]
  <2>1. 2 * x \in code /\ 2 * x + 1 \in code
    OBVIOUS
  <2>2. /\ (2 * x) \div 2 = x /\ (2 * x + 1) \div 2 = x
        /\ (2 * x) % 2 = 0 /\ (2 * x + 1) % 2 = 1
    BY <1>4
  <2>3. At(2 * x) = w[x] /\ At(2 * x + 1) = w[x]
    BY <1>5, <2>1, <2>2
  <2> HIDE DEF At, code, fuse
  <2>4. m[2 * x] = w[x] % 256 /\ m[2 * x + 1] = w[x] \div 256
    BY <1>1, <2>1, <2>2, <2>3
  <2>5. QED
    BY <1>7, <2>1, <2>4, WordParts
<1>12. IF c = NoConfig THEN C \notin DOMAIN m /\ C + 1 \notin DOMAIN m
       ELSE C \in DOMAIN m /\ C + 1 \in DOMAIN m /\ m[C] + 256 * m[C + 1] = c
  <2>1. CASE c = NoConfig
    <3>1. fuse = {}
      BY <2>1
    <3> HIDE DEF code, fuse, At
    <3>2. QED
      BY <1>2, <1>5, <1>7, <2>1, <3>1
  <2>2. CASE c # NoConfig
    <3>1. C \in fuse /\ C + 1 \in fuse /\ c \in Words
      BY <2>2
    <3>2. At(C) = c /\ At(C + 1) = c /\ C % 2 = 0 /\ (C + 1) % 2 = 1
      BY <1>2, <3>1
    <3> HIDE DEF code, fuse, At
    <3>3. m[C] = c % 256 /\ m[C + 1] = c \div 256
      BY <1>1, <3>1, <3>2
    <3>4. QED
      BY <1>7, <2>2, <3>1, <3>3, WordParts
  <2>3. QED
    BY <2>1, <2>2
<1>13. QED
  BY <1>8, <1>9, <1>10, <1>11, <1>12 DEF IsMapOf, C, m

(* A line with the bytes of m from s to e, and a file of such lines. *)
IsDataOf(line, m, s, e) ==
  /\ s \in Nat /\ s < 65536 /\ e \in Nat /\ s <= e /\ s..e \subseteq DOMAIN m
  /\ BytesOf(m, s, e) \in Seq(Byte)
  /\ IsRec(line, s, 0, BytesOf(m, s, e))

IsFileOf(f, m) ==
  /\ f \in Seq(Lines) /\ Len(f) >= 2
  /\ IsRec(f[1], 0, 4, <<0, 0>>) /\ IsRec(f[Len(f)], 0, 1, <<>>)
  /\ \A i \in 2..(Len(f) - 1) : \E s, e : IsDataOf(f[i], m, s, e)
  /\ \A a \in DOMAIN m :
       \E i \in 2..(Len(f) - 1) : \E s, e : IsDataOf(f[i], m, s, e) /\ a \in s..e

(* toIntelHex writes such a file. *)
LEMMA FileIs ==
  ASSUME NEW w, NEW c, IsMapOf(ByteMap(w, c), w, c)
  PROVE  IsFileOf(ToIntelHex(w, c), ByteMap(w, c))
<1> DEFINE m      == ByteMap(w, c)
           starts == RecordStarts(DOMAIN m)
           n      == Cardinality(starts)
           Rank(x) == Cardinality({t \in starts : t <= x})
           Ith(i) == CHOOSE s \in starts : Rank(s) = i
           datas  == [i \in 1..n |-> DataRecord(m, starts, Ith(i))]
           f      == ToIntelHex(w, c)
<1>1. f = <<Rec(0, 4, <<0, 0>>)>> \o datas \o <<EofRecord>>
  BY DEF ToIntelHex
<1>2. DOMAIN m \subseteq Low64K /\ \A a \in DOMAIN m : m[a] \in Byte
  BY DEF IsMapOf
<1> HIDE DEF m, f
<1>3. starts \subseteq Nat /\ IsFiniteSet(starts)
  <2>1. \A x \in starts : x \in Nat /\ x <= Top64K
    <3>1. starts \subseteq DOMAIN m
      BY DEF RecordStarts
    <3> HIDE DEF starts
    <3>2. QED
      BY <1>2, <3>1, NoWrap
  <2>2. starts \subseteq Nat /\ Top64K \in Nat
    <3>1. Top64K \in Nat
      BY DEF Top64K
    <3> HIDE DEF starts
    <3>2. QED
      BY <2>1, <3>1
  <2> HIDE DEF starts
  <2>3. QED
    BY <2>1, <2>2, FS_BoundedSetOfNaturals
<1>4. /\ n \in Nat /\ \A i \in 1..n : Ith(i) \in starts
      /\ \A x \in starts : Rank(x) \in 1..n /\ Ith(Rank(x)) = x
  BY <1>3, RanksAreAll
<1>5. ASSUME NEW s \in starts
      PROVE  \E e : IsRow(DOMAIN m, s, e) /\ IsDataOf(DataRecord(m, starts, s), m, s, e)
  <2>1. PICK e : /\ IsRow(DOMAIN m, s, e) /\ BytesOf(m, s, e) \in Seq(Byte)
                 /\ IsRec(DataRecord(m, starts, s), s, 0, BytesOf(m, s, e))
    BY <1>2, DataRecordIs
  <2>2. s \in DOMAIN m /\ s \in Nat /\ s < 65536
    <3>1. s \in DOMAIN m
      BY DEF RecordStarts
    <3>2. QED
      BY <1>2, <3>1, NoWrap
  <2>3. RecordSize \in Nat
    BY RecordSizeAssumption
  <2>4. e \in Nat /\ s <= e /\ s..e \subseteq DOMAIN m
    BY <2>1, <2>2, <2>3 DEF IsRow
  <2>5. QED
    BY <2>1, <2>2, <2>4 DEF IsDataOf
<1> HIDE DEF starts, Rank, Ith, n
<1>6. \A i \in 1..n : \E s, e : IsDataOf(datas[i], m, s, e)
  BY <1>4, <1>5
<1>7. \A i \in 1..n : datas[i] \in Lines
  BY <1>6 DEF IsDataOf, IsRec
<1>8. datas \in Seq(Lines) /\ Len(datas) = n
  BY <1>4, <1>7
<1>9. /\ IsRec(Rec(0, 4, <<0, 0>>), 0, 4, <<0, 0>>)
      /\ IsRec(EofRecord, 0, 1, <<>>)
  <2>1. 0 \in Byte /\ 1 \in Byte /\ 4 \in Byte
    BY SmallIsByte
  <2>2. <<0, 0>> \in Seq(Byte) /\ Len(<<0, 0>>) <= 255 /\ <<>> \in Seq(Byte) /\ Len(<<>>) <= 255
    BY <2>1
  <2>3. IsRec(Rec(0, 4, <<0, 0>>), 0, 4, <<0, 0>>)
    BY <2>1, <2>2, RecIs
  <2>4. IsRec(Rec(0, 1, <<>>), 0, 1, <<>>)
    BY <2>1, <2>2, RecIs
  <2>5. QED
    BY <2>3, <2>4 DEF EofRecord
<1> DEFINE first == Rec(0, 4, <<0, 0>>)
           head  == <<first>> \o datas
<1>10. first \in Lines /\ EofRecord \in Lines
  BY <1>9 DEF IsRec
<1> HIDE DEF datas, first
<1>11. /\ head \in Seq(Lines) /\ Len(head) = n + 1 /\ head[1] = first
       /\ \A i \in 1..n : head[i + 1] = datas[i]
  <2>1. <<first>> \in Seq(Lines) /\ Len(<<first>>) = 1 /\ <<first>>[1] = first
    BY <1>10
  <2>2. IsJoined(head, <<first>>, datas, Lines)
    BY <1>8, <2>1, Joining
  <2> HIDE DEF head
  <2>3. /\ head \in Seq(Lines) /\ Len(head) = 1 + n /\ head[1] = first
        /\ \A i \in 1..n : head[1 + i] = datas[i]
    BY <1>4, <1>8, <2>1, <2>2 DEF IsJoined
  <2>4. QED
    BY <1>4, <2>3
<1> HIDE DEF head
<1>12. /\ f \in Seq(Lines) /\ Len(f) = n + 2 /\ f[1] = first /\ f[n + 2] = EofRecord
       /\ \A i \in 2..(n + 1) : f[i] = datas[i - 1]
  <2>1. <<EofRecord>> \in Seq(Lines) /\ Len(<<EofRecord>>) = 1 /\ <<EofRecord>>[1] = EofRecord
    BY <1>10
  <2>2. IsJoined(f, head, <<EofRecord>>, Lines)
    BY <1>1, <1>11, <2>1, Joining DEF head, first
  <2>3. /\ f \in Seq(Lines) /\ Len(f) = (n + 1) + 1 /\ f[(n + 1) + 1] = EofRecord
        /\ \A i \in 1..(n + 1) : f[i] = head[i]
    BY <1>4, <1>11, <2>1, <2>2 DEF IsJoined
  <2>4. f[1] = first
    BY <1>4, <1>11, <2>3
  <2>5. ASSUME NEW i \in 2..(n + 1) PROVE f[i] = datas[i - 1]
    <3>1. i \in 1..(n + 1) /\ i - 1 \in 1..n /\ (i - 1) + 1 = i
      BY <1>4
    <3>2. f[i] = head[i]
      BY <2>3, <3>1
    <3>3. head[(i - 1) + 1] = datas[i - 1]
      BY <1>11, <3>1
    <3>4. QED
      BY <3>1, <3>2, <3>3
  <2>6. QED
    BY <1>4, <2>3, <2>4, <2>5
<1>13. ASSUME NEW i \in 2..(n + 1) PROVE \E s, e : IsDataOf(f[i], m, s, e)
  <2>1. i - 1 \in 1..n
    BY <1>4
  <2>2. QED
    BY <1>6, <1>12, <2>1
<1>14. ASSUME NEW a \in DOMAIN m
       PROVE  \E i \in 2..(n + 1) : \E s, e : IsDataOf(f[i], m, s, e) /\ a \in s..e
  <2>1. PICK s \in starts : s <= a /\ \A e : IsRow(DOMAIN m, s, e) => a <= e
    BY <1>2, RowsCover DEF starts
  <2>2. PICK e : IsRow(DOMAIN m, s, e) /\ IsDataOf(DataRecord(m, starts, s), m, s, e)
    BY <1>5
  <2>3. a \in s..e
    <3>1. a \in Nat
      BY <1>2, NoWrap
    <3>2. QED
      BY <2>1, <2>2, <3>1 DEF IsDataOf
  <2>4. Rank(s) \in 1..n /\ datas[Rank(s)] = DataRecord(m, starts, s)
    BY <1>4 DEF datas
  <2>5. Rank(s) + 1 \in 2..(n + 1) /\ (Rank(s) + 1) - 1 = Rank(s)
    BY <1>4, <2>4
  <2>6. f[Rank(s) + 1] = DataRecord(m, starts, s)
    BY <1>12, <2>4, <2>5
  <2>7. QED
    BY <2>2, <2>3, <2>5, <2>6
<1>15. Len(f) - 1 = n + 1 /\ Len(f) >= 2 /\ f[Len(f)] = EofRecord
  BY <1>4, <1>12
<1>16. IsFileOf(f, m)
  BY <1>9, <1>12, <1>13, <1>14, <1>15 DEF IsFileOf, first
<1>17. QED
  BY <1>16 DEF f, m

(* How a data line reads: byte j of it is the one at s + j. *)
LEMMA BytesOfAre ==
  ASSUME NEW line, NEW m, NEW s, NEW e, IsDataOf(line, m, s, e)
  PROVE  /\ Len(BytesOf(m, s, e)) = e - s + 1 /\ Count(line.bytes) = e - s + 1
         /\ \A i \in 1..(e - s + 1) : BytesOf(m, s, e)[i] = m[s + i - 1]
<1> DEFINE d == BytesOf(m, s, e)
<1>1. d \in Seq(Byte) /\ s \in Nat /\ e \in Nat /\ s <= e
  BY DEF IsDataOf
<1>2. d = [i \in 1..(e - s + 1) |-> m[s + i - 1]] /\ DOMAIN d = 1..(e - s + 1)
  BY DEF BytesOf
<1> HIDE DEF d
<1>3. DOMAIN d = 1..Len(d) /\ Len(d) \in Nat
  BY <1>1
<1>4. Len(d) = e - s + 1
  BY <1>1, <1>2, <1>3
<1>5. Count(line.bytes) = Len(d)
  BY DEF IsDataOf, IsRec, d
<1>6. QED
  BY <1>2, <1>4, <1>5 DEF d

IsDatum(b, m, s, j) ==
  /\ b[2] = (s \div 256) % 256 /\ b[3] = s % 256
  /\ b[5 + j] = m[s + j] /\ s + j \in DOMAIN m
  /\ s \in Nat /\ j \in Nat /\ s < 65536 /\ s + j < 65536

LEMMA DataLineIs ==
  ASSUME NEW line, NEW m, NEW s, NEW e, IsDataOf(line, m, s, e),
         DOMAIN m \subseteq Low64K, NEW j \in 0..(Count(line.bytes) - 1)
  PROVE  IsDatum(line.bytes, m, s, j)
<1> DEFINE d == BytesOf(m, s, e)
<1>1. s \in Nat /\ s < 65536 /\ e \in Nat /\ s <= e /\ s..e \subseteq DOMAIN m
  BY DEF IsDataOf
<1>2. Len(d) = e - s + 1 /\ \A i \in 1..(e - s + 1) : d[i] = m[s + i - 1]
  BY BytesOfAre
<1>3. /\ Count(line.bytes) = Len(d)
      /\ line.bytes[2] = (s \div 256) % 256 /\ line.bytes[3] = s % 256
      /\ \A i \in 0..(Len(d) - 1) : line.bytes[5 + i] = d[i + 1]
  BY DEF IsDataOf, IsRec
<1> HIDE DEF d
<1>4. j \in Nat /\ j <= e - s
  BY <1>1, <1>2, <1>3
<1>5. line.bytes[5 + j] = m[s + j]
  <2>1. j \in 0..(Len(d) - 1) /\ j + 1 \in 1..(e - s + 1) /\ s + (j + 1) - 1 = s + j
    BY <1>1, <1>2, <1>4
  <2>2. line.bytes[5 + j] = d[j + 1]
    BY <1>3, <2>1
  <2>3. d[j + 1] = m[s + (j + 1) - 1]
    BY <1>2, <2>1
  <2>4. QED
    BY <2>1, <2>2, <2>3
<1>6. s + j \in s..e
  BY <1>1, <1>4
<1>7. s + j < 65536
  BY <1>1, <1>6, NoWrap
<1>8. QED
  BY <1>1, <1>3, <1>4, <1>5, <1>6, <1>7 DEF IsDatum

LEMMA AddressParts ==
  \A s, j \in Nat : s < 65536 /\ s + j < 65536 =>
    LET low == 0 + 256 * ((s \div 256) % 256) + (s % 256) + j
    IN (0 + low \div 65536) % 65536 = 0 /\ low % 65536 = s + j
<1>1. ASSUME NEW s \in Nat, s < 65536 PROVE 256 * ((s \div 256) % 256) + (s % 256) = s
  <2>1. s \div 256 \in Nat /\ s \div 256 < 256
    BY <1>1
  <2>2. (s \div 256) % 256 = s \div 256
    BY <2>1
  <2>3. 256 * (s \div 256) + (s % 256) = s
    OBVIOUS
  <2>4. QED
    BY <2>2, <2>3
<1>2. ASSUME NEW a \in Nat, a < 65536 PROVE (0 + a \div 65536) % 65536 = 0 /\ a % 65536 = a
  BY <1>2
<1>3. ASSUME NEW s \in Nat, NEW j \in Nat, s < 65536, s + j < 65536
      PROVE  0 + 256 * ((s \div 256) % 256) + (s % 256) + j = s + j
  BY <1>1, <1>3
<1>4. QED
  BY <1>2, <1>3

LEMMA DatumAddress ==
  ASSUME NEW b, NEW m, NEW s, NEW j, IsDatum(b, m, s, j)
  PROVE  LET low == 0 + 256 * b[2] + b[3] + j
         IN (0 + low \div 65536) % 65536 = 0 /\ low % 65536 = s + j
BY AddressParts DEF IsDatum

(* What the lines of such a file are to the reader. *)
LEMMA LinesAre ==
  ASSUME NEW f, NEW m, IsFileOf(f, m)
  PROVE  /\ Len(f) \in Nat
         /\ IsKind(f, 1, {2, 4}) /\ ~IsKind(f, 1, {0}) /\ ~IsKind(f, 1, {1})
         /\ \A i \in 2..(Len(f) - 1) : /\ IsKind(f, i, {0}) /\ ~IsKind(f, i, {1})
                                       /\ ~IsKind(f, i, {2, 4})
         /\ ~IsKind(f, Len(f), {0}) /\ ~IsKind(f, Len(f), {2, 4})
         /\ \A i \in 1..Len(f) : Counts(f, i)
<1>1. Len(f) \in Nat /\ Len(f) >= 2
  BY DEF IsFileOf
<1>2. f[1].shape = "record" /\ Kind(f[1].bytes) = 4
  BY DEF IsFileOf, IsRec
<1>3. \A i \in 2..(Len(f) - 1) : f[i].shape = "record" /\ Kind(f[i].bytes) = 0
  <2>1. ASSUME NEW line, NEW s, NEW e, IsDataOf(line, m, s, e)
        PROVE  line.shape = "record" /\ Kind(line.bytes) = 0
    BY <2>1 DEF IsDataOf, IsRec
  <2>2. \A i \in 2..(Len(f) - 1) : \E s, e : IsDataOf(f[i], m, s, e)
    BY DEF IsFileOf
  <2>3. QED
    BY <2>1, <2>2
<1>4. Kind(f[Len(f)].bytes) = 1
  BY DEF IsFileOf, IsRec
<1>5. \A i \in 1..(Len(f) - 1) : ~IsKind(f, i, {1})
  BY <1>1, <1>2, <1>3 DEF IsKind
<1>6. \A i \in 1..Len(f) : Counts(f, i)
  BY <1>1, <1>5 DEF Counts
<1>7. QED
  BY <1>1, <1>2, <1>3, <1>4, <1>6 DEF IsKind

(* The first line makes the upper half of all addresses zero. *)
LEMMA BasesAre ==
  ASSUME NEW f, NEW m, IsFileOf(f, m), NEW i \in 2..Len(f)
  PROVE  BaseAt(f, i) = <<0, 0>>
<1> DEFINE movers == {o \in 1..(i - 1) : IsKind(f, o, {2, 4})}
           last   == CHOOSE o \in movers : \A p \in movers : p <= o
           d      == DataOf(f[last].bytes)
<1>1. movers = {1}
  <2>1. 1 \in movers
    BY LinesAre
  <2>2. \A o \in 1..(i - 1) : o # 1 => o \in 2..(Len(f) - 1)
    BY LinesAre
  <2>3. QED
    BY <2>1, <2>2, LinesAre
<1>2. last = 1
  <2> HIDE DEF movers
  <2>1. QED
    BY <1>1
<1>3. BaseAt(f, i) = IF movers = {} THEN <<0, 0>>
                     ELSE IF Kind(f[last].bytes) = 2 THEN SegmentBase(d) ELSE LinearBase(d)
  BY DEF BaseAt
<1>4. /\ Kind(f[1].bytes) = 4 /\ Count(f[1].bytes) = 2 /\ f[1].bytes \in Seq(Byte)
      /\ Len(f[1].bytes) = 7
      /\ f[1].bytes[5] = 0 /\ f[1].bytes[6] = 0
  <2>1. IsRec(f[1], 0, 4, <<0, 0>>)
    BY DEF IsFileOf
  <2>2. f[1].bytes \in Seq(Byte)
    BY <2>1 DEF IsRec, Lines
  <2>3. \A j \in 0..(2 - 1) : f[1].bytes[5 + j] = <<0, 0>>[j + 1]
    BY <2>1 DEF IsRec
  <2>4. QED
    BY <2>1, <2>2, <2>3 DEF IsRec
<1>5. DataOf(f[1].bytes)[1] = 0 /\ DataOf(f[1].bytes)[2] = 0
  BY <1>4 DEF DataOf
<1> HIDE DEF movers, last
<1>6. QED
  BY <1>1, <1>2, <1>3, <1>4, <1>5 DEF LinearBase

(* What such a file says: the bytes of the map, each at its address. *)
Says(f, gives, m) ==
  /\ \A g \in gives : \E a \in DOMAIN m : AddressOf(f, g) = <<0, a>> /\ ByteOf(f, g) = m[a]
  /\ \A a \in DOMAIN m : \E g \in gives : AddressOf(f, g) = <<0, a>>
  /\ \A g \in gives : g[1] \in 0..Len(f)

LEMMA FileSays ==
  ASSUME NEW f, NEW m, IsFileOf(f, m), DOMAIN m \subseteq Low64K
  PROVE  Says(f, GivenBefore(f, Len(f) + 1), m)
<1> DEFINE gives == GivenBefore(f, Len(f) + 1)
           datas == {i \in 1..((Len(f) + 1) - 1) : Counts(f, i) /\ IsKind(f, i, {0})}
<1>1. gives = UNION {{i} \X (0..(Count(f[i].bytes) - 1)) : i \in datas}
  BY Zenon DEF GivenBefore
<1>2. datas = 2..(Len(f) - 1) /\ Len(f) \in Nat
  <2>1. Len(f) \in Nat /\ (Len(f) + 1) - 1 = Len(f) /\ Len(f) >= 2
    BY LinesAre DEF IsFileOf
  <2> DEFINE n == Len(f)
  <2>6. n \in Nat /\ n >= 2
    BY <2>1
  <2>7. (\A i \in 1..n : i = 1 \/ i = n \/ i \in 2..(n - 1)) /\ (\A i \in 2..(n - 1) : i \in 1..n)
    <3> HIDE DEF n
    <3>1. QED
      BY <2>6
  <2>2. \A i \in 1..Len(f) : i = 1 \/ i = Len(f) \/ i \in 2..(Len(f) - 1)
    BY <2>7, Zenon
  <2>3. \A i \in 2..(Len(f) - 1) : i \in 1..Len(f)
    BY <2>7, Zenon
  <2>4. ASSUME NEW i PROVE i \in datas <=> i \in 2..(Len(f) - 1)
    <3>1. i \in datas <=> i \in 1..Len(f) /\ Counts(f, i) /\ IsKind(f, i, {0})
      BY <2>1
    <3> HIDE DEF datas
    <3>2. QED
      BY <2>2, <2>3, <3>1, LinesAre, Zenon
  <2> HIDE DEF datas
  <2>5. QED
    BY <2>1, <2>4
<1> HIDE DEF gives, datas
<1>3. \A i \in 2..(Len(f) - 1) : \A j \in 0..(Count(f[i].bytes) - 1) : <<i, j>> \in gives
  BY <1>1, <1>2
<1>4. \A g \in gives : \E i \in 2..(Len(f) - 1) :
        \E j \in 0..(Count(f[i].bytes) - 1) : g = <<i, j>>
  BY <1>1, <1>2
<1>5. ASSUME NEW i \in 2..(Len(f) - 1), NEW j \in 0..(Count(f[i].bytes) - 1),
             NEW s, NEW e, IsDataOf(f[i], m, s, e)
      PROVE  /\ s + j \in DOMAIN m /\ AddressOf(f, <<i, j>>) = <<0, s + j>>
             /\ ByteOf(f, <<i, j>>) = m[s + j]
  <2> DEFINE b == f[i].bytes
  <2>8. IsDatum(b, m, s, j)
    <3> DEFINE line == f[i]
    <3>1. IsDataOf(line, m, s, e) /\ j \in 0..(Count(line.bytes) - 1)
      BY <1>5
    <3> HIDE DEF line
    <3>2. IsDatum(line.bytes, m, s, j)
      BY <3>1, DataLineIs
    <3>3. QED
      BY <3>2 DEF line
  <2>1. b[5 + j] = m[s + j] /\ s + j \in DOMAIN m
    <3> HIDE DEF b
    <3>1. QED
      BY <2>8 DEF IsDatum
  <2>2. BaseAt(f, i) = <<0, 0>>
    <3>1. i \in 2..Len(f)
      BY <1>2
    <3>2. QED
      BY <3>1, BasesAre
  <2> DEFINE low == 0 + 256 * b[2] + b[3] + j
  <2>3. AddressOf(f, <<i, j>>) = <<(0 + low \div 65536) % 65536, low % 65536>>
    BY <2>2 DEF AddressOf
  <2>5. (0 + low \div 65536) % 65536 = 0 /\ low % 65536 = s + j
    <3> HIDE DEF b
    <3>1. QED
      BY <2>8, DatumAddress
  <2> HIDE DEF low
  <2>6. ByteOf(f, <<i, j>>) = b[5 + j]
    BY DEF ByteOf
  <2> HIDE DEF b
  <2>7. QED
    BY <2>1, <2>3, <2>5, <2>6
<1>6. \A i \in 2..(Len(f) - 1) : \E s, e : IsDataOf(f[i], m, s, e)
  BY DEF IsFileOf
<1>7. ASSUME NEW g \in gives
      PROVE  \E a \in DOMAIN m : AddressOf(f, g) = <<0, a>> /\ ByteOf(f, g) = m[a]
  <2>1. PICK i \in 2..(Len(f) - 1) : \E j \in 0..(Count(f[i].bytes) - 1) : g = <<i, j>>
    BY <1>4
  <2>2. PICK j \in 0..(Count(f[i].bytes) - 1) : g = <<i, j>>
    BY <2>1
  <2>3. PICK s, e : IsDataOf(f[i], m, s, e)
    BY <1>6
  <2>4. /\ s + j \in DOMAIN m /\ AddressOf(f, <<i, j>>) = <<0, s + j>>
        /\ ByteOf(f, <<i, j>>) = m[s + j]
    BY <1>5, <2>3
  <2>5. QED
    BY <2>2, <2>4
<1>8. ASSUME NEW a \in DOMAIN m PROVE \E g \in gives : AddressOf(f, g) = <<0, a>>
  <2>7. PICK i \in 2..(Len(f) - 1) : \E s, e : IsDataOf(f[i], m, s, e) /\ a \in s..e
    BY DEF IsFileOf
  <2>1. PICK s, e : IsDataOf(f[i], m, s, e) /\ a \in s..e
    BY <2>7
  <2>2. /\ s \in Nat /\ e \in Nat /\ s <= e /\ a \in Nat /\ s <= a /\ a <= e
    BY <2>1 DEF IsDataOf
  <2>3. Count(f[i].bytes) = e - s + 1
    BY <2>1, BytesOfAre
  <2>4. a - s \in 0..(Count(f[i].bytes) - 1) /\ s + (a - s) = a
    BY <2>2, <2>3
  <2>5. <<i, a - s>> \in gives /\ AddressOf(f, <<i, a - s>>) = <<0, s + (a - s)>>
    BY <1>3, <1>5, <2>1, <2>4
  <2>6. QED
    BY <2>4, <2>5
<1>9. \A g \in gives : g[1] \in 0..Len(f)
  <2>1. ASSUME NEW g \in gives PROVE g[1] \in 0..Len(f)
    <3>1. PICK i \in 2..(Len(f) - 1) : \E j \in 0..(Count(f[i].bytes) - 1) : g = <<i, j>>
      BY <1>4
    <3>2. g[1] = i
      BY <3>1
    <3>3. QED
      BY <1>2, <3>2
  <2>2. QED
    BY <2>1
<1>10. QED
  BY <1>7, <1>8, <1>9 DEF Says, gives

(* No matter which of the bytes for an address comes last. *)
LEMMA LastIs ==
  ASSUME NEW f, NEW gives, NEW m, Says(f, gives, m), Len(f) \in Nat,
         NEW a \in DOMAIN m
  PROVE  ByteOf(f, LastFor(f, gives, <<0, a>>)) = m[a]
<1> DEFINE G == {g \in gives : AddressOf(f, g) = <<0, a>>}
           T == {g[1] : g \in G}
<1>1. T \subseteq 0..Len(f) /\ T # {}
  BY DEF Says
<1>2. PICK x \in T : \A y \in T : y <= x
  <2> HIDE DEF T
  <2>1. QED
    BY <1>1, GreatestOf
<1>3. PICK g \in gives : AddressOf(f, g) = <<0, a>> /\ g[1] = x
  OBVIOUS
<1>4. \A o \in gives : AddressOf(f, o) = <<0, a>> => o[1] <= g[1]
  BY <1>2, <1>3
<1> DEFINE l == LastFor(f, gives, <<0, a>>)
<1>5. l \in gives /\ AddressOf(f, l) = <<0, a>>
  BY <1>3, <1>4, Zenon DEF LastFor
<1> HIDE DEF l
<1>6. PICK c \in DOMAIN m : AddressOf(f, l) = <<0, c>> /\ ByteOf(f, l) = m[c]
  BY <1>5 DEF Says
<1>7. c = a
  BY <1>5, <1>6
<1>8. QED
  BY <1>6, <1>7 DEF l

(* The bytes below the configuration word are those of the program. *)
LEMMA LowIsCode ==
  ASSUME NEW m, NEW w, NEW c, IsMapOf(m, w, c),
         NEW n, n = 2 * PROG_WORDS - 1, NEW a \in DOMAIN m \cap (0..n)
  PROVE  a \div 2 \in DOMAIN w
<1>1. CONFIG_BYTE_ADDR \in Nat /\ n \in Nat /\ n < CONFIG_BYTE_ADDR
  BY DEF CONFIG_BYTE_ADDR, PROG_WORDS
<1>2. a \in Nat /\ a <= n
  BY <1>1
<1>3. a \notin {CONFIG_BYTE_ADDR, CONFIG_BYTE_ADDR + 1}
  BY <1>1, <1>2
<1>4. QED
  BY <1>3 DEF IsMapOf

Total(w) == w = [x \in DOMAIN w |-> w[x]]

(* The image such a file says: the words, the configuration, no EEPROM. *)
LEMMA ImageIs ==
  ASSUME NEW w, Total(w), DOMAIN w \subseteq 0..(PROG_WORDS - 1),
         \A x \in DOMAIN w : w[x] \in Words, NEW c \in Words \cup {NoConfig},
         NEW f, NEW m, IsMapOf(m, w, c), IsFileOf(f, m)
  PROVE  ImageOf(f) = [program |-> w, config |-> c, eeprom |-> Blank]
<1> DEFINE C     == CONFIG_BYTE_ADDR
           E     == EEPROM_BYTE_BASE
           gives == GivenBefore(f, Len(f) + 1)
           said  == {AddressOf(f, g) : g \in gives}
           Low(lo, hi) == {x[2] : x \in {y \in said : y[1] = 0 /\ y[2] \in lo..hi}}
           At(a)   == IF <<0, a>> \in said THEN ByteOf(f, LastFor(f, gives, <<0, a>>)) ELSE 255
           Word(a) == (At(a) + 256 * At(a + 1)) % 16384
           ee      == {a \in Low(E, E + 2 * EEPROM_BYTES - 1) : a % 2 = 0}
           prog    == [x \in {a \div 2 : a \in Low(0, 2 * PROG_WORDS - 1)} |-> Word(2 * x)]
           conf    == IF Low(C, C + 1) = {} THEN NoConfig ELSE Word(C)
           prom    == [o \in {(a - E) \div 2 : a \in ee} |-> At(E + 2 * o)]
<1>1. ImageOf(f) = [program |-> prog, config |-> conf, eeprom |-> prom]
  BY DEF ImageOf
<1>2. Says(f, gives, m) /\ Len(f) \in Nat
  BY FileSays, LinesAre DEF IsMapOf
<1>3. said = {<<0, a>> : a \in DOMAIN m}
  <2> HIDE DEF gives
  <2>1. QED
    BY <1>2 DEF Says
<1>4. \A lo, hi : Low(lo, hi) = DOMAIN m \cap (lo..hi)
  <2> HIDE DEF said
  <2>1. ASSUME NEW lo, NEW hi PROVE Low(lo, hi) = DOMAIN m \cap (lo..hi)
    <3>1. \A y \in said : \E a \in DOMAIN m : y = <<0, a>> /\ y[1] = 0 /\ y[2] = a
      BY <1>3
    <3>2. \A a \in DOMAIN m : <<0, a>> \in said /\ <<0, a>>[1] = 0 /\ <<0, a>>[2] = a
      BY <1>3
    <3> DEFINE ys == {y \in said : y[1] = 0 /\ y[2] \in lo..hi}
    <3>3. \A y \in ys : \E a \in DOMAIN m : a \in lo..hi /\ y[2] = a
      BY <3>1
    <3>4. \A a \in DOMAIN m : a \in lo..hi => <<0, a>> \in ys /\ <<0, a>>[2] = a
      BY <3>2
    <3>5. Low(lo, hi) = {y[2] : y \in ys}
      OBVIOUS
    <3> HIDE DEF ys, Low
    <3>6. Low(lo, hi) \subseteq DOMAIN m \cap (lo..hi)
      BY <3>3, <3>5
    <3>7. DOMAIN m \cap (lo..hi) \subseteq Low(lo, hi)
      <4>1. ASSUME NEW a \in DOMAIN m, a \in lo..hi PROVE a \in Low(lo, hi)
        BY <3>4, <3>5, <4>1
      <4>2. QED
        BY <4>1
    <3>8. QED
      BY <3>6, <3>7
  <2> HIDE DEF Low
  <2>2. QED
    BY <2>1
<1>5. \A a \in DOMAIN m : At(a) = m[a]
  <2> HIDE DEF gives
  <2>1. ASSUME NEW a \in DOMAIN m PROVE At(a) = m[a]
    <3>1. <<0, a>> \in said
      BY <1>3
    <3> HIDE DEF said
    <3>2. QED
      BY <1>2, <3>1, LastIs
  <2> HIDE DEF At
  <2>2. QED
    BY <2>1
<1> HIDE DEF gives, said, Low, At
<1>6. C = 16398 /\ E = 16896 /\ PROG_WORDS = 2048 /\ EEPROM_BYTES = 128 /\ NoConfig = -1
  BY DEF CONFIG_BYTE_ADDR, EEPROM_BYTE_BASE, PROG_WORDS, EEPROM_BYTES, NoConfig
<1> HIDE DEF C, E
<1>7. \A a \in DOMAIN m : a \in Nat /\ (a \in {C, C + 1} \/ (a < 4096 /\ a \div 2 \in DOMAIN w))
  <2>1. DOMAIN m \subseteq Low64K
    BY DEF IsMapOf
  <2>2. 2 * PROG_WORDS = 4096
    BY <1>6
  <2>3. QED
    BY <2>1, <2>2, NoWrap DEF IsMapOf, C
<1>8. \A x \in DOMAIN w : x \in Nat /\ x < 2048
  BY WordNumbers
<1>9. \A v \in Words : v % 16384 = v
  <2>1. \A v \in Words : v \in Nat /\ v < 16384
    BY WordParts
  <2>2. QED
    BY <2>1
<1>10. prog = w
  <2> DEFINE last == 2 * PROG_WORDS - 1
             low  == DOMAIN m \cap (0..last)
  <2>1. Low(0, last) = low
    BY <1>4
  <2>7. last \in Nat /\ last = 4095
    BY <1>6
  <2> HIDE DEF last
  <2>2. ASSUME NEW x \in DOMAIN w
        PROVE  2 * x \in low /\ (2 * x) \div 2 = x /\ Word(2 * x) = w[x]
    <3>1. /\ 2 * x \in DOMAIN m /\ 2 * x + 1 \in DOMAIN m
          /\ m[2 * x] + 256 * m[2 * x + 1] = w[x] /\ w[x] \in Words
      BY DEF IsMapOf
    <3>2. 2 * x \in 0..last /\ (2 * x) \div 2 = x
      <4>1. x \in Nat /\ x < 2048
        BY <1>8
      <4> HIDE DEF low
      <4>2. QED
        BY <2>7, <4>1, Doubled, SMTT(20)
    <3>3. Word(2 * x) = w[x] % 16384
      BY <1>5, <3>1
    <3>4. QED
      BY <1>9, <3>1, <3>2, <3>3
  <2>3. ASSUME NEW a \in low PROVE a \div 2 \in DOMAIN w
    BY LowIsCode DEF last
  <2>4. {a \div 2 : a \in low} = DOMAIN w
    <3> HIDE DEF low, Word
    <3>1. \A x \in DOMAIN w : \E a \in low : a \div 2 = x
      BY <2>2
    <3>2. \A a \in low : a \div 2 \in DOMAIN w
      BY <2>3
    <3>3. QED
      BY <3>1, <3>2
  <2> HIDE DEF low, Word
  <2>5. prog = [x \in DOMAIN w |-> Word(2 * x)]
    BY <2>1, <2>4 DEF last
  <2>6. QED
    BY <2>2, <2>5 DEF Total
<1>11. conf = c
  <2>1. Low(C, C + 1) = DOMAIN m \cap (C..(C + 1)) /\ C..(C + 1) = {C, C + 1}
    BY <1>4, <1>6
  <2>2. CASE c = NoConfig
    <3>1. C \notin DOMAIN m /\ C + 1 \notin DOMAIN m
      BY <2>2 DEF IsMapOf, C
    <3>2. Low(C, C + 1) = {}
      BY <2>1, <3>1
    <3>3. QED
      BY <2>2, <3>2
  <2>3. CASE c # NoConfig
    <3>1. C \in DOMAIN m /\ C + 1 \in DOMAIN m /\ m[C] + 256 * m[C + 1] = c /\ c \in Words
      BY <2>3 DEF IsMapOf, C
    <3>2. Low(C, C + 1) # {}
      BY <2>1, <3>1
    <3>3. Word(C) = c % 16384
      BY <1>5, <3>1
    <3> HIDE DEF Word
    <3>4. QED
      BY <1>9, <3>1, <3>2, <3>3
  <2>4. QED
    BY <2>2, <2>3
<1>12. prom = Blank
  <2>1. ee = {}
    <3>1. Low(E, E + 2 * EEPROM_BYTES - 1) = DOMAIN m \cap (E..(E + 2 * EEPROM_BYTES - 1))
      BY <1>4
    <3>2. \A a \in DOMAIN m : a \in Nat /\ a < E
      BY <1>6, <1>7
    <3>3. E \in Nat /\ E + 2 * EEPROM_BYTES - 1 \in Nat
      BY <1>6
    <3>4. DOMAIN m \cap (E..(E + 2 * EEPROM_BYTES - 1)) = {}
      BY <3>2, <3>3
    <3>5. QED
      BY <3>1, <3>4
  <2> HIDE DEF ee
  <2>2. {(a - E) \div 2 : a \in ee} = {}
    BY <2>1
  <2>3. QED
    BY <2>2 DEF Blank
<1> HIDE DEF prog, conf, prom
<1>13. QED
  BY <1>1, <1>10, <1>11, <1>12

----------------------------------------------------------------------------
(* The way of a file                                                        *)

(* The files that the page writes, and what they are to their reader. *)
LEMMA WrittenMap ==
  ASSUME NEW p \in Programs
  PROVE  IsMapOf(ByteMap(p.words, p.config), p.words, p.config)
<1>1. p.config \in Words \cup {NoConfig}
  BY DEF Programs
<1>2. PICK S \in SUBSET (0..(PROG_WORDS - 1)) : p.words \in [S -> Words]
  BY DEF Programs
<1>3. DOMAIN p.words \subseteq 0..(PROG_WORDS - 1) /\ \A x \in DOMAIN p.words : p.words[x] \in Words
  BY <1>2
<1>4. QED
  BY <1>1, <1>3, ByteMapIs

LEMMA WrittenFile ==
  ASSUME NEW p \in Programs
  PROVE  LET f == ToIntelHex(p.words, p.config)
         IN /\ IsFileOf(f, ByteMap(p.words, p.config))
            /\ ImageOf(f) = [program |-> p.words, config |-> p.config, eeprom |-> Blank]
<1> DEFINE w == p.words
           c == p.config
<1>1. c \in Words \cup {NoConfig}
  BY DEF Programs
<1>2. PICK S \in SUBSET (0..(PROG_WORDS - 1)) : w \in [S -> Words]
  BY DEF Programs
<1> HIDE DEF w, c
<1>3. /\ DOMAIN w \subseteq 0..(PROG_WORDS - 1) /\ \A x \in DOMAIN w : w[x] \in Words
      /\ Total(w)
  BY <1>2 DEF Total
<1>4. IsMapOf(ByteMap(w, c), w, c)
  BY <1>1, <1>3, ByteMapIs
<1>5. IsFileOf(ToIntelHex(w, c), ByteMap(w, c))
  BY <1>4, FileIs
<1>6. ImageOf(ToIntelHex(w, c)) = [program |-> w, config |-> c, eeprom |-> Blank]
  BY <1>1, <1>3, <1>4, <1>5, ImageIs
<1>7. QED
  BY <1>5, <1>6 DEF w, c

(* A line before which nothing ends the file, and that cannot be read. *)
Spoilt(f, n) ==
  n \in DOMAIN f /\ f[n].shape = "record" /\ Fault(f[n]) # "none" /\ Counts(f, n)

(* A file that was written is that of the saved program until a byte of it  *)
(* is damaged; from then on it has a line that the reader does not pass.    *)
SavedIsWritten ==
  /\ saved \in Programs
  /\ origin = "written" => file = ToIntelHex(saved.words, saved.config)

DamageIsAhead ==
  origin = "damaged" =>
    status # "loaded" /\ \E n \in Nat : Spoilt(file, n) /\ lineNo <= n

(* Nothing in a file that was written stops the reader, and past its second  *)
(* line a byte has been read, unless there is none.                         *)
WrittenIsRead ==
  origin = "written" =>
    /\ status \in {"reading", "loaded", "NoData"}
    /\ status = "reading" /\ lineNo > 2 /\ Len(file) > 2 => sawData
    /\ status = "NoData" => saved = NoProgram

TransferInv == LoaderInv /\ SavedIsWritten /\ DamageIsAhead /\ WrittenIsRead

(* One wrong byte in any line makes that line the end of the reading. *)
LEMMA SlipIsALine ==
  ASSUME NEW line \in Lines, line.shape = "record",
         NEW k \in DOMAIN line.bytes, NEW v \in Byte
  PROVE  LET bad == [line EXCEPT !.bytes[k] = v]
         IN bad \in Lines /\ bad.shape = "record"
<1> DEFINE b   == line.bytes
           c   == [b EXCEPT ![k] = v]
           bad == [line EXCEPT !.bytes[k] = v]
<1>1. b \in Seq(Byte)
  BY DEF Lines
<1>2. c \in Seq(Byte)
  BY <1>1
<1>3. bad = [line EXCEPT !.bytes = c]
  OBVIOUS
<1> HIDE DEF bad, c
<1>4. bad \in Lines /\ bad.shape = "record"
  BY <1>2, <1>3 DEF Lines
<1>5. QED
  BY <1>4 DEF bad

LEMMA DamageSpoils ==
  ASSUME NEW p \in Programs, NEW f, f = ToIntelHex(p.words, p.config),
         NEW n \in DOMAIN f, NEW k \in DOMAIN f[n].bytes, NEW v \in Byte, v # f[n].bytes[k]
  PROVE  LET g == [f EXCEPT ![n].bytes[k] = v]
         IN g \in Seq(Lines) /\ Spoilt(g, n)
<1> DEFINE m == ByteMap(p.words, p.config)
           bad == [f[n] EXCEPT !.bytes[k] = v]
           g == [f EXCEPT ![n].bytes[k] = v]
<1>1. IsFileOf(f, m)
  BY WrittenFile
<1> HIDE DEF m
<1>2. /\ f \in Seq(Lines) /\ Len(f) \in Nat /\ n \in 1..Len(f) /\ n \in Nat
      /\ Counts(f, n) /\ f[n] \in Lines
  <2>1. f \in Seq(Lines)
    BY <1>1 DEF IsFileOf
  <2>2. Len(f) \in Nat /\ n \in 1..Len(f) /\ f[n] \in Lines
    BY <2>1
  <2>3. Counts(f, n)
    BY <1>1, <2>2, LinesAre
  <2>4. QED
    BY <2>1, <2>2, <2>3
<1>3. \E a, type : \E data \in Seq(Byte) : IsRec(f[n], a, type, data)
  <2>1. CASE n = 1
    <3>1. <<0, 0>> \in Seq(Byte)
      BY SmallIsByte
    <3>2. QED
      BY <1>1, <2>1, <3>1 DEF IsFileOf
  <2>2. CASE n = Len(f)
    <3>1. <<>> \in Seq(Byte)
      OBVIOUS
    <3>2. QED
      BY <1>1, <2>2, <3>1 DEF IsFileOf
  <2>3. CASE n # 1 /\ n # Len(f)
    <3>1. n \in 2..(Len(f) - 1)
      BY <1>2, <2>3
    <3>2. PICK s, e : IsDataOf(f[n], m, s, e)
      BY <1>1, <3>1 DEF IsFileOf
    <3>3. QED
      BY <3>2 DEF IsDataOf
  <2>4. QED
    BY <2>1, <2>2, <2>3
<1>4. Fault(bad) # "none"
  BY <1>3, SlipIsFound
<1>5. f[n].shape = "record"
  BY <1>3 DEF IsRec
<1>6. bad \in Lines /\ bad.shape = "record"
  BY <1>2, <1>5, SlipIsALine
<1>7. g = [f EXCEPT ![n] = bad]
  OBVIOUS
<1> HIDE DEF bad, g
<1>8. /\ g \in Seq(Lines) /\ n \in DOMAIN g /\ g[n] = bad
      /\ \A i \in 1..(n - 1) : g[i] = f[i]
  BY <1>2, <1>6, <1>7
<1>9. Counts(g, n)
  BY <1>2, <1>8 DEF Counts, IsKind
<1>10. QED
  BY <1>4, <1>6, <1>8, <1>9 DEF Spoilt, g

LEMMA TransferStarts == TransferInit => TransferInv
<1> SUFFICES ASSUME TransferInit PROVE TransferInv
  OBVIOUS
<1>1. LoaderInv
  BY LoaderStarts DEF TransferInit
<1>2. NoProgram \in Programs
  <2>1. Blank \in [{} -> Words] /\ {} \in SUBSET (0..(PROG_WORDS - 1))
    BY DEF Blank
  <2>2. QED
    BY <2>1 DEF NoProgram, Programs
<1>3. QED
  BY <1>1, <1>2 DEF TransferInit, TransferInv, SavedIsWritten, DamageIsAhead, WrittenIsRead

LEMMA SaveStep == ASSUME NEW p \in Programs, Save(p) PROVE TransferInv'
<1> DEFINE f == ToIntelHex(p.words, p.config)
<1>1. StartReading(f) /\ saved' = p /\ origin' = "written"
  BY DEF Save
<1>2. f \in Seq(Lines)
  BY WrittenFile DEF IsFileOf
<1>3. LoaderInv'
  BY <1>1, <1>2, StartInv
<1>4. file' = f /\ status' = "reading" /\ lineNo' = 1
  BY <1>1 DEF StartReading
<1>5. QED
  BY <1>1, <1>3, <1>4 DEF TransferInv, SavedIsWritten, DamageIsAhead, WrittenIsRead

LEMMA OpenStep ==
  ASSUME TransferInv, NEW f \in Seq(Lines), Open(f) PROVE TransferInv'
BY StartInv DEF Open, TransferInv, SavedIsWritten, DamageIsAhead, WrittenIsRead

LEMMA DamageStep ==
  ASSUME TransferInv, NEW n \in DOMAIN file, NEW k \in DOMAIN file[n].bytes,
         NEW v \in Byte, Damage(n, k, v)
  PROVE  TransferInv'
<1> DEFINE g == [file EXCEPT ![n].bytes[k] = v]
<1>1. /\ status = "reading" /\ lineNo = 1 /\ v # file[n].bytes[k] /\ file' = g
      /\ origin = "written" /\ origin' = "damaged"
      /\ UNCHANGED <<status, lineNo, base, bytes, sawData, image, saved>>
  BY DEF Damage
<1>2. saved \in Programs /\ file = ToIntelHex(saved.words, saved.config)
  BY <1>1 DEF TransferInv, SavedIsWritten
<1>3. g \in Seq(Lines) /\ Spoilt(g, n)
  BY <1>1, <1>2, DamageSpoils
<1> HIDE DEF g
<1>4. base = <<0, 0>> /\ DOMAIN bytes = {} /\ bytes = [a \in DOMAIN bytes |-> bytes[a]]
  <2>1. base = BaseAt(file, 1) /\ Tells(bytes, file, 1)
    BY <1>1 DEF TransferInv, LoaderInv, ReadSoFar
  <2>2. QED
    BY <2>1, EmptyFile DEF Tells
<1>5. ReadSoFar'
  <2>1. Tells(bytes, g, 1)
    BY <1>4, EmptyFile DEF Tells
  <2>2. Counts(g, 1) /\ BaseAt(g, 1) = <<0, 0>> /\ OnceARecord(g, 1)
    BY EmptyFile
  <2>3. base \in Nat \X Nat
    BY <1>4
  <2>4. QED
    BY <1>1, <1>4, <2>1, <2>2, <2>3 DEF ReadSoFar
<1>6. LoaderTypes'
  <2>1. Len(g) \in Nat
    BY <1>3
  <2>2. QED
    BY <1>1, <1>3, <2>1 DEF LoaderTypes
<1>7. LoadsWhatTheRecordsSay'
  BY <1>1 DEF LoadsWhatTheRecordsSay
<1>8. n \in Nat /\ 1 <= n
  BY <1>3 DEF Spoilt
<1>9. QED
  BY <1>1, <1>2, <1>3, <1>5, <1>6, <1>7, <1>8
     DEF TransferInv, LoaderInv, SavedIsWritten, DamageIsAhead, WrittenIsRead

(* Neither a step of the reader nor the end of the file passes such a line. *)
LEMMA StopsBefore ==
  ASSUME LoaderInv, LoaderNext, status # "loaded",
         NEW n \in Nat, Spoilt(file, n), lineNo <= n
  PROVE  status' # "loaded" /\ file' = file /\ lineNo' <= n
<1>1. lineNo \in Nat /\ n <= Len(file) /\ Len(file) \in Nat
  BY DEF Spoilt, LoaderInv, LoaderTypes
<1>2. ASSUME NEW b, SoundRecord(b) PROVE lineNo # n
  BY <1>2 DEF SoundRecord, Spoilt
<1>3. CASE SkipBlank
  BY <1>1, <1>3 DEF SkipBlank, NextLine, Spoilt, Reading
<1>4. CASE BadLine
  <2>1. Fault(file[lineNo]) # "loaded"
    BY DEF Fault
  <2>2. QED
    BY <1>4, <2>1 DEF BadLine, Rejects
<1>5. CASE DataLine
  BY <1>1, <1>2, <1>5 DEF DataLine, NextLine, SoundRecord, Reading
<1>6. CASE BaseLine
  BY <1>1, <1>2, <1>6 DEF BaseLine, NextLine, Rejects, SoundRecord, Reading
<1>7. CASE OtherLine
  BY <1>1, <1>2, <1>7 DEF OtherLine, NextLine, Rejects, SoundRecord, Reading
<1>8. CASE FinishReading
  <2>1. AtEnd
    BY <1>8 DEF FinishReading
  <2>2. PICK b : SoundRecord(b) /\ Kind(b) = 1
    BY <1>1, <2>1 DEF AtEnd
  <2>3. lineNo < n /\ lineNo \in 1..(n - 1)
    BY <1>1, <1>2, <2>2 DEF LoaderInv, LoaderTypes
  <2>4. IsKind(file, lineNo, {1})
    BY <2>2 DEF IsKind, SoundRecord
  <2>5. QED
    BY <2>3, <2>4 DEF Spoilt, Counts
<1>9. QED
  BY <1>3, <1>4, <1>5, <1>6, <1>7, <1>8 DEF LoaderNext

(* The lines of a file that was written, as the reader meets them. *)
LEMMA WrittenLines ==
  ASSUME NEW f, NEW m, IsFileOf(f, m), NEW i \in 1..Len(f)
  PROVE  /\ Len(f) \in Nat /\ Len(f) >= 2
         /\ f[i].shape = "record" /\ Fault(f[i]) = "none"
         /\ Kind(f[i].bytes) = IF i = 1 THEN 4 ELSE IF i = Len(f) THEN 1 ELSE 0
         /\ i = 1 => Count(f[i].bytes) = 2
<1>1. Len(f) \in Nat /\ Len(f) >= 2 /\ f \in Seq(Lines)
  BY DEF IsFileOf
<1>2. <<0, 0>> \in Seq(Byte) /\ <<>> \in Seq(Byte) /\ Len(<<0, 0>>) = 2
  BY SmallIsByte
<1>3. CASE i = 1
  <2>1. IsRec(f[i], 0, 4, <<0, 0>>)
    BY <1>3 DEF IsFileOf
  <2>2. Fault(f[i]) = "none"
    BY <1>2, <2>1, RecIsSound
  <2>3. f[i].shape = "record" /\ Kind(f[i].bytes) = 4 /\ Count(f[i].bytes) = 2
    BY <1>2, <2>1 DEF IsRec
  <2>4. QED
    BY <1>1, <1>3, <2>2, <2>3
<1>4. CASE i = Len(f)
  <2>1. IsRec(f[i], 0, 1, <<>>)
    BY <1>4 DEF IsFileOf
  <2>2. Fault(f[i]) = "none"
    BY <1>2, <2>1, RecIsSound
  <2>3. f[i].shape = "record" /\ Kind(f[i].bytes) = 1
    BY <2>1 DEF IsRec
  <2>4. QED
    BY <1>1, <1>4, <2>2, <2>3
<1>5. CASE i \in 2..(Len(f) - 1)
  <2>1. PICK s, e : IsDataOf(f[i], m, s, e)
    BY <1>5 DEF IsFileOf
  <2>2. IsRec(f[i], s, 0, BytesOf(m, s, e)) /\ BytesOf(m, s, e) \in Seq(Byte)
    BY <2>1 DEF IsDataOf
  <2>3. i # 1 /\ i # Len(f)
    BY <1>1, <1>5
  <2>4. Fault(f[i]) = "none"
    BY <2>2, RecIsSound
  <2>5. QED
    BY <1>1, <2>2, <2>3, <2>4 DEF IsRec
<1>6. QED
  BY <1>1, <1>3, <1>4, <1>5

LEMMA LoadKeepsWritten ==
  ASSUME TransferInv, LoaderNext, saved' = saved, origin' = origin
  PROVE  WrittenIsRead'
<1> SUFFICES ASSUME origin = "written"
             PROVE  /\ status' \in {"reading", "loaded", "NoData"}
                    /\ status' = "reading" /\ lineNo' > 2 /\ Len(file') > 2 => sawData'
                    /\ status' = "NoData" => saved = NoProgram
  BY DEF WrittenIsRead
<1> DEFINE m == ByteMap(saved.words, saved.config)
           n == Len(file)
<1>1. saved \in Programs /\ IsFileOf(file, m)
  BY WrittenFile DEF TransferInv, SavedIsWritten
<1>2. lineNo \in Nat \ {0} /\ n \in Nat /\ n >= 2
  BY <1>1 DEF TransferInv, LoaderInv, LoaderTypes, IsFileOf
<1>3. status = "reading" /\ lineNo > 2 /\ n > 2 => sawData
  BY DEF TransferInv, WrittenIsRead
<1> HIDE DEF m
<1>4. ASSUME lineNo <= n
      PROVE  /\ file[lineNo].shape = "record" /\ Fault(file[lineNo]) = "none"
             /\ Kind(file[lineNo].bytes) = IF lineNo = 1 THEN 4 ELSE IF lineNo = n THEN 1 ELSE 0
             /\ lineNo = 1 => Count(file[lineNo].bytes) = 2
  BY <1>1, <1>2, <1>4, WrittenLines
<1> HIDE DEF n
<1>5. CASE SkipBlank \/ BadLine
  BY <1>4, <1>5 DEF SkipBlank, BadLine, Reading, n
<1>6. CASE DataLine
  BY <1>6 DEF DataLine, NextLine, SoundRecord, Reading
<1>7. CASE BaseLine
  <2>1. PICK b : /\ SoundRecord(b) /\ Kind(b) \in {2, 4}
                 /\ IF Count(b) < 2 THEN Rejects("BadLength") ELSE NextLine
    BY <1>7 DEF BaseLine
  <2>2. lineNo <= n /\ b = file[lineNo].bytes /\ status = "reading"
    BY <2>1 DEF SoundRecord, Reading, n
  <2>3. lineNo = 1 /\ Count(b) = 2
    BY <1>4, <2>1, <2>2
  <2>4. lineNo' = 2 /\ status' = "reading"
    BY <2>1, <2>2, <2>3 DEF NextLine
  <2>5. QED
    BY <2>4
<1>8. CASE OtherLine
  BY <1>4, <1>8 DEF OtherLine, SoundRecord, Reading, n
<1>9. CASE FinishReading
  <2>1. /\ AtEnd
        /\ sawData => status' = "loaded"
        /\ ~sawData => status' = "NoData"
    BY <1>9 DEF FinishReading
  <2>2. status = "reading" /\ lineNo >= n
    <3>1. CASE lineNo > Len(file)
      BY <1>2, <2>1, <3>1 DEF AtEnd, SoundRecord, Reading, n
    <3>2. CASE ~(lineNo > Len(file))
      <4>1. SoundRecord(file[lineNo].bytes) /\ Kind(file[lineNo].bytes) = 1
        BY <2>1, <3>2 DEF AtEnd
      <4>2. QED
        BY <1>2, <1>4, <4>1 DEF SoundRecord, Reading, n
    <3>3. QED
      BY <3>1, <3>2
  <2>3. ASSUME ~sawData PROVE saved = NoProgram
    <3>1. n = 2
      BY <1>2, <1>3, <2>2, <2>3
    <3>2. DOMAIN m = {}
      <4>1. \A a \in DOMAIN m : \E i \in 2..(n - 1) : TRUE
        BY <1>1 DEF IsFileOf, n
      <4>2. ~\E i \in 2..(n - 1) : TRUE
        BY <3>1
      <4>3. QED
        BY <4>1, <4>2
    <3>3. IsMapOf(m, saved.words, saved.config)
      BY <1>1, WrittenMap DEF m
    <3>4. DOMAIN saved.words = {} /\ saved.config = NoConfig
      BY <3>2, <3>3 DEF IsMapOf
    <3>5. saved = [words |-> saved.words, config |-> saved.config]
      BY <1>1 DEF Programs
    <3>6. saved.words = Blank
      <4>1. PICK S : saved.words \in [S -> Words]
        BY <1>1 DEF Programs
      <4>2. QED
        BY <3>4, <4>1 DEF Blank
    <3>7. QED
      BY <3>4, <3>5, <3>6 DEF NoProgram
  <2>4. QED
    BY <2>1, <2>3
<1>10. QED
  BY <1>5, <1>6, <1>7, <1>8, <1>9 DEF LoaderNext

LEMMA LoadStep == ASSUME TransferInv, Load PROVE TransferInv'
<1>1. LoaderNext /\ saved' = saved /\ origin' = origin
  BY DEF Load
<1>2. LoaderInv'
  BY <1>1, LoaderStep DEF TransferInv
<1>3. SavedIsWritten'
  <2>1. file' = file
    BY <1>1 DEF LoaderNext, SkipBlank, BadLine, DataLine, BaseLine, OtherLine, FinishReading,
                NextLine, Rejects
  <2>2. QED
    BY <1>1, <2>1 DEF TransferInv, SavedIsWritten
<1>4. DamageIsAhead'
  <2> SUFFICES ASSUME origin = "damaged"
               PROVE  status' # "loaded" /\ \E n \in Nat : Spoilt(file', n) /\ lineNo' <= n
    BY <1>1 DEF DamageIsAhead
  <2>1. PICK n \in Nat : Spoilt(file, n) /\ lineNo <= n
    BY DEF TransferInv, DamageIsAhead
  <2>2. status # "loaded"
    BY DEF TransferInv, DamageIsAhead
  <2>3. status' # "loaded" /\ file' = file /\ lineNo' <= n
    BY <1>1, <2>1, <2>2, StopsBefore DEF TransferInv
  <2>4. QED
    BY <2>1, <2>3
<1>5. QED
  BY <1>1, <1>2, <1>3, <1>4, LoadKeepsWritten DEF TransferInv

LEMMA TransferStep == TransferInv /\ [TransferNext]_transferVars => TransferInv'
<1>1. ASSUME TransferInv, UNCHANGED transferVars PROVE TransferInv'
  <2>1. UNCHANGED loaderVars /\ UNCHANGED <<saved, origin>>
    BY <1>1 DEF transferVars, loaderVars
  <2>2. LoaderInv'
    BY <1>1, <2>1, LoaderStep DEF TransferInv
  <2>3. QED
    BY <1>1, <2>1, <2>2
       DEF TransferInv, SavedIsWritten, DamageIsAhead, WrittenIsRead, loaderVars
<1>2. QED
  BY <1>1, SaveStep, OpenStep, DamageStep, LoadStep DEF TransferNext

(* FlashIsWhatWasAssembled, for every program of up to 2K words, with or     *)
(* without a configuration word, and every size of the records: the file     *)
(* that toIntelHex writes is read back word for word, and refused only if it *)
(* holds nothing.                                                           *)
THEOREM ProgramsArriveWhole == TransferSpec => []FlashIsWhatWasAssembled
<1>1. TransferInv => FlashIsWhatWasAssembled
  <2> SUFFICES ASSUME TransferInv, origin = "written", status = "loaded"
               PROVE  image = [program |-> saved.words, config |-> saved.config,
                               eeprom |-> Blank]
    BY DEF FlashIsWhatWasAssembled, TransferInv, WrittenIsRead
  <2>1. image = ImageOf(file)
    BY DEF TransferInv, LoaderInv, LoadsWhatTheRecordsSay
  <2>2. saved \in Programs /\ file = ToIntelHex(saved.words, saved.config)
    BY DEF TransferInv, SavedIsWritten
  <2>3. QED
    BY <2>1, <2>2, WrittenFile
<1>2. QED
  BY <1>1, TransferStarts, TransferStep, PTL DEF TransferSpec

(* CorruptRecordIsRejected: whichever byte of the file of whichever program  *)
(* is wrong, count, address, type, data or checksum, parse gives no image.   *)
THEOREM DamageIsNeverLoaded == TransferSpec => []CorruptRecordIsRejected
<1>1. TransferInv => CorruptRecordIsRejected
  BY DEF TransferInv, DamageIsAhead, CorruptRecordIsRejected
<1>2. QED
  BY <1>1, TransferStarts, TransferStep, PTL DEF TransferSpec

(***************************************************************************)
(* The test's own reader of .hex files                                      *)
(***************************************************************************)
(* r is what the test's reader holds after each of the first n lines of f. *)
ReadsTo(r, f, n) ==
  r = [i \in 0..n |-> IF i = 0 THEN Start ELSE ReadLine(f[i], r[i - 1])]

LEMMA ReadsExist ==
  ASSUME NEW f, NEW n \in Nat
  PROVE  \E r : ReadsTo(r, f, n)
<1> DEFINE T == {m \in Nat : ~\E r : ReadsTo(r, f, m)}
<1>1. ASSUME T # {} PROVE FALSE
  <2>1. PICK m \in T : \A o \in T : m <= o
    BY <1>1, LeastOf
  <2>2. CASE m = 0
    <3>1. ReadsTo([i \in 0..0 |-> Start], f, 0)
      BY DEF ReadsTo
    <3>2. QED
      BY <2>2, <3>1
  <2>3. CASE m # 0
    <3>1. m - 1 \in Nat /\ m - 1 \notin T
      BY <2>1, <2>3
    <3>2. PICK r : ReadsTo(r, f, m - 1)
      BY <3>1
    <3> DEFINE t == [i \in 0..m |-> IF i = 0 THEN Start ELSE ReadLine(f[i], r[i - 1])]
    <3>3. \A i \in 0..(m - 1) : t[i] = r[i]
      BY <3>1, <3>2 DEF ReadsTo
    <3>4. \A i \in 0..m : i # 0 => t[i - 1] = r[i - 1]
      <4> HIDE DEF t
      <4>1. QED
        BY <3>1, <3>3
    <3>5. t = [i \in 0..m |-> IF i = 0 THEN Start ELSE ReadLine(f[i], t[i - 1])]
      BY <3>4, Zenon
    <3>6. QED
      BY <2>1, <3>5, Zenon DEF ReadsTo
  <2>4. QED
    BY <2>2, <2>3
<1>2. QED
  BY <1>1

(* What it holds is what the line before left, with the line read. *)
LEMMA ReadUpToIs ==
  ASSUME NEW f, Len(f) \in Nat
  PROVE  /\ ReadUpTo(f)[0] = Start
         /\ \A k \in 1..Len(f) : ReadUpTo(f)[k] = ReadLine(f[k], ReadUpTo(f)[k - 1])
<1> DEFINE r == CHOOSE r : ReadsTo(r, f, Len(f))
<1>1. ReadsTo(r, f, Len(f))
  BY ReadsExist
<1>2. ReadUpTo(f) = r
  BY DEF ReadUpTo, ReadsTo
<1> HIDE DEF r
<1>3. \A i \in 0..Len(f) : r[i] = IF i = 0 THEN Start ELSE ReadLine(f[i], r[i - 1])
  BY <1>1, Zenon DEF ReadsTo
<1>4. 0 \in 0..Len(f) /\ \A k \in 1..Len(f) : k \in 0..Len(f) /\ k # 0
  OBVIOUS
<1>5. QED
  BY <1>2, <1>3, <1>4

(* Lines behind an end-of-file record change nothing. *)
LEMMA EndedStays ==
  ASSUME NEW f, Len(f) \in Nat, NEW k \in 0..Len(f), ReadUpTo(f)[k].ended
  PROVE  ReadUpTo(f)[Len(f)] = ReadUpTo(f)[k]
<1> DEFINE r == ReadUpTo(f)
           T == {i \in 0..Len(f) : k <= i /\ r[i] # r[k]}
<1>1. ASSUME T # {} PROVE FALSE
  <2>1. PICK m \in 0..Len(f) : m \in T /\ \A o \in T : m <= o
    BY <1>1, Smallest
  <2>2. m # k /\ m - 1 \in 0..Len(f) /\ k <= m - 1 /\ m \in 1..Len(f)
    BY <2>1
  <2>3. r[m - 1] = r[k]
    BY <2>1, <2>2
  <2>4. r[m] = ReadLine(f[m], r[m - 1])
    BY <2>2, ReadUpToIs
  <2>5. ReadLine(f[m], r[k]) = r[k]
    BY DEF ReadLine
  <2>6. QED
    BY <2>1, <2>3, <2>4, <2>5
<1>2. QED
  BY <1>1

----------------------------------------------------------------------------
(* The high half of a base as the test has it. *)
SignedHigh(h) == IF h >= 32768 THEN h - 65536 ELSE h

IsBase(bs) == bs \in Nat \X Nat /\ bs[1] < 65536 /\ bs[2] < 65536

(* The addresses of a record, signed or wrapped around, are the same in the *)
(* first 64K; elsewhere they need not be.                                   *)
LEMMA HighHalves ==
  ASSUME NEW h \in Nat, h < 65536, NEW q \in 0..2
  PROVE  SignedHigh(h) + q = 0 <=> (h + q) % 65536 = 0
<1>1. CASE h + q < 65536
  BY <1>1 DEF SignedHigh
<1>2. CASE h + q >= 65536
  <2>1. (h + q) % 65536 = h + q - 65536
    BY <1>2
  <2>2. QED
    BY <1>2, <2>1 DEF SignedHigh
<1>3. QED
  BY <1>1, <1>2

(* Record b puts the same of its bytes at each address of the first 64K, from *)
(* the base sb of the test and from the base bs of the core.                 *)
LowAlike(sb, bs, b) ==
  \A i \in 0..(Count(b) - 1) : \A a :
    At32(sb, b, i) = <<0, a>> <=> ByteAddress(bs, b, i) = <<0, a>>

LEMMA LowAddresses ==
  ASSUME NEW bs, IsBase(bs), NEW b, Count(b) \in Byte, b[2] \in Byte, b[3] \in Byte,
         NEW sb, sb = <<SignedHigh(bs[1]), bs[2]>>
  PROVE  /\ \A i \in 0..(Count(b) - 1) : At32(sb, b, i) \in Int \X Int
         /\ \A i, j \in 0..(Count(b) - 1) : At32(sb, b, i) = At32(sb, b, j) => i = j
         /\ LowAlike(sb, bs, b)
<1> DEFINE c == Count(b)
           l == bs[2] + 256 * b[2] + b[3]
           h == bs[1]
           s == SignedHigh(h)
<1>1. c \in Nat /\ c < 256 /\ l \in Nat /\ l <= 131070 /\ h \in Nat /\ h < 65536 /\ s \in Int
  BY BytesAreSmall DEF IsBase, SignedHigh
<1>2. \A i : /\ ByteAddress(bs, b, i) = <<(h + (l + i) \div 65536) % 65536, (l + i) % 65536>>
             /\ At32(sb, b, i) = <<s + (l + i) \div 65536, (l + i) % 65536>>
  BY DEF ByteAddress, At32
<1>3. \A q \in 0..2 : s + q = 0 <=> (h + q) % 65536 = 0
  BY <1>1, HighHalves
<1> HIDE DEF c, l, h, s
<1>4. \A i \in 0..(c - 1) : (l + i) \div 65536 \in 0..2 /\ (l + i) % 65536 \in Int
  BY <1>1
<1>5. \A i, j \in 0..(c - 1) : (l + i) % 65536 = (l + j) % 65536 => i = j
  BY <1>1
<1>6. \A i \in 0..(c - 1) : At32(sb, b, i) \in Int \X Int
  BY <1>1, <1>2, <1>4
<1>7. \A i, j \in 0..(c - 1) : At32(sb, b, i) = At32(sb, b, j) => i = j
  BY <1>2, <1>5
<1>8. ASSUME NEW i \in 0..(c - 1), NEW a
      PROVE  At32(sb, b, i) = <<0, a>> <=> ByteAddress(bs, b, i) = <<0, a>>
  <2>1. s + (l + i) \div 65536 = 0 <=> (h + (l + i) \div 65536) % 65536 = 0
    BY <1>3, <1>4
  <2>2. QED
    BY <1>2, <2>1
<1>9. QED
  BY <1>6, <1>7, <1>8 DEF c, LowAlike

(* Two byte maps with the same first 64K. *)
SameLow(m, n) ==
  \A a : /\ <<0, a>> \in DOMAIN m <=> <<0, a>> \in DOMAIN n
         /\ <<0, a>> \in DOMAIN n => m[<<0, a>>] = n[<<0, a>>]

(* m is what a reader of the test holds. *)
IsReader(m) ==
  /\ m = [base |-> m.base, byteMap |-> m.byteMap, ended |-> m.ended]
  /\ DOMAIN m.byteMap \subseteq Int \X Int

(* A data record in the test's reader. *)
RecordedIn(m, n, b) ==
  /\ n.base = m.base /\ n.ended = m.ended /\ IsReader(n)
  /\ DOMAIN n.byteMap =
       DOMAIN m.byteMap \cup {At32(m.base, b, i) : i \in 0..(Count(b) - 1)}
  /\ \A i \in 0..(Count(b) - 1) : n.byteMap[At32(m.base, b, i)] = b[5 + i]
  /\ \A x \in DOMAIN m.byteMap :
       (\A i \in 0..(Count(b) - 1) : At32(m.base, b, i) # x) => n.byteMap[x] = m.byteMap[x]

LEMMA WithRecordIs ==
  ASSUME NEW m, IsReader(m), NEW b,
         \A i \in 0..(Count(b) - 1) : At32(m.base, b, i) \in Int \X Int,
         \A i, j \in 0..(Count(b) - 1) : At32(m.base, b, i) = At32(m.base, b, j) => i = j
  PROVE  RecordedIn(m, WithRecord(m, b), b)
<1> DEFINE places == 0..(Count(b) - 1)
           addrs  == {At32(m.base, b, i) : i \in places}
           Given8(x) == b[5 + CHOOSE i \in places : At32(m.base, b, i) = x]
           map == [x \in addrs \cup DOMAIN m.byteMap |->
                     IF x \in addrs THEN Given8(x) ELSE m.byteMap[x]]
           n == WithRecord(m, b)
<1>1. n = [m EXCEPT !.byteMap = map]
  BY DEF WithRecord
<1>2. n = [base |-> m.base, byteMap |-> map, ended |-> m.ended]
  <2> HIDE DEF map, n
  <2>1. QED
    BY <1>1 DEF IsReader
<1> HIDE DEF n
<1>3. n.base = m.base /\ n.byteMap = map /\ n.ended = m.ended
  BY <1>2
<1>4. ASSUME NEW i \in places PROVE map[At32(m.base, b, i)] = b[5 + i]
  <2> DEFINE x == At32(m.base, b, i)
             j == CHOOSE j \in places : At32(m.base, b, j) = x
  <2>1. j \in places /\ At32(m.base, b, j) = x
    <3> HIDE DEF places, x
    <3>1. \E o \in places : At32(m.base, b, o) = x
      BY DEF x
    <3>2. QED
      BY <3>1
  <2>2. j = i
    BY <2>1
  <2>3. x \in addrs
    OBVIOUS
  <2>4. QED
    BY <2>2, <2>3
<1>5. DOMAIN map = DOMAIN m.byteMap \cup addrs
  OBVIOUS
<1>6. \A x \in DOMAIN m.byteMap : x \notin addrs => map[x] = m.byteMap[x]
  OBVIOUS
<1>7. addrs \subseteq Int \X Int
  OBVIOUS
<1> HIDE DEF map
<1>8. IsReader(n)
  BY <1>2, <1>3, <1>5, <1>7 DEF IsReader
<1>9. QED
  BY <1>3, <1>4, <1>5, <1>6, <1>8 DEF RecordedIn, n

LEMMA RecordsAgree ==
  ASSUME NEW m, NEW n, NEW b, NEW bs, RecordedIn(m, n, b), SameLow(m.byteMap, bytes),
         NEW w, WritesOver(w, bs, b), LowAlike(m.base, bs, b)
  PROVE  SameLow(n.byteMap, w)
<1> DEFINE places == 0..(Count(b) - 1)
<1> SUFFICES ASSUME NEW a
             PROVE  /\ <<0, a>> \in DOMAIN n.byteMap <=> <<0, a>> \in DOMAIN w
                    /\ <<0, a>> \in DOMAIN w => n.byteMap[<<0, a>>] = w[<<0, a>>]
  BY DEF SameLow
<1> DEFINE x == <<0, a>>
<1>1. \A i \in places : At32(m.base, b, i) = x <=> ByteAddress(bs, b, i) = x
  BY DEF LowAlike
<1>2. /\ x \in DOMAIN m.byteMap <=> x \in DOMAIN bytes
      /\ x \in DOMAIN bytes => m.byteMap[x] = bytes[x]
  BY DEF SameLow
<1> HIDE DEF x, places
<1>3. x \in DOMAIN n.byteMap <=> x \in DOMAIN w
  BY <1>1, <1>2 DEF RecordedIn, WritesOver, places
<1>4. CASE \E i \in places : At32(m.base, b, i) = x
  <2>1. PICK i \in places : At32(m.base, b, i) = x /\ ByteAddress(bs, b, i) = x
    BY <1>1, <1>4
  <2>2. n.byteMap[x] = b[5 + i]
    BY <2>1 DEF RecordedIn, places
  <2>3. w[x] = b[5 + i]
    BY <2>1 DEF WritesOver, places
  <2>4. QED
    BY <1>3, <2>2, <2>3 DEF x
<1>5. CASE ~\E i \in places : At32(m.base, b, i) = x
  <2>1. \A i \in places : At32(m.base, b, i) # x /\ ByteAddress(bs, b, i) # x
    BY <1>1, <1>5
  <2>2. x \in DOMAIN w => x \in DOMAIN bytes
    BY <2>1 DEF WritesOver, places
  <2>3. x \in DOMAIN bytes => w[x] = bytes[x]
    BY <2>1 DEF WritesOver, places
  <2>4. x \in DOMAIN m.byteMap => n.byteMap[x] = m.byteMap[x]
    BY <2>1 DEF RecordedIn, places
  <2>5. QED
    BY <1>2, <1>3, <2>2, <2>3, <2>4 DEF x
<1>6. QED
  BY <1>4, <1>5

----------------------------------------------------------------------------
(* While parse reads, the test's reader at the same line has the same base,  *)
(* up to the sign of its high half, and the same bytes in the first 64K.     *)
ReadsAlike ==
  status = "reading" =>
    LET m == ReadUpTo(file)[lineNo - 1]
    IN /\ IsReader(m) /\ m.ended = FALSE
       /\ IsBase(base) /\ m.base = <<SignedHigh(base[1]), base[2]>>
       /\ SameLow(m.byteMap, bytes)

OracleInv == TransferInv /\ ReadsAlike /\ OracleReadsTheFlash

LEMMA StartIs ==
  /\ IsReader(Start) /\ Start.ended = FALSE /\ IsBase(<<0, 0>>)
  /\ Start.base = <<SignedHigh(<<0, 0>>[1]), <<0, 0>>[2]>>
  /\ SameLow(Start.byteMap, Blank)
<1>1. Start.base = <<0, 0>> /\ Start.byteMap = Blank /\ Start.ended = FALSE
  BY DEF Start
<1>2. DOMAIN Blank = {}
  BY DEF Blank
<1>3. Start = [base |-> Start.base, byteMap |-> Start.byteMap, ended |-> Start.ended]
  BY <1>1 DEF Start
<1>4. QED
  BY <1>1, <1>2, <1>3 DEF IsReader, IsBase, SignedHigh, SameLow

(* Reading begins at the first line, whatever the text. *)
LEMMA BeginsAlike ==
  ASSUME Len(file)' \in Nat, lineNo' = 1, base' = <<0, 0>>, bytes' = Blank,
         status' = "reading"
  PROVE  ReadsAlike' /\ OracleReadsTheFlash'
<1>1. lineNo' - 1 = 0
  OBVIOUS
<1>2. ReadUpTo(file')[0] = Start
  BY ReadUpToIs
<1>3. QED
  BY <1>1, <1>2, StartIs DEF ReadsAlike, OracleReadsTheFlash

(* What the bases of records are, in the core and in the test. *)
LEMMA BasesAgree ==
  ASSUME NEW d, d[1] \in Byte, d[2] \in Byte
  PROVE  /\ IsBase(SegmentBase(d)) /\ IsBase(LinearBase(d))
         /\ SegmentBase(d) = <<SignedHigh(SegmentBase(d)[1]), SegmentBase(d)[2]>>
         /\ SignedBase(d) = <<SignedHigh(LinearBase(d)[1]), LinearBase(d)[2]>>
<1> DEFINE v == 256 * d[1] + d[2]
<1>1. v \in Nat /\ v < 65536
  BY BytesAreSmall
<1>2. /\ SegmentBase(d) = <<v \div 4096, (16 * v) % 65536>> /\ LinearBase(d) = <<v, 0>>
      /\ SignedBase(d) = <<SignedHigh(v), 0>>
  BY DEF SegmentBase, LinearBase, SignedBase, SignedHigh
<1> HIDE DEF v
<1>3. v \div 4096 \in Nat /\ v \div 4096 < 16
  BY <1>1
<1>4. (16 * v) % 65536 \in Nat /\ (16 * v) % 65536 < 65536
  BY <1>1
<1>5. SignedHigh(v \div 4096) = v \div 4096
  BY <1>3 DEF SignedHigh
<1>6. QED
  BY <1>1, <1>2, <1>3, <1>4, <1>5 DEF IsBase

(* One line on, in both readers. *)
LEMMA LineAlike ==
  ASSUME LoaderInv, Reading, NextLine,
         LET n == ReadLine(file[lineNo], ReadUpTo(file)[lineNo - 1])
         IN /\ IsReader(n) /\ n.ended = FALSE
            /\ IsBase(base') /\ n.base = <<SignedHigh(base'[1]), base'[2]>>
            /\ SameLow(n.byteMap, bytes')
  PROVE  ReadsAlike' /\ OracleReadsTheFlash'
<1>1. file \in Seq(Lines) /\ lineNo \in Nat \ {0} /\ lineNo <= Len(file)
  BY LineIsRead
<1>2. Len(file) \in Nat /\ lineNo \in 1..Len(file)
  BY <1>1
<1>3. ReadUpTo(file)[lineNo] = ReadLine(file[lineNo], ReadUpTo(file)[lineNo - 1])
  BY <1>2, ReadUpToIs
<1>4. file' = file /\ lineNo' = lineNo + 1 /\ status' = "reading"
  BY DEF NextLine, Reading
<1>5. lineNo' - 1 = lineNo
  BY <1>1, <1>4
<1>6. QED
  BY <1>3, <1>4, <1>5 DEF ReadsAlike, OracleReadsTheFlash

LEMMA NeutralAlike ==
  ASSUME LoaderInv, ReadsAlike, Reading, NextLine, UNCHANGED <<base, bytes>>,
         file[lineNo].shape # "record" \/ Kind(file[lineNo].bytes) \notin {0, 1, 2, 4}
  PROVE  ReadsAlike' /\ OracleReadsTheFlash'
<1> DEFINE m == ReadUpTo(file)[lineNo - 1]
<1>1. ReadLine(file[lineNo], m) = m
  <2> HIDE DEF m
  <2>1. QED
    BY DEF ReadLine
<1>2. /\ IsReader(m) /\ m.ended = FALSE
      /\ IsBase(base) /\ m.base = <<SignedHigh(base[1]), base[2]>>
      /\ SameLow(m.byteMap, bytes)
  BY DEF ReadsAlike, Reading
<1>3. base' = base /\ bytes' = bytes
  OBVIOUS
<1> HIDE DEF m
<1>4. QED
  BY <1>1, <1>2, <1>3, LineAlike DEF m

LEMMA DataAlike ==
  ASSUME LoaderInv, ReadsAlike, DataLine
  PROVE  ReadsAlike' /\ OracleReadsTheFlash'
<1> DEFINE m == ReadUpTo(file)[lineNo - 1]
<1>1. PICK b : /\ SoundRecord(b) /\ Kind(b) = 0
               /\ bytes' = WithData(base, b) /\ NextLine /\ UNCHANGED base
  BY DEF DataLine
<1>2. /\ Reading /\ file[lineNo].shape = "record" /\ Fault(file[lineNo]) = "none"
      /\ b = file[lineNo].bytes
  BY <1>1 DEF SoundRecord
<1>3. /\ IsReader(m) /\ m.ended = FALSE
      /\ IsBase(base) /\ m.base = <<SignedHigh(base[1]), base[2]>>
      /\ SameLow(m.byteMap, bytes)
  BY <1>2 DEF ReadsAlike, Reading
<1> HIDE DEF m
<1>4. /\ Count(b) \in Byte /\ b[2] \in Byte /\ b[3] \in Byte
      /\ \A i \in 0..(Count(b) - 1) : b[5 + i] \in Byte
  BY <1>2, LineIsRead, RecordBytes
<1>5. base \in Nat \X Nat
  BY <1>2, LineIsRead
<1>6. WritesOver(bytes', base, b)
  <2>1. NoneTwice(base, b)
    BY <1>4, <1>5, RowOfAddresses DEF NoneTwice
  <2>2. QED
    BY <1>1, <1>4, <2>1, WrittenOver
<1>7. ReadLine(file[lineNo], m) = WithRecord(m, b)
  BY <1>1, <1>2, <1>3 DEF ReadLine
<1>8. RecordedIn(m, WithRecord(m, b), b)
  <2>1. /\ \A i \in 0..(Count(b) - 1) : At32(m.base, b, i) \in Int \X Int
        /\ \A i, j \in 0..(Count(b) - 1) : At32(m.base, b, i) = At32(m.base, b, j) => i = j
    BY <1>3, <1>4, LowAddresses
  <2>2. QED
    BY <1>3, <2>1, WithRecordIs
<1>9. SameLow(WithRecord(m, b).byteMap, bytes')
  <2>1. LowAlike(m.base, base, b)
    BY <1>3, <1>4, LowAddresses
  <2>2. QED
    BY <1>3, <1>6, <1>8, <2>1, RecordsAgree
<1>10. base' = base
  BY <1>1
<1>11. /\ IsReader(WithRecord(m, b)) /\ WithRecord(m, b).ended = FALSE
       /\ WithRecord(m, b).base = <<SignedHigh(base[1]), base[2]>>
  BY <1>3, <1>8 DEF RecordedIn
<1>12. QED
  BY <1>1, <1>2, <1>3, <1>7, <1>9, <1>10, <1>11, LineAlike DEF m

LEMMA RejectsAlike ==
  ASSUME NEW why, Rejects(why), why \notin {"reading", "loaded"}
  PROVE  ReadsAlike' /\ OracleReadsTheFlash'
BY DEF Rejects, ReadsAlike, OracleReadsTheFlash

LEMMA BaseAlike ==
  ASSUME LoaderInv, ReadsAlike, BaseLine
  PROVE  ReadsAlike' /\ OracleReadsTheFlash'
<1> DEFINE m == ReadUpTo(file)[lineNo - 1]
           moved(b) == IF Kind(b) = 2 THEN SegmentBase(DataOf(b)) ELSE LinearBase(DataOf(b))
<1>1. PICK b : /\ SoundRecord(b) /\ Kind(b) \in {2, 4}
               /\ IF Count(b) < 2 THEN Rejects("BadLength")
                  ELSE base' = moved(b) /\ NextLine /\ UNCHANGED <<bytes, sawData>>
  BY DEF BaseLine
<1>2. /\ Reading /\ file[lineNo].shape = "record" /\ Fault(file[lineNo]) = "none"
      /\ b = file[lineNo].bytes
  BY <1>1 DEF SoundRecord
<1>3. CASE Count(b) < 2
  BY <1>1, <1>3, RejectsAlike
<1>4. CASE ~(Count(b) < 2)
  <2>1. base' = moved(b) /\ NextLine /\ bytes' = bytes
    BY <1>1, <1>4
  <2>2. /\ IsReader(m) /\ m.ended = FALSE /\ SameLow(m.byteMap, bytes)
    BY <1>2 DEF ReadsAlike, Reading
  <2> DEFINE d == DataOf(b)
  <2>3. d[1] \in Byte /\ d[2] \in Byte
    BY <1>2, <1>4, LineIsRead, DataBytes
  <2> HIDE DEF m, d
  <2>4. ASSUME NEW bs
        PROVE  LET n == [m EXCEPT !.base = bs]
               IN /\ n.base = bs /\ n.byteMap = m.byteMap /\ n.ended = m.ended
                  /\ IsReader(n)
    <3>1. [m EXCEPT !.base = bs] = [base |-> bs, byteMap |-> m.byteMap, ended |-> m.ended]
      BY <2>2 DEF IsReader
    <3>2. QED
      BY <2>2, <3>1 DEF IsReader
  <2>5. CASE Kind(b) = 2
    <3>1. ReadLine(file[lineNo], m) = [m EXCEPT !.base = SegmentBase(d)]
      BY <1>2, <2>2, <2>5 DEF ReadLine, d
    <3>2. base' = SegmentBase(d)
      BY <2>1, <2>5 DEF d
    <3>3. IsBase(base') /\ SegmentBase(d) = <<SignedHigh(base'[1]), base'[2]>>
      BY <2>3, <3>2, BasesAgree
    <3> DEFINE n == ReadLine(file[lineNo], m)
    <3>4. IsReader(n) /\ n.base = SegmentBase(d) /\ n.byteMap = m.byteMap /\ n.ended = FALSE
      BY <2>2, <2>4, <3>1
    <3>5. SameLow(n.byteMap, bytes')
      BY <2>1, <2>2, <3>4
    <3> HIDE DEF n
    <3>6. QED
      BY <1>2, <2>1, <3>3, <3>4, <3>5, LineAlike DEF m, n
  <2>6. CASE Kind(b) = 4
    <3>1. ReadLine(file[lineNo], m) = [m EXCEPT !.base = SignedBase(d)]
      BY <1>2, <2>2, <2>6 DEF ReadLine, d
    <3>2. base' = LinearBase(d)
      BY <2>1, <2>6 DEF d
    <3>3. IsBase(base') /\ SignedBase(d) = <<SignedHigh(base'[1]), base'[2]>>
      BY <2>3, <3>2, BasesAgree
    <3> DEFINE n == ReadLine(file[lineNo], m)
    <3>4. IsReader(n) /\ n.base = SignedBase(d) /\ n.byteMap = m.byteMap /\ n.ended = FALSE
      BY <2>2, <2>4, <3>1
    <3>5. SameLow(n.byteMap, bytes')
      BY <2>1, <2>2, <3>4
    <3> HIDE DEF n
    <3>6. QED
      BY <1>2, <2>1, <3>3, <3>4, <3>5, LineAlike DEF m, n
  <2>7. QED
    BY <1>1, <2>5, <2>6
<1>5. QED
  BY <1>3, <1>4

LEMMA OtherAlike ==
  ASSUME LoaderInv, ReadsAlike, OtherLine
  PROVE  ReadsAlike' /\ OracleReadsTheFlash'
<1>1. PICK b : /\ SoundRecord(b) /\ Kind(b) \notin {0, 1, 2, 4}
               /\ IF Kind(b) \in {3, 5} THEN NextLine /\ UNCHANGED <<base, bytes, sawData>>
                  ELSE Rejects("UnsupportedRecord")
  BY DEF OtherLine
<1>2. Reading /\ b = file[lineNo].bytes
  BY <1>1 DEF SoundRecord
<1>3. CASE Kind(b) \in {3, 5}
  <2>1. NextLine /\ UNCHANGED <<base, bytes>>
    BY <1>1, <1>3
  <2>2. QED
    BY <1>1, <1>2, <2>1, NeutralAlike
<1>4. CASE Kind(b) \notin {3, 5}
  BY <1>1, <1>4, RejectsAlike
<1>5. QED
  BY <1>3, <1>4

----------------------------------------------------------------------------
(* What the test makes of a byte map with the same low 64K: the words of the *)
(* image whose low byte is given, without a contradiction, and the same      *)
(* configuration.                                                           *)
LEMMA DecodesTheSame ==
  ASSUME NEW f, NEW m, m = ReadUpTo(f)[Len(f)].byteMap,
         DOMAIN m \subseteq Int \X Int, SameLow(m, bytes),
         \A c \in DOMAIN bytes : c = <<c[1], c[2]>>
  PROVE  LET d == DecodeHex(f)
             found == {x[2] \div 2 : x \in {y \in DOMAIN d.words : y[1] = 0 /\ y[2] < 2 * PROG_WORDS}}
         IN /\ found = {w \in DOMAIN ImageRead.program : <<0, 2 * w>> \in DOMAIN bytes}
            /\ Contradictions(d, ImageRead.program) = {}
            /\ d.config = ImageRead.config
<1> DEFINE LowBytes == ProgramBytes(m)
           Word(x) == (OrBlank(m, x) + 256 * OrBlank(m, <<x[1], x[2] + 1>>)) % 16384
           fuse == {<<0, CONFIG_BYTE_ADDR>>, <<0, CONFIG_BYTE_ADDR + 1>>}
           d == DecodeHex(f)
           program == ImageRead.program
<1>1. /\ d.words = [x \in LowBytes |-> Word(x)]
      /\ d.config = IF fuse \cap DOMAIN m = {} THEN NoConfig ELSE Word(<<0, CONFIG_BYTE_ADDR>>)
  BY DEF DecodeHex
<1>2. /\ program = [w \in {a \div 2 : a \in Below(2 * PROG_WORDS)} |-> WordFrom(2 * w)]
      /\ ImageRead.config = IF Given(CONFIG_BYTE_ADDR) THEN WordFrom(CONFIG_BYTE_ADDR)
                            ELSE NoConfig
  BY DEF ImageRead
<1> HIDE DEF d, program
<1>3. \A a : OrBlank(m, <<0, a>>) = ByteOrFF(a)
  BY DEF SameLow, OrBlank, ByteOrFF
<1>4. ASSUME NEW a PROVE Word(<<0, a>>) = WordFrom(a)
  <2>1. <<0, a>>[1] = 0 /\ <<0, a>>[2] = a
    OBVIOUS
  <2>2. OrBlank(m, <<<<0, a>>[1], <<0, a>>[2] + 1>>) = OrBlank(m, <<0, a + 1>>)
    BY <2>1
  <2>3. OrBlank(m, <<0, a>>) = ByteOrFF(a) /\ OrBlank(m, <<0, a + 1>>) = ByteOrFF(a + 1)
    BY <1>3
  <2>4. QED
    BY <2>2, <2>3 DEF WordFrom
<1>5. Contradictions(d, program) = {}
  <2> SUFFICES ASSUME NEW w \in DOMAIN program, <<0, 2 * w>> \in DOMAIN d.words
               PROVE  d.words[<<0, 2 * w>>] = program[w]
    BY DEF Contradictions
  <2>1. d.words[<<0, 2 * w>>] = Word(<<0, 2 * w>>)
    <3> HIDE DEF LowBytes, Word
    <3>1. QED
      BY <1>1
  <2>2. program[w] = WordFrom(2 * w)
    BY <1>2
  <2>3. QED
    BY <1>4, <2>1, <2>2
<1>6. DOMAIN d.words = LowBytes
  <2> HIDE DEF LowBytes, Word
  <2>1. QED
    BY <1>1
<1>7. ASSUME NEW y \in DOMAIN d.words, y[1] = 0, y[2] < 2 * PROG_WORDS
      PROVE  /\ y[2] \div 2 \in DOMAIN program
             /\ <<0, 2 * (y[2] \div 2)>> \in DOMAIN bytes
  <2>1. y \in DOMAIN m /\ y \in Int \X Int /\ y[2] % 2 = 0
    BY <1>6 DEF ProgramBytes
  <2>2. y = <<0, y[2]>> /\ 2 * (y[2] \div 2) = y[2]
    BY <1>7, <2>1
  <2>3. <<0, y[2]>> \in DOMAIN bytes
    BY <2>1, <2>2 DEF SameLow
  <2>4. y[2] \in Below(2 * PROG_WORDS)
    BY <1>7, <2>3 DEF Below
  <2>5. QED
    BY <1>2, <2>2, <2>3, <2>4
<1>8. ASSUME NEW w \in DOMAIN program, <<0, 2 * w>> \in DOMAIN bytes
      PROVE  LET y == <<0, 2 * w>>
             IN /\ y \in DOMAIN d.words
                /\ y[1] = 0 /\ y[2] < 2 * PROG_WORDS /\ y[2] \div 2 = w
  <2> DEFINE y == <<0, 2 * w>>
  <2>1. PICK a \in Below(2 * PROG_WORDS) : w = a \div 2
    BY <1>2
  <2>2. <<0, a>> \in DOMAIN m /\ a < 4096
    <3>1. PICK c \in DOMAIN bytes : c[1] = 0 /\ c[2] < 4096 /\ a = c[2]
      BY <2>1 DEF Below, PROG_WORDS
    <3>2. c = <<0, a>>
      BY <3>1
    <3>3. QED
      BY <3>1, <3>2 DEF SameLow
  <2>3. a \in Int
    BY <2>2
  <2>4. w \in Int /\ 2 * w < 4096 /\ (2 * w) % 2 = 0 /\ (2 * w) \div 2 = w
    BY <2>1, <2>2, <2>3
  <2>5. y \in DOMAIN m
    BY <1>8 DEF SameLow
  <2>6. y \in LowBytes
    BY <2>4, <2>5 DEF ProgramBytes
  <2>7. QED
    BY <1>6, <2>4, <2>6 DEF PROG_WORDS
<1>9. {x[2] \div 2 : x \in {y \in DOMAIN d.words : y[1] = 0 /\ y[2] < 2 * PROG_WORDS}}
        = {w \in DOMAIN program : <<0, 2 * w>> \in DOMAIN bytes}
  BY <1>7, <1>8
<1>10. d.config = ImageRead.config
  <2>1. fuse \cap DOMAIN m = {} <=> ~Given(CONFIG_BYTE_ADDR)
    BY DEF Given, SameLow
  <2>2. QED
    BY <1>1, <1>2, <1>4, <2>1
<1>11. QED
  BY <1>5, <1>9, <1>10 DEF d, program

LEMMA FinishAlike ==
  ASSUME LoaderInv, ReadsAlike, FinishReading
  PROVE  ReadsAlike' /\ OracleReadsTheFlash'
<1>1. /\ AtEnd /\ file' = file
      /\ IF sawData THEN status' = "loaded" /\ image' = ImageRead ELSE status' = "NoData"
  BY DEF FinishReading
<1>2. CASE ~sawData
  BY <1>1, <1>2 DEF ReadsAlike, OracleReadsTheFlash
<1>3. CASE sawData
  <2> DEFINE m == ReadUpTo(file)[lineNo - 1]
             n == ReadUpTo(file)[Len(file)]
  <2>1. status = "reading" /\ lineNo \in Nat \ {0} /\ Len(file) \in Nat /\ lineNo <= Len(file) + 1
    BY <1>1 DEF AtEnd, SoundRecord, Reading, LoaderInv, LoaderTypes
  <2>2. IsReader(m) /\ m.ended = FALSE /\ SameLow(m.byteMap, bytes)
    BY <2>1 DEF ReadsAlike
  <2>3. n.byteMap = m.byteMap
    <3>1. CASE lineNo > Len(file)
      <4>1. lineNo - 1 = Len(file)
        BY <2>1, <3>1
      <4>2. QED
        BY <4>1
    <3>2. CASE ~(lineNo > Len(file))
      <4>1. lineNo \in 1..Len(file) /\ lineNo \in 0..Len(file)
        BY <2>1, <3>2
      <4>2. file[lineNo].shape = "record" /\ Kind(file[lineNo].bytes) = 1
        BY <1>1, <3>2 DEF AtEnd, SoundRecord
      <4> DEFINE e == ReadUpTo(file)[lineNo]
      <4>3. e = ReadLine(file[lineNo], m)
        BY <2>1, <4>1, ReadUpToIs
      <4> HIDE DEF m, e
      <4>4. e = [m EXCEPT !.ended = TRUE]
        BY <2>2, <4>2, <4>3 DEF ReadLine
      <4>5. e = [base |-> m.base, byteMap |-> m.byteMap, ended |-> TRUE]
        BY <2>2, <4>4 DEF IsReader
      <4>6. e.ended /\ e.byteMap = m.byteMap
        BY <4>5
      <4>7. n = e
        BY <2>1, <4>1, <4>6, EndedStays DEF e
      <4>8. QED
        BY <4>6, <4>7 DEF m
    <3>3. QED
      BY <3>1, <3>2
  <2> HIDE DEF m, n
  <2>4. DOMAIN n.byteMap \subseteq Int \X Int /\ SameLow(n.byteMap, bytes)
    BY <2>2, <2>3 DEF IsReader
  <2>5. status' = "loaded" /\ image' = ImageRead /\ bytes' = bytes
    BY <1>1, <1>3 DEF FinishReading
  <2>6. ASSUME NEW c \in DOMAIN bytes PROVE c = <<c[1], c[2]>>
    <3>1. PICK g : c = AddressOf(file, g)
      BY <2>1 DEF LoaderInv, ReadSoFar, Tells
    <3>2. QED
      BY <3>1 DEF AddressOf
  <2>7. QED
    BY <1>1, <2>4, <2>5, <2>6, DecodesTheSame DEF ReadsAlike, OracleReadsTheFlash, n
<1>4. QED
  BY <1>2, <1>3

LEMMA OracleStep == OracleInv /\ [TransferNext]_transferVars => OracleInv'
<1> SUFFICES ASSUME OracleInv, [TransferNext]_transferVars PROVE OracleInv'
  OBVIOUS
<1>1. TransferInv'
  BY TransferStep DEF OracleInv
<1>2. LoaderInv /\ ReadsAlike /\ OracleReadsTheFlash
  BY DEF OracleInv, TransferInv
<1>3. Len(file)' \in Nat
  BY <1>1 DEF TransferInv, LoaderInv, LoaderTypes
<1>4. ASSUME NEW f, StartReading(f) PROVE ReadsAlike' /\ OracleReadsTheFlash'
  BY <1>3, <1>4, BeginsAlike DEF StartReading
<1>5. ASSUME NEW n, NEW k, NEW v, Damage(n, k, v)
      PROVE  ReadsAlike' /\ OracleReadsTheFlash'
  <2>1. status' = "reading" /\ lineNo' = 1 /\ base' = base /\ bytes' = bytes /\ lineNo = 1
    BY <1>5 DEF Damage
  <2>2. status = "reading"
    BY <1>5 DEF Damage
  <2>3. base = BaseAt(file, 1) /\ Tells(bytes, file, 1)
    BY <1>2, <2>1, <2>2 DEF LoaderInv, ReadSoFar
  <2>4. base = <<0, 0>> /\ DOMAIN bytes = {}
    BY <2>3, EmptyFile DEF Tells
  <2>5. bytes = Blank
    BY <2>3, <2>4 DEF Tells, Blank
  <2>6. QED
    BY <1>3, <2>1, <2>4, <2>5, BeginsAlike
<1>6. CASE Load
  <2>1. CASE SkipBlank
    <3>1. Reading /\ NextLine /\ UNCHANGED <<base, bytes>> /\ file[lineNo].shape = "blank"
      BY <2>1 DEF SkipBlank
    <3>2. QED
      BY <1>1, <1>2, <3>1, NeutralAlike DEF OracleInv
  <2>2. CASE BadLine
    <3>1. \A line : Fault(line) \notin {"reading", "loaded"}
      BY DEF Fault
    <3>2. QED
      BY <1>1, <2>2, <3>1, RejectsAlike DEF BadLine, OracleInv
  <2>3. QED
    BY <1>1, <1>2, <1>6, <2>1, <2>2, DataAlike, BaseAlike, OtherAlike, FinishAlike
       DEF Load, LoaderNext, OracleInv
<1>7. CASE UNCHANGED transferVars
  <2>1. /\ file' = file /\ status' = status /\ lineNo' = lineNo /\ base' = base
        /\ bytes' = bytes /\ image' = image
    BY <1>7 DEF transferVars, loaderVars
  <2>2. QED
    BY <1>1, <1>2, <2>1 DEF OracleInv, ReadsAlike, OracleReadsTheFlash
<1>8. QED
  BY <1>1, <1>4, <1>5, <1>6, <1>7 DEF TransferNext, Save, Open, OracleInv

(* OracleReadsTheFlash, for every text: whatever records a file has, in any  *)
(* order, with any bases and any lines that are no records, what decodeHex   *)
(* of test-asm.js compares is what parse of hex.rs puts into flash.          *)
THEOREM TestReadsWhatRuns == TransferSpec => []OracleReadsTheFlash
<1>1. TransferInit => OracleInv
  <2> SUFFICES ASSUME TransferInit PROVE OracleInv
    OBVIOUS
  <2>1. TransferInv /\ status = "noFile"
    BY TransferStarts DEF TransferInit, LoaderInit
  <2>2. QED
    BY <2>1 DEF OracleInv, ReadsAlike, OracleReadsTheFlash
<1>2. OracleInv => OracleReadsTheFlash
  BY DEF OracleInv
<1>3. QED
  BY <1>1, <1>2, OracleStep, PTL DEF TransferSpec

(***************************************************************************)
(* What the passes make: a program                                          *)
(***************************************************************************)
(* The names that occur in sources, and those that preprocess puts in. *)
Names ==
  {NoName, "none", "EQU"} \cup
  UNION {UNION {{l.label, l.op, l.arg.base} : l \in Range(s)} : s \in Sources}

Text == [base : Names, plus : Int]
SourceLine == [label : Names, op : Names, arg : Text]

(* Functions from some of S into V. *)
Maps(S, V) == UNION {[D -> V] : D \in SUBSET S}

Item  == [line : SourceLine, texts : Maps(Names, Text), depth : Nat]
Macro == [param : Names, body : Seq(SourceLine)]

PreTypes ==
  /\ source \in Seq(SourceLine)
  /\ todo \in Seq(Item)
  /\ macroDef \in [name : Names, param : Names, body : Seq(SourceLine)]
  /\ cblock \in Int
  /\ macros \in Maps(Names, Macro)
  /\ defines \in Maps(Names, Text)
  /\ lines \in Seq(SourceLine)

PassTypes ==
  /\ symbols \in Maps(Names, Int)
  /\ lc \in Nat
  /\ words \in Maps(0..(PROG_WORDS - 1), Words)
  /\ config \in Words \cup {NoConfig}

(* The operands of the ORGs before line k have their values. *)
OrgsSettled(table, k) ==
  \A n \in 1..(k - 1) :
    n <= Len(lines) /\ lines[n].op = "ORG" => Settled(table, lines[n].arg)

OriginsKnown ==
  /\ phase = "pass1" => OrgsSettled(symbols, at)
  /\ phase = "pass2" => \E last \in Nat :
       /\ at <= last /\ (last > Len(lines) \/ lines[last].op = "END")
       /\ OrgsSettled(symbols, last)

AsmTypes == at \in Nat \ {0} /\ PreTypes /\ PassTypes /\ OriginsKnown

LEMMA MapsAre ==
  ASSUME NEW S, NEW V, NEW f \in Maps(S, V)
  PROVE  DOMAIN f \subseteq S /\ f \in [DOMAIN f -> V]
BY DEF Maps

LEMMA IsMap ==
  ASSUME NEW S, NEW V, NEW D \in SUBSET S, NEW f \in [D -> V]
  PROVE  f \in Maps(S, V)
BY DEF Maps

LEMMA NoEntriesIsMap ==
  ASSUME NEW S, NEW V
  PROVE  NoEntries \in Maps(S, V)
<1>1. NoEntries \in [{} -> V]
  BY DEF NoEntries
<1>2. {} \in SUBSET S
  OBVIOUS
<1>3. QED
  BY <1>1, <1>2, IsMap

LEMMA WithIsMap ==
  ASSUME NEW S, NEW V, NEW f \in Maps(S, V), NEW x \in S, NEW v \in V
  PROVE  With(f, x, v) \in Maps(S, V)
<1>1. DOMAIN f \subseteq S /\ f \in [DOMAIN f -> V]
  BY MapsAre
<1>2. With(f, x, v) \in [DOMAIN f \cup {x} -> V]
  BY <1>1 DEF With
<1>3. DOMAIN f \cup {x} \in SUBSET S
  BY <1>1
<1>4. QED
  BY <1>2, <1>3, IsMap

LEMMA RestrictIsMap ==
  ASSUME NEW S, NEW V, NEW f \in Maps(S, V), NEW D, D \subseteq DOMAIN f
  PROVE  Restrict(f, D) \in Maps(S, V)
<1>1. DOMAIN f \subseteq S /\ f \in [DOMAIN f -> V]
  BY MapsAre
<1>2. Restrict(f, D) \in [D -> V]
  BY <1>1 DEF Restrict
<1>3. D \in SUBSET S
  BY <1>1
<1>4. QED
  BY <1>2, <1>3, IsMap

LEMMA SpecialNames == NoName \in Names /\ "none" \in Names /\ "EQU" \in Names
BY DEF Names

LEMMA SourcesAreLines ==
  ASSUME NEW s \in Sources
  PROVE  s \in Seq(SourceLine)
<1>1. s \in Seq(Range(s)) /\ \A l \in Range(s) : IsLine(l)
  BY AssemblerAssumption
<1>2. ASSUME NEW l \in Range(s) PROVE l \in SourceLine
  <2>1. l.label \in Names /\ l.op \in Names /\ l.arg.base \in Names
    BY DEF Names
  <2>2. l \in [label : {l.label}, op : {l.op}, arg : [base : {l.arg.base}, plus : Int]]
    BY <1>1 DEF IsLine
  <2>3. QED
    BY <2>1, <2>2 DEF SourceLine, Text
<1>3. s \in [1..Len(s) -> Range(s)] /\ Len(s) \in Nat
  BY <1>1
<1>4. s \in [1..Len(s) -> SourceLine]
  BY <1>2, <1>3
<1>5. QED
  BY <1>3, <1>4, IsASeq

LEMMA TextsAre ==
  /\ NoArg \in Text
  /\ \A n \in Int : Num(n) \in Text
  /\ \A name \in Names, n \in Int : [base |-> name, plus |-> n] \in Text
  /\ \A label, op \in Names, arg \in Text : Line(label, op, arg) \in SourceLine
BY SpecialNames DEF NoArg, Num, Text, Line, SourceLine

(* applyDefines makes lines of lines. *)
LEMMA ReplacedIsLine ==
  ASSUME NEW texts \in Maps(Names, Text), NEW l \in SourceLine
  PROVE  Replaced(texts, l) \in SourceLine
<1> DEFINE Word(w) == IF w \in DOMAIN texts THEN texts[w].base ELSE w
           t == texts[l.arg.base]
           arg == IF l.arg.base \notin DOMAIN texts THEN l.arg
                  ELSE IF t = NoArg THEN (IF l.arg.plus = 0 THEN NoArg ELSE Num(0))
                  ELSE [base |-> t.base, plus |-> t.plus + l.arg.plus]
<1>1. \A w \in DOMAIN texts : texts[w] \in Text
  BY MapsAre
<1>2. l.label \in Names /\ l.op \in Names /\ l.arg \in Text
  BY DEF SourceLine
<1>3. \A w \in Names : Word(w) \in Names
  BY <1>1 DEF Text
<1>4. arg \in Text
  <2>1. CASE l.arg.base \notin DOMAIN texts
    BY <1>2, <2>1
  <2>2. CASE l.arg.base \in DOMAIN texts
    <3>1. t \in Text /\ t.base \in Names /\ t.plus \in Int /\ l.arg.plus \in Int
      BY <1>1, <1>2, <2>2 DEF Text
    <3>2. [base |-> t.base, plus |-> t.plus + l.arg.plus] \in Text
      BY <3>1, TextsAre
    <3>3. NoArg \in Text /\ Num(0) \in Text
      BY TextsAre
    <3>4. QED
      BY <2>2, <3>2, <3>3
  <2>3. QED
    BY <2>1, <2>2
<1>5. Replaced(texts, l) = [label |-> Word(l.label), op |-> Word(l.op), arg |-> arg]
  BY DEF Replaced
<1> HIDE DEF Word, arg
<1>6. QED
  BY <1>2, <1>3, <1>4, <1>5 DEF SourceLine

(* r has the line after each of the first n rounds. *)
Rounds(r, texts, l, n) ==
  r = [i \in 0..n |->
         IF i = 0 THEN l
         ELSE IF Named(texts, r[i - 1]) = {} THEN r[i - 1] ELSE Replaced(texts, r[i - 1])]

LEMMA RoundsExist ==
  ASSUME NEW texts, NEW l, NEW n \in Nat
  PROVE  \E r : Rounds(r, texts, l, n)
<1> DEFINE T == {m \in Nat : ~\E r : Rounds(r, texts, l, m)}
<1>1. ASSUME T # {} PROVE FALSE
  <2>1. PICK m \in T : \A o \in T : m <= o
    BY <1>1, LeastOf
  <2>2. CASE m = 0
    <3>1. Rounds([i \in 0..0 |-> l], texts, l, 0)
      BY DEF Rounds
    <3>2. QED
      BY <2>2, <3>1
  <2>3. CASE m # 0
    <3>1. m - 1 \in Nat /\ m - 1 \notin T
      BY <2>1, <2>3
    <3>2. PICK r : Rounds(r, texts, l, m - 1)
      BY <3>1
    <3> DEFINE Next(q, i) == IF i = 0 THEN l
                             ELSE IF Named(texts, q[i - 1]) = {} THEN q[i - 1]
                             ELSE Replaced(texts, q[i - 1])
               q == [i \in 0..m |-> Next(r, i)]
    <3>3. \A i \in 0..(m - 1) : q[i] = r[i]
      <4>1. r = [i \in 0..(m - 1) |-> Next(r, i)]
        BY <3>2, Zenon DEF Rounds
      <4>2. \A i \in 0..(m - 1) : i \in 0..m
        BY <2>1
      <4> HIDE DEF Next
      <4>3. QED
        BY <4>1, <4>2, Zenon
    <3>4. \A i \in 0..m : i # 0 => q[i - 1] = r[i - 1]
      <4>1. \A i \in 0..m : i # 0 => i - 1 \in 0..(m - 1)
        BY <2>1
      <4> HIDE DEF q
      <4>2. QED
        BY <3>3, <4>1, Zenon
    <3>5. \A i \in 0..m : Next(r, i) = Next(q, i)
      <4> HIDE DEF q
      <4>1. QED
        BY <3>4, Zenon
    <3>6. q = [i \in 0..m |-> Next(q, i)]
      <4> HIDE DEF Next
      <4>1. QED
        BY <3>5, Zenon
    <3>7. Rounds(q, texts, l, m)
      BY <3>6, Zenon DEF Rounds
    <3> HIDE DEF q
    <3>8. QED
      BY <2>1, <3>7, Zenon
  <2>4. QED
    BY <2>2, <2>3
<1>2. QED
  BY <1>1

LEMMA RoundsAreLines ==
  ASSUME NEW texts \in Maps(Names, Text), NEW l \in SourceLine, NEW n \in Nat,
         NEW r, Rounds(r, texts, l, n)
  PROVE  \A i \in 0..n : r[i] \in SourceLine
<1> DEFINE T == {i \in 0..n : r[i] \notin SourceLine}
<1>1. ASSUME T # {} PROVE FALSE
  <2>1. T \subseteq Nat
    OBVIOUS
  <2>2. PICK m \in T : \A o \in T : m <= o
    BY <1>1, <2>1, LeastOf
  <2>3. \A i \in 0..n : r[i] = IF i = 0 THEN l
                               ELSE IF Named(texts, r[i - 1]) = {} THEN r[i - 1]
                               ELSE Replaced(texts, r[i - 1])
    BY Zenon DEF Rounds
  <2>4. CASE m = 0
    BY <2>2, <2>3, <2>4
  <2>5. CASE m # 0
    <3>1. m - 1 \in 0..n /\ m - 1 \notin T
      BY <2>2, <2>5
    <3>2. r[m - 1] \in SourceLine
      BY <3>1
    <3>3. Replaced(texts, r[m - 1]) \in SourceLine
      BY <3>2, ReplacedIsLine
    <3>4. m \in 0..n /\ r[m] \notin SourceLine
      BY <2>2
    <3>5. QED
      BY <2>3, <2>5, <3>2, <3>3, <3>4, Zenon
  <2>6. QED
    BY <2>4, <2>5
<1>2. QED
  BY <1>1

LEMMA AppliedIsLine ==
  ASSUME NEW texts \in Maps(Names, Text), NEW l \in SourceLine
  PROVE  Applied(texts, l) \in SourceLine
<1> DEFINE r == CHOOSE r : Rounds(r, texts, l, MaxRounds)
<1>1. MaxRounds \in Nat
  BY AssemblerAssumption
<1>2. Rounds(r, texts, l, MaxRounds)
  BY <1>1, RoundsExist
<1>3. Applied(texts, l) = r[MaxRounds]
  BY DEF Applied, Round, Rounds
<1> HIDE DEF r
<1>4. MaxRounds \in 0..MaxRounds
  BY <1>1
<1>5. QED
  BY <1>1, <1>2, <1>3, <1>4, RoundsAreLines

LEMMA NumbersAre ==
  ASSUME defines \in Maps(Names, Text), NEW arg \in Text
  PROVE  NumberOf(arg) \in Int
<1>1. Plainly(arg) \in SourceLine
  BY SpecialNames, TextsAre DEF Plainly
<1>2. Applied(defines, Plainly(arg)) \in SourceLine
  BY <1>1, AppliedIsLine
<1>3. QED
  BY <1>2 DEF NumberOf, SourceLine, Text

(***************************************************************************)
(* The steps of preprocess                                                  *)
(***************************************************************************)
LEMMA RawIsLine ==
  ASSUME PreTypes, at \in Nat \ {0}, at <= Len(source)
  PROVE  /\ Raw \in SourceLine
         /\ Raw.label \in Names /\ Raw.op \in Names /\ Raw.arg \in Text /\ Raw.arg.base \in Names
<1>1. source \in Seq(SourceLine)
  BY DEF PreTypes
<1>2. Raw \in SourceLine
  BY <1>1 DEF Raw
<1>3. QED
  BY <1>2 DEF SourceLine, Text

LEMMA ReadMacroBodyTypes ==
  ASSUME PreTypes, at \in Nat \ {0}, ReadMacroBody
  PROVE  PreTypes'
<1>1. Raw \in SourceLine
  BY RawIsLine DEF ReadMacroBody, AtRawLine
<1>2. source' = source /\ todo' = todo /\ cblock' = cblock /\ defines' = defines /\ lines' = lines
  BY DEF ReadMacroBody, NextRaw
<1>3. macroDef.name \in Names /\ macroDef.param \in Names /\ macroDef.body \in Seq(SourceLine)
  BY DEF PreTypes
<1>4. /\ macros' \in Maps(Names, Macro)
      /\ macroDef' \in [name : Names, param : Names, body : Seq(SourceLine)]
  <2>1. CASE Raw.op = "ENDM"
    <3>1. macros' = With(macros, macroDef.name, [param |-> macroDef.param, body |-> macroDef.body])
          /\ macroDef' = NoMacro
      BY <2>1 DEF ReadMacroBody
    <3>2. [param |-> macroDef.param, body |-> macroDef.body] \in Macro
      BY <1>3 DEF Macro
    <3>3. NoMacro \in [name : Names, param : Names, body : Seq(SourceLine)]
      BY SpecialNames DEF NoMacro
    <3>4. macros \in Maps(Names, Macro)
      BY DEF PreTypes
    <3>5. QED
      BY <1>3, <3>1, <3>2, <3>3, <3>4, WithIsMap
  <2>2. CASE Raw.op # "ENDM"
    <3>1. macroDef' = [macroDef EXCEPT !.body = Append(@, Raw)] /\ macros' = macros
      BY <2>2 DEF ReadMacroBody
    <3>2. Append(macroDef.body, Raw) \in Seq(SourceLine)
      BY <1>1, <1>3
    <3>3. QED
      BY <3>1, <3>2 DEF PreTypes
  <2>3. QED
    BY <2>1, <2>2
<1>5. QED
  BY <1>2, <1>4 DEF PreTypes

LEMMA ReadCblockEntryTypes ==
  ASSUME PreTypes, at \in Nat \ {0}, ReadCblockEntry
  PROVE  PreTypes'
<1> DEFINE word == IF Raw.op = "none" THEN Raw.label ELSE Raw.op
           here == cblock % 16384
           rest == [base |-> "EQU", plus |-> here]
           x == IF Known(word) THEN Line(NoName, word, rest) ELSE Line(word, "EQU", Num(here))
<1>1. Raw.label \in Names /\ Raw.op \in Names /\ Raw.arg \in Text
  BY RawIsLine DEF ReadCblockEntry, AtRawLine
<1>2. source' = source /\ todo' = todo /\ macroDef' = macroDef /\ macros' = macros
      /\ defines' = defines
  BY SMTT(20) DEF ReadCblockEntry, NextRaw, FailsHere
<1>3. cblock \in Int /\ lines \in Seq(SourceLine) /\ defines \in Maps(Names, Text)
  BY DEF PreTypes
<1>4. x \in SourceLine
  <2>1. here \in Int
    BY <1>3
  <2> HIDE DEF here
  <2>2. Num(here) \in Text /\ rest \in Text
    BY <2>1, SpecialNames, TextsAre DEF Text
  <2>3. word \in Names
    BY <1>1
  <2> HIDE DEF word, rest
  <2>4. QED
    BY <2>2, <2>3, SpecialNames, TextsAre
<1>5. lines' = lines \/ lines' = Append(lines, x)
  BY SMTT(30) DEF ReadCblockEntry
<1>6. \/ cblock' = cblock \/ cblock' = cblock + 1 \/ cblock' = cblock + NumberOf(Raw.arg)
  BY SMTT(20) DEF ReadCblockEntry
<1>7. NumberOf(Raw.arg) \in Int
  BY <1>1, <1>3, NumbersAre
<1> HIDE DEF x, word, here, rest
<1>8. lines' \in Seq(SourceLine) /\ cblock' \in Int
  <2>1. lines' \in Seq(SourceLine)
    BY <1>3, <1>4, <1>5
  <2>2. cblock' \in Int
    BY <1>3, <1>6, <1>7
  <2>3. QED
    BY <2>1, <2>2
<1>9. QED
  BY <1>2, <1>8 DEF PreTypes

LEMMA ReadHashLineTypes ==
  ASSUME PreTypes, at \in Nat \ {0}, ReadHashLine
  PROVE  PreTypes'
<1>1. Raw.label \in Names /\ Raw.arg \in Text
  BY RawIsLine DEF ReadHashLine, AtRawLine
<1>2. source' = source /\ todo' = todo /\ macroDef' = macroDef /\ cblock' = cblock
      /\ macros' = macros /\ lines' = lines
  BY DEF ReadHashLine, NextRaw, FailsHere
<1>3. defines \in Maps(Names, Text)
  BY DEF PreTypes
<1>4. \/ defines' = With(defines, Raw.label, Raw.arg)
      \/ defines' = Restrict(defines, DOMAIN defines \ {Raw.label})
      \/ defines' = defines
  BY DEF ReadHashLine
<1>5. With(defines, Raw.label, Raw.arg) \in Maps(Names, Text)
  BY <1>1, <1>3, WithIsMap
<1>6. Restrict(defines, DOMAIN defines \ {Raw.label}) \in Maps(Names, Text)
  BY <1>3, RestrictIsMap
<1>7. defines' \in Maps(Names, Text)
  BY <1>3, <1>4, <1>5, <1>6, Zenon
<1>8. QED
  BY <1>2, <1>7 DEF PreTypes

LEMMA OpenBlockTypes ==
  ASSUME PreTypes, at \in Nat \ {0}, OpenCblock \/ OpenMacro \/ CloseCblock
  PROVE  PreTypes'
<1>1. Raw.label \in Names /\ Raw.arg \in Text /\ Raw.arg.base \in Names
  BY RawIsLine DEF OpenCblock, OpenMacro, CloseCblock, AtRawLine
<1>2. source' = source /\ todo' = todo /\ macros' = macros /\ defines' = defines /\ lines' = lines
  BY DEF OpenCblock, OpenMacro, CloseCblock, NextRaw, FailsHere
<1>3. cblock' \in Int
  <2>1. \/ cblock' = cblock \/ cblock' = 0 \/ cblock' = NoBlock
        \/ cblock' = NumberOf(Raw.arg) % 16384
    BY SMTT(20) DEF OpenCblock, OpenMacro, CloseCblock
  <2>2. cblock \in Int /\ defines \in Maps(Names, Text)
    BY DEF PreTypes
  <2>3. NumberOf(Raw.arg) \in Int
    BY <1>1, <2>2, NumbersAre
  <2>4. QED
    BY <2>1, <2>2, <2>3 DEF NoBlock
<1>4. macroDef' \in [name : Names, param : Names, body : Seq(SourceLine)]
  <2>1. macroDef' = macroDef
        \/ macroDef' = [name |-> Raw.label, param |-> Raw.arg.base, body |-> <<>>]
    BY SMTT(20) DEF OpenCblock, OpenMacro, CloseCblock
  <2>2. <<>> \in Seq(SourceLine)
    OBVIOUS
  <2>3. [name |-> Raw.label, param |-> Raw.arg.base, body |-> <<>>]
          \in [name : Names, param : Names, body : Seq(SourceLine)]
    BY <1>1, <2>2
  <2>4. QED
    BY <2>1, <2>3 DEF PreTypes
<1>5. QED
  BY <1>2, <1>3, <1>4 DEF PreTypes

LEMMA ReadPlainLineTypes ==
  ASSUME PreTypes, at \in Nat \ {0}, ReadPlainLine
  PROVE  PreTypes'
<1> DEFINE item == [line |-> Raw, texts |-> defines, depth |-> 0]
<1>1. Raw \in SourceLine
  BY RawIsLine DEF ReadPlainLine, AtRawLine
<1>2. item \in Item
  BY <1>1 DEF PreTypes, Item
<1>3. todo' = <<item>> /\ source' = source /\ macroDef' = macroDef /\ cblock' = cblock
      /\ macros' = macros /\ defines' = defines /\ lines' = lines
  BY ZenonT(20) DEF ReadPlainLine, NextRaw
<1> HIDE DEF item
<1>4. todo' \in Seq(Item)
  BY <1>2, <1>3
<1>5. QED
  BY <1>3, <1>4 DEF PreTypes

LEMMA BodyIsItems ==
  ASSUME NEW body \in Seq(SourceLine), NEW texts \in Maps(Names, Text), NEW depth \in Nat
  PROVE  BodyOf(body, texts, depth) \in Seq(Item)
<1>1. DOMAIN body = 1..Len(body) /\ Len(body) \in Nat
  OBVIOUS
<1>2. ASSUME NEW i \in 1..Len(body)
      PROVE  [line |-> body[i], texts |-> texts, depth |-> depth + 1] \in Item
  <2>1. body[i] \in SourceLine
    OBVIOUS
  <2>2. depth + 1 \in Nat
    OBVIOUS
  <2>3. QED
    BY <2>1, <2>2 DEF Item
<1>3. BodyOf(body, texts, depth) \in [1..Len(body) -> Item]
  BY <1>1, <1>2 DEF BodyOf
<1>4. QED
  BY <1>1, <1>3, IsASeq

LEMMA StaySequences ==
  ASSUME NEW S, NEW s \in Seq(S)
  PROVE  /\ \A x \in S : Append(s, x) \in Seq(S)
         /\ \A t \in Seq(S) : t \o s \in Seq(S)
OBVIOUS

LEMMA ExpandTypes ==
  ASSUME PreTypes, Expand
  PROVE  PreTypes'
<1> DEFINE item == Head(todo)
           l    == Applied(item.texts, item.line)
           called == IF l.label \in DOMAIN macros /\ l.op \notin HashLines THEN l.label ELSE l.op
           macro  == macros[called]
           arg    == IF called # l.label THEN l.arg
                     ELSE IF l.op = "none" THEN NoArg ELSE [base |-> l.op, plus |-> 0]
           local  == IF macro.param = NoName THEN item.texts
                     ELSE With(item.texts, macro.param, arg)
           mark   == Line(l.label, "none", NoArg)
           body   == BodyOf(macro.body, local, item.depth)
<1>1. todo \in Seq(Item) /\ todo # <<>> /\ lines \in Seq(SourceLine)
      /\ macros \in Maps(Names, Macro)
  BY DEF PreTypes, Expand
<1>2. /\ source' = source /\ macroDef' = macroDef /\ cblock' = cblock
      /\ macros' = macros /\ defines' = defines
  BY DEF Expand
<1>3. item \in Item /\ Tail(todo) \in Seq(Item)
  BY <1>1
<1>4. item.line \in SourceLine /\ item.texts \in Maps(Names, Text) /\ item.depth \in Nat
  BY <1>3 DEF Item
<1>5. \/ lines' = lines /\ todo' = todo
      \/ /\ called \in DOMAIN macros /\ (lines' = lines \/ lines' = Append(lines, mark))
         /\ todo' = body \o Tail(todo)
      \/ lines' = Append(lines, l) /\ todo' = Tail(todo)
  BY ZenonT(30) DEF Expand
<1> HIDE DEF item
<1>6. l \in SourceLine
  BY <1>4, AppliedIsLine
<1> HIDE DEF l
<1>7. l.label \in Names /\ l.op \in Names /\ l.arg \in Text
  BY <1>6 DEF SourceLine
<1>8. mark \in SourceLine /\ arg \in Text
  <2>1. NoArg \in Text /\ [base |-> l.op, plus |-> 0] \in Text
    BY <1>7, TextsAre
  <2>2. mark \in SourceLine
    BY <1>7, <2>1, SpecialNames, TextsAre
  <2>3. QED
    BY <1>7, <2>1, <2>2
<1>9. ASSUME called \in DOMAIN macros PROVE body \in Seq(Item)
  <2>1. macro \in Macro
    BY <1>1, <1>9, MapsAre
  <2> HIDE DEF called, arg, macro
  <2>2. macro.param \in Names /\ macro.body \in Seq(SourceLine)
    BY <2>1 DEF Macro
  <2>3. With(item.texts, macro.param, arg) \in Maps(Names, Text)
    BY <1>4, <1>8, <2>2, WithIsMap
  <2>4. local \in Maps(Names, Text)
    BY <1>4, <2>3
  <2> HIDE DEF local
  <2>5. QED
    BY <1>4, <2>2, <2>4, BodyIsItems
<1> DEFINE rest == Tail(todo)
<1> HIDE DEF called, body, mark, macro, arg, local
<1>10. lines' \in Seq(SourceLine)
  <2>1. lines' = lines \/ lines' = Append(lines, mark) \/ lines' = Append(lines, l)
    BY <1>5, Zenon
  <2>2. Append(lines, mark) \in Seq(SourceLine) /\ Append(lines, l) \in Seq(SourceLine)
    BY <1>1, <1>6, <1>8, StaySequences, Zenon
  <2>3. QED
    BY <1>1, <2>1, <2>2, Zenon
<1>11. todo' \in Seq(Item)
  <2>1. todo' = todo \/ (body \in Seq(Item) /\ todo' = body \o rest) \/ todo' = rest
    BY <1>5, <1>9, Zenon
  <2>2. rest \in Seq(Item)
    BY <1>3
  <2> HIDE DEF rest
  <2>3. body \in Seq(Item) => body \o rest \in Seq(Item)
    BY <2>2, StaySequences, Zenon
  <2>4. QED
    BY <1>1, <2>1, <2>2, <2>3, Zenon
<1>12. QED
  BY <1>2, <1>10, <1>11 DEF PreTypes

(* In preprocess no symbol has a value yet, and no word is written. *)
LEMMA PreprocessTypes ==
  ASSUME AsmTypes, Preprocess
  PROVE  AsmTypes'
<1>1. at \in Nat \ {0} /\ PreTypes /\ PassTypes
  BY DEF AsmTypes
<1>2. PreTypes'
  <2>1. CASE ReadMacroBody
    BY <1>1, <2>1, ReadMacroBodyTypes
  <2>2. CASE ReadCblockEntry
    BY <1>1, <2>2, ReadCblockEntryTypes
  <2>3. CASE ReadHashLine
    BY <1>1, <2>3, ReadHashLineTypes
  <2>4. CASE OpenCblock \/ OpenMacro \/ CloseCblock
    BY <1>1, <2>4, OpenBlockTypes
  <2>5. CASE ReadPlainLine
    BY <1>1, <2>5, ReadPlainLineTypes
  <2>6. CASE Expand
    BY <1>1, <2>6, ExpandTypes
  <2>7. CASE FinishPreprocess
    BY <1>1, <2>7 DEF FinishPreprocess, preVars, PreTypes
  <2>8. QED
    BY <2>1, <2>2, <2>3, <2>4, <2>5, <2>6, <2>7 DEF Preprocess
<1>3. UNCHANGED passVars /\ phase' \in {"preprocess", "failed", "pass1"}
      /\ (at' = at \/ at' = at + 1 \/ at' = 1) /\ (phase' = "pass1" => at' = 1)
  BY PreprocessGoes
<1>4. PassTypes'
  BY <1>1, <1>3 DEF passVars, PassTypes
<1>5. OriginsKnown'
  <2>1. ASSUME at' = 1 PROVE OrgsSettled(symbols, at)'
    <3>1. 1..(at' - 1) = {}
      BY <2>1
    <3>2. QED
      BY <3>1 DEF OrgsSettled
  <2>2. QED
    BY <1>3, <2>1 DEF OriginsKnown
<1>6. at' \in Nat \ {0}
  <2>1. at' = at \/ at' = at + 1 \/ at' = 1
    BY <1>3
  <2>2. QED
    BY <1>1, <2>1
<1>7. QED
  BY <1>2, <1>4, <1>5, <1>6 DEF AsmTypes

(***************************************************************************)
(* The steps of the passes                                                  *)
(***************************************************************************)
LEMMA ValuesAreNumbers ==
  ASSUME PassTypes, NEW arg \in Text, Settled(symbols, arg)
  PROVE  Value(arg) \in Int
<1>1. symbols \in Maps(Names, Int) /\ lc \in Int
  BY DEF PassTypes
<1>2. \A x \in DOMAIN symbols : symbols[x] \in Int
  BY <1>1, MapsAre
<1>3. \A x \in DOMAIN BuiltIns : BuiltIns[x] \in Int
  BY AssemblerAssumption
<1>4. arg.plus \in Int
  BY DEF Text
<1>5. (CASE arg.base = NoName -> 0
         [] arg.base = "$" -> lc
         [] arg.base \in DOMAIN symbols -> symbols[arg.base]
         [] OTHER -> BuiltIns[arg.base]) \in Int
  BY <1>1, <1>2, <1>3 DEF Settled
<1>6. QED
  BY <1>4, <1>5 DEF Value

LEMMA DefinedIsSettled ==
  \A arg : Defined(arg) => Settled(symbols, arg)
BY DEF Defined, Settled

LEMMA HereIsLine ==
  ASSUME AsmTypes, at <= Len(lines)
  PROVE  /\ Here.label \in Names /\ Here.op \in Names /\ Here.arg \in Text
         /\ Here.arg.plus \in Int /\ Here.arg.base \in Names
<1>1. lines \in Seq(SourceLine) /\ at \in Nat \ {0}
  BY DEF AsmTypes, PreTypes
<1>2. Here \in SourceLine
  BY <1>1 DEF Here
<1>3. QED
  BY <1>2 DEF SourceLine, Text

LEMMA SymbolsStay ==
  ASSUME symbols \in Maps(Names, Int), NEW name \in Names, NEW v \in Int
  PROVE  /\ WithSymbol(name, v) \in Maps(Names, Int)
         /\ DOMAIN symbols \subseteq DOMAIN WithSymbol(name, v)
<1>1. With(symbols, name, v) \in Maps(Names, Int)
  BY WithIsMap
<1>2. DOMAIN With(symbols, name, v) = DOMAIN symbols \cup {name}
  BY DEF With
<1>3. QED
  BY <1>1, <1>2 DEF WithSymbol

LEMMA PreStays ==
  ASSUME PreTypes, Elsewhere
  PROVE  PreTypes'
BY DEF PreTypes, Elsewhere, preVars

(* A step of the first pass, one that fails included. *)
LEMMA FirstPassTypes ==
  ASSUME AsmTypes, AtLine("pass1"), Elsewhere, words' = words, config' = config,
         NEW ok, Takes(ok), lc' \in Nat, symbols' \in Maps(Names, Int),
         DOMAIN symbols \subseteq DOMAIN symbols',
         ok /\ Here.op = "ORG" => Settled(symbols', Here.arg)
  PROVE  AsmTypes'
<1>1. at \in Nat \ {0} /\ PreTypes /\ PassTypes /\ phase = "pass1" /\ OrgsSettled(symbols, at)
  BY DEF AsmTypes, AtLine, OriginsKnown
<1>2. PreTypes' /\ lines' = lines
  BY <1>1, PreStays, LinesStay
<1>3. PassTypes'
  BY <1>1 DEF PassTypes
<1>4. CASE ok
  <2>1. at' = at + 1 /\ phase' = "pass1"
    BY <1>1, <1>4 DEF Takes
  <2>2. ASSUME NEW n \in 1..at, n <= Len(lines), lines[n].op = "ORG"
        PROVE  Settled(symbols', lines[n].arg)
    <3>1. CASE n = at
      BY <1>4, <2>2, <3>1 DEF Here
    <3>2. CASE n # at
      <4>1. n \in 1..(at - 1)
        BY <1>1, <3>2
      <4>2. Settled(symbols, lines[n].arg)
        BY <1>1, <2>2, <4>1 DEF OrgsSettled
      <4>3. QED
        BY <4>2 DEF Settled
    <3>3. QED
      BY <3>1, <3>2
  <2>3. OrgsSettled(symbols, at)'
    <3>1. at' - 1 = at
      BY <1>1, <2>1
    <3>2. QED
      BY <1>2, <2>2, <3>1 DEF OrgsSettled
  <2>4. at' \in Nat \ {0}
    BY <1>1, <2>1
  <2>5. QED
    BY <1>2, <1>3, <2>1, <2>3, <2>4 DEF AsmTypes, OriginsKnown
<1>5. CASE ~ok
  <2>1. at' = at /\ phase' = "failed"
    BY <1>5 DEF Takes, Fails
  <2>2. QED
    BY <1>1, <1>2, <1>3, <2>1 DEF AsmTypes, OriginsKnown
<1>6. QED
  BY <1>4, <1>5

LEMMA DefineTypes ==
  ASSUME AsmTypes, Define
  PROVE  AsmTypes'
<1> DEFINE ok == Here.label # NoName /\ Defined(Here.arg)
<1>1. AtLine("pass1") /\ Here.op = "EQU" /\ Elsewhere /\ Takes(ok)
      /\ lc' = lc /\ words' = words /\ config' = config
  BY DEF Define
<1>2. symbols' = IF ok THEN WithSymbol(Here.label, Value(Here.arg)) ELSE symbols
  BY DEF Define
<1>3. Here.label \in Names /\ Here.arg \in Text
  BY <1>1, HereIsLine DEF AtLine
<1>4. PassTypes /\ symbols \in Maps(Names, Int) /\ lc \in Nat
  BY DEF AsmTypes, PassTypes
<1>5. symbols' \in Maps(Names, Int) /\ DOMAIN symbols \subseteq DOMAIN symbols'
  <2>1. CASE ok
    <3>1. Value(Here.arg) \in Int
      BY <1>3, <1>4, <2>1, DefinedIsSettled, ValuesAreNumbers
    <3>2. QED
      BY <1>2, <1>3, <1>4, <2>1, <3>1, SymbolsStay
  <2>2. CASE ~ok
    BY <1>2, <1>4, <2>2
  <2>3. QED
    BY <2>1, <2>2
<1> HIDE DEF ok
<1>6. QED
  BY <1>1, <1>4, <1>5, FirstPassTypes

LEMMA LocateTypes ==
  ASSUME AsmTypes, Locate
  PROVE  AsmTypes'
<1> DEFINE ok == Here.op # "DW" /\ (Known(Here.op) \/ (Here.op = "none" /\ Here.arg = NoArg))
<1>1. AtLine("pass1") /\ Here.op \notin {"EQU", "ORG", "END"} /\ Elsewhere /\ Takes(ok)
      /\ words' = words /\ config' = config
  BY DEF Locate
<1>2. /\ symbols' = IF Here.op = "DW" THEN symbols ELSE WithSymbol(Here.label, lc)
      /\ lc' = IF ok /\ SizeOf(Here.op) > 0 THEN lc + SizeOf(Here.op) ELSE lc
  BY DEF Locate
<1> HIDE DEF ok
<1>3. Here.label \in Names
  BY <1>1, HereIsLine DEF AtLine
<1>4. symbols \in Maps(Names, Int) /\ lc \in Nat
  BY DEF AsmTypes, PassTypes
<1>5. symbols' \in Maps(Names, Int) /\ DOMAIN symbols \subseteq DOMAIN symbols'
  BY <1>2, <1>3, <1>4, SymbolsStay
<1>6. lc' \in Nat
  <2>1. SizeOf(Here.op) \in {0, 1, 2}
    BY Sizes
  <2>2. QED
    BY <1>2, <1>4, <2>1
<1>7. QED
  BY <1>1, <1>5, <1>6, FirstPassTypes

LEMMA RelocateTypes ==
  ASSUME AsmTypes, Relocate
  PROVE  AsmTypes'
<1> DEFINE labelled == Here.arg.base = Here.label /\ Here.label # NoName
           ok == labelled \/ Defined(Here.arg)
<1>1. AtLine("pass1") /\ Here.op = "ORG" /\ Elsewhere /\ Takes(ok)
      /\ words' = words /\ config' = config
  BY DEF Relocate
<1>2. /\ symbols' = WithSymbol(Here.label, lc)
      /\ lc' = IF ~ok THEN lc
               ELSE IF labelled THEN (Here.arg.plus + lc) % 8192 ELSE Origin(Here.arg)
  BY DEF Relocate
<1>3. Here.label \in Names /\ Here.arg \in Text /\ Here.arg.plus \in Int
  BY <1>1, HereIsLine DEF AtLine
<1>4. PassTypes /\ symbols \in Maps(Names, Int) /\ lc \in Nat
  BY DEF AsmTypes, PassTypes
<1>5. symbols' \in Maps(Names, Int) /\ DOMAIN symbols \subseteq DOMAIN symbols'
  BY <1>2, <1>3, <1>4, SymbolsStay
<1>6. lc' \in Nat
  <2>1. CASE ~ok
    BY <1>2, <1>4, <2>1
  <2>2. CASE labelled
    <3>1. (Here.arg.plus + lc) % 8192 \in Nat
      BY <1>3, <1>4
    <3>2. QED
      BY <1>2, <2>2, <3>1
  <2>3. CASE ok /\ ~labelled
    <3>1. Value(Here.arg) \in Int
      BY <1>3, <1>4, <2>3, DefinedIsSettled, ValuesAreNumbers
    <3>2. Origin(Here.arg) \in Nat
      BY <3>1 DEF Origin
    <3>3. QED
      BY <1>2, <2>3, <3>2
  <2>4. QED
    BY <2>1, <2>2, <2>3
<1>7. ok => Settled(symbols', Here.arg)
  <2>1. CASE labelled
    <3>1. Here.arg.base \in DOMAIN symbols'
      BY <1>2, <2>1 DEF WithSymbol, With
    <3>2. QED
      BY <3>1 DEF Settled
  <2>2. CASE Defined(Here.arg)
    BY <1>5, <2>2 DEF Defined, Settled
  <2>3. QED
    BY <2>1, <2>2
<1> HIDE DEF ok
<1>8. QED
  BY <1>1, <1>5, <1>6, <1>7, FirstPassTypes

LEMMA FinishPass1Types ==
  ASSUME AsmTypes, FinishPass1
  PROVE  AsmTypes'
<1>1. phase = "pass1" /\ phase' = "pass2" /\ at' = 1 /\ lc' = 0 /\ Elsewhere
      /\ words' = words /\ config' = config
  BY DEF FinishPass1
<1>2. at \in Nat \ {0} /\ PreTypes /\ PassTypes /\ OrgsSettled(symbols, at)
      /\ symbols \in Maps(Names, Int) /\ lc \in Nat
  BY <1>1 DEF AsmTypes, OriginsKnown, PassTypes
<1>3. PreTypes' /\ lines' = lines
  BY <1>1, <1>2, PreStays, LinesStay
<1>4. /\ symbols' \in Maps(Names, Int) /\ DOMAIN symbols \subseteq DOMAIN symbols'
      /\ at > Len(lines) \/ lines[at].op = "END"
  <2>1. CASE at > Len(lines) /\ UNCHANGED symbols
    BY <1>2, <2>1
  <2>2. CASE at <= Len(lines) /\ Here.op = "END" /\ symbols' = WithSymbol(Here.label, lc)
    <3>1. Here.label \in Names
      BY <2>2, HereIsLine
    <3>2. QED
      BY <1>2, <2>2, <3>1, SymbolsStay DEF Here
  <2>3. QED
    BY <2>1, <2>2 DEF FinishPass1
<1>5. PassTypes'
  BY <1>1, <1>2, <1>4 DEF PassTypes
<1>6. OrgsSettled(symbols', at)
  BY <1>2, <1>4 DEF OrgsSettled, Settled
<1>7. OriginsKnown'
  <2>1. OrgsSettled(symbols', at) = (\A n \in 1..(at - 1) :
          n <= Len(lines') /\ lines'[n].op = "ORG" => Settled(symbols', lines'[n].arg))
    BY <1>3 DEF OrgsSettled
  <2>2. at \in Nat /\ at' <= at /\ (at > Len(lines') \/ lines'[at].op = "END")
    BY <1>1, <1>2, <1>3, <1>4
  <2>3. QED
    BY <1>1, <1>6, <2>1, <2>2 DEF OriginsKnown, OrgsSettled
<1>8. QED
  BY <1>1, <1>3, <1>5, <1>7 DEF AsmTypes

(***************************************************************************)
(* Words                                                                    *)
(***************************************************************************)
NoOperands == ""

UpTo(n) == {b \in Nat : b <= n}

(* An opcode leaves room for the operands of its type. *)
Roomy(op) ==
  \/ op.t = NoOperands /\ op.b \in UpTo(16383)
  \/ op.t = "fd" /\ op.b \in UpTo(16000)
  \/ op.t = "f" /\ op.b \in UpTo(16000)
  \/ op.t = "fb" /\ op.b \in UpTo(15000)
  \/ op.t = "k" /\ op.b \in UpTo(16000)
  \/ op.t = "a" /\ op.b \in UpTo(14000)

Bare     == {"CLRW", "NOP", "CLRWDT", "RETFIE", "RETURN", "SLEEP"}
OnFile1  == {"ADDWF", "ANDWF", "COMF", "DECF", "DECFSZ", "INCF", "INCFSZ", "IORWF"}
OnFile2  == {"MOVF", "RLF", "RRF", "SUBWF", "SWAPF", "XORWF", "CLRF", "MOVWF"}
OnBits   == {"BCF", "BSF", "BTFSC", "BTFSS", "CALL", "GOTO"}
Literals == {"ADDLW", "ANDLW", "IORLW", "MOVLW", "SUBLW", "XORLW", "RETLW"}

LEMMA OpcodesAreRoomy == \A m \in DOMAIN OPS : Roomy(OPS[m])
<1>1. \A m \in DOMAIN OPS : m \in Bare \cup OnFile1 \cup OnFile2 \cup OnBits \cup Literals
  BY DEF OPS, Bare, OnFile1, OnFile2, OnBits, Literals
<1>2. \A m \in Bare : Roomy(OPS[m])
  <2>1. /\ OPS["CLRW"] = Op(\h0100, NoOperands) /\ OPS["NOP"] = Op(\h0000, NoOperands)
        /\ OPS["CLRWDT"] = Op(\h0064, NoOperands) /\ OPS["RETFIE"] = Op(\h0009, NoOperands)
        /\ OPS["RETURN"] = Op(\h0008, NoOperands) /\ OPS["SLEEP"] = Op(\h0063, NoOperands)
    BY DEF OPS, NoOperands
  <2>2. \A b \in UpTo(16383) : Roomy(Op(b, NoOperands))
    BY DEF Roomy, Op, UpTo
  <2>3. QED
    BY <2>1, <2>2 DEF Bare, UpTo
<1>3. \A b \in UpTo(15000) : Roomy(Op(b, "fd")) /\ Roomy(Op(b, "f")) /\ Roomy(Op(b, "fb"))
  BY DEF Roomy, Op, UpTo
<1>4. \A b \in UpTo(14000) : Roomy(Op(b, "a"))
  BY DEF Roomy, Op, UpTo
<1>5. \A b \in UpTo(16000) : Roomy(Op(b, "k"))
  BY DEF Roomy, Op, UpTo
<1>6. \A m \in OnFile1 : Roomy(OPS[m])
  <2>1. /\ OPS["ADDWF"] = Op(\h0700, "fd") /\ OPS["ANDWF"] = Op(\h0500, "fd")
        /\ OPS["COMF"] = Op(\h0900, "fd") /\ OPS["DECF"] = Op(\h0300, "fd")
        /\ OPS["DECFSZ"] = Op(\h0B00, "fd") /\ OPS["INCF"] = Op(\h0A00, "fd")
        /\ OPS["INCFSZ"] = Op(\h0F00, "fd") /\ OPS["IORWF"] = Op(\h0400, "fd")
    BY DEF OPS
  <2>2. QED
    BY <1>3, <2>1 DEF OnFile1, UpTo
<1>7. \A m \in OnFile2 : Roomy(OPS[m])
  <2>1. /\ OPS["MOVF"] = Op(\h0800, "fd") /\ OPS["RLF"] = Op(\h0D00, "fd")
        /\ OPS["RRF"] = Op(\h0C00, "fd") /\ OPS["SUBWF"] = Op(\h0200, "fd")
        /\ OPS["SWAPF"] = Op(\h0E00, "fd") /\ OPS["XORWF"] = Op(\h0600, "fd")
        /\ OPS["CLRF"] = Op(\h0180, "f") /\ OPS["MOVWF"] = Op(\h0080, "f")
    BY DEF OPS
  <2>2. QED
    BY <1>3, <2>1 DEF OnFile2, UpTo
<1>8. \A m \in OnBits : Roomy(OPS[m])
  <2>1. /\ OPS["BCF"] = Op(\h1000, "fb") /\ OPS["BSF"] = Op(\h1400, "fb")
        /\ OPS["BTFSC"] = Op(\h1800, "fb") /\ OPS["BTFSS"] = Op(\h1C00, "fb")
        /\ OPS["CALL"] = Op(\h2000, "a") /\ OPS["GOTO"] = Op(\h2800, "a")
    BY DEF OPS
  <2>2. QED
    BY <1>3, <1>4, <2>1 DEF OnBits, UpTo
<1>9. \A m \in Literals : Roomy(OPS[m])
  <2>1. /\ OPS["MOVLW"] = Op(\h3000, "k") /\ OPS["RETLW"] = Op(\h3400, "k")
        /\ OPS["IORLW"] = Op(\h3800, "k") /\ OPS["ANDLW"] = Op(\h3900, "k")
        /\ OPS["XORLW"] = Op(\h3A00, "k") /\ OPS["SUBLW"] = Op(\h3C00, "k")
        /\ OPS["ADDLW"] = Op(\h3E00, "k")
    BY DEF OPS
  <2>2. QED
    BY <1>5, <2>1 DEF Literals, UpTo
<1>10. QED
  BY <1>1, <1>2, <1>6, <1>7, <1>8, <1>9

AddressRange == 0..2047

LEMMA SmallIsWord == \A w \in Int : 0 <= w /\ w <= 16383 => w \in Words
BY SMTT(60) DEF Words

(* Whatever operands encode accepts, it gives a word of 14 bits. *)
LEMMA EncodedIsWord ==
  ASSUME NEW s, s.m \in DOMAIN OPS, s.f \in Int, s.d \in BOOLEAN, s.bit \in Int, s.k \in Int,
         Accepted(s)
  PROVE  Encode(s) \in Words
<1> DEFINE b == OPS[s.m].b
           t == OPS[s.m].t
           c == AsBit(s.d)
           bit == s.bit
           l == s.f % 128
           k == s.k % 256
<1>1. Roomy(OPS[s.m])
  BY OpcodesAreRoomy
<1>2. l \in 0..127 /\ k \in 0..255 /\ c \in {0, 1}
  BY DEF AsBit
<1>3. CASE t = NoOperands /\ b \in UpTo(16383)
  <2>1. Encode(s) = b
    <3>1. t = NoOperands
      BY <1>3
    <3>2. QED
      BY <3>1, Zenon DEF Encode, NoOperands
  <2>2. QED
    BY <1>3, <2>1, SmallIsWord DEF UpTo
<1>4. CASE t = "fd" /\ b \in UpTo(16000)
  <2>1. Encode(s) = b + 128 * c + l
    BY <1>4 DEF Encode, LowSeven
  <2> HIDE DEF b, t, c, l
  <2>2. Encode(s) \in Int /\ 0 <= Encode(s) /\ Encode(s) <= 16383
    BY <1>2, <1>4, <2>1 DEF UpTo
  <2>3. QED
    BY <2>2, SmallIsWord
<1>5. CASE t = "f" /\ b \in UpTo(16000)
  <2>1. Encode(s) = b + l
    BY <1>5 DEF Encode, LowSeven
  <2> HIDE DEF l, b, t
  <2>2. Encode(s) \in Int /\ 0 <= Encode(s) /\ Encode(s) <= 16383
    BY <1>2, <1>5, <2>1 DEF UpTo
  <2>3. QED
    BY <2>2, SmallIsWord
<1>6. CASE t = "fb" /\ b \in UpTo(15000)
  <2>1. Encode(s) = b + 128 * bit + l
    BY <1>6 DEF Encode, LowSeven
  <2>2. bit \in 0..7
    BY <1>6 DEF Accepted
  <2> HIDE DEF b, t, l, bit
  <2>3. Encode(s) \in Int /\ 0 <= Encode(s) /\ Encode(s) <= 16383
    BY <1>2, <1>6, <2>1, <2>2 DEF UpTo
  <2>4. QED
    BY <2>3, SmallIsWord
<1>7. CASE t = "k" /\ b \in UpTo(16000)
  <2>1. Encode(s) = b + k
    BY <1>7 DEF Encode
  <2> HIDE DEF k, b, t
  <2>2. Encode(s) \in Int /\ 0 <= Encode(s) /\ Encode(s) <= 16383
    BY <1>2, <1>7, <2>1 DEF UpTo
  <2>3. QED
    BY <2>2, SmallIsWord
<1>8. CASE t = "a" /\ b \in UpTo(14000)
  <2>1. Encode(s) = b + s.k
    BY <1>8 DEF Encode
  <2>2. s.k \in AddressRange
    BY <1>8 DEF Accepted, AddressRange
  <2>3. Encode(s) \in Int /\ 0 <= Encode(s) /\ Encode(s) <= 16383
    <3>1. \A i \in Int : i \in AddressRange => 0 <= i /\ i <= 2047
      BY SMTT(60) DEF AddressRange
    <3>2. QED
      BY <1>8, <2>1, <2>2, <3>1 DEF UpTo
  <2>4. QED
    BY <2>3, SmallIsWord
<1>9. QED
  BY <1>1, <1>3, <1>4, <1>5, <1>6, <1>7, <1>8 DEF Roomy

(* A step of the second pass that does not end it. *)
LEMMA SecondPassTypes ==
  ASSUME AsmTypes, AtLine("pass2"), Here.op # "END", Elsewhere, symbols' = symbols,
         NEW ok, Takes(ok), lc' \in Nat, words' \in Maps(0..(PROG_WORDS - 1), Words),
         config' \in Words \cup {NoConfig}
  PROVE  AsmTypes'
<1>1. at \in Nat \ {0} /\ PreTypes /\ PassTypes /\ phase = "pass2" /\ OriginsKnown
  BY DEF AsmTypes, AtLine
<1>2. PreTypes' /\ lines' = lines
  BY <1>1, PreStays, LinesStay
<1>3. PassTypes'
  BY <1>1 DEF PassTypes
<1>4. CASE ok
  <2>1. at' = at + 1 /\ phase' = "pass2"
    BY <1>1, <1>4 DEF Takes
  <2>2. PICK last \in Nat : /\ at <= last /\ (last > Len(lines) \/ lines[last].op = "END")
                            /\ OrgsSettled(symbols, last)
    BY <1>1 DEF OriginsKnown
  <2>3. at # last /\ Len(lines) \in Nat
    <3>1. at <= Len(lines) /\ lines[at].op # "END"
      BY DEF AtLine, Here
    <3>2. Len(lines) \in Nat
      BY <1>1 DEF PreTypes
    <3>3. QED
      BY <1>1, <2>2, <3>1, <3>2
  <2>4. at' <= last /\ (last > Len(lines') \/ lines'[last].op = "END")
    BY <1>1, <1>2, <2>1, <2>2, <2>3
  <2>5. OrgsSettled(symbols, last)'
    BY <1>2, <2>2 DEF OrgsSettled, Settled
  <2>6. OriginsKnown'
    BY <2>1, <2>2, <2>4, <2>5 DEF OriginsKnown
  <2>7. at' \in Nat \ {0}
    BY <1>1, <2>1
  <2>8. QED
    BY <1>2, <1>3, <2>6, <2>7 DEF AsmTypes
<1>5. CASE ~ok
  <2>1. at' = at /\ phase' = "failed"
    BY <1>5 DEF Takes, Fails
  <2>2. QED
    BY <1>1, <1>2, <1>3, <2>1 DEF AsmTypes, OriginsKnown
<1>6. QED
  BY <1>4, <1>5

LEMMA PassTypesHolds ==
  ASSUME AsmTypes, Pass
  PROVE  AsmTypes'
<1>1. AtLine("pass2") /\ Here.op # "END" /\ Takes(TRUE) /\ Elsewhere
      /\ symbols' = symbols /\ lc' = lc /\ words' = words /\ config' = config
  BY DEF Pass
<1>2. lc' \in Nat /\ words' \in Maps(0..(PROG_WORDS - 1), Words) /\ config' \in Words \cup {NoConfig}
  BY <1>1 DEF AsmTypes, PassTypes
<1>3. QED
  BY <1>1, <1>2, SecondPassTypes

(* The first pass has seen to it that the operand has a value. *)
LEMMA RelocateAgainTypes ==
  ASSUME AsmTypes, RelocateAgain
  PROVE  AsmTypes'
<1>1. AtLine("pass2") /\ Here.op = "ORG" /\ Takes(TRUE) /\ Elsewhere /\ lc' = Origin(Here.arg)
      /\ symbols' = symbols /\ words' = words /\ config' = config
  BY DEF RelocateAgain
<1>2. PassTypes /\ at \in Nat \ {0} /\ at <= Len(lines) /\ Len(lines) \in Nat
  BY <1>1 DEF AsmTypes, AtLine, PreTypes
<1>3. Settled(symbols, Here.arg)
  <2>1. PICK last \in Nat : /\ at <= last /\ (last > Len(lines) \/ lines[last].op = "END")
                            /\ OrgsSettled(symbols, last)
    BY <1>1 DEF AsmTypes, OriginsKnown, AtLine
  <2>2. at # last
    BY <1>1, <1>2, <2>1 DEF Here
  <2>3. at \in 1..(last - 1)
    BY <1>2, <2>1, <2>2
  <2>4. QED
    BY <1>1, <1>2, <2>1, <2>3 DEF OrgsSettled, Here
<1>4. Here.arg \in Text
  BY <1>2, HereIsLine
<1>5. Value(Here.arg) \in Int
  BY <1>2, <1>3, <1>4, ValuesAreNumbers
<1>6. lc' \in Nat
  BY <1>1, <1>5 DEF Origin
<1>7. words' \in Maps(0..(PROG_WORDS - 1), Words) /\ config' \in Words \cup {NoConfig}
  BY <1>1, <1>2 DEF PassTypes
<1>8. Here.op # "END"
  BY <1>1
<1>9. QED
  BY <1>1, <1>6, <1>7, <1>8, SecondPassTypes

LEMMA ConfigureTypes ==
  ASSUME AsmTypes, Configure
  PROVE  AsmTypes'
<1>1. AtLine("pass2") /\ Here.op = "__CONFIG" /\ Takes(Defined(Here.arg)) /\ Elsewhere
      /\ symbols' = symbols /\ lc' = lc /\ words' = words
      /\ config' = IF Defined(Here.arg) THEN Value(Here.arg) % 16384 ELSE config
  BY DEF Configure
<1>2. PassTypes
  BY DEF AsmTypes
<1>3. lc' \in Nat /\ words' \in Maps(0..(PROG_WORDS - 1), Words)
  BY <1>1, <1>2 DEF PassTypes
<1>4. config' \in Words \cup {NoConfig}
  <2>1. CASE Defined(Here.arg)
    <3>1. Here.arg \in Text
      BY <1>1, HereIsLine DEF AtLine
    <3>2. Value(Here.arg) \in Int
      BY <1>2, <2>1, <3>1, DefinedIsSettled, ValuesAreNumbers
    <3> DEFINE v == Value(Here.arg)
    <3> HIDE DEF v
    <3>3. v % 16384 \in Int /\ 0 <= v % 16384 /\ v % 16384 <= 16383
      BY <3>2 DEF v
    <3>4. config' = v % 16384
      BY <1>1, <2>1 DEF v
    <3>5. QED
      BY <3>3, <3>4, SmallIsWord
  <2>2. CASE ~Defined(Here.arg)
    BY <1>1, <1>2, <2>2 DEF PassTypes
  <2>3. QED
    BY <2>1, <2>2
<1>5. Here.op # "END"
  BY <1>1
<1>6. QED
  BY <1>1, <1>3, <1>4, <1>5, SecondPassTypes

LEMMA PutTypes ==
  ASSUME AsmTypes, AtLine("pass2"), Here.op # "END", NEW ok, NEW ws, Len(ws) \in Nat,
         ok => \A i \in 1..Len(ws) : ws[i] \in Words, Put(ok, ws)
  PROVE  AsmTypes'
<1> DEFINE span == lc..(lc + Len(ws) - 1)
           new == [w \in DOMAIN words \cup span |->
                     IF w \in span THEN ws[w - lc + 1] ELSE words[w]]
           good == ok /\ Fits(ws)
<1>1. Takes(good) /\ Elsewhere /\ symbols' = symbols /\ config' = config
      /\ words' = (IF good THEN new ELSE words)
      /\ lc' = IF good THEN lc + Len(ws) ELSE lc
  BY DEF Put
<1>2. lc \in Nat /\ words \in Maps(0..(PROG_WORDS - 1), Words) /\ config \in Words \cup {NoConfig}
  BY DEF AsmTypes, PassTypes
<1>3. ASSUME good PROVE new \in Maps(0..(PROG_WORDS - 1), Words)
  <2>1. lc + Len(ws) <= 2048 /\ PROG_WORDS = 2048
    BY <1>3 DEF Fits, PROG_WORDS
  <2>2. DOMAIN words \subseteq 0..(PROG_WORDS - 1) /\ \A w \in DOMAIN words : words[w] \in Words
    <3>1. DOMAIN words \subseteq 0..(PROG_WORDS - 1) /\ words \in [DOMAIN words -> Words]
      BY <1>2, MapsAre, Zenon
    <3>2. QED
      BY <3>1
  <2>3. \A w \in span : w - lc + 1 \in 1..Len(ws) /\ w \in Nat /\ w <= PROG_WORDS - 1
    BY <1>2, <2>1
  <2>4. span \subseteq 0..(PROG_WORDS - 1)
    <3> DEFINE top == PROG_WORDS - 1
    <3>1. \A w \in span : w \in Nat /\ w <= top
      BY <2>3
    <3>2. top \in Nat
      BY <2>1
    <3> HIDE DEF top, span
    <3>3. span \subseteq 0..top
      BY <3>1, <3>2
    <3>4. QED
      BY <3>3 DEF top
  <2>5. \A w \in span : ws[w - lc + 1] \in Words
    BY <1>3, <2>3
  <2> HIDE DEF span
  <2>6. new \in [DOMAIN words \cup span -> Words]
    BY <2>2, <2>5
  <2>7. DOMAIN words \cup span \in SUBSET (0..(PROG_WORDS - 1))
    BY <2>2, <2>4
  <2> HIDE DEF new
  <2>8. QED
    BY <2>6, <2>7, IsMap
<1> HIDE DEF new, good
<1>4. words' \in Maps(0..(PROG_WORDS - 1), Words) /\ lc' \in Nat /\ config' \in Words \cup {NoConfig}
  BY <1>1, <1>2, <1>3
<1>5. QED
  BY <1>1, <1>4, SecondPassTypes

LEMMA SelectBankTypes ==
  ASSUME AsmTypes, SelectBank
  PROVE  AsmTypes'
<1> DEFINE ok == Here.arg.base # NoName /\ Here.arg.plus = 0 /\ Defined(Here.arg)
           v  == IF ok THEN Value(Here.arg) % 512 ELSE 0
           SetOrClear(bit, on) == Encode([m |-> IF on = 1 THEN "BSF" ELSE "BCF",
                                          f |-> 3, d |-> FALSE, bit |-> bit, k |-> 0])
           ws == <<SetOrClear(5, Bit(v, 7)), SetOrClear(6, Bit(v, 8))>>
<1>1. AtLine("pass2") /\ Here.op = "BANKSEL" /\ Put(ok, ws)
  BY DEF SelectBank
<1>2. ASSUME NEW bit \in {5, 6}, NEW on PROVE SetOrClear(bit, on) \in Words
  <2> DEFINE s == [m |-> IF on = 1 THEN "BSF" ELSE "BCF", f |-> 3, d |-> FALSE, bit |-> bit, k |-> 0]
  <2>1. s.m \in {"BSF", "BCF"} /\ s.f = 3 /\ s.d = FALSE /\ s.bit = bit /\ s.k = 0
    OBVIOUS
  <2> HIDE DEF s
  <2>2. s.m \in DOMAIN OPS /\ OPS[s.m].t = "fb"
    <3>1. "BSF" \in DOMAIN OPS /\ "BCF" \in DOMAIN OPS
      BY DEF OPS
    <3>2. OPS["BSF"] = Op(\h1400, "fb") /\ OPS["BCF"] = Op(\h1000, "fb")
      BY DEF OPS
    <3>3. QED
      BY <2>1, <3>1, <3>2 DEF Op
  <2>3. Accepted(s)
    <3>1. s.f \in 0..511 /\ s.bit \in 0..7
      BY <1>2, <2>1
    <3> DEFINE t == OPS[s.m].t
    <3>2. t # "k" /\ t # "a"
      BY <2>2
    <3>3. Accepted(s) = /\ t \in {"fd", "f", "fb"} => s.f \in 0..511
                        /\ t = "fb" => s.bit \in 0..7
                        /\ t = "k" => s.k \in -128..255
                        /\ t = "a" => s.k \in AddressRange
      BY Zenon DEF Accepted, AddressRange
    <3> HIDE DEF t
    <3>4. QED
      BY <3>1, <3>2, <3>3
  <2>4. s.f \in Int /\ s.d \in BOOLEAN /\ s.bit \in Int /\ s.k \in Int
    <3>1. 3 \in Int /\ FALSE \in BOOLEAN /\ bit \in Int /\ 0 \in Int
      BY <1>2
    <3>2. QED
      BY <2>1, <3>1, Zenon
  <2>5. Encode(s) \in Words
    BY <2>2, <2>3, <2>4, EncodedIsWord, Zenon
  <2>6. QED
    BY <2>5 DEF s
<1> HIDE DEF SetOrClear, ok, v
<1>3. Len(ws) = 2 /\ ws[1] \in Words /\ ws[2] \in Words
  BY <1>2
<1> HIDE DEF ws
<1>4. Len(ws) \in Nat /\ \A i \in 1..Len(ws) : ws[i] \in Words
  BY <1>3
<1>5. Here.op # "END"
  BY <1>1
<1>6. QED
  BY <1>1, <1>4, <1>5, PutTypes

LEMMA EmitTypes ==
  ASSUME AsmTypes, Emit
  PROVE  AsmTypes'
<1> DEFINE v  == IF Defined(Here.arg) THEN Value(Here.arg) ELSE 0
           s  == [m |-> Here.op, f |-> v, d |-> TRUE, bit |-> 0, k |-> v]
           ok == /\ OPS[Here.op].t = "" \/ (OPS[Here.op].t # "fb" /\ Defined(Here.arg))
                 /\ Accepted(s)
           ws == <<IF ok THEN Encode(s) ELSE 0>>
<1>1. AtLine("pass2") /\ Here.op \in DOMAIN OPS /\ Put(ok, ws)
  BY Zenon DEF Emit
<1>2. v \in Int
  <2>1. Here.arg \in Text /\ PassTypes
    BY <1>1, HereIsLine DEF AtLine, AsmTypes
  <2>2. Defined(Here.arg) => Value(Here.arg) \in Int
    BY <2>1, DefinedIsSettled, ValuesAreNumbers
  <2>3. QED
    BY <2>2
<1> HIDE DEF v
<1>3. s.m = Here.op /\ s.f = v /\ s.d = TRUE /\ s.bit = 0 /\ s.k = v
  OBVIOUS
<1>4. ok => Accepted(s)
  BY Zenon
<1> HIDE DEF s, ok
<1>5. ok => Encode(s) \in Words
  <2>1. s.m \in DOMAIN OPS /\ s.f \in Int /\ s.d \in BOOLEAN /\ s.bit \in Int /\ s.k \in Int
    <3>1. TRUE \in BOOLEAN /\ 0 \in Int
      OBVIOUS
    <3>2. QED
      BY <1>1, <1>2, <1>3, <3>1, Zenon
  <2>2. QED
    BY <1>4, <2>1, EncodedIsWord, Zenon
<1>6. Len(ws) = 1 /\ (ok => ws[1] \in Words)
  BY <1>5
<1> HIDE DEF ws
<1>7. Len(ws) \in Nat /\ (ok => \A i \in 1..Len(ws) : ws[i] \in Words)
  BY <1>6
<1>8. Here.op # "END"
  BY <1>1, Sizes
<1>9. QED
  BY <1>1, <1>7, <1>8, PutTypes

LEMMA FinishPass2Types ==
  ASSUME AsmTypes, FinishPass2
  PROVE  AsmTypes'
<1>1. phase' = "assembled" /\ at' = at /\ Elsewhere /\ UNCHANGED passVars
  BY DEF FinishPass2
<1>2. PreTypes'
  BY <1>1, PreStays DEF AsmTypes
<1>3. PassTypes'
  BY <1>1 DEF AsmTypes, PassTypes, passVars
<1>4. QED
  BY <1>1, <1>2, <1>3 DEF AsmTypes, OriginsKnown

LEMMA AsmStartsTyped == AsmInit => AsmTypes
<1> SUFFICES ASSUME AsmInit PROVE AsmTypes
  OBVIOUS
<1>1. /\ source \in Sources /\ phase = "preprocess" /\ at = 1
      /\ todo = <<>> /\ macroDef = NoMacro /\ cblock = NoBlock
      /\ macros = NoEntries /\ defines = NoEntries /\ lines = <<>>
      /\ symbols = NoEntries /\ lc = 0 /\ words = NoEntries /\ config = NoConfig
  BY DEF AsmInit
<1>2. source \in Seq(SourceLine)
  BY <1>1, SourcesAreLines
<1>3. \A S, V : NoEntries \in Maps(S, V)
  BY NoEntriesIsMap
<1>4. NoMacro \in [name : Names, param : Names, body : Seq(SourceLine)]
  BY SpecialNames DEF NoMacro
<1>5. PreTypes
  BY <1>1, <1>2, <1>3, <1>4 DEF PreTypes, NoBlock
<1>6. PassTypes
  BY <1>1, <1>3 DEF PassTypes
<1>7. QED
  BY <1>1, <1>5, <1>6 DEF AsmTypes, OriginsKnown

LEMMA AsmTypesStep == AsmTypes /\ [AsmNext]_asmVars => AsmTypes'
<1> SUFFICES ASSUME AsmTypes, [AsmNext]_asmVars PROVE AsmTypes'
  OBVIOUS
<1>1. CASE Preprocess
  BY <1>1, PreprocessTypes
<1>2. CASE Pass1
  BY <1>2, DefineTypes, LocateTypes, RelocateTypes, FinishPass1Types DEF Pass1
<1>3. CASE Pass2
  BY <1>3, PassTypesHolds, RelocateAgainTypes, ConfigureTypes, SelectBankTypes, EmitTypes,
     FinishPass2Types DEF Pass2
<1>4. CASE UNCHANGED asmVars
  BY <1>4 DEF asmVars, AsmTypes, PreTypes, PassTypes, OriginsKnown, OrgsSettled
<1>5. QED
  BY <1>1, <1>2, <1>3, <1>4 DEF AsmNext

(* Whatever the source, assembleInner keeps its tables in order: macros,     *)
(* #defines and symbols are tables of names, no operand of an ORG is without *)
(* a value in the second pass, which only fails where it says so, and the    *)
(* words have 14 bits and lie in the 2K of flash.                            *)
THEOREM AssemblerIsTyped == AsmSpec => []AsmTypes
BY AsmStartsTyped, AsmTypesStep, PTL DEF AsmSpec

(* What the assembler hands over is a program that the page may save: the    *)
(* step of MCAssembly from the one specification to the other is one of      *)
(* TransferNext, for every source. *)
THEOREM AssembledIsAProgram ==
  AsmSpec => []([words |-> words, config |-> config] \in Programs)
<1>1. ASSUME AsmTypes PROVE [words |-> words, config |-> config] \in Programs
  <2>1. words \in UNION {[S -> Words] : S \in SUBSET (0..(PROG_WORDS - 1))}
    BY <1>1, Zenon DEF AsmTypes, PassTypes, Maps
  <2>2. config \in Words \cup {NoConfig}
    BY <1>1 DEF AsmTypes, PassTypes
  <2>3. QED
    BY <2>1, <2>2, Zenon DEF Programs
<1>2. AsmTypes => [words |-> words, config |-> config] \in Programs
  BY <1>1
<1>3. QED
  BY <1>2, AssemblerIsTyped, PTL

=============================================================================
