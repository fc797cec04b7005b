----------------------------- MODULE Assembler -----------------------------
(***************************************************************************)
(* assemble of runtime/asm.js: the source is expanded (CBLOCK, #define,     *)
(* MACRO), a first pass gives every label an address, a second one encodes. *)
(* A line is [label, op, arg]: the word of column 1, the mnemonic or        *)
(* directive and its operand, an expression base + plus.  Labels are        *)
(* written without a colon, directives and operations are indented, a macro *)
(* has at most one parameter.                                               *)
(***************************************************************************)
EXTENDS InstructionSet, HexRecords

CONSTANTS
  Sources,        \* the programs that are assembled
  BuiltIns,       \* name -> value: SFR, BIT and CFG
  MaxDepth,       \* 60 in expandLine
  MaxRounds,      \* 60 in applyDefines
  NoName          \* no label, no base

(* A source is a sequence of lines, whose numbers are integers. *)
IsLine(l) == l \in [label : {l.label}, op : {l.op}, arg : [base : {l.arg.base}, plus : Int]]

ASSUME AssemblerAssumption ==
  /\ MaxDepth \in Nat /\ MaxRounds \in Nat \ {0}
  /\ \A name \in DOMAIN BuiltIns : BuiltIns[name] \in Int
  /\ \A s \in Sources : s \in Seq(Range(s)) /\ \A l \in Range(s) : IsLine(l)

VARIABLES
  source,     \* the program's lines
  phase,      \* "preprocess", "pass1", "pass2", "assembled" or "failed"
  at,         \* the line of the source, or of lines, that is next
  todo,       \* preprocess: lines still to be expanded, with their depth and
              \* the texts that stand for names in them
  macroDef,   \* the macro that is being read, NoMacro if none is
  cblock,     \* the address the next entry of the CBLOCK gets, NoBlock outside
  macros,     \* name -> [param, body]
  defines,    \* name -> text, of #define
  lines,      \* what preprocess gives
  symbols,    \* name -> value
  lc,         \* location counter, in words
  words,      \* word address -> 14-bit word
  config,     \* the configuration word, NoConfig if not set
  placed      \* history: the location counter at each line in pass 2

asmVars == <<source, phase, at, todo, macroDef, cblock, macros, defines, lines,
             symbols, lc, words, config, placed>>
preVars  == <<todo, macroDef, cblock, macros, defines, lines>>
passVars == <<symbols, lc, words, config, placed>>

NoArg == [base |-> NoName, plus |-> -1]
Num(n) == [base |-> NoName, plus |-> n]
Line(label, op, arg) == [label |-> label, op |-> op, arg |-> arg]

NoBlock == -1
NoMacro == [name |-> NoName, param |-> NoName, body |-> <<>>]
NoEntries == [x \in {} |-> 0]

(* LIST stands for PROCESSOR, RADIX and PAGESEL, too, and EQU for SET and =. *)
Directives == {"ORG", "EQU", "__CONFIG", "LIST", "END", "BANKSEL", "DW"}
Known(op) == op \in DOMAIN OPS \cup Directives

Fails == phase' = "failed"

AsmInit ==
  /\ source \in Sources
  /\ phase = "preprocess" /\ at = 1
  /\ todo = <<>> /\ macroDef = NoMacro /\ cblock = NoBlock
  /\ macros = NoEntries /\ defines = NoEntries /\ lines = <<>>
  /\ symbols = NoEntries /\ lc = 0 /\ words = NoEntries
  /\ config = NoConfig /\ placed = NoEntries

With(f, name, v) == [n \in DOMAIN f \cup {name} |-> IF n = name THEN v ELSE f[n]]

----------------------------------------------------------------------------
(* applyDefines: the names of a line for which texts stand are replaced, and *)
(* those of the new line, until none is left.  A text is an operand, one    *)
(* that stands for a label or a mnemonic a name of that kind.  Of a sum     *)
(* whose name is replaced by nothing evalExpr makes 0.                      *)
Named(texts, l) == {l.label, l.op, l.arg.base} \cap DOMAIN texts

Replaced(texts, l) ==
  LET Word(w) == IF w \in DOMAIN texts THEN texts[w].base ELSE w
      t == texts[l.arg.base]
  IN [label |-> Word(l.label), op |-> Word(l.op),
      arg |-> IF l.arg.base \notin DOMAIN texts THEN l.arg
              ELSE IF t = NoArg THEN (IF l.arg.plus = 0 THEN NoArg ELSE Num(0))
              ELSE [base |-> t.base, plus |-> t.plus + l.arg.plus]]

(* The line after so many rounds. *)
Round(texts, l) ==
  LET r[n \in 0..MaxRounds] ==
        IF n = 0 THEN l
        ELSE IF Named(texts, r[n - 1]) = {} THEN r[n - 1] ELSE Replaced(texts, r[n - 1])
  IN r
Circular(texts, l) == Named(texts, Round(texts, l)[MaxRounds - 1]) # {}
Applied(texts, l) == Round(texts, l)[MaxRounds]

----------------------------------------------------------------------------
(* preprocess, line by line *)

Raw == source[at]
AtRawLine == phase = "preprocess" /\ todo = <<>> /\ at <= Len(source)
InMacro  == macroDef # NoMacro
InCblock == ~InMacro /\ cblock # NoBlock
Plain    == ~InMacro /\ cblock = NoBlock
HashLines == {"#define", "#undefine", "#include", "#if"}

NextRaw == at' = at + 1 /\ UNCHANGED <<source, phase>> /\ UNCHANGED passVars
FailsHere == Fails /\ UNCHANGED <<source, at>> /\ UNCHANGED passVars

ReadMacroBody ==
  /\ AtRawLine /\ InMacro
  /\ IF Raw.op = "ENDM"
     THEN /\ macros' = With(macros, macroDef.name,
                            [param |-> macroDef.param, body |-> macroDef.body])
          /\ macroDef' = NoMacro
     ELSE /\ macroDef' = [macroDef EXCEPT !.body = Append(@, Raw)]
          /\ UNCHANGED macros
  /\ NextRaw /\ UNCHANGED <<todo, cblock, defines, lines>>

(* A number where only numbers are allowed, of which defines may make one.   *)
Plainly(arg) == Line(NoName, "none", arg)
IsNumber(arg) == ~Circular(defines, Plainly(arg)) /\ Applied(defines, Plainly(arg)).arg.base = NoName
                   /\ Applied(defines, Plainly(arg)).arg # NoArg
NumberOf(arg) == Applied(defines, Plainly(arg)).arg.plus

(* A bare word is an entry: `word EQU cblock' goes out.  If the word is a    *)
(* mnemonic or a directive that is read as a statement, whose operand        *)
(* `EQU cblock' is no expression: EQU names no symbol.                       *)
ReadCblockEntry ==
  /\ AtRawLine /\ InCblock /\ Raw.op # "ENDC"
  /\ LET bare == /\ Raw.op = "none" \/ (Raw.label = NoName /\ Raw.arg = NoArg)
                 /\ Raw.op \notin HashLines
         word == IF Raw.op = "none" THEN Raw.label ELSE Raw.op
         here == cblock % 16384
     IN /\ IF bare
           THEN lines' = Append(lines,
                  IF Known(word) THEN Line(NoName, word, [base |-> "EQU", plus |-> here])
                  ELSE Line(word, "EQU", Num(here)))
           ELSE UNCHANGED lines
        /\ IF bare /\ (Raw.arg = NoArg \/ IsNumber(Raw.arg))
           THEN /\ cblock' = cblock + (IF Raw.arg = NoArg THEN 1 ELSE NumberOf(Raw.arg))
                /\ NextRaw
           ELSE FailsHere /\ UNCHANGED cblock
  /\ UNCHANGED <<todo, macroDef, macros, defines>>

CloseCblock ==
  /\ AtRawLine /\ InCblock /\ Raw.op = "ENDC"
  /\ cblock' = NoBlock
  /\ NextRaw /\ UNCHANGED <<todo, macroDef, macros, defines, lines>>

ReadHashLine ==
  /\ AtRawLine /\ Plain /\ Raw.op \in HashLines
  /\ defines' = CASE Raw.op = "#define" -> With(defines, Raw.label, Raw.arg)
                  [] Raw.op = "#undefine" -> Restrict(defines, DOMAIN defines \ {Raw.label})
                  [] OTHER -> defines
  /\ IF Raw.op = "#if" THEN FailsHere ELSE NextRaw
  /\ UNCHANGED <<todo, macroDef, cblock, macros, lines>>

OpensBlock == Raw.op = "CBLOCK" /\ Raw.label = NoName
OpensMacro == Raw.op = "MACRO" /\ Raw.label # NoName

OpenCblock ==
  /\ AtRawLine /\ Plain /\ OpensBlock
  /\ IF Raw.arg = NoArg \/ IsNumber(Raw.arg)
     THEN cblock' = (IF Raw.arg = NoArg THEN 0 ELSE NumberOf(Raw.arg) % 16384) /\ NextRaw
     ELSE FailsHere /\ UNCHANGED cblock
  /\ UNCHANGED <<todo, macroDef, macros, defines, lines>>

OpenMacro ==
  /\ AtRawLine /\ Plain /\ OpensMacro
  /\ macroDef' = [name |-> Raw.label, param |-> Raw.arg.base, body |-> <<>>]
  /\ NextRaw /\ UNCHANGED <<todo, cblock, macros, defines, lines>>

ReadPlainLine ==
  /\ AtRawLine /\ Plain /\ ~OpensBlock /\ ~OpensMacro /\ Raw.op \notin HashLines
  /\ todo' = <<[line |-> Raw, texts |-> defines, depth |-> 0]>>
  /\ NextRaw /\ UNCHANGED <<macroDef, cblock, macros, defines, lines>>

(* Mutant: the depth is not counted. *)
BodyAtSameDepth(body, texts, depth) ==
  [i \in DOMAIN body |-> [line |-> body[i], texts |-> texts, depth |-> depth]]
BodyOf(body, texts, depth) ==
  [i \in DOMAIN body |-> [line |-> body[i], texts |-> texts, depth |-> depth + 1]]

(* expandLine: a macro name in column 1 is a call, and so is one after a     *)
(* label, which then stands on a line of its own.  In the body the argument  *)
(* stands for the parameter, beside the texts of the caller.                 *)
Expand ==
  /\ phase = "preprocess" /\ todo # <<>>
  /\ LET item == Head(todo)
         l    == Applied(item.texts, item.line)
         called == IF l.label \in DOMAIN macros /\ l.op \notin HashLines THEN l.label ELSE l.op
         macro  == macros[called]
         arg    == IF called # l.label THEN l.arg
                   ELSE IF l.op = "none" THEN NoArg ELSE [base |-> l.op, plus |-> 0]
         local  == IF macro.param = NoName THEN item.texts
                   ELSE With(item.texts, macro.param, arg)
     IN IF item.depth > MaxDepth \/ Circular(item.texts, item.line)
        THEN Fails /\ UNCHANGED <<todo, lines>>
        ELSE IF called \in DOMAIN macros
        THEN /\ lines' = IF l.label = NoName \/ called = l.label THEN lines
                         ELSE Append(lines, Line(l.label, "none", NoArg))
             /\ todo' = BodyOf(macro.body, local, item.depth) \o Tail(todo)
             /\ UNCHANGED phase
        ELSE lines' = Append(lines, l) /\ todo' = Tail(todo) /\ UNCHANGED phase
  /\ UNCHANGED <<source, at, macroDef, cblock, macros, defines>> /\ UNCHANGED passVars

FinishPreprocess ==
  /\ phase = "preprocess" /\ todo = <<>> /\ at > Len(source)
  /\ IF Plain THEN phase' = "pass1" /\ at' = 1 ELSE Fails /\ UNCHANGED at
  /\ UNCHANGED source /\ UNCHANGED preVars /\ UNCHANGED passVars

Preprocess ==
  ReadMacroBody \/ ReadCblockEntry \/ CloseCblock \/ ReadHashLine \/ OpenCblock
    \/ OpenMacro \/ ReadPlainLine \/ Expand \/ FinishPreprocess

----------------------------------------------------------------------------
(* Expressions: resolve looks at the program's symbols, then at the chip's. *)
Defined(arg) ==
  arg # NoArg /\ arg.base \in {NoName, "$"} \cup DOMAIN symbols \cup DOMAIN BuiltIns

Value(arg) ==
  arg.plus + CASE arg.base = NoName -> 0
               [] arg.base = "$" -> lc
               [] arg.base \in DOMAIN symbols -> symbols[arg.base]
               [] OTHER -> BuiltIns[arg.base]

WithSymbol(name, v) ==
  IF name = NoName THEN symbols ELSE With(symbols, name, v)

AtLine(pass) == phase = pass /\ at <= Len(lines)
Here == lines[at]

(* The new location counter, of 13 bits. *)
Origin(arg) == Value(arg) % 8192

(* A pass takes the next line, or fails on this one. *)
Takes(ok) == IF ok THEN at' = at + 1 /\ UNCHANGED phase ELSE Fails /\ UNCHANGED at
Elsewhere == UNCHANGED source /\ UNCHANGED preVars

(* Mutant: BANKSEL is taken for one instruction. *)
SizeOfOne(op) == IF op \in DOMAIN OPS \cup {"BANKSEL"} THEN 1 ELSE 0
SizeOf(op) == IF op = "BANKSEL" THEN 2 ELSE IF op \in DOMAIN OPS THEN 1 ELSE 0

Define ==
  /\ AtLine("pass1") /\ Here.op = "EQU"
  /\ LET ok == Here.label # NoName /\ Defined(Here.arg)
     IN /\ Takes(ok)
        /\ symbols' = IF ok THEN WithSymbol(Here.label, Value(Here.arg)) ELSE symbols
  /\ Elsewhere /\ UNCHANGED <<lc, words, config, placed>>

(* Any other line: its label is the current address, then come its words.    *)
Locate ==
  /\ AtLine("pass1") /\ Here.op \notin {"EQU", "ORG", "END"}
  /\ LET ok == Here.op # "DW" /\ (Known(Here.op) \/ (Here.op = "none" /\ Here.arg = NoArg))
     IN /\ Takes(ok)
        /\ symbols' = IF Here.op = "DW" THEN symbols ELSE WithSymbol(Here.label, lc)
        /\ lc' = IF ok /\ SizeOf(Here.op) > 0 THEN lc + SizeOf(Here.op) ELSE lc
  /\ Elsewhere /\ UNCHANGED <<words, config, placed>>

(* The label of an ORG is set before its operand is evaluated. *)
Relocate ==
  /\ AtLine("pass1") /\ Here.op = "ORG"
  /\ LET labelled == Here.arg.base = Here.label /\ Here.label # NoName
         ok == labelled \/ Defined(Here.arg)
     IN /\ Takes(ok)
        /\ symbols' = WithSymbol(Here.label, lc)
        /\ lc' = IF ~ok THEN lc
                 ELSE IF labelled THEN (Here.arg.plus + lc) % 8192 ELSE Origin(Here.arg)
  /\ Elsewhere /\ UNCHANGED <<words, config, placed>>

(* The end of the program, END or not. *)
FinishPass1 ==
  /\ phase = "pass1"
  /\ \/ at > Len(lines) /\ UNCHANGED symbols
     \/ at <= Len(lines) /\ Here.op = "END" /\ symbols' = WithSymbol(Here.label, lc)
  /\ phase' = "pass2" /\ at' = 1 /\ lc' = 0
  /\ Elsewhere /\ UNCHANGED <<words, config, placed>>

----------------------------------------------------------------------------
NotePlace == placed' = With(placed, at, lc)

(* Lines without words: EQU, LIST and labels that stand alone. *)
Pass ==
  /\ AtLine("pass2") /\ Here.op \in {"none", "EQU", "LIST"}
  /\ Takes(TRUE) /\ NotePlace
  /\ Elsewhere /\ UNCHANGED <<symbols, lc, words, config>>

RelocateAgain ==
  /\ AtLine("pass2") /\ Here.op = "ORG"
  /\ Takes(TRUE) /\ lc' = Origin(Here.arg) /\ NotePlace
  /\ Elsewhere /\ UNCHANGED <<symbols, words, config>>

Configure ==
  /\ AtLine("pass2") /\ Here.op = "__CONFIG"
  /\ Takes(Defined(Here.arg)) /\ NotePlace
  /\ config' = IF Defined(Here.arg) THEN Value(Here.arg) % 16384 ELSE config
  /\ Elsewhere /\ UNCHANGED <<symbols, lc, words>>

(* put(lc++, w) for each of ws, where the words fit the 2K program; a call   *)
(* that fails gives no words at all, the first of two included.              *)
Fits(ws) == lc + Len(ws) <= 2048
Put(ok, ws) ==
  /\ Takes(ok /\ Fits(ws))
  /\ words' = IF ok /\ Fits(ws)
              THEN [w \in DOMAIN words \cup (lc..(lc + Len(ws) - 1)) |->
                      IF w \in lc..(lc + Len(ws) - 1) THEN ws[w - lc + 1] ELSE words[w]]
              ELSE words
  /\ lc' = IF ok /\ Fits(ws) THEN lc + Len(ws) ELSE lc
  /\ NotePlace
  /\ Elsewhere /\ UNCHANGED <<symbols, config>>

(* bsf or bcf of RP0 and of RP1; resolve takes one name. *)
SelectBank ==
  /\ AtLine("pass2") /\ Here.op = "BANKSEL"
  /\ LET ok == Here.arg.base # NoName /\ Here.arg.plus = 0 /\ Defined(Here.arg)
         v  == IF ok THEN Value(Here.arg) % 512 ELSE 0
         SetOrClear(bit, on) == Encode([m |-> IF on = 1 THEN "BSF" ELSE "BCF",
                                        f |-> 3, d |-> FALSE, bit |-> bit, k |-> 0])
     IN Put(ok, <<SetOrClear(5, Bit(v, 7)), SetOrClear(6, Bit(v, 8))>>)

(* An instruction: f, k or the target is the one operand a line has, d is f *)
(* by default; the bit instructions lack their second.                      *)
Emit ==
  /\ AtLine("pass2") /\ Here.op \in DOMAIN OPS
  /\ LET v  == IF Defined(Here.arg) THEN Value(Here.arg) ELSE 0
         s  == [m |-> Here.op, f |-> v, d |-> TRUE, bit |-> 0, k |-> v]
         ok == /\ OPS[Here.op].t = "" \/ (OPS[Here.op].t # "fb" /\ Defined(Here.arg))
               /\ Accepted(s)
     IN Put(ok, <<IF ok THEN Encode(s) ELSE 0>>)

FinishPass2 ==
  /\ phase = "pass2"
  /\ at > Len(lines) \/ (at <= Len(lines) /\ Here.op = "END")
  /\ phase' = "assembled"
  /\ UNCHANGED at /\ Elsewhere /\ UNCHANGED passVars

Pass1 == Define \/ Locate \/ Relocate \/ FinishPass1
Pass2 == Pass \/ RelocateAgain \/ Configure \/ SelectBank \/ Emit \/ FinishPass2

AsmNext == Preprocess \/ Pass1 \/ Pass2

AsmSpec == AsmInit /\ [][AsmNext]_asmVars

----------------------------------------------------------------------------
(* The names a line gives a value, the line reached or not. *)
Definitions(name) == {n \in DOMAIN lines : lines[n].label = name}
AllDefinedOnce ==
  \A n \in DOMAIN lines :
    LET l == lines[n].label
    IN l # NoName => l \notin DOMAIN BuiltIns /\ Definitions(l) = {n}

(* The label of line n is the address at which the second pass was there.   *)
IsPlace(n) ==
  lines[n].label # NoName /\ lines[n].op # "EQU" => symbols[lines[n].label] = placed[n]

(* Where no name has two definitions, a label is the address at which the   *)
(* second pass puts its line, whatever ORG, BANKSEL, macros and forward     *)
(* references do to the two passes of assembleInner.                        *)
LabelsNameTheirCode ==
  phase = "assembled" /\ AllDefinedOnce => \A n \in DOMAIN placed : IsPlace(n)

(* The assembler answers every source, one whose macros call each other in  *)
(* a circle, or whose #defines do, included: expandLine gives up at a depth, *)
(* applyDefines after so many rounds.                                       *)
AssemblyEnds == <>(phase \in {"assembled", "failed"})

=============================================================================
