----------------------------- MODULE MCAssembly -----------------------------
(* From source to flash: every program of up to four of the lines below, and *)
(* a few longer ones, is assembled, the file is saved, damaged in one byte   *)
(* or not, and read by the core.  `focus' is "files" for the behaviours that *)
(* start from a file of some other assembler.                                *)
EXTENDS Assembler, HexOracle

VARIABLE focus

mcVars == <<asmVars, transferVars, focus>>

McBuiltIns == [TRISB |-> \h86, INDF |-> 0]
At(name, n) == [base |-> name, plus |-> n]
Do(op, arg) == Line(NoName, op, arg)
Mark(label) == Line(label, "none", NoArg)

(* Labels and uses of them, the two sizes of code, moves of the location     *)
(* counter, a constant that can be set again and one of the chip's names.    *)
McLines == {
  Mark("L"), Do("BANKSEL", At("TRISB", 0)), Do("GOTO", At("L", 0)),
  Line("N", "EQU", Num(3)), Line("N", "EQU", At("$", 6)), Do("ORG", At("N", 0)),
  Line("INDF", "NOP", NoArg), Do("ORG", At("INDF", 2)), Do("MOVLW", At("N", 250)),
  Do("NOP", NoArg), Do("END", NoArg) }

(* Lines of the preprocessor, in programs of their own. *)
McPreLines == {
  Line("M", "MACRO", NoArg), Do("ENDM", NoArg), Do("CBLOCK", Num(32)),
  Do("ENDC", NoArg), Mark("M"), Line("L", "M", NoArg), Do("NOP", NoArg) }

UpTo(n, S) == UNION {[1..k -> S] : k \in 0..n}

(* Memory edges, a configuration word, an unsupported directive, forward and *)
(* circular macros, a CBLOCK with an entry of two bytes, others with entries *)
(* that are named like an operation.                                        *)
McLongSources == {
  <<Do("ORG", Num(2046)), Do("BANKSEL", At("TRISB", 0)), Do("NOP", NoArg)>>,
  <<Do("ORG", Num(2047)), Do("BANKSEL", At("TRISB", 0))>>,
  <<Do("__CONFIG", Num(16176)), Do("ORG", Num(8196)), Do("CLRF", At("TRISB", 0))>>,
  <<Do("__CONFIG", Num(16176)), Do("LIST", NoArg), Do("MOVLW", Num(256))>>,
  <<Do("DW", Num(1))>>, <<Do("BCF", At("TRISB", 0))>>, <<Do("CBLOCK", At("N", 0))>>,
  <<Do("CBLOCK", Num(16383)), Line("A", "none", Num(2)), Mark("B"), Do("ENDC", NoArg),
    Do("CLRF", At("A", 0)), Do("MOVLW", At("B", 0)), Line("A", "none", Num(2))>>,
  <<Do("CBLOCK", Num(32)), Do("CLRF", NoArg), Do("ENDC", NoArg)>>,
  <<Do("CBLOCK", Num(32)), Do("ORG", NoArg), Do("ENDC", NoArg), Do("NOP", NoArg)>>,
  <<Line("M", "MACRO", NoArg), Mark("P"), Do("ENDM", NoArg),
    Line("P", "MACRO", NoArg), Do("M", NoArg), Do("ENDM", NoArg), Mark("M")>>,
  <<Line("M", "MACRO", NoArg), Do("NOP", NoArg), Do("CALL", At("L", 0)), Do("ENDM", NoArg),
    Do("ORG", Num(4)), Mark("M"), Line("L", "M", NoArg), Do("ORG", At("$", 1)), Mark("M")>> }

(* A macro with a parameter, and texts for names: chained, circular, taken   *)
(* back, named like the parameter; the argument may be missing.             *)
McMacro == <<Line("M", "MACRO", At("P", 0)), Do("MOVLW", At("P", 1)), Mark("P"), Do("ENDM", NoArg)>>
McTextLines == {
  Line("N", "#define", Num(5)), Line("N", "#define", At("L", 0)), Line("N", "#define", NoArg),
  Line("L", "#define", At("N", 0)), Line("N", "#undefine", NoArg), Do("#include", NoArg),
  Do("M", At("N", 0)), Do("M", NoArg), Do("M", At("P", 0)), Do("ORG", At("N", 2)),
  Do("CBLOCK", At("N", 0)), Mark("L") }

McSources ==
  UpTo(4, McLines) \cup UpTo(4, McPreLines) \cup McLongSources
    \cup {McMacro \o s : s \in UpTo(3, McTextLines)}

(* The programs whose files are damaged. *)
McDamaged == UpTo(3, McLines) \cup McLongSources

(* Records around a segment of 64K, around the ends of the program and of    *)
(* the EEPROM, odd and overlapping ones, and lines that are no records.      *)
McRecords == {
  Rec(0, 4, <<0, 0>>), Rec(0, 4, <<255, 255>>), Rec(0, 2, <<16, 1>>), Rec(0, 2, <<255>>),
  Rec(0, 0, <<1, 52>>), Rec(1, 0, <<63, 7>>), Rec(65535, 0, <<9, 10>>),
  Rec(4094, 0, <<8, 0, 7>>), Rec(16398, 0, <<48>>), Rec(16896, 0, <<5, 0>>),
  Rec(17150, 0, <<6, 0, 6>>), Rec(0, 0, <<>>), Rec(0, 5, <<1, 2>>), Rec(0, 6, <<>>),
  EofRecord, Record(<<2, 0, 0, 0, 1, 52>>), Record(<<0, 0, 0, 1, 254>>),
  Record(<<0, 0, 0, 1>>),
  [shape |-> "blank", bytes |-> <<>>], [shape |-> "noColon", bytes |-> <<>>],
  [shape |-> "oddLength", bytes |-> <<>>], [shape |-> "notHex", bytes |-> <<>>] }

McInit ==
  /\ AsmInit /\ TransferInit
  /\ focus \in {"program", "files"} /\ (focus = "files" => source = <<>>)

Assembling == AsmNext /\ UNCHANGED <<transferVars, focus>>

Deliver ==
  /\ focus = "program" /\ phase = "assembled" /\ origin = "none"
  /\ Save([words |-> words, config |-> config])
  /\ UNCHANGED <<asmVars, focus>>

OpenOther ==
  /\ focus = "files" /\ origin = "none"
  /\ \E f \in UpTo(3, McRecords) : Open(f)
  /\ UNCHANGED <<asmVars, focus>>

(* One byte of one record of the saved file is one too high. *)
Slip ==
  /\ source \in McDamaged
  /\ \E n \in DOMAIN file : \E k \in DOMAIN file[n].bytes :
       Damage(n, k, (file[n].bytes[k] + 1) % 256)
  /\ UNCHANGED <<asmVars, focus>>

Loading == Load /\ UNCHANGED <<asmVars, focus>>

McNext == Assembling \/ Deliver \/ OpenOther \/ Slip \/ Loading

(* assemble and parse are plain calls: once begun, they run to their end.    *)
McSpec == McInit /\ [][McNext]_mcVars /\ WF_mcVars(Assembling)

=============================================================================
