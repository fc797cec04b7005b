----------------------------- MODULE Toolchain -----------------------------
(***************************************************************************)
(* One line of program on its way from the editor into the core: asm.js     *)
(* encodes the statement, the core fetches the word and decodes it.  Words  *)
(* also come from .hex files of other assemblers, and may then be anything. *)
(***************************************************************************)
EXTENDS InstructionSet

CONSTANTS Registers, Literals, Targets    \* operands written in the source

ASSUME ToolchainAssumption ==
  Registers \subseteq Int /\ Literals \subseteq Int /\ Targets \subseteq Int

VARIABLES
  place,     \* "source", "flash", "rejected" or "decoded"
  stmt,      \* the statement, NoStmt if the word came from elsewhere
  word,      \* the program word
  instr      \* what the core decodes it to

toolchainVars == <<place, stmt, word, instr>>

NoStmt == [m |-> "none"]
NoInstr == Instruction("none", 0, FALSE, 0, 0)

(* Every mnemonic with the operands its format takes. *)
Statements ==
  LET Takes(m, t) == OPS[m].t = t
      Stmts(t, F, D, B, K) ==
        [m : {m \in DOMAIN OPS : Takes(m, t)}, f : F, d : D, bit : B, k : K]
  IN UNION { Stmts("", {0}, {FALSE}, {0}, {0}),
             Stmts("fd", Registers, BOOLEAN, {0}, {0}),
             Stmts("f", Registers, {TRUE}, {0}, {0}),
             Stmts("fb", Registers, {FALSE}, -1..8, {0}),
             Stmts("k", {0}, {FALSE}, {0}, Literals),
             Stmts("a", {0}, {FALSE}, {0}, Targets) }

ToolchainInit ==
  \/ place = "source" /\ stmt \in Statements /\ word = 0 /\ instr = NoInstr
  \/ place = "flash" /\ stmt = NoStmt /\ word \in Words /\ instr = NoInstr

Assemble ==
  /\ place = "source"
  /\ IF Accepted(stmt)
     THEN place' = "flash" /\ word' = Encode(stmt)
     ELSE place' = "rejected" /\ UNCHANGED word
  /\ UNCHANGED <<stmt, instr>>

Fetch ==
  /\ place = "flash"
  /\ instr' = Decode(word)
  /\ place' = "decoded"
  /\ UNCHANGED <<stmt, word>>

(* The listing of a decoded word is typed into the editor again. *)
Reassemble ==
  /\ place = "decoded" /\ stmt = NoStmt /\ instr.m \in DOMAIN OPS
  /\ stmt' = [m |-> instr.m, f |-> instr.f, d |-> instr.destF,
              bit |-> instr.bit, k |-> instr.k]
  /\ place' = "source"
  /\ UNCHANGED <<word, instr>>

ToolchainNext == Assemble \/ Fetch \/ Reassemble

ToolchainSpec == ToolchainInit /\ [][ToolchainNext]_toolchainVars

----------------------------------------------------------------------------
(* What a statement means to the processor: the register within its bank,   *)
(* the literal as a byte.                                                   *)
Meaning(s) ==
  Instruction(s.m, s.f % 128, s.d, s.bit,
              IF OPS[s.m].t = "k" THEN s.k % 256 ELSE s.k)

(* The core executes what was written: every statement asm.js accepts is    *)
(* decoded by decode.rs to the same mnemonic and operands, and a listing    *)
(* typed in again is the same program.                                      *)
ExecutesWhatIsWritten ==
  place = "decoded" /\ stmt # NoStmt => instr = Meaning(stmt)

(* No word matches two rows of the decoder's table: the decoding of a word  *)
(* does not hang on the order of the rows.                                  *)
OneRowAtMost ==
  place = "flash" => \A n, o \in Rows(word) : n = o

(* A word that is listed and assembled again changes in no bit that the     *)
(* decoder looks at: it still matches the very row it matched before.       *)
ListingIsStable ==
  [][ place = "source" /\ place' = "flash" /\ instr # NoInstr =>
        Rows(word') = Rows(word) ]_toolchainVars

=============================================================================
