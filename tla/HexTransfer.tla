---------------------------- MODULE HexTransfer ----------------------------
(***************************************************************************)
(* A program on its way as a file: toIntelHex of runtime/asm.js writes it,  *)
(* the page hands the text to the core or the student saves it and opens it *)
(* later, and parse of core/src/hex.rs reads it.  On the way a byte may go   *)
(* wrong; and the core reads files of other assemblers, too.                *)
(***************************************************************************)
EXTENDS HexLoader

VARIABLES
  saved,      \* the program that was written last, [words, config]
  origin      \* of the file: "none", "written", "damaged" or "foreign"

transferVars == <<loaderVars, saved, origin>>

(* What the two passes make of a source: words in the 2K of flash. *)
Programs == [words  : UNION {[S -> Words] : S \in SUBSET (0..(PROG_WORDS - 1))},
             config : Words \cup {NoConfig}]

NoProgram == [words |-> Blank, config |-> NoConfig]

TransferInit == LoaderInit /\ saved = NoProgram /\ origin = "none"

(* loadHex(res.hex), or the file that was saved before. *)
Save(p) ==
  /\ StartReading(ToIntelHex(p.words, p.config))
  /\ saved' = p /\ origin' = "written"

Open(f) ==
  /\ StartReading(f)
  /\ origin' = "foreign" /\ UNCHANGED saved

(* Byte k of line n of the file that was written becomes v. *)
Damage(n, k, v) ==
  /\ origin = "written" /\ status = "reading" /\ lineNo = 1
  /\ v # file[n].bytes[k]
  /\ file' = [file EXCEPT ![n].bytes[k] = v]
  /\ origin' = "damaged"
  /\ UNCHANGED <<status, lineNo, base, bytes, sawData, image, saved>>

Load == LoaderNext /\ UNCHANGED <<saved, origin>>

TransferNext ==
  \/ \E p \in Programs : Save(p)
  \/ \E f \in Seq(Lines) : Open(f)
  \/ \E n \in DOMAIN file : \E k \in DOMAIN file[n].bytes, v \in Byte : Damage(n, k, v)
  \/ Load

TransferSpec == TransferInit /\ [][TransferNext]_transferVars

----------------------------------------------------------------------------
(* What the core puts into flash is what the assembler made, word for word,  *)
(* with its configuration word and an empty EEPROM: toIntelHex and parse are *)
(* inverse to each other.  No file of the assembler is refused, but that of  *)
(* a program without a word and without a configuration.                    *)
FlashIsWhatWasAssembled ==
  origin = "written" =>
    /\ status \in {"reading", "loaded", "NoData"}
    /\ status = "loaded" =>
         image = [program |-> saved.words, config |-> saved.config, eeprom |-> Blank]
    /\ status = "NoData" => saved = NoProgram

(* "a corrupt record is rejected rather than silently loaded" (hex.rs:10):   *)
(* a file with a wrong byte anywhere gets an error, never an image.          *)
CorruptRecordIsRejected == origin = "damaged" => status # "loaded"

=============================================================================
