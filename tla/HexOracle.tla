----------------------------- MODULE HexOracle -----------------------------
(***************************************************************************)
(* decodeHex of test-asm.js, the test's own reader of .hex files, which the *)
(* assembler's output and MPLAB's are compared through.  It checks nothing: *)
(* what is no record is passed over, and no checksum is looked at.          *)
(* Addresses are <<high half, low half>> as in HexLoader, but the high half *)
(* is signed (<< 16) and nothing wraps.                                     *)
(***************************************************************************)
EXTENDS HexTransfer

Start == [base |-> <<0, 0>>, byteMap |-> Blank, ended |-> FALSE]

(* base of a 04 record: (b[4] << 8 | b[5]) << 16 is negative from 0x8000 up. *)
SignedBase(d) ==
  LET high == 256 * d[1] + d[2] IN <<IF high >= 32768 THEN high - 65536 ELSE high, 0>>

(* base + addr + i *)
At32(bs, b, i) ==
  LET low == bs[2] + 256 * b[2] + b[3] + i IN <<bs[1] + low \div 65536, low % 65536>>

WithRecord(m, b) ==
  LET addrs == {At32(m.base, b, i) : i \in 0..(Count(b) - 1)}
      Given8(x) == b[5 + CHOOSE i \in 0..(Count(b) - 1) : At32(m.base, b, i) = x]
  IN [m EXCEPT !.byteMap = [x \in addrs \cup DOMAIN @ |-> IF x \in addrs THEN Given8(x) ELSE @[x]]]

(* One line of the text, whose records are sound. *)
ReadLine(line, m) ==
  IF m.ended \/ line.shape # "record" THEN m
  ELSE CASE Kind(line.bytes) = 0 -> WithRecord(m, line.bytes)
         [] Kind(line.bytes) = 1 -> [m EXCEPT !.ended = TRUE]
         [] Kind(line.bytes) = 2 -> [m EXCEPT !.base = SegmentBase(DataOf(line.bytes))]
         [] Kind(line.bytes) = 4 -> [m EXCEPT !.base = SignedBase(DataOf(line.bytes))]
         [] OTHER -> m

(* What it holds after each line, and before the first. *)
ReadUpTo(lines) ==
  LET read[n \in 0..Len(lines)] ==
        IF n = 0 THEN Start ELSE ReadLine(lines[n], read[n - 1])
  IN read

(* byteMap.has(a) ? byteMap.get(a) : 0xFF *)
OrBlank(byteMap, x) == IF x \in DOMAIN byteMap THEN byteMap[x] ELSE 255

(* Mutant: the end of the flash in words, for addresses of bytes. *)
ProgramBytesOfWords(byteMap) ==
  {x \in DOMAIN byteMap : x[2] % 2 = 0 /\ (x[1] < 0 \/ (x[1] = 0 /\ x[2] < PROG_WORDS))}

(* The even addresses that are given below 0x4000, negative ones included. *)
ProgramBytes(byteMap) ==
  {x \in DOMAIN byteMap : x[2] % 2 = 0 /\ (x[1] < 0 \/ (x[1] = 0 /\ x[2] < 16384))}

(* The words with a low byte, by its address; and the configuration word. *)
DecodeHex(lines) ==
  LET byteMap == ReadUpTo(lines)[Len(lines)].byteMap
      Word(x) == (OrBlank(byteMap, x) + 256 * OrBlank(byteMap, <<x[1], x[2] + 1>>)) % 16384
      fuse == {<<0, CONFIG_BYTE_ADDR>>, <<0, CONFIG_BYTE_ADDR + 1>>}
  IN [words  |-> [x \in ProgramBytes(byteMap) |-> Word(x)],
      config |-> IF fuse \cap DOMAIN byteMap = {} THEN NoConfig
                 ELSE Word(<<0, CONFIG_BYTE_ADDR>>)]

(* The contradictions of the test: words that both have, and differ in.     *)
Contradictions(decoded, program) ==
  {w \in DOMAIN program :
     <<0, 2 * w>> \in DOMAIN decoded.words /\ decoded.words[<<0, 2 * w>>] # program[w]}

(* What the test compares is what would run: of every file that the core     *)
(* accepts, odd and overlapping records and all bases included, decodeHex    *)
(* finds just those words of the flash whose low byte a record gave, with    *)
(* the values the core has for them, and the same configuration word.  A     *)
(* word of which only the high byte is given is in flash, and the test does  *)
(* not see it.                                                              *)
OracleReadsTheFlash ==
  status = "loaded" =>
    LET d == DecodeHex(file)
        found == {x[2] \div 2 : x \in {y \in DOMAIN d.words : y[1] = 0 /\ y[2] < 2 * PROG_WORDS}}
    IN /\ found = {w \in DOMAIN image.program : <<0, 2 * w>> \in DOMAIN bytes}
       /\ Contradictions(d, image.program) = {}
       /\ d.config = image.config

=============================================================================
