----------------------------- MODULE HexLoader -----------------------------
(***************************************************************************)
(* parse of core/src/hex.rs: an Intel HEX file, line by line, into the      *)
(* program, the configuration word and the EEPROM bytes of an image.        *)
(* Addresses have 32 bits, <<high half, low half>>; the release build the   *)
(* page embeds wraps them around.                                           *)
(***************************************************************************)
EXTENDS HexRecords

VARIABLES
  file,       \* the lines of the text
  status,     \* "noFile", "reading", "loaded" or what is wrong
  lineNo,     \* the line that is read next
  base,       \* what 02 and 04 records add to the addresses
  bytes,      \* address -> byte
  sawData,    \* a data record has been read
  image       \* [program, config, eeprom], the words that were given

loaderVars == <<file, status, lineNo, base, bytes, sawData, image>>

PROG_WORDS == 2048
BLANK_WORD == \h3FFF
EEPROM_BYTE_BASE == \h4200
EEPROM_BYTES == 128

Blank == [a \in {} |-> 0]
NoImage == [program |-> Blank, config |-> NoConfig, eeprom |-> Blank]

(* What parse holds when it starts on a file. *)
StartReading(f) ==
  /\ file' = f /\ status' = "reading" /\ lineNo' = 1
  /\ base' = <<0, 0>> /\ bytes' = Blank /\ sawData' = FALSE
  /\ image' = NoImage

LoaderInit ==
  /\ file = <<>> /\ status = "noFile" /\ lineNo = 1
  /\ base = <<0, 0>> /\ bytes = Blank /\ sawData = FALSE
  /\ image = NoImage

----------------------------------------------------------------------------
(* A record: its byte count, address, type, data and the sum of it all. *)
Count(b)  == b[1]
Kind(b)   == b[4]
DataOf(b) == SubSeq(b, 5, 4 + Count(b))

(* Mutant: the checksum is not looked at. *)
FaultUnsummed(line) ==
  CASE line.shape = "noColon" -> "MissingColon"
    [] line.shape = "oddLength" -> "BadLength"
    [] line.shape = "record" /\ Len(line.bytes) < 5 -> "BadLength"
    [] line.shape = "notHex" -> "BadHexDigit"
    [] line.shape = "record" /\ Len(line.bytes) # Count(line.bytes) + 5 -> "BadLength"
    [] OTHER -> "none"

(* What is wrong with the form of a line, in the order it is looked for. *)
Fault(line) ==
  CASE line.shape = "noColon" -> "MissingColon"
    [] line.shape = "oddLength" -> "BadLength"
    [] line.shape = "record" /\ Len(line.bytes) < 5 -> "BadLength"
    [] line.shape = "notHex" -> "BadHexDigit"
    [] line.shape = "record" /\ Len(line.bytes) # Count(line.bytes) + 5 -> "BadLength"
    [] line.shape = "record" /\ SumOf(line.bytes) # 0 -> "BadChecksum"
    [] OTHER -> "none"

(* Mutant: the carry out of the low half is lost. *)
ByteAddressInSegment(bs, b, i) ==
  <<bs[1], (bs[2] + 256 * b[2] + b[3] + i) % 65536>>

(* base + addr + i: the address of data byte i (from 0) of a record. *)
ByteAddress(bs, b, i) ==
  LET low == bs[2] + 256 * b[2] + b[3] + i
  IN <<(bs[1] + low \div 65536) % 65536, low % 65536>>

(* data << 4 of a segment record, data << 16 of a linear one. *)
SegmentBase(d) == LET v == 256 * d[1] + d[2] IN <<v \div 4096, (16 * v) % 65536>>
LinearBase(d)  == <<256 * d[1] + d[2], 0>>

(* The bytes after a data record: a later record writes over earlier ones. *)
WithData(bs, b) ==
  LET addrs == {ByteAddress(bs, b, i) : i \in 0..(Count(b) - 1)}
      ByteAt(a) == CHOOSE v \in Byte :
        \E i \in 0..(Count(b) - 1) : a = ByteAddress(bs, b, i) /\ v = b[5 + i]
  IN [a \in addrs \cup DOMAIN bytes |-> IF a \in addrs THEN ByteAt(a) ELSE bytes[a]]

----------------------------------------------------------------------------
(* The image that the bytes make up *)

(* bytes.get(a).unwrap_or(0xFF) of the low 64K. *)
ByteOrFF(a) == IF <<0, a>> \in DOMAIN bytes THEN bytes[<<0, a>>] ELSE 255

(* Words with either of their bytes given, of 14 bits. *)
Given(a) == {<<0, a>>, <<0, a + 1>>} \cap DOMAIN bytes # {}
WordFrom(a) == (ByteOrFF(a) + 256 * ByteOrFF(a + 1)) % 16384

Below(limit) == {a[2] : a \in {c \in DOMAIN bytes : c[1] = 0 /\ c[2] < limit}}

ImageRead ==
  [program |-> [w \in {a \div 2 : a \in Below(2 * PROG_WORDS)} |-> WordFrom(2 * w)],
   config  |-> IF Given(CONFIG_BYTE_ADDR) THEN WordFrom(CONFIG_BYTE_ADDR) ELSE NoConfig,
   eeprom  |-> [o \in {(a - EEPROM_BYTE_BASE) \div 2 :
                         a \in {c \in Below(EEPROM_BYTE_BASE + 2 * EEPROM_BYTES) :
                                  c >= EEPROM_BYTE_BASE /\ c % 2 = 0}}
                 |-> bytes[<<0, EEPROM_BYTE_BASE + 2 * o>>]]]

----------------------------------------------------------------------------
Reading == status = "reading" /\ lineNo <= Len(file)
NextLine == lineNo' = lineNo + 1 /\ UNCHANGED <<file, status, image>>

Rejects(why) ==
  status' = why /\ UNCHANGED <<file, lineNo, base, bytes, sawData, image>>

SkipBlank ==
  /\ Reading /\ file[lineNo].shape = "blank"
  /\ NextLine /\ UNCHANGED <<base, bytes, sawData>>

BadLine ==
  /\ Reading /\ Fault(file[lineNo]) # "none"
  /\ Rejects(Fault(file[lineNo]))

(* A record whose form is right, by its type. *)
SoundRecord(b) ==
  /\ Reading /\ file[lineNo].shape = "record" /\ Fault(file[lineNo]) = "none"
  /\ b = file[lineNo].bytes

DataLine == \E b \in {file[n].bytes : n \in {lineNo} \cap DOMAIN file} :
  /\ SoundRecord(b) /\ Kind(b) = 0
  /\ bytes' = WithData(base, b) /\ sawData' = TRUE
  /\ NextLine /\ UNCHANGED base

BaseLine == \E b \in {file[n].bytes : n \in {lineNo} \cap DOMAIN file} :
  /\ SoundRecord(b) /\ Kind(b) \in {2, 4}
  /\ IF Count(b) < 2 THEN Rejects("BadLength")
     ELSE /\ base' = IF Kind(b) = 2 THEN SegmentBase(DataOf(b)) ELSE LinearBase(DataOf(b))
          /\ NextLine /\ UNCHANGED <<bytes, sawData>>

(* Start addresses mean nothing here; a type that is not known is an error. *)
OtherLine == \E b \in {file[n].bytes : n \in {lineNo} \cap DOMAIN file} :
  /\ SoundRecord(b) /\ Kind(b) \notin {0, 1, 2, 4}
  /\ IF Kind(b) \in {3, 5} THEN NextLine /\ UNCHANGED <<base, bytes, sawData>>
     ELSE Rejects("UnsupportedRecord")

(* The end of the text, or an end-of-file record before it. *)
AtEnd ==
  \/ status = "reading" /\ lineNo > Len(file)
  \/ \E b \in {file[n].bytes : n \in {lineNo} \cap DOMAIN file} :
       SoundRecord(b) /\ Kind(b) = 1

FinishReading ==
  /\ AtEnd
  /\ IF sawData THEN status' = "loaded" /\ image' = ImageRead
     ELSE status' = "NoData" /\ UNCHANGED image
  /\ UNCHANGED <<file, lineNo, base, bytes, sawData>>

LoaderNext ==
  SkipBlank \/ BadLine \/ DataLine \/ BaseLine \/ OtherLine \/ FinishReading

(* A file may be given to parse at any time. *)
LoaderSpec ==
  LoaderInit /\ [][LoaderNext \/ \E f \in Seq(Lines) : StartReading(f)]_loaderVars

----------------------------------------------------------------------------
(* What the records of a file f say, taken together: record n counts up to  *)
(* the first end-of-file record, and is relocated by the last 02 or 04       *)
(* record before.                                                           *)
IsKind(f, n, kinds) == f[n].shape = "record" /\ Kind(f[n].bytes) \in kinds
Counts(f, n) == \A m \in 1..(n - 1) : ~IsKind(f, m, {1})
BaseAt(f, n) ==
  LET movers == {m \in 1..(n - 1) : IsKind(f, m, {2, 4})}
      last   == CHOOSE m \in movers : \A o \in movers : o <= m
      d      == DataOf(f[last].bytes)
  IN IF movers = {} THEN <<0, 0>>
     ELSE IF Kind(f[last].bytes) = 2 THEN SegmentBase(d) ELSE LinearBase(d)

(* The data bytes of the lines before line k, each as <<line, place>>; the   *)
(* address one is given for, counted over all 32 bits; its value.           *)
GivenBefore(f, k) ==
  UNION {{n} \X (0..(Count(f[n].bytes) - 1)) :
           n \in {m \in 1..(k - 1) : Counts(f, m) /\ IsKind(f, m, {0})}}

AddressOf(f, g) ==
  LET b   == f[g[1]].bytes
      bs  == BaseAt(f, g[1])
      low == bs[2] + 256 * b[2] + b[3] + g[2]
  IN <<(bs[1] + low \div 65536) % 65536, low % 65536>>

ByteOf(f, g) == f[g[1]].bytes[5 + g[2]]

(* The last of the bytes gs that is given for an address. *)
LastFor(f, gs, a) ==
  CHOOSE g \in gs :
    AddressOf(f, g) = a /\ \A o \in gs : AddressOf(f, o) = a => o[1] <= g[1]

(* Words and configuration are there if one of their bytes is given. *)
ImageOf(f) ==
  LET gives == GivenBefore(f, Len(f) + 1)
      said  == {AddressOf(f, g) : g \in gives}
      Low(lo, hi) == {x[2] : x \in {y \in said : y[1] = 0 /\ y[2] \in lo..hi}}
      Value(a) == IF <<0, a>> \in said THEN ByteOf(f, LastFor(f, gives, <<0, a>>)) ELSE 255
      Word(a)  == (Value(a) + 256 * Value(a + 1)) % 16384
      eeprom   == {a \in Low(EEPROM_BYTE_BASE, EEPROM_BYTE_BASE + 2 * EEPROM_BYTES - 1) : a % 2 = 0}
  IN [program |-> [w \in {a \div 2 : a \in Low(0, 2 * PROG_WORDS - 1)} |-> Word(2 * w)],
      config  |-> IF Low(CONFIG_BYTE_ADDR, CONFIG_BYTE_ADDR + 1) = {} THEN NoConfig
                  ELSE Word(CONFIG_BYTE_ADDR),
      eeprom  |-> [o \in {(a - EEPROM_BYTE_BASE) \div 2 : a \in eeprom} |->
                     Value(EEPROM_BYTE_BASE + 2 * o)]]

(* Every byte of the image is the last one that a data record before the    *)
(* end-of-file record gives for its address, and nothing else is in it:      *)
(* parse of hex.rs, whatever the order of the records.                      *)
LoadsWhatTheRecordsSay == status = "loaded" => image = ImageOf(file)

=============================================================================
