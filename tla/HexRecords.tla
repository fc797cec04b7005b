----------------------------- MODULE HexRecords -----------------------------
(***************************************************************************)
(* Intel HEX, the form a program travels in between the assembler, the      *)
(* student's disk and the core: what rec and toIntelHex of runtime/asm.js   *)
(* write.  A line of a file is its shape and, if it is a record, its bytes. *)
(***************************************************************************)
EXTENDS Bits, SequencesExt

CONSTANT RecordSize      \* data bytes in a record, 16 in toIntelHex

ASSUME RecordSizeAssumption == RecordSize \in 1..255

(* What a line of a text file may be to a reader of records. *)
Shapes == {"record", "blank", "noColon", "oddLength", "notHex"}
Lines  == [shape : Shapes, bytes : Seq(Byte)]

Record(bytes) == [shape |-> "record", bytes |-> bytes]

(* The sum of the bytes of a record, mod 256. *)
SumOf(bytes) ==
  LET sum[n \in 0..Len(bytes)] ==
        IF n = 0 THEN 0 ELSE (sum[n - 1] + bytes[n]) % 256
  IN sum[Len(bytes)]

(* rec(byteAddr, type, data) *)
Rec(byteAddr, type, data) ==
  LET head == <<Len(data), (byteAddr \div 256) % 256, byteAddr % 256, type>>
  IN Record(head \o data \o <<(256 - SumOf(head \o data)) % 256>>)

EofRecord == Rec(0, 1, <<>>)

----------------------------------------------------------------------------
CONFIG_BYTE_ADDR == \h400E
NoConfig == -1

(* The byte map of the words and of the configuration word: little-endian,  *)
(* two bytes to a word. *)
ByteMap(words, config) ==
  LET code == {2*w : w \in DOMAIN words} \cup {2*w + 1 : w \in DOMAIN words}
      fuse == IF config = NoConfig THEN {}
              ELSE {CONFIG_BYTE_ADDR, CONFIG_BYTE_ADDR + 1}
      WordAt(a) == IF a \in fuse THEN config ELSE words[a \div 2]
  IN [a \in code \cup fuse |->
        IF a % 2 = 0 THEN WordAt(a) % 256 ELSE WordAt(a) \div 256]

(* The first addresses of the records: a record is closed by a gap, when it *)
(* is full and where the address passes a multiple of 64K.                  *)
RecordStarts(addrs) ==
  LET RunStart(a) == CHOOSE s \in addrs :
        s <= a /\ s..a \subseteq addrs /\ (s - 1 \notin addrs \/ s % 65536 = 0)
               /\ \A t \in (s+1)..a : t % 65536 # 0
  IN {a \in addrs : (a - RunStart(a)) % RecordSize = 0}

(* Mutant: a full record is not written to its end. *)
DataRecordShort(byteMap, starts, s) ==
  LET end == CHOOSE e \in s..(s + RecordSize - 2) :
               /\ s..e \subseteq DOMAIN byteMap /\ (s+1)..e \cap starts = {}
               /\ e = s + RecordSize - 2 \/ e + 1 \notin DOMAIN byteMap \/ e + 1 \in starts
  IN Rec(s % 65536, 0, [i \in 1..(end - s + 1) |-> byteMap[s + i - 1]])

(* The record that starts at s: bytes up to a gap or to the next start. *)
DataRecord(byteMap, starts, s) ==
  LET end == CHOOSE e \in s..(s + RecordSize - 1) :
               /\ s..e \subseteq DOMAIN byteMap /\ (s+1)..e \cap starts = {}
               /\ e + 1 \notin DOMAIN byteMap \/ e + 1 \in starts
  IN Rec(s % 65536, 0, [i \in 1..(end - s + 1) |-> byteMap[s + i - 1]])

(* toIntelHex(words, config) *)
ToIntelHex(words, config) ==
  LET byteMap == ByteMap(words, config)
      starts  == RecordStarts(DOMAIN byteMap)
      Ith(i)  == CHOOSE s \in starts : Cardinality({t \in starts : t <= s}) = i
  IN <<Rec(0, 4, <<0, 0>>)>>
       \o [i \in 1..Cardinality(starts) |-> DataRecord(byteMap, starts, Ith(i))]
       \o <<EofRecord>>

=============================================================================
