------------------------------- MODULE Eeprom -------------------------------
(***************************************************************************)
(* The data EEPROM under any firmware: every order of writes to EECON1,     *)
(* EECON2, EEDATA and EEADR, directly, through INDF or by the debugger,     *)
(* with resets and reloads between them.                                    *)
(***************************************************************************)
EXTENDS EepromOps, Sequences

CONSTANTS
  Data,        \* bytes stored
  Addresses,   \* values of EEADR
  Keys         \* values written to EECON2

ASSUME EepromAssumption ==
  /\ Data \subseteq 0..255 /\ 255 \in Data
  /\ Addresses \subseteq 0..255
  /\ Keys \subseteq 0..255

VARIABLES
  regs,      \* EECON1 bits, EEDATA, EEADR
  ee,        \* Cpu.eeprom and Cpu.ee_unlock
  keys       \* history: the last three bytes EECON2 was given since the last
             \* WR or reset, None where there were fewer

eepromVars == <<regs, ee, keys>>

None   == -1
NoKeys == <<None, None, None>>
Blank  == [a \in 0..(EeSize - 1) |-> 255]
ResetRegs == [rd |-> 0, wr |-> 0, wren |-> 0, data |-> 0, adr |-> 0]

EepromInit == regs = ResetRegs /\ ee = [cells |-> Blank, unlock |-> 0] /\ keys = NoKeys

(* EECON1 with the given bits. *)
Control(rd, wr, wren) == [regs EXCEPT !.rd = rd, !.wr = wr, !.wren = wren]

(* MOVWF, BSF, BCF ... on EECON1 in bank 1 *)
WriteEecon1(rd, wr, wren) ==
  LET r == Control(rd, wr, wren)
  IN /\ regs' = Eecon1Regs(r, ee)
     /\ ee' = Eecon1Array(r, ee)
     /\ keys' = IF wr = 1 THEN NoKeys ELSE keys

(* The same through INDF, or by the debugger: the register changes, nobody  *)
(* looks at it.                                                             *)
PokeEecon1(rd, wr, wren) == regs' = Control(rd, wr, wren) /\ UNCHANGED <<ee, keys>>

WriteEecon2(v) ==
  /\ ee' = [ee EXCEPT !.unlock = Unlocked(@, v)]
  /\ keys' = <<keys[2], keys[3], v>>
  /\ UNCHANGED regs

WriteEedata(d) == regs' = [regs EXCEPT !.data = d] /\ UNCHANGED <<ee, keys>>
WriteEeadr(a)  == regs' = [regs EXCEPT !.adr = a] /\ UNCHANGED <<ee, keys>>

(* reset: the array is non-volatile. *)
EepromReset ==
  regs' = ResetRegs /\ ee' = [ee EXCEPT !.unlock = 0] /\ keys' = NoKeys

(* load_image: the array is what the file says, 0xFF where it says nothing; *)
(* one byte at most in this model.                                          *)
LoadImage(a, d) ==
  /\ ee' = [cells |-> [Blank EXCEPT ![a % EeSize] = d], unlock |-> 0]
  /\ regs' = ResetRegs /\ keys' = NoKeys

OneBit == {0, 1}

EepromNext ==
  \/ \E rd, wr, wren \in OneBit : WriteEecon1(rd, wr, wren) \/ PokeEecon1(rd, wr, wren)
  \/ \E v \in Keys : WriteEecon2(v)
  \/ \E d \in Data : WriteEedata(d)
  \/ \E a \in Addresses : WriteEeadr(a) \/ \E d \in Data : LoadImage(a, d)
  \/ EepromReset

EepromSpec == EepromInit /\ [][EepromNext]_eepromVars

----------------------------------------------------------------------------
EepromTypeOK ==
  /\ regs \in [rd : OneBit, wr : OneBit, wren : OneBit, data : Data \cup {0},
               adr : Addresses \cup {0}]
  /\ ee \in [cells : [0..(EeSize - 1) -> Data \cup {0}], unlock : 0..2]
  /\ keys \in (Keys \cup {None}) \X (Keys \cup {None}) \X (Keys \cup {None})

LastTwo == <<keys[2], keys[3]>>

(* Armed only by 0x55 followed at once by 0xAA, and each WR takes a new pair. *)
ArmedOnlyByTheKeys == ee.unlock = 2 => LastTwo = <<KEY1, KEY2>>

(* Firmware changes a byte of the array only under WREN with the two keys   *)
(* just given, and then only the addressed byte, to what EEDATA held.  A    *)
(* load (which resets the registers) is the only other way.                 *)
OnlyUnlockedWrites ==
  [][ ee'.cells # ee.cells =>
        IF regs' = ResetRegs
        THEN \E a \in DOMAIN Blank, d \in Data : ee'.cells = [Blank EXCEPT ![a] = d]
        ELSE /\ regs'.wren = 1 /\ LastTwo = <<KEY1, KEY2>> /\ keys' = NoKeys
             /\ ee'.cells = [ee.cells EXCEPT ![regs.adr % EeSize] = regs.data]
    ]_eepromVars

(* After a byte that is no key (or none at all), 0x55 and 0xAA arm the lock. *)
KeysArm ==
  keys[1] \notin {KEY1, KEY2} /\ LastTwo = <<KEY1, KEY2>> => ee.unlock = 2

(* The lock (eecon2_write, eecon1_write) is armed by the key sequence and    *)
(* by nothing else: no run of stray writes, resets or polls leaves it armed. *)
(* And the sequence arms it after any of them, unless the byte just before   *)
(* is a key too: after 55 55 AA the lock is shut.                            *)
LockFollowsKeys == ArmedOnlyByTheKeys /\ KeysArm

=============================================================================
