----------------------------- MODULE LabsServer -----------------------------
(***************************************************************************)
(* The development server (serve.js) as the keeper of runtime/labs.js: the  *)
(* requests that save it, each a truncation and a write of the file, and a   *)
(* server that is stopped.  A file is the boards at its start and whether    *)
(* nothing of an older, longer one follows them.                            *)
(***************************************************************************)
EXTENDS Naturals, Sequences

CONSTANTS
  SavedLists,   \* the lists of boards the authoring page may save
  Requests,     \* bound of the model: save requests that may be open at a time
  NotSaved

ASSUME ServerAssumption == \A boards \in SavedLists : Len(boards) \in Nat

VARIABLES
  labsFile,     \* runtime/labs.js
  saving,       \* request -> [body, stage, alone]
  confirmed     \* history: the list a client was told is saved, NotSaved when
                \* another save has begun since

serverVars == <<labsFile, saving, confirmed>>

FileOf(boards) == [boards |-> boards, whole |-> TRUE]
EmptyFile == FileOf(<<>>)

NoRequest == [body |-> <<>>, stage |-> "none", alone |-> FALSE]
Open == {q \in Requests : saving[q].stage # "none"}

ServerInit ==
  /\ labsFile = EmptyFile \/ \E boards \in SavedLists : labsFile = FileOf(boards)
  /\ saving = [q \in Requests |-> NoRequest]
  /\ confirmed = NotSaved

(* Mutant: the file is written in place, over what it has. *)
StartWriteInPlace(q, body) ==
  /\ saving[q].stage = "none"
  /\ saving' = [r \in Requests |->
                  IF r = q THEN [body |-> body, stage |-> "opened", alone |-> Open = {}]
                  ELSE [saving[r] EXCEPT !.alone = FALSE]]
  /\ confirmed' = NotSaved
  /\ UNCHANGED labsFile

(* POST /__save_labs has its whole body: writeFile opens and truncates.      *)
StartWrite(q, body) ==
  /\ saving[q].stage = "none"
  /\ saving' = [r \in Requests |->
                  IF r = q THEN [body |-> body, stage |-> "opened", alone |-> Open = {}]
                  ELSE [saving[r] EXCEPT !.alone = FALSE]]
  /\ confirmed' = NotSaved
  /\ labsFile' = EmptyFile

(* The body is written from the start of the file; what a longer one of      *)
(* another request left there stays.                                        *)
WriteBody(q) ==
  /\ saving[q].stage = "opened"
  /\ saving' = [saving EXCEPT ![q].stage = "written"]
  /\ labsFile' = [boards |-> saving[q].body,
                  whole |-> Len(labsFile.boards) <= Len(saving[q].body)]
  /\ UNCHANGED confirmed

(* res.end("ok") *)
AnswerSave(q) ==
  /\ saving[q].stage = "written"
  /\ saving' = [saving EXCEPT ![q] = NoRequest]
  /\ confirmed' = IF saving[q].alone THEN saving[q].body ELSE confirmed
  /\ UNCHANGED labsFile

(* The write fails: status 500, the client downloads the list instead. *)
FailSave(q) ==
  /\ saving[q].stage = "opened"
  /\ saving' = [saving EXCEPT ![q] = NoRequest]
  /\ UNCHANGED <<labsFile, confirmed>>

(* The server is stopped: nobody is answered, the file is as it is. *)
StopServer ==
  /\ Open # {}
  /\ saving' = [q \in Requests |-> NoRequest]
  /\ UNCHANGED <<labsFile, confirmed>>

ServerNext ==
  \/ StopServer
  \/ \E q \in Requests :
       \/ \E body \in SavedLists : StartWrite(q, body)
       \/ WriteBody(q) \/ AnswerSave(q) \/ FailSave(q)

ServerSpec == ServerInit /\ [][ServerNext]_serverVars

----------------------------------------------------------------------------
(* A list that was reported as saved ("ok"), by a save no other one ran      *)
(* beside, is in the file, whole, until the next save begins: not before it  *)
(* was written, not mixed with a longer one that was there.                  *)
SavedIsOnDisk == confirmed # NotSaved => labsFile = FileOf(confirmed)

=============================================================================
