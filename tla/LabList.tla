------------------------------- MODULE LabList -------------------------------
(***************************************************************************)
(* The instructor's page (runtime/authoring.html): a board on the bench,    *)
(* the list of boards, its copy in localStorage, and the boards of labs.js  *)
(* the page was loaded with.                                                *)
(***************************************************************************)
EXTENDS Naturals, Sequences, SequencesExt

CONSTANTS
  BoardNames,
  Contents,      \* what a components array may hold, 0 for nothing
  FirstBoard,    \* the board the page begins with [name, components]
  LabsFiles,     \* what labs.js may have when the page is loaded: lists of
                 \* boards, <<>> for a file that is empty, broken or missing
  MaxBoards      \* bound of the model: length of the list

Boards == [name : BoardNames, components : Contents]

ASSUME LabAssumption ==
  /\ 0 \in Contents /\ FirstBoard \in Boards
  /\ MaxBoards \in Nat
  /\ \A labs \in LabsFiles : Len(labs) <= MaxBoards /\ labs \in Seq(Boards)

VARIABLES
  bench,         \* diagram
  library,       \* the list: [board, own, opened], own FALSE when the entry's
                 \* components are the very array of the bench, opened
                 \* (history) for the entry the bench was taken from
  editIndex,     \* counted from 1, 0 for -1
  saved,         \* localStorage
  storageFailed, \* the last saveLib could not write
  NP_LABS        \* window.NP_LABS

labVars == <<bench, library, editIndex, saved, storageFailed, NP_LABS>>
storeVars == <<saved, storageFailed>>

Entry(board)   == [board |-> board, own |-> TRUE, opened |-> FALSE]
Entries(boards) == [i \in DOMAIN boards |-> Entry(boards[i])]
ValuesOf(list)  == [i \in DOMAIN list |-> list[i].board]
OpenedIs(list, i) == [j \in DOMAIN list |-> [list[j] EXCEPT !.opened = (j = i)]]
NoneShares(list)  == [j \in DOMAIN list |-> [list[j] EXCEPT !.own = TRUE]]

(* The elements of s at the places P, in their order. *)
Taken(s, P) ==
  LET n  == Cardinality(P)
      at == CHOOSE f \in [1..n -> P] : \A j, k \in 1..n : j < k => f[j] < f[k]
  IN [k \in 1..n |-> s[at[k]]]

LabInit ==
  /\ NP_LABS \in LabsFiles
  /\ bench = FirstBoard /\ library = Entries(NP_LABS) /\ editIndex = 0
  /\ saved = NP_LABS /\ storageFailed = FALSE

----------------------------------------------------------------------------
(* saveLib(), when the list has become list; a failure of localStorage is    *)
(* swallowed.                                                               *)
SaveLib(list) ==
  \/ saved' = ValuesOf(list) /\ storageFailed' = FALSE
  \/ UNCHANGED saved /\ storageFailed' = TRUE

(* addComp, delComp, setF, setSeg change the array in place; setName. *)
EditBench ==
  /\ \/ \E c \in Contents :
          /\ bench' = [bench EXCEPT !.components = c]
          /\ library' = [i \in DOMAIN library |->
                           IF library[i].own THEN library[i]
                           ELSE [library[i] EXCEPT !.board.components = c]]
     \/ \E n \in BoardNames : bench' = [bench EXCEPT !.name = n] /\ UNCHANGED library
  /\ UNCHANGED <<editIndex, storeVars, NP_LABS>>

(* editBoard: a copy of the entry comes onto the bench. *)
EditBoard(i) ==
  /\ bench' = library[i].board
  /\ library' = OpenedIs(NoneShares(library), i)
  /\ editIndex' = i
  /\ UNCHANGED <<storeVars, NP_LABS>>

(* newBoard *)
NewBoard(name) ==
  /\ bench' = [name |-> name, components |-> 0]
  /\ library' = OpenedIs(NoneShares(library), 0)
  /\ editIndex' = 0
  /\ UNCHANGED <<storeVars, NP_LABS>>

(* imp: the file of a board has been read; what "Update" means stays. *)
ImportBoard(board) ==
  /\ bench' = board
  /\ library' = NoneShares(library)
  /\ UNCHANGED <<editIndex, storeVars, NP_LABS>>

(* Mutant: the array of the bench goes into the list. *)
SaveToListShared ==
  LET updates == editIndex \in DOMAIN library
      at   == IF updates THEN editIndex ELSE Len(library) + 1
      new  == [Entry(bench) EXCEPT !.own = FALSE]
      list == IF updates THEN [library EXCEPT ![at] = new] ELSE Append(library, new)
  IN /\ Len(list) <= MaxBoards
     /\ library' = OpenedIs(list, at) /\ editIndex' = at
     /\ SaveLib(list)
     /\ UNCHANGED <<bench, NP_LABS>>

(* saveToList: a copy of the bench replaces the entry that is being edited,  *)
(* or is a new one at the end.                                              *)
SaveToList ==
  LET updates == editIndex \in DOMAIN library
      at   == IF updates THEN editIndex ELSE Len(library) + 1
      new  == Entry(bench)
      list == IF updates THEN [library EXCEPT ![at] = new] ELSE Append(library, new)
  IN /\ Len(list) <= MaxBoards
     /\ library' = OpenedIs(list, at) /\ editIndex' = at
     /\ SaveLib(list)
     /\ UNCHANGED <<bench, NP_LABS>>

(* Mutant: the entries after the one removed are not counted again. *)
IndexAfterKept(i) == IF editIndex = i THEN 0 ELSE editIndex
IndexAfter(i) ==
  IF editIndex = i THEN 0 ELSE IF editIndex > i THEN editIndex - 1 ELSE editIndex

(* removeBoard *)
RemoveBoard(i) ==
  /\ library' = RemoveAt(library, i)
  /\ editIndex' = IndexAfter(i)
  /\ SaveLib(library')
  /\ UNCHANGED <<bench, NP_LABS>>

(* importLabsJs: the boards of labs.js, as it was when the page was loaded,  *)
(* for the list, or after it those with names that are not in it.            *)
ImportLabs(replace) ==
  LET names == {library[i].board.name : i \in DOMAIN library}
      new   == {i \in DOMAIN NP_LABS : NP_LABS[i].name \notin names}
      list  == IF replace THEN Entries(NP_LABS)
               ELSE library \o Entries(Taken(NP_LABS, new))
  IN /\ NP_LABS # <<>> /\ Len(list) <= MaxBoards
     /\ library' = OpenedIs(list, 0) /\ editIndex' = 0
     /\ SaveLib(list)
     /\ UNCHANGED <<bench, NP_LABS>>

(* The page is closed, or its browser dies, and is opened again: the bench   *)
(* is lost, the list is what was saved, or that of labs.js if none was.      *)
Reload ==
  \E labs \in LabsFiles :
    /\ NP_LABS' = labs
    /\ bench' = FirstBoard /\ editIndex' = 0
    /\ library' = Entries(IF saved # <<>> THEN saved ELSE labs)
    /\ IF saved = <<>> /\ labs # <<>> THEN SaveLib(library')
       ELSE storageFailed' = FALSE /\ UNCHANGED saved

LabNext ==
  \/ EditBench \/ SaveToList \/ Reload
  \/ \E n \in BoardNames : NewBoard(n) \/ \E c \in Contents : ImportBoard([name |-> n, components |-> c])
  \/ \E i \in DOMAIN library : EditBoard(i) \/ RemoveBoard(i)
  \/ \E replace \in BOOLEAN : ImportLabs(replace)

LabSpec == LabInit /\ [][LabNext]_labVars

----------------------------------------------------------------------------
(* "Update in list" overwrites the board that was opened, or saved, last and *)
(* no other, whatever was removed, added or imported before and after it in  *)
(* the list; once that board is gone nothing is overwritten.                 *)
UpdateHitsItsBoard ==
  {i \in DOMAIN library : library[i].opened} = {editIndex} \ {0}

(* What the page finds after a crash is the list it showed, as far as        *)
(* localStorage took it: no change of the list is left unsaved, and what     *)
(* goes on on the bench changes no board of the list behind its back.        *)
StoredIsShown == ~storageFailed => saved = ValuesOf(library)

=============================================================================
