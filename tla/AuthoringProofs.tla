--------------------------- MODULE AuthoringProofs ---------------------------
(***************************************************************************)
(* Proofs about the instructor's page and the server behind it: for every   *)
(* list of boards, every board and every number of overlapping requests.    *)
(***************************************************************************)
EXTENDS LabList, LabsServer, SequenceTheorems, FiniteSetTheorems, TLAPS

(***************************************************************************)
(* The list.  An entry is a board with two marks, the second of which says   *)
(* that it is the one on the bench; the components of no entry are shared    *)
(* with the bench, which is what keeps what is stored equal to what is       *)
(* shown while the bench is edited.                                         *)
(***************************************************************************)
IsList(s) == \E n \in Nat : s = [j \in 1..n |-> s[j]]

AreEntries(list) ==
  \A j \in DOMAIN list :
    /\ list[j] = [board |-> list[j].board, own |-> TRUE, opened |-> list[j].opened]
    /\ list[j].opened \in BOOLEAN

OpenedIn(list) == {j \in DOMAIN list : list[j].opened}

LabTypes ==
  /\ IsList(library) /\ AreEntries(library)
  /\ IsList(saved) /\ IsList(NP_LABS)
  /\ editIndex \in Nat

LabInv == LabTypes /\ UpdateHitsItsBoard /\ StoredIsShown

(* What a list is, in the terms of the library's theorems. *)
LEMMA ListFacts ==
  ASSUME NEW s, IsList(s)
  PROVE  /\ Len(s) \in Nat /\ DOMAIN s = 1..Len(s)
         /\ s \in Seq({s[j] : j \in DOMAIN s})
<1>1. PICK n \in Nat : s = [j \in 1..n |-> s[j]]
  BY DEF IsList
<1>2. DOMAIN s = 1..n
  BY <1>1
<1>3. s \in [1..n -> {s[j] : j \in DOMAIN s}]
  BY <1>1, <1>2
<1>4. s \in Seq({s[j] : j \in DOMAIN s})
  BY <1>3
<1>5. QED
  BY <1>4, LenProperties

LEMMA SequencesAreLists ==
  ASSUME NEW S, NEW s \in Seq(S)
  PROVE  IsList(s)
BY LenProperties DEF IsList

LEMMA MarkedEntry ==
  ASSUME NEW b, NEW w, NEW o, NEW c
  PROVE  LET e == [board |-> b, own |-> w, opened |-> o]
         IN  /\ [e EXCEPT !.opened = c] = [board |-> b, own |-> w, opened |-> c]
             /\ [e EXCEPT !.own = w] = e
OBVIOUS

(* Marking an entry changes neither the order nor a board. *)
LEMMA OpenedIsMarks ==
  ASSUME NEW list, IsList(list), AreEntries(list), NEW i
  PROVE  /\ IsList(OpenedIs(list, i)) /\ AreEntries(OpenedIs(list, i))
         /\ DOMAIN OpenedIs(list, i) = DOMAIN list
         /\ OpenedIn(OpenedIs(list, i)) = DOMAIN list \cap {i}
         /\ ValuesOf(OpenedIs(list, i)) = ValuesOf(list)
<1>1. DOMAIN OpenedIs(list, i) = DOMAIN list
  BY DEF OpenedIs
<1>2. ASSUME NEW j \in DOMAIN list
      PROVE  /\ OpenedIs(list, i)[j]
                  = [board |-> list[j].board, own |-> TRUE, opened |-> (j = i)]
             /\ OpenedIs(list, i)[j].board = list[j].board
             /\ OpenedIs(list, i)[j].opened <=> (j = i)
             /\ OpenedIs(list, i)[j].opened \in BOOLEAN
  <2> DEFINE b == list[j].board
             o == list[j].opened
  <2>1. list[j] = [board |-> b, own |-> TRUE, opened |-> o]
    BY DEF AreEntries
  <2>2. OpenedIs(list, i)[j] = [list[j] EXCEPT !.opened = (j = i)]
    BY DEF OpenedIs
  <2> DEFINE c == (j = i)
  <2>3. c \in BOOLEAN /\ (c <=> (j = i))
    OBVIOUS
  <2> HIDE DEF b, o, c
  <2>4. OpenedIs(list, i)[j] = [list[j] EXCEPT !.opened = c]
    BY <2>2 DEF c
  <2>5. OpenedIs(list, i)[j] = [board |-> b, own |-> TRUE, opened |-> c]
    <3>1. [[board |-> b, own |-> TRUE, opened |-> o] EXCEPT !.opened = c]
            = [board |-> b, own |-> TRUE, opened |-> c]
      BY MarkedEntry
    <3>2. QED
      BY <2>1, <2>4, <3>1, Zenon
  <2>6. OpenedIs(list, i)[j].board = b /\ OpenedIs(list, i)[j].opened = c
    BY <2>5
  <2>7. OpenedIs(list, i)[j] = [board |-> list[j].board, own |-> TRUE, opened |-> (j = i)]
    BY <2>5 DEF b, c
  <2>8. QED
    BY <2>3, <2>6, <2>7 DEF b
<1>3. IsList(OpenedIs(list, i))
  <2>1. PICK n \in Nat : list = [j \in 1..n |-> list[j]]
    BY DEF IsList
  <2>2. OpenedIs(list, i) = [j \in 1..n |-> OpenedIs(list, i)[j]]
    BY <2>1 DEF OpenedIs
  <2>3. QED
    BY <2>2 DEF IsList
<1>4. AreEntries(OpenedIs(list, i))
  BY <1>1, <1>2 DEF AreEntries
<1>5. OpenedIn(OpenedIs(list, i)) = DOMAIN list \cap {i}
  BY <1>1, <1>2 DEF OpenedIn
<1>6. ValuesOf(OpenedIs(list, i)) = ValuesOf(list)
  BY <1>1, <1>2 DEF ValuesOf
<1>7. QED
  BY <1>1, <1>3, <1>4, <1>5, <1>6

(* Where nothing is shared, nothing changes when sharing ends. *)
LEMMA NothingIsShared ==
  ASSUME NEW list, IsList(list), AreEntries(list)
  PROVE  NoneShares(list) = list
<1>1. ASSUME NEW j \in DOMAIN list PROVE NoneShares(list)[j] = list[j]
  <2> DEFINE b == list[j].board
             o == list[j].opened
  <2>1. list[j] = [board |-> b, own |-> TRUE, opened |-> o]
    BY DEF AreEntries
  <2>2. NoneShares(list)[j] = [list[j] EXCEPT !.own = TRUE]
    BY DEF NoneShares
  <2> HIDE DEF b, o
  <2>3. QED
    BY <2>1, <2>2, MarkedEntry
<1>2. list = [j \in DOMAIN list |-> list[j]] /\ DOMAIN NoneShares(list) = DOMAIN list
  BY DEF IsList, NoneShares
<1>3. NoneShares(list) = [j \in DOMAIN list |-> NoneShares(list)[j]]
  BY DEF NoneShares
<1>4. QED
  BY <1>1, <1>2, <1>3

(* A list made of boards has those boards and no entry opened. *)
LEMMA EntriesOfBoards ==
  ASSUME NEW s, IsList(s)
  PROVE  /\ IsList(Entries(s)) /\ AreEntries(Entries(s))
         /\ OpenedIn(Entries(s)) = {}
         /\ ValuesOf(Entries(s)) = s
<1>1. PICK n \in Nat : s = [j \in 1..n |-> s[j]]
  BY DEF IsList
<1>2. DOMAIN s = 1..n /\ Entries(s) = [j \in 1..n |-> Entry(s[j])]
  BY <1>1 DEF Entries
<1>3. ASSUME NEW j \in 1..n
      PROVE  /\ Entries(s)[j] = [board |-> s[j], own |-> TRUE, opened |-> FALSE]
             /\ Entries(s)[j].board = s[j] /\ Entries(s)[j].opened = FALSE
  BY <1>2 DEF Entry
<1>4. ValuesOf(Entries(s)) = [j \in 1..n |-> s[j]]
  BY <1>2, <1>3 DEF ValuesOf
<1>5. IsList(Entries(s))
  <2>1. Entries(s) = [j \in 1..n |-> Entries(s)[j]]
    BY <1>2
  <2>2. QED
    BY <2>1 DEF IsList
<1>6. AreEntries(Entries(s)) /\ OpenedIn(Entries(s)) = {}
  BY <1>2, <1>3 DEF AreEntries, OpenedIn
<1>7. QED
  BY <1>1, <1>4, <1>5, <1>6

LEMMA ValuesAreAList ==
  ASSUME NEW list, IsList(list)
  PROVE  IsList(ValuesOf(list))
<1>1. PICK n \in Nat : list = [j \in 1..n |-> list[j]]
  BY DEF IsList
<1>2. ValuesOf(list) = [j \in 1..n |-> ValuesOf(list)[j]]
  BY <1>1 DEF ValuesOf
<1>3. QED
  BY <1>2 DEF IsList

(* The chosen elements of a list are a list again. *)
LEMMA TakenIsAList ==
  ASSUME NEW s, IsList(s), NEW P \in SUBSET DOMAIN s
  PROVE  IsList(Taken(s, P))
<1>1. Cardinality(P) \in Nat
  <2>1. Len(s) \in Nat /\ DOMAIN s = 1..Len(s)
    BY ListFacts
  <2>2. IsFiniteSet(1..Len(s))
    BY <2>1, FS_Interval
  <2>3. IsFiniteSet(P)
    BY <2>1, <2>2, FS_Subset
  <2>4. QED
    BY <2>3, FS_CardinalityType
<1>2. QED
  BY <1>1 DEF Taken, IsList

(* The entries of one list after those of another. *)
LEMMA JoinedEntries ==
  ASSUME NEW s, IsList(s), AreEntries(s), NEW t, IsList(t), AreEntries(t)
  PROVE  IsList(s \o t) /\ AreEntries(s \o t)
<1> DEFINE S == {s[j] : j \in DOMAIN s} \cup {t[j] : j \in DOMAIN t}
<1>1. /\ s \in Seq(S) /\ Len(s) \in Nat /\ DOMAIN s = 1..Len(s)
      /\ t \in Seq(S) /\ Len(t) \in Nat /\ DOMAIN t = 1..Len(t)
  <2>1. Seq({s[j] : j \in DOMAIN s}) \subseteq Seq(S)
    OBVIOUS
  <2>2. Seq({t[j] : j \in DOMAIN t}) \subseteq Seq(S)
    OBVIOUS
  <2>3. QED
    BY <2>1, <2>2, ListFacts
<1>2. \A e \in S : /\ e = [board |-> e.board, own |-> TRUE, opened |-> e.opened]
                   /\ e.opened \in BOOLEAN
  BY DEF AreEntries
<1> HIDE DEF S
<1>3. s \o t \in Seq(S)
  BY <1>1, ConcatProperties
<1>4. \A j \in DOMAIN (s \o t) : (s \o t)[j] \in S
  BY <1>3, LenProperties
<1>5. QED
  BY <1>2, <1>3, <1>4, SequencesAreLists DEF AreEntries

(* Without entry i, what was behind it moves up. *)
LEMMA WithoutEntry ==
  ASSUME NEW s, IsList(s), AreEntries(s), NEW i \in DOMAIN s
  PROVE  LET t == RemoveAt(s, i)
         IN  /\ IsList(t) /\ AreEntries(t) /\ DOMAIN t = 1..(Len(s) - 1)
             /\ \A j \in DOMAIN t : t[j] = IF j < i THEN s[j] ELSE s[j + 1]
<1> DEFINE S == {s[j] : j \in DOMAIN s}
           u == SubSeq(s, 1, i - 1)
           v == SubSeq(s, i + 1, Len(s))
           t == RemoveAt(s, i)
<1>1. Len(s) \in Nat /\ DOMAIN s = 1..Len(s) /\ i \in 1..Len(s) /\ i \in Nat
  BY ListFacts
<1>2. \A j \in 1..Len(s) : s[j] \in S
  BY <1>1
<1>3. \A e \in S : /\ e = [board |-> e.board, own |-> TRUE, opened |-> e.opened]
                   /\ e.opened \in BOOLEAN
  BY DEF AreEntries
<1> HIDE DEF S
<1>4. u \in Seq(S) /\ Len(u) = i - 1 /\ \A j \in 1..(i - 1) : u[j] = s[j]
  <2>1. \A j \in 1..(i - 1) : s[j] \in S
    BY <1>1, <1>2
  <2>2. /\ SubSeq(s, 1, i - 1) \in Seq(S)
        /\ Len(SubSeq(s, 1, i - 1)) = IF 1 <= i - 1 THEN (i - 1) - 1 + 1 ELSE 0
        /\ \A j \in 1..((i - 1) - 1 + 1) : SubSeq(s, 1, i - 1)[j] = s[1 + j - 1]
    BY <1>1, <2>1, SubSeqProperties
  <2>3. QED
    BY <1>1, <2>2
<1>5. /\ v \in Seq(S) /\ Len(v) = Len(s) - i
      /\ \A j \in 1..(Len(s) - i) : v[j] = s[j + i]
  <2>1. \A j \in (i + 1)..Len(s) : s[j] \in S
    BY <1>1, <1>2
  <2>2. /\ SubSeq(s, i + 1, Len(s)) \in Seq(S)
        /\ Len(SubSeq(s, i + 1, Len(s)))
             = IF i + 1 <= Len(s) THEN Len(s) - (i + 1) + 1 ELSE 0
        /\ \A j \in 1..(Len(s) - (i + 1) + 1) : SubSeq(s, i + 1, Len(s))[j] = s[(i + 1) + j - 1]
    BY <1>1, <2>1, SubSeqProperties
  <2>3. QED
    BY <1>1, <2>2
<1> HIDE DEF u, v
<1>6. t = u \o v
  BY DEF RemoveAt, u, v
<1>7. /\ t \in Seq(S) /\ Len(t) = Len(u) + Len(v)
      /\ \A j \in 1..(Len(u) + Len(v)) :
           t[j] = IF j <= Len(u) THEN u[j] ELSE v[j - Len(u)]
  <2> HIDE DEF t
  <2>1. /\ u \o v \in Seq(S) /\ Len(u \o v) = Len(u) + Len(v)
        /\ \A j \in 1..(Len(u) + Len(v)) :
             (u \o v)[j] = IF j <= Len(u) THEN u[j] ELSE v[j - Len(u)]
    BY <1>4, <1>5, ConcatProperties
  <2>2. QED
    BY <1>6, <2>1
<1> HIDE DEF t
<1>8. Len(t) = Len(s) - 1 /\ DOMAIN t = 1..(Len(s) - 1)
  BY <1>1, <1>4, <1>5, <1>7
<1>9. ASSUME NEW j \in DOMAIN t PROVE t[j] = IF j < i THEN s[j] ELSE s[j + 1]
  <2>1. j \in 1..(Len(s) - 1) /\ j \in Int
    BY <1>8
  <2>2. CASE j < i
    BY <1>1, <1>4, <1>5, <1>7, <2>1, <2>2
  <2>3. CASE ~(j < i)
    <3>1. j - (i - 1) \in 1..(Len(s) - i) /\ (j - (i - 1)) + i = j + 1 /\ ~(j <= i - 1)
      BY <1>1, <2>1, <2>3
    <3>2. t[j] = v[j - (i - 1)]
      BY <1>1, <1>4, <1>5, <1>7, <2>1, <3>1
    <3>3. QED
      BY <1>5, <2>3, <3>1, <3>2
  <2>4. QED
    BY <2>2, <2>3
<1>10. \A j \in DOMAIN t : t[j] \in S
  BY <1>7, LenProperties
<1>11. IsList(t) /\ AreEntries(t)
  BY <1>3, <1>7, <1>10, SequencesAreLists DEF AreEntries
<1>12. QED
  BY <1>8, <1>9, <1>11 DEF t

LEMMA FilesAreLists == \A labs \in LabsFiles : IsList(labs)
BY LabAssumption, SequencesAreLists DEF LabAssumption

LEMMA LabInitInv == LabInit => LabInv
<1> SUFFICES ASSUME LabInit PROVE LabInv
  OBVIOUS
<1>1. IsList(NP_LABS) /\ library = Entries(NP_LABS) /\ saved = NP_LABS /\ editIndex = 0
  BY FilesAreLists DEF LabInit
<1>2. /\ IsList(library) /\ AreEntries(library) /\ OpenedIn(library) = {}
      /\ ValuesOf(library) = saved
  BY <1>1, EntriesOfBoards
<1>3. QED
  BY <1>1, <1>2 DEF LabInv, LabTypes, UpdateHitsItsBoard, StoredIsShown, OpenedIn

(* A handler that makes `list' the list, marks entry k of it, or none for 0, *)
(* and saves it leaves everything in order.                                 *)
LEMMA NewListInv ==
  ASSUME LabInv, NEW list, IsList(list), AreEntries(list),
         NEW k \in Nat, k = 0 \/ k \in DOMAIN list,
         library' = OpenedIs(list, k), editIndex' = k, SaveLib(list), NP_LABS' = NP_LABS
  PROVE  LabInv'
<1>1. /\ IsList(library') /\ AreEntries(library')
      /\ OpenedIn(library') = DOMAIN list \cap {k}
      /\ ValuesOf(library') = ValuesOf(list)
  BY OpenedIsMarks
<1>2. DOMAIN list \cap {k} = {k} \ {0}
  BY ListFacts
<1>3. UpdateHitsItsBoard'
  BY <1>1, <1>2 DEF UpdateHitsItsBoard, OpenedIn
<1>4. IsList(saved')
  BY ValuesAreAList DEF SaveLib, LabInv, LabTypes
<1>5. StoredIsShown'
  BY <1>1 DEF SaveLib, StoredIsShown
<1>6. QED
  BY <1>1, <1>3, <1>4, <1>5 DEF LabInv, LabTypes

(* A handler that leaves the list and what is stored as they are, up to      *)
(* which entry is marked, does so too.                                      *)
LEMMA SameBoardsInv ==
  ASSUME LabInv, NEW k \in Nat, k = 0 \/ k \in DOMAIN library,
         library' = OpenedIs(library, k), editIndex' = k,
         UNCHANGED storeVars, NP_LABS' = NP_LABS
  PROVE  LabInv'
<1>1. /\ IsList(library') /\ AreEntries(library')
      /\ OpenedIn(library') = DOMAIN library \cap {k}
      /\ ValuesOf(library') = ValuesOf(library)
  BY OpenedIsMarks DEF LabInv, LabTypes
<1>2. DOMAIN library \cap {k} = {k} \ {0}
  BY ListFacts DEF LabInv, LabTypes
<1>3. UpdateHitsItsBoard'
  BY <1>1, <1>2 DEF UpdateHitsItsBoard, OpenedIn
<1>4. QED
  BY <1>1, <1>3 DEF LabInv, LabTypes, StoredIsShown, storeVars

LEMMA LabStep == LabInv /\ LabNext => LabInv'
<1> SUFFICES ASSUME LabInv, LabNext PROVE LabInv'
  OBVIOUS
<1>0. /\ IsList(library) /\ AreEntries(library) /\ IsList(saved) /\ IsList(NP_LABS)
      /\ Len(library) \in Nat /\ DOMAIN library = 1..Len(library) /\ editIndex \in Nat
  BY ListFacts DEF LabInv, LabTypes
<1>1. NoneShares(library) = library
  BY <1>0, NothingIsShared
<1>2. ASSUME UNCHANGED <<library, editIndex, storeVars, NP_LABS>> PROVE LabInv'
  BY <1>2 DEF LabInv, LabTypes, UpdateHitsItsBoard, StoredIsShown, storeVars
<1>3. CASE EditBench
  <2>1. library' = library
    <3>1. ASSUME NEW c \in Contents,
                 library' = [i \in DOMAIN library |->
                               IF library[i].own THEN library[i]
                               ELSE [library[i] EXCEPT !.board.components = c]]
          PROVE  library' = library
      <4>1. \A i \in DOMAIN library : library[i].own
        BY <1>0 DEF AreEntries
      <4>2. library' = [i \in DOMAIN library |-> library[i]]
        BY <3>1, <4>1
      <4>3. QED
        BY <1>0, <4>2 DEF IsList
    <3>2. QED
      BY <1>3, <3>1 DEF EditBench
  <2>2. QED
    BY <1>2, <1>3, <2>1 DEF EditBench
<1>4. CASE SaveToList
  <2> DEFINE updates == editIndex \in DOMAIN library
             at   == IF updates THEN editIndex ELSE Len(library) + 1
             new  == Entry(bench)
             list == IF updates THEN [library EXCEPT ![at] = new] ELSE Append(library, new)
             S == {library[j] : j \in DOMAIN library} \cup {new}
  <2>1. /\ library' = OpenedIs(list, at) /\ editIndex' = at /\ SaveLib(list)
        /\ NP_LABS' = NP_LABS
    BY <1>4 DEF SaveToList
  <2>2. new = [board |-> new.board, own |-> TRUE, opened |-> new.opened]
        /\ new.opened \in BOOLEAN
    BY DEF Entry
  <2> HIDE DEF new
  <2>3. \A e \in S : /\ e = [board |-> e.board, own |-> TRUE, opened |-> e.opened]
                     /\ e.opened \in BOOLEAN
    BY <1>0, <2>2 DEF AreEntries
  <2>4. library \in Seq(S) /\ new \in S
    <3>1. library \in Seq({library[j] : j \in DOMAIN library})
      BY <1>0, ListFacts
    <3>2. QED
      BY <3>1
  <2> HIDE DEF S
  <2>5. list \in Seq(S) /\ at \in Nat /\ at \in DOMAIN list
    <3>1. CASE updates
      <4>1. /\ [library EXCEPT ![editIndex] = new] \in Seq(S)
            /\ Len([library EXCEPT ![editIndex] = new]) = Len(library)
        BY <1>0, <2>4, <3>1, ExceptSeq
      <4>2. QED
        BY <1>0, <3>1, <4>1, LenProperties
    <3>2. CASE ~updates
      <4>1. /\ Append(library, new) \in Seq(S)
            /\ Len(Append(library, new)) = Len(library) + 1
        BY <2>4, AppendProperties
      <4>2. QED
        BY <1>0, <3>2, <4>1, LenProperties
    <3>3. QED
      BY <3>1, <3>2
  <2> HIDE DEF list, at
  <2>6. IsList(list) /\ AreEntries(list)
    <3>1. \A j \in DOMAIN list : list[j] \in S
      BY <2>5, LenProperties
    <3>2. QED
      BY <2>3, <2>5, <3>1, SequencesAreLists DEF AreEntries
  <2>7. QED
    BY <2>1, <2>5, <2>6, NewListInv
<1>5. CASE Reload
  <2>1. PICK labs \in LabsFiles :
          /\ NP_LABS' = labs /\ editIndex' = 0
          /\ library' = Entries(IF saved # <<>> THEN saved ELSE labs)
          /\ IF saved = <<>> /\ labs # <<>> THEN SaveLib(library')
             ELSE storageFailed' = FALSE /\ UNCHANGED saved
    BY <1>5 DEF Reload
  <2> DEFINE shown == IF saved # <<>> THEN saved ELSE labs
  <2>2. IsList(labs) /\ IsList(shown)
    BY <1>0, FilesAreLists
  <2>3. /\ IsList(library') /\ AreEntries(library') /\ OpenedIn(library') = {}
        /\ ValuesOf(library') = shown
    <3> HIDE DEF shown
    <3>1. library' = Entries(shown)
      BY <2>1 DEF shown
    <3>2. QED
      BY <2>2, <3>1, EntriesOfBoards
  <2>4. IsList(saved') /\ (~storageFailed' => saved' = ValuesOf(library'))
    <3>1. CASE saved = <<>> /\ labs # <<>>
      BY <1>0, <2>1, <2>3, <3>1, ValuesAreAList DEF SaveLib
    <3>2. CASE ~(saved = <<>> /\ labs # <<>>)
      BY <1>0, <2>1, <2>3, <3>2
    <3>3. QED
      BY <3>1, <3>2
  <2>5. QED
    BY <2>1, <2>2, <2>3, <2>4
       DEF LabInv, LabTypes, UpdateHitsItsBoard, StoredIsShown, OpenedIn
<1>6. CASE \E n \in BoardNames : NewBoard(n)
  BY <1>1, <1>6, SameBoardsInv DEF NewBoard
<1>7. CASE \E n \in BoardNames, c \in Contents : ImportBoard([name |-> n, components |-> c])
  BY <1>1, <1>2, <1>7 DEF ImportBoard
<1>8. CASE \E i \in DOMAIN library : EditBoard(i)
  <2>1. PICK i \in DOMAIN library : EditBoard(i)
    BY <1>8
  <2>2. i \in Nat
    BY <1>0
  <2>3. QED
    BY <1>1, <2>1, <2>2, SameBoardsInv DEF EditBoard
<1>9. CASE \E i \in DOMAIN library : RemoveBoard(i)
  <2>1. PICK i \in DOMAIN library : RemoveBoard(i)
    BY <1>9
  <2>2. /\ library' = RemoveAt(library, i) /\ editIndex' = IndexAfter(i)
        /\ SaveLib(library') /\ NP_LABS' = NP_LABS
    BY <2>1 DEF RemoveBoard
  <2>3. /\ IsList(library') /\ AreEntries(library') /\ DOMAIN library' = 1..(Len(library) - 1)
        /\ \A j \in DOMAIN library' :
             library'[j] = IF j < i THEN library[j] ELSE library[j + 1]
    BY <1>0, <2>2, WithoutEntry
  <2>4. i \in 1..Len(library) /\ i \in Nat /\ editIndex' \in Nat
    BY <1>0, <2>2 DEF IndexAfter
  <2>5. UpdateHitsItsBoard'
    <3>1. \A j \in 1..Len(library) : library[j].opened <=> (j = editIndex)
      BY <1>0 DEF LabInv, UpdateHitsItsBoard
    <3>2. \A j \in 1..(Len(library) - 1) : library'[j].opened <=> (j = editIndex')
      <4> SUFFICES ASSUME NEW j \in 1..(Len(library) - 1)
                   PROVE  library'[j].opened <=> (j = editIndex')
        OBVIOUS
      <4>1. CASE j < i
        <5>1. library'[j].opened <=> (j = editIndex)
          BY <1>0, <2>3, <3>1, <4>1
        <5>2. j = editIndex <=> j = editIndex'
          BY <1>0, <2>2, <2>4, <4>1 DEF IndexAfter
        <5>3. QED
          BY <5>1, <5>2
      <4>2. CASE ~(j < i)
        <5>1. library'[j].opened <=> (j + 1 = editIndex)
          <6>1. library'[j] = library[j + 1] /\ j + 1 \in 1..Len(library)
            BY <1>0, <2>3, <4>2
          <6>2. QED
            BY <3>1, <6>1
        <5>2. j + 1 = editIndex <=> j = editIndex'
          BY <1>0, <2>2, <2>4, <4>2 DEF IndexAfter
        <5>3. QED
          BY <5>1, <5>2
      <4>3. QED
        BY <4>1, <4>2
    <3>3. editIndex' = 0 \/ editIndex' \in 1..(Len(library) - 1)
      <4>1. editIndex = 0 \/ editIndex \in 1..Len(library)
        BY <1>0 DEF LabInv, UpdateHitsItsBoard
      <4>2. QED
        BY <1>0, <2>2, <2>4, <4>1 DEF IndexAfter
    <3>4. QED
      BY <2>3, <3>2, <3>3 DEF UpdateHitsItsBoard
  <2>6. IsList(saved') /\ StoredIsShown'
    BY <1>0, <2>2, <2>3, ValuesAreAList DEF SaveLib, StoredIsShown
  <2>7. QED
    BY <1>0, <2>2, <2>3, <2>4, <2>5, <2>6 DEF LabInv, LabTypes
<1>10. CASE \E replace \in BOOLEAN : ImportLabs(replace)
  <2>1. PICK replace \in BOOLEAN : ImportLabs(replace)
    BY <1>10
  <2> DEFINE names == {library[i].board.name : i \in DOMAIN library}
             new   == {i \in DOMAIN NP_LABS : NP_LABS[i].name \notin names}
             added == Entries(Taken(NP_LABS, new))
             list  == IF replace THEN Entries(NP_LABS) ELSE library \o added
  <2>2. /\ library' = OpenedIs(list, 0) /\ editIndex' = 0 /\ SaveLib(list)
        /\ NP_LABS' = NP_LABS
    BY <2>1 DEF ImportLabs
  <2>3. new \in SUBSET DOMAIN NP_LABS
    OBVIOUS
  <2> HIDE DEF new
  <2>4. IsList(added) /\ AreEntries(added)
    BY <1>0, <2>3, TakenIsAList, EntriesOfBoards
  <2> HIDE DEF added
  <2>5. IsList(list) /\ AreEntries(list)
    <3>1. CASE replace
      BY <1>0, <3>1, EntriesOfBoards
    <3>2. CASE ~replace
      BY <1>0, <2>4, <3>2, JoinedEntries
    <3>3. QED
      BY <3>1, <3>2
  <2> HIDE DEF list
  <2>6. QED
    BY <2>2, <2>5, NewListInv
<1>11. QED
  BY <1>3, <1>4, <1>5, <1>6, <1>7, <1>8, <1>9, <1>10 DEF LabNext

LEMMA LabInductive == LabSpec => []LabInv
<1>1. LabInv /\ UNCHANGED labVars => LabInv'
  BY DEF labVars, storeVars, LabInv, LabTypes, UpdateHitsItsBoard, StoredIsShown
<1>2. QED
  BY <1>1, LabInitInv, LabStep, PTL DEF LabSpec

(* "Update in list" overwrites the board that was opened and no other.       *)
THEOREM UpdateIsAimed == LabSpec => []UpdateHitsItsBoard
<1>1. LabInv => UpdateHitsItsBoard
  BY DEF LabInv
<1>2. QED
  BY <1>1, LabInductive, PTL

(* What localStorage has is the list on the screen, as far as it could be    *)
(* written.                                                                 *)
THEOREM StorageIsCurrent == LabSpec => []StoredIsShown
<1>1. LabInv => StoredIsShown
  BY DEF LabInv
<1>2. QED
  BY <1>1, LabInductive, PTL

(***************************************************************************)
(* The server.  A save that runs alone has the file to itself: it is empty   *)
(* after the truncation and holds the body after the write.  Nothing is      *)
(* open while a confirmed list stands.                                      *)
(***************************************************************************)
RequestTypes ==
  saving \in [Requests -> [body : SavedLists \cup {<<>>},
                           stage : {"none", "opened", "written"}, alone : BOOLEAN]]

AloneHasTheFile ==
  \A q \in Requests : saving[q].alone =>
    /\ \A r \in Requests \ {q} : saving[r].stage = "none"
    /\ saving[q].stage = "opened" => labsFile = EmptyFile
    /\ saving[q].stage = "written" => labsFile = FileOf(saving[q].body)

ConfirmedStands ==
  confirmed # NotSaved => /\ Open = {}
                          /\ labsFile = FileOf(confirmed)

BodiesAreLists == \A q \in Requests : saving[q].stage # "none" => saving[q].body \in SavedLists

ServerInv == RequestTypes /\ BodiesAreLists /\ AloneHasTheFile /\ ConfirmedStands

LEMMA ServerInitInv == ServerInit => ServerInv
BY DEF ServerInit, ServerInv, RequestTypes, BodiesAreLists, AloneHasTheFile,
       ConfirmedStands, NoRequest

LEMMA ServerStep == ServerInv /\ ServerNext => ServerInv'
<1> SUFFICES ASSUME ServerInv, ServerNext PROVE ServerInv'
  OBVIOUS
<1> USE DEF ServerInv
<1>1. CASE StopServer
  <2>1. /\ saving' = [q \in Requests |-> NoRequest] /\ UNCHANGED <<labsFile, confirmed>>
        /\ Open # {}
    BY <1>1 DEF StopServer
  <2>2. confirmed = NotSaved
    BY <2>1 DEF ConfirmedStands
  <2>3. QED
    BY <2>1, <2>2 DEF RequestTypes, BodiesAreLists, AloneHasTheFile, ConfirmedStands, NoRequest
<1>2. CASE \E q \in Requests, body \in SavedLists : StartWrite(q, body)
  <2>1. PICK q \in Requests, body \in SavedLists : StartWrite(q, body)
    BY <1>2
  <2> DEFINE alone == Open = {}
             new == [body |-> body, stage |-> "opened", alone |-> alone]
  <2>2. alone \in BOOLEAN /\ (alone <=> Open = {})
    OBVIOUS
  <2>3. /\ saving' = [r \in Requests |-> IF r = q THEN new
                                         ELSE [saving[r] EXCEPT !.alone = FALSE]]
        /\ confirmed' = NotSaved /\ labsFile' = EmptyFile
    BY <2>1 DEF StartWrite
  <2> HIDE DEF alone
  <2>4. /\ saving'[q].body = body /\ saving'[q].stage = "opened"
        /\ saving'[q].alone = alone
        /\ new \in [body : SavedLists \cup {<<>>}, stage : {"none", "opened", "written"},
                    alone : BOOLEAN]
    BY <2>2, <2>3
  <2>5. ASSUME NEW r \in Requests \ {q}
        PROVE  /\ saving'[r].body = saving[r].body /\ saving'[r].stage = saving[r].stage
               /\ saving'[r].alone = FALSE
               /\ saving'[r] \in [body : SavedLists \cup {<<>>},
                                  stage : {"none", "opened", "written"}, alone : BOOLEAN]
    BY <2>3 DEF RequestTypes
  <2> HIDE DEF new
  <2>6. RequestTypes'
    BY <2>3, <2>4, <2>5 DEF RequestTypes
  <2>7. BodiesAreLists'
    BY <2>4, <2>5 DEF BodiesAreLists
  <2>8. AloneHasTheFile'
    BY <2>2, <2>3, <2>4, <2>5 DEF AloneHasTheFile, Open
  <2>9. QED
    BY <2>3, <2>6, <2>7, <2>8 DEF ConfirmedStands
<1>3. CASE \E q \in Requests : WriteBody(q)
  <2>1. PICK q \in Requests : WriteBody(q)
    BY <1>3
  <2>2. /\ saving[q].stage = "opened" /\ saving' = [saving EXCEPT ![q].stage = "written"]
        /\ labsFile' = [boards |-> saving[q].body,
                        whole |-> Len(labsFile.boards) <= Len(saving[q].body)]
        /\ confirmed' = confirmed
    BY <2>1 DEF WriteBody
  <2>3. confirmed = NotSaved
    BY <2>2 DEF ConfirmedStands, Open
  <2>4. /\ saving'[q].stage = "written" /\ saving'[q].body = saving[q].body
        /\ saving'[q].alone = saving[q].alone
        /\ \A r \in Requests \ {q} : saving'[r] = saving[r]
        /\ RequestTypes'
    BY <2>2 DEF RequestTypes
  <2>5. saving[q].alone => labsFile' = FileOf(saving[q].body)
    <3> SUFFICES ASSUME saving[q].alone PROVE labsFile' = FileOf(saving[q].body)
      OBVIOUS
    <3>1. labsFile.boards = <<>> /\ Len(labsFile.boards) = 0
      BY <2>2 DEF AloneHasTheFile, EmptyFile, FileOf
    <3>2. Len(saving[q].body) \in Nat
      BY <2>2, ServerAssumption DEF ServerAssumption, BodiesAreLists
    <3>3. (Len(labsFile.boards) <= Len(saving[q].body)) = TRUE
      BY <3>1, <3>2
    <3>4. QED
      BY <2>2, <3>3, Zenon DEF FileOf
  <2>6. AloneHasTheFile'
    BY <2>2, <2>4, <2>5 DEF AloneHasTheFile
  <2>7. QED
    BY <2>2, <2>3, <2>4, <2>6 DEF BodiesAreLists, ConfirmedStands
<1>4. CASE \E q \in Requests : AnswerSave(q)
  <2>1. PICK q \in Requests : AnswerSave(q)
    BY <1>4
  <2>2. /\ saving[q].stage = "written" /\ saving' = [saving EXCEPT ![q] = NoRequest]
        /\ confirmed' = IF saving[q].alone THEN saving[q].body ELSE confirmed
        /\ labsFile' = labsFile
    BY <2>1 DEF AnswerSave
  <2>3. confirmed = NotSaved
    BY <2>2 DEF ConfirmedStands, Open
  <2>4. saving'[q] = NoRequest /\ \A r \in Requests \ {q} : saving'[r] = saving[r]
    BY <2>2 DEF RequestTypes
  <2>5. RequestTypes' /\ BodiesAreLists'
    BY <2>2, <2>4 DEF RequestTypes, BodiesAreLists, NoRequest
  <2>6. AloneHasTheFile'
    BY <2>2, <2>4 DEF AloneHasTheFile, NoRequest
  <2>7. ConfirmedStands'
    BY <2>2, <2>3, <2>4 DEF ConfirmedStands, AloneHasTheFile, Open, NoRequest
  <2>8. QED
    BY <2>5, <2>6, <2>7
<1>5. CASE \E q \in Requests : FailSave(q)
  <2>1. PICK q \in Requests : FailSave(q)
    BY <1>5
  <2>2. /\ saving[q].stage = "opened" /\ saving' = [saving EXCEPT ![q] = NoRequest]
        /\ UNCHANGED <<labsFile, confirmed>>
    BY <2>1 DEF FailSave
  <2>3. confirmed = NotSaved
    BY <2>2 DEF ConfirmedStands, Open
  <2>4. saving'[q] = NoRequest /\ \A r \in Requests \ {q} : saving'[r] = saving[r]
    BY <2>2 DEF RequestTypes
  <2>5. RequestTypes' /\ BodiesAreLists'
    BY <2>2, <2>4 DEF RequestTypes, BodiesAreLists, NoRequest
  <2>6. AloneHasTheFile'
    BY <2>2, <2>4 DEF AloneHasTheFile, NoRequest
  <2>7. QED
    BY <2>2, <2>3, <2>5, <2>6 DEF ConfirmedStands
<1>6. QED
  BY <1>1, <1>2, <1>3, <1>4, <1>5 DEF ServerNext

LEMMA ServerInductive == ServerSpec => []ServerInv
<1>1. ServerInv /\ UNCHANGED serverVars => ServerInv'
  BY DEF serverVars, ServerInv, RequestTypes, BodiesAreLists, AloneHasTheFile,
         ConfirmedStands, Open
<1>2. QED
  BY <1>1, ServerInitInv, ServerStep, PTL DEF ServerSpec

(* A list that was confirmed is in the file, whole, until the next save.     *)
THEOREM ConfirmedIsKept == ServerSpec => []SavedIsOnDisk
<1>1. ServerInv => SavedIsOnDisk
  BY DEF ServerInv, ConfirmedStands, SavedIsOnDisk
<1>2. QED
  BY <1>1, ServerInductive, PTL

=============================================================================
