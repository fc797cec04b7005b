------------------------------- MODULE MCPage -------------------------------
(* The page and what is behind it, side by side: the board of the simulator, *)
(* the list of the instructor's page, the server that saves it and the       *)
(* service worker.  `focus' says which a behaviour is about.                 *)
EXTENDS Board, LabList, LabsServer, OfflineCache

VARIABLE focus

mcVars == <<boardVars, labVars, serverVars, offlineVars, focus>>

(* An example, a bare board, a program without source and one that is        *)
(* rejected, two .hex files, one of them corrupt, and three pointers.  RB0   *)
(* changes its polarity between boards, RB5 is on one board only, and on one *)
(* board two buttons share a pin.                                           *)
McButton(p, low) == [label |-> "", pin |-> p, activeLow |-> low]
McPins == {"RA4", "RB0", "RB5"}
McLabs == {"example", "bare board", "no source", "bad hex"}
McButtonsOf == [lab \in McLabs |->
  CASE lab = "example"    -> {McButton("RA4", TRUE), McButton("RB0", TRUE)}
    [] lab = "bare board" -> {McButton("RB0", FALSE), McButton("RB5", TRUE)}
    [] lab = "no source"  -> {McButton("RA4", TRUE)}
    [] lab = "bad hex"    -> {McButton("RB0", TRUE), [McButton("RB0", TRUE) EXCEPT !.label = "S2"]}]

(* A list of up to two boards, of which two may have one name; labs.js is    *)
(* missing, has one board or two.                                           *)
McBoard(n, c) == [name |-> n, components |-> c]
McFirstBoard == McBoard("A", 1)
McLabsFiles == {<<>>, <<McBoard("A", 0)>>, <<McBoard("B", 1), McBoard("A", 1)>>}

(* A list and a longer one that begins with it. *)
McSavedLists == {<<"A">>, <<"B">>, <<"A", "B">>}

(* Four releases: the second leaves sw.js as it is, the third changes it but  *)
(* not the name of the cache, the fourth changes both.                       *)
McScriptOf == <<"a", "a", "b", "c">>
McCacheOf  == <<"v1", "v1", "v1", "v2">>

McInit ==
  /\ BoardInit /\ LabInit /\ ServerInit /\ OfflineInit
  /\ focus \in {"board", "labs", "server", "offline"}
  /\ focus # "board" => editor = NoProgram
  /\ focus # "labs" => NP_LABS = <<>>
  /\ focus # "server" => labsFile = EmptyFile

McNext ==
  /\ \/ focus = "board" /\ BoardNext /\ UNCHANGED <<labVars, serverVars, offlineVars>>
     \/ focus = "labs" /\ LabNext /\ UNCHANGED <<boardVars, serverVars, offlineVars>>
     \/ focus = "server" /\ ServerNext /\ UNCHANGED <<boardVars, labVars, offlineVars>>
     \/ focus = "offline" /\ OfflineNext /\ UNCHANGED <<boardVars, labVars, serverVars>>
  /\ UNCHANGED focus

(* OfflineFairness obliges the worker's browser; the behaviours with another *)
(* focus are not fair to it and take part in the invariants only.            *)
McSpec == McInit /\ [][McNext]_mcVars /\ OfflineFairness

=============================================================================
