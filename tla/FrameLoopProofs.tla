-------------------------- MODULE FrameLoopProofs --------------------------
(***************************************************************************)
(* Proofs about the scheduler, for every flash, every set of step costs and*)
(* every set of requests, and about the render loop and the transport      *)
(* controls on top of it, for every core, every number of sub-steps, every *)
(* cap on a frame and every frame rate.                                    *)
(***************************************************************************)
EXTENDS FrameLoop, TLAPS

(***************************************************************************)
(* The scheduler.  One inductive invariant carries its theorems.  Its parts*)
(* say what is true in the middle of a run: the account equals the target, *)
(* the cycles run so far are those stepped since `start', and the clock    *)
(* passed the target by at most the tail of the instruction that reached it.*)
(***************************************************************************)
AccountIsTarget == granted = target

MidRun ==
  mode = "running" =>
    /\ start <= cycles
    /\ executed = cycles - start
    /\ cycles = start \/ (start < target /\ cycles <= target + Slack)
    /\ ~breakHit

Settled ==
  mode = "idle" /\ outcome # "err" =>
    /\ target <= cycles
    /\ retval = executed

CoreInv ==
  /\ TypeOK
  /\ AccountIsTarget
  /\ NeverAhead
  /\ MidRun
  /\ Settled

(* CoreInv holds whatever is asked for; that a run in progress was asked for *)
(* by this client is kept apart, for the clients that ask for other amounts. *)
AskIsKnown == mode = "running" => ask \in Asks

IInv == CoreInv /\ AskIsKnown

(* The initial state satisfies the inductive invariant. *)
LEMMA InitIInv == Init => IInv
<1> SUFFICES ASSUME Init PROVE IInv
  OBVIOUS
<1>1. pc \in Pcs /\ breaks \subseteq Flash
  BY SchedulerAssumption DEF SchedulerAssumption, Init, Pcs
<1>2. breakHit \in BOOLEAN /\ ~breakHit
  BY DEF Init
<1>3. TypeOK
  BY <1>1, <1>2 DEF Init, TypeOK
<1>4. AccountIsTarget /\ NeverAhead /\ MidRun /\ Settled /\ AskIsKnown
  BY SchedulerAssumption
     DEF SchedulerAssumption, Init, AccountIsTarget, NeverAhead, MidRun, Settled,
         AskIsKnown, Slack
<1>5. QED
  BY <1>3, <1>4 DEF IInv, CoreInv

(* Every pass through the loop of run_cycles preserves it. *)
LEMMA LoopCoreInv == CoreInv /\ Loop => CoreInv'
<1> SUFFICES ASSUME CoreInv, Loop PROVE CoreInv'
  OBVIOUS
<1> USE SchedulerAssumption DEF SchedulerAssumption, CoreInv, Pcs, Slack, InBudget, Return
<1>1. CASE RunBreak
  <2>1. TypeOK'
    BY <1>1 DEF RunBreak, TypeOK, AccountIsTarget, MidRun
  <2>2. AccountIsTarget' /\ NeverAhead' /\ MidRun' /\ Settled'
    BY <1>1 DEF RunBreak, TypeOK, AccountIsTarget, NeverAhead, MidRun, Settled
  <2>3. QED BY <2>1, <2>2
<1>2. CASE \E c \in StepCosts : RunStep(c)
  <2>1. PICK c \in StepCosts : RunStep(c)
    BY <1>2
  <2>2. c \in 1..MaxStepCost
    BY <2>1
  <2>3. TypeOK'
    BY <2>1, <2>2 DEF RunStep, TypeOK
  <2>4. AccountIsTarget' /\ NeverAhead' /\ MidRun' /\ Settled'
    BY <2>1, <2>2
       DEF RunStep, TypeOK, AccountIsTarget, NeverAhead, MidRun, Settled
  <2>5. QED BY <2>3, <2>4
<1>3. CASE RunFail
  BY <1>3
     DEF RunFail, TypeOK, AccountIsTarget, NeverAhead, MidRun, Settled
<1>4. CASE RunDone
  BY <1>4
     DEF RunDone, TypeOK, AccountIsTarget, NeverAhead, MidRun, Settled
<1>5. QED
  BY <1>1, <1>2, <1>3, <1>4 DEF Loop

(* So does the start of a run, whatever it asks for. *)
LEMMA RunCyclesCoreInv ==
  ASSUME NEW n \in Nat, CoreInv, RunCycles(n)
  PROVE  CoreInv'
<1> USE SchedulerAssumption
    DEF SchedulerAssumption, CoreInv, TypeOK, AccountIsTarget, NeverAhead,
        MidRun, Settled, Pcs, Slack
<1>1. breakHit' \in BOOLEAN /\ ~breakHit'
  BY DEF RunCycles
<1>2. TypeOK'
  BY <1>1 DEF RunCycles
<1>3. AccountIsTarget' /\ NeverAhead' /\ MidRun' /\ Settled'
  BY <1>1 DEF RunCycles
<1>4. QED
  BY <1>2, <1>3

(* ... a single step ... *)
LEMMA StepOneCoreInv ==
  ASSUME NEW c \in StepCosts, CoreInv, StepOne(c)
  PROVE  CoreInv'
<1>1. c \in 1..MaxStepCost /\ MaxStepCost \in Nat
  BY SchedulerAssumption DEF SchedulerAssumption
<1>2. QED
  BY <1>1 DEF StepOne, CoreInv, TypeOK, AccountIsTarget, NeverAhead, MidRun,
              Settled, Pcs, Slack

(* ... a reset ... *)
LEMMA ResetCoreInv == CoreInv /\ Reset => CoreInv'
<1> SUFFICES ASSUME CoreInv, Reset PROVE CoreInv'
  OBVIOUS
<1> USE SchedulerAssumption
    DEF SchedulerAssumption, CoreInv, TypeOK, AccountIsTarget, NeverAhead,
        MidRun, Settled, Pcs, Slack
<1>1. breakHit' \in BOOLEAN
  BY DEF Reset
<1>2. pc' \in Pcs /\ breaks' \subseteq Flash
  BY DEF Reset
<1>3. TypeOK'
  BY <1>1, <1>2 DEF Reset
<1>4. AccountIsTarget' /\ NeverAhead' /\ MidRun' /\ Settled'
  BY DEF Reset
<1>5. QED
  BY <1>3, <1>4

(* ... and an edit of the breakpoints. *)
LEMMA EditBreaksCoreInv ==
  ASSUME NEW b \in SUBSET Flash, CoreInv, EditBreaks(b)
  PROVE  CoreInv'
BY DEF EditBreaks, history, CoreInv, TypeOK, AccountIsTarget, NeverAhead,
       MidRun, Settled

(* Every operation of the core preserves it. *)
LEMMA ClientIInv == IInv /\ Client => IInv'
<1> SUFFICES ASSUME IInv, Client PROVE IInv'
  OBVIOUS
<1> USE DEF IInv, AskIsKnown
<1>1. CASE \E n \in Asks : RunCycles(n)
  <2>1. PICK n \in Asks : RunCycles(n)
    BY <1>1
  <2>2. n \in Nat
    BY SchedulerAssumption DEF SchedulerAssumption
  <2>3. QED
    BY <2>1, <2>2, RunCyclesCoreInv DEF RunCycles
<1>2. CASE \E c \in StepCosts : StepOne(c)
  BY <1>2, StepOneCoreInv DEF StepOne
<1>3. CASE Reset
  BY <1>3, ResetCoreInv DEF Reset
<1>4. CASE \E a \in Pcs : SetPc(a) \/ SetBreak(a) \/ ClearBreak(a)
  BY <1>4 DEF SetPc, SetBreak, ClearBreak, EditBreaks, history, CoreInv, TypeOK,
              AccountIsTarget, NeverAhead, MidRun, Settled
<1>5. CASE ClearBreaks
  BY <1>5 DEF ClearBreaks, EditBreaks, history, CoreInv, TypeOK,
              AccountIsTarget, NeverAhead, MidRun, Settled
<1>6. QED
  BY <1>1, <1>2, <1>3, <1>4, <1>5 DEF Client

LEMMA LoopIInv == IInv /\ Loop => IInv'
<1> SUFFICES ASSUME IInv, Loop PROVE AskIsKnown'
  BY LoopCoreInv DEF IInv
<1>1. QED
  BY DEF IInv, AskIsKnown, Loop, RunBreak, RunStep, RunFail, RunDone, Return, InBudget

LEMMA StutterCoreInv == CoreInv /\ UNCHANGED vars => CoreInv'
  BY DEF CoreInv, TypeOK, AccountIsTarget, NeverAhead, MidRun, Settled, vars

LEMMA StepIInv == IInv /\ [Next]_vars => IInv'
<1>1. IInv /\ UNCHANGED vars => IInv'
  BY StutterCoreInv DEF IInv, AskIsKnown, vars
<1>2. QED
  BY <1>1, LoopIInv, ClientIInv DEF Next

LEMMA Inductive == Spec => []IInv
  BY InitIInv, StepIInv, PTL DEF Spec

(* The types of the scheduler's state. *)
THEOREM TypeCorrect == Spec => []TypeOK
<1>1. IInv => TypeOK
  BY DEF IInv, CoreInv
<1>2. QED
  BY <1>1, Inductive, PTL

(* No drift: whatever the sequence of calls, breakpoints, failures and      *)
(* single steps, the clock is never further ahead of the account than one   *)
(* instruction can reach, and a call that returned without an error has run *)
(* every cycle of it.                                                       *)
THEOREM NeverDrifts == Spec => []NoDrift
<1>1. IInv => NoDrift
  BY DEF IInv, CoreInv, AccountIsTarget, Settled, NeverBehind, NoDrift
<1>2. QED
  BY <1>1, Inductive, PTL

(* A call that did not fail returns the number of cycles it ran. *)
THEOREM ReturnIsExact == Spec => []ReturnsCyclesRunUnlessFailed
<1>1. IInv => ReturnsCyclesRunUnlessFailed
  BY DEF IInv, CoreInv, Settled, ReturnsCyclesRunUnlessFailed
<1>2. QED
  BY <1>1, Inductive, PTL

(* break_hit is raised by a run exactly when it stops at a marked address   *)
(* with budget left, and the unreached budget is gone.                      *)
THEOREM BreakHitIsExact == Spec => HaltsWhereItSays
<1> DEFINE Halts == mode = "running" /\ mode' = "idle" =>
        /\ breakHit' <=> pc' \in breaks /\ cycles < target
        /\ breakHit' => target' = cycles'
<1>1. IInv /\ [Next]_vars => [Halts]_vars
  <2> SUFFICES ASSUME IInv, Next, mode = "running", mode' = "idle"
               PROVE  Halts
    OBVIOUS
  <2> USE DEF IInv, CoreInv, MidRun, TypeOK
  <2>1. Loop
    BY DEF Next, Client, RunCycles, StepOne, Reset, SetPc, SetBreak,
           ClearBreak, ClearBreaks, EditBreaks
  <2>2. CASE RunBreak
    BY <2>2 DEF RunBreak, InBudget, Return
  <2>3. CASE \E c \in StepCosts : RunStep(c)
    BY <2>3 DEF RunStep
  <2>4. CASE RunFail
    BY <2>4 DEF RunFail, InBudget, Return
  <2>5. CASE RunDone
    BY <2>5 DEF RunDone, Return
  <2>6. QED
    BY <2>1, <2>2, <2>3, <2>4, <2>5 DEF Loop
<1>2. QED
  BY <1>1, Inductive, PTL DEF Spec, HaltsWhereItSays

----------------------------------------------------------------------------
(* The scheduler implements the contract                                    *)

(* Between two calls nothing the contract sees has changed. *)
LEMMA InvisibleStep ==
  ASSUME UNCHANGED <<mode, start, target, ask>>,
         mode = "running" \/ UNCHANGED cycles
  PROVE  UNCHANGED Contract!vars
  BY DEF Contract!vars

(* Every pass through the loop is invisible, or ends the request. *)
LEMMA LoopImplements ==
  IInv /\ Loop => Contract!Next \/ UNCHANGED Contract!vars
<1> SUFFICES ASSUME IInv, Loop
             PROVE  Contract!Next \/ UNCHANGED Contract!vars
  OBVIOUS
<1> USE DEF IInv, CoreInv, AskIsKnown, TypeOK, MidRun, Slack, InBudget, Return
<1>1. CASE RunBreak
  <2>1. Contract!Halt(ask)
    BY <1>1 DEF RunBreak, Contract!Halt
  <2>2. ask \in Asks
    BY <1>1 DEF RunBreak
  <2>3. QED
    BY <2>1, <2>2 DEF Contract!Next
<1>2. CASE \E c \in StepCosts : RunStep(c)
  BY <1>2, InvisibleStep DEF RunStep
<1>3. CASE RunFail
  <2>1. Contract!Fail(ask)
    BY <1>3 DEF RunFail, Contract!Fail
  <2>2. ask \in Asks
    BY <1>3 DEF RunFail
  <2>3. QED
    BY <2>1, <2>2 DEF Contract!Next
<1>4. CASE RunDone
  <2>1. Contract!Serve(ask)
    BY <1>4 DEF RunDone, Contract!Serve
  <2>2. ask \in Asks
    BY <1>4 DEF RunDone
  <2>3. QED
    BY <2>1, <2>2 DEF Contract!Next
<1>5. QED
  BY <1>1, <1>2, <1>3, <1>4 DEF Loop

(* Every other operation is a step of the contract or invisible to it. *)
LEMMA ClientImplements ==
  IInv /\ Client => Contract!Next \/ UNCHANGED Contract!vars
<1> SUFFICES ASSUME IInv, Client
             PROVE  Contract!Next \/ UNCHANGED Contract!vars
  OBVIOUS
<1> USE SchedulerAssumption
    DEF SchedulerAssumption, IInv, CoreInv, TypeOK, Slack
<1>1. CASE \E n \in Asks : RunCycles(n)
  <2>1. PICK n \in Asks : RunCycles(n)
    BY <1>1
  <2>2. n \in Nat
    OBVIOUS
  <2>3. UNCHANGED Contract!vars
    BY <2>1, <2>2 DEF RunCycles, Contract!vars
  <2>4. QED
    BY <2>3
<1>2. CASE \E c \in StepCosts : StepOne(c)
  <2>1. PICK c \in StepCosts : StepOne(c)
    BY <1>2
  <2>2. c \in 1..MaxStepCost
    OBVIOUS
  <2>3. Contract!Manual
    BY <2>1, <2>2 DEF StepOne, Contract!Manual
  <2>4. QED
    BY <2>3 DEF Contract!Next
<1>3. CASE Reset
  <2>1. Contract!Restart
    BY <1>3 DEF Reset, Contract!Restart
  <2>2. QED
    BY <2>1 DEF Contract!Next
<1>4. CASE \E a \in Pcs : SetPc(a) \/ SetBreak(a) \/ ClearBreak(a)
  BY <1>4, InvisibleStep
     DEF SetPc, SetBreak, ClearBreak, EditBreaks, history
<1>5. CASE ClearBreaks
  BY <1>5, InvisibleStep DEF ClearBreaks, EditBreaks, history
<1>6. QED
  BY <1>1, <1>2, <1>3, <1>4, <1>5 DEF Client

(* run_cycles with its loop implements the one-step request: a client that  *)
(* only sees the clock between calls cannot tell them apart.                *)
THEOREM SchedulerImplementsContract == Spec => ImplementsContract
<1>1. Init => Contract!Init
  BY DEF Init, Contract!Init
<1>2. IInv /\ [Next]_vars => [Contract!Next]_(Contract!vars)
  <2>1. UNCHANGED vars => UNCHANGED Contract!vars
    BY DEF vars, Contract!vars
  <2>2. QED
    BY <2>1, LoopImplements, ClientImplements DEF Next
<1>3. QED
  BY <1>1, <1>2, Inductive, PTL DEF Spec, ImplementsContract, Contract!Spec

(***************************************************************************)
(* The render loop.  The core's part of its inductive invariant is CoreInv,*)
(* which holds for any amount asked for.  The page's part says, place by   *)
(* place in frame(), what the core has run for the frame, and what the calls*)
(* that are still to come may add to its target.                           *)
(***************************************************************************)
Places == {"idle", "sub", "subRet", "topRet", "end", "hexClear", "step"}

FrameTypes ==
  /\ running \in BOOLEAN /\ excused \in BOOLEAN /\ brk \in BOOLEAN
  /\ phase \in Places
  /\ cycleBudget \in Nat /\ wanted \in Nat /\ wallTime \in Nat
  /\ want \in Nat /\ per \in Nat /\ left \in Nat /\ ran \in Nat
  /\ frameRan \in Nat

(* The core runs only while frame() waits for it. *)
CoreIsCalled == mode = "running" => phase \in {"subRet", "topRet"}

(* A stop at a breakpoint, as long as this frame still has to act on it. *)
StoppedAtMark == mode = "idle" /\ pc \in breaks /\ target = cycles

StopIsRemembered ==
  /\ phase \in {"subRet", "topRet"} /\ mode = "idle" /\ breakHit => StoppedAtMark
  /\ phase \in {"sub", "end"} /\ brk => StoppedAtMark

(* While the account is open nothing has happened that excuses a frame. *)
NothingHappened ==
  ~excused =>
    /\ outcome \in {"none", "ok"}
    /\ stray = 0
    /\ phase # "step"
    /\ phase \in {"sub", "subRet", "topRet", "end"} => ~brk
    /\ phase \in {"subRet", "topRet"} => ~breakHit

(* Where the target stands relative to the clock when the frame began. *)
Progress == target - (cycles - frameRan)

FrameAccount ==
  ~excused =>
    /\ phase = "sub" =>
         /\ frameRan = ran
         /\ Progress + left * per <= want
    /\ phase = "subRet" =>
         /\ frameRan = ran + executed
         /\ Progress + (left - 1) * per <= want
    /\ phase = "topRet" =>
         /\ frameRan = ran + executed
         /\ Progress \in (want - Slack)..want
    /\ phase = "end" =>
         frameRan \in (want - Slack)..(want + Slack)

(* In the sub-step loop a call is due as long as left > 0. *)
CallsAreDue == phase = "subRet" => left > 0

FrameInv ==
  /\ FrameTypes
  /\ CoreIsCalled
  /\ StopIsRemembered
  /\ NothingHappened
  /\ FrameAccount
  /\ CallsAreDue
  /\ FractionsCarried
  /\ NoHiddenBreakpoint

Inv == CoreInv /\ FrameInv

(* Whole cycles and the fraction that is left make up the budget, and the   *)
(* fraction is less than a cycle.                                           *)
LEMMA Carry ==
  ASSUME NEW b \in Nat
  PROVE  /\ Whole(b) \in Nat /\ Rest(b) \in Nat
         /\ b = Den * Whole(b) + Rest(b)
<1>1. Den \in Nat /\ Den > 0
  BY FrameAssumption DEF FrameAssumption
<1>2. Whole(b) \in Nat /\ Den * Whole(b) <= b
  BY <1>1 DEF Whole
<1>3. Den * Whole(b) \in Nat
  BY <1>1, <1>2
<1>4. QED
  BY <1>1, <1>2, <1>3 DEF Rest

(* The equal shares of a frame never ask for more than the frame wants. *)
LEMMA Shares ==
  ASSUME NEW w \in Nat, w # 0
  PROVE  LET n == Least(SUBSTEPS, w)
             p == Most(1, w \div n)
         IN  n \in Nat /\ p \in Nat /\ n * p <= w
<1> DEFINE n == Least(SUBSTEPS, w)
           p == Most(1, w \div n)
<1>1. n \in Nat /\ n > 0 /\ n <= w
  BY FrameAssumption DEF FrameAssumption, Least
<1> HIDE DEF n
<1>2. w \div n \in Nat /\ n * (w \div n) <= w /\ w \div n >= 1
  BY <1>1
<1>3. p = w \div n
  BY <1>2 DEF Most
<1>4. QED
  BY <1>1, <1>2, <1>3 DEF n

----------------------------------------------------------------------------
(* The core's part                                                          *)

LEMMA InitInv == FrameInit => Inv
<1> SUFFICES ASSUME FrameInit PROVE Inv
  OBVIOUS
<1>1. CoreInv
  BY InitIInv DEF FrameInit, IInv
<1>2. FrameTypes
  BY DEF FrameInit, FrameTypes, Places
<1>3. CoreIsCalled /\ StopIsRemembered /\ CallsAreDue
  BY DEF FrameInit, Init, CoreIsCalled, StopIsRemembered, CallsAreDue
<1>4. NothingHappened /\ FrameAccount
  BY DEF FrameInit, Init, NothingHappened, FrameAccount
<1>5. FractionsCarried
  BY FrameAssumption DEF FrameInit, FractionsCarried, FrameAssumption
<1>6. NoHiddenBreakpoint
  BY DEF FrameInit, Init, NoHiddenBreakpoint
<1>7. QED
  BY <1>1, <1>2, <1>3, <1>4, <1>5, <1>6 DEF Inv, FrameInv

(* Every step of the page moves the core by operations of the core's own,   *)
(* and so preserves what is known of it.                                    *)
LEMMA CoreKept == Inv /\ FrameNext => CoreInv'
<1> SUFFICES ASSUME Inv, FrameNext PROVE CoreInv'
  OBVIOUS
<1> USE DEF Inv
<1>1. ASSUME UNCHANGED vars PROVE CoreInv'
  BY <1>1, StutterCoreInv
<1>2. CASE \E dt \in FrameTimes : FrameBegin(dt)
  BY <1>2, <1>1 DEF FrameBegin
<1>3. CASE FrameStep
  <2>1. CASE SubCall
    <3>1. per \in Nat /\ RunCycles(per)
      BY <2>1 DEF SubCall, FrameInv, FrameTypes
    <3>2. QED
      BY <3>1, RunCyclesCoreInv
  <2>2. CASE CoreLoop
    BY <2>2, LoopCoreInv DEF CoreLoop
  <2>3. CASE TopUpCall
    <3>1. TopUpAmount \in Nat /\ RunCycles(TopUpAmount)
      BY <2>3 DEF TopUpCall, TopUpAmount, FrameInv, FrameTypes
    <3>2. QED
      BY <3>1, RunCyclesCoreInv
  <2>4. CASE SubReturn \/ TopUpReturn \/ NoTopUp \/ FrameEnd \/ StepEnd
    BY <2>4, <1>1 DEF SubReturn, TopUpReturn, NoTopUp, FrameEnd, StepEnd
  <2>5. CASE AfterHexClear
    BY <2>5, EditBreaksCoreInv DEF AfterHexClear, ClearBreaks
  <2>6. CASE StepPass
    BY <2>6, <1>1, StepOneCoreInv DEF StepPass
  <2>7. QED
    BY <1>3, <2>1, <2>2, <2>3, <2>4, <2>5, <2>6 DEF FrameStep
<1>4. CASE User
  <2>1. CASE Play
    BY <2>1, <1>1, StepOneCoreInv DEF Play
  <2>2. CASE Pause \/ \E n \in StepBursts : StepBegin(n)
    BY <2>2, <1>1 DEF Pause, StepBegin
  <2>3. CASE Stop \/ LoadHex
    BY <2>3, ResetCoreInv DEF Stop, LoadHex
  <2>4. CASE ReloadCore
    <3> USE SchedulerAssumption DEF SchedulerAssumption, CoreInv
    <3>1. breakHit' \in BOOLEAN /\ pc' \in Pcs /\ breaks' \subseteq Flash
      BY <2>4 DEF ReloadCore, Pcs
    <3>2. /\ cycles' = 0 /\ target' = 0 /\ retval' = 0 /\ ask' = 0
          /\ outcome' = "none" /\ executed' = 0 /\ granted' = 0 /\ stray' = 0
          /\ mode' = "idle" /\ start' = start /\ start \in Nat
      BY <2>4 DEF ReloadCore, HandlerFree, TypeOK
    <3>3. TypeOK'
      BY <3>1, <3>2 DEF TypeOK
    <3>4. AccountIsTarget' /\ NeverAhead' /\ MidRun' /\ Settled'
      BY <3>2 DEF AccountIsTarget, NeverAhead, MidRun, Settled, Slack
    <3>5. QED
      BY <3>3, <3>4
  <2>5. CASE \E a \in Flash : ToggleBreak(a)
    <3>1. PICK a \in Flash : ToggleBreak(a)
      BY <2>5
    <3>2. breaks \subseteq Flash
      BY DEF CoreInv, TypeOK
    <3>3. \E b \in SUBSET Flash : EditBreaks(b)
      BY <3>1, <3>2 DEF ToggleBreak, SetBreak, ClearBreak
    <3>4. QED
      BY <3>3, EditBreaksCoreInv
  <2>6. QED
    BY <1>4, <2>1, <2>2, <2>3, <2>4, <2>5 DEF User
<1>5. QED
  BY <1>2, <1>3, <1>4 DEF FrameNext

----------------------------------------------------------------------------
(* The page's part                                                          *)

(* A frame begins with the clock at or past the target, and its equal       *)
(* shares add up to no more than it wants.                                  *)
LEMMA FrameBeginInv ==
  ASSUME Inv, NEW dt \in FrameTimes, FrameBegin(dt)
  PROVE  FrameInv'
<1> DEFINE b == cycleBudget + dt
           w == Least(Whole(b), WantCap)
           n == Least(SUBSTEPS, w)
           p == Most(1, w \div n)
<1> USE DEF Inv, FrameInv
<1>1. b \in Nat /\ dt \in Nat /\ cycleBudget \in Nat
  BY FrameAssumption DEF FrameAssumption, FrameTypes
<1>2. Whole(b) \in Nat /\ Rest(b) \in Nat /\ b = Den * Whole(b) + Rest(b)
  BY <1>1, Carry
<1>3. w \in Nat /\ w <= Whole(b)
  BY <1>2, FrameAssumption DEF FrameAssumption, Least
<1>4. w # 0 => n \in Nat /\ p \in Nat /\ n * p <= w
  BY <1>3, Shares
<1>5. /\ phase = "idle" /\ mode = "idle"
      /\ UNCHANGED <<vars, running, breakSet>>
      /\ cycleBudget' = Rest(b)
  BY DEF FrameBegin, HandlerFree
<1>6. \/ (excused \/ w < Whole(b)) /\ AccountClosed
      \/ /\ ~excused /\ w = Whole(b) /\ UNCHANGED excused
         /\ wallTime' = wallTime + dt /\ wanted' = wanted + w /\ frameRan' = 0
  BY <1>2, <1>3 DEF FrameBegin
<1>7. \/ UNCHANGED <<phase, locals>>
      \/ /\ phase' = "sub" /\ want' = w /\ left' = n /\ per' = p
         /\ ran' = 0 /\ brk' = FALSE /\ w # 0
  BY DEF FrameBegin
<1>8. b = cycleBudget + dt
  OBVIOUS
<1> HIDE DEF b, w, n, p
<1>9. frameRan' = 0 /\ (excused' \/ ~excused)
  BY <1>6 DEF AccountClosed
<1>10. FrameTypes'
  <2>1. running' \in BOOLEAN /\ excused' \in BOOLEAN /\ brk' \in BOOLEAN
    BY <1>5, <1>6, <1>7 DEF FrameTypes, AccountClosed, locals
  <2>2. cycleBudget' \in Nat /\ wanted' \in Nat /\ wallTime' \in Nat
    BY <1>1, <1>2, <1>3, <1>5, <1>6 DEF FrameTypes, AccountClosed
  <2>3. /\ want' \in Nat /\ per' \in Nat /\ left' \in Nat /\ ran' \in Nat
        /\ phase' \in Places
    BY <1>3, <1>4, <1>7 DEF FrameTypes, locals, Places
  <2>4. QED
    BY <1>9, <2>1, <2>2, <2>3 DEF FrameTypes
<1>11. CoreIsCalled' /\ NoHiddenBreakpoint'
  BY <1>5, <1>7 DEF CoreIsCalled, NoHiddenBreakpoint, vars, locals
<1>12. phase' \in {"idle", "sub"} /\ (phase' = "sub" => ~brk')
  BY <1>5, <1>7 DEF locals
<1>13. StopIsRemembered' /\ CallsAreDue'
  BY <1>12 DEF StopIsRemembered, CallsAreDue
<1>14. NothingHappened'
  BY <1>5, <1>9, <1>12 DEF NothingHappened, vars
<1>15. FrameAccount'
  <2> SUFFICES ASSUME ~excused', phase' = "sub"
               PROVE  frameRan' = ran' /\ Progress' + left' * per' <= want'
    BY <1>12 DEF FrameAccount
  <2>1. phase' # phase /\ ~excused
    BY <1>5, <1>9
  <2>2. want' = w /\ left' = n /\ per' = p /\ ran' = 0 /\ n * p <= w
    BY <2>1, <1>4, <1>7
  <2>3. outcome # "err" /\ target <= cycles /\ target \in Nat /\ cycles \in Nat
    BY <2>1, <1>5 DEF NothingHappened, CoreInv, Settled, TypeOK
  <2>4. Progress' = target - cycles
    BY <2>3, <1>5, <1>9 DEF Progress, vars
  <2>5. n * p \in Nat
    BY <2>1, <1>4, <1>7
  <2>6. QED
    BY <2>2, <2>3, <2>4, <2>5, <1>3, <1>9
<1>16. FractionsCarried'
  <2> SUFFICES ASSUME ~excused'
               PROVE  wallTime' = Den * wanted' + cycleBudget'
    BY DEF FractionsCarried
  <2>1. /\ wallTime' = wallTime + dt /\ wanted' = wanted + w
        /\ w = Whole(b) /\ wallTime = Den * wanted + cycleBudget
    BY <1>6 DEF AccountClosed, FractionsCarried
  <2>2. Den \in Nat /\ wanted \in Nat
    BY FrameAssumption DEF FrameAssumption, FrameTypes
  <2>3. Den * (wanted + w) = Den * wanted + Den * w
    BY <2>2, <1>3
  <2>4. Den * wanted \in Nat /\ Den * w \in Nat
    BY <2>2, <1>3
  <2>5. b = Den * w + cycleBudget' /\ cycleBudget' \in Nat
    BY <2>1, <1>2, <1>5
  <2>6. wallTime' = Den * wanted + b
    BY <2>1, <2>4, <1>1, <1>8
  <2>7. QED
    BY <2>1, <2>3, <2>4, <2>5, <2>6
<1>17. QED
  BY <1>10, <1>11, <1>13, <1>14, <1>15, <1>16

(* The page calls the core for the next share, or for what is left over.    *)
LEMMA SubCallInv == Inv /\ SubCall => FrameInv'
<1> SUFFICES ASSUME Inv, SubCall PROVE FrameInv'
  OBVIOUS
<1> USE DEF Inv, FrameInv
<1>1. /\ phase = "sub" /\ mode = "idle" /\ left > 0 /\ ~brk
      /\ phase' = "subRet" /\ mode' = "running"
      /\ ~breakHit' /\ target' = target + per /\ executed' = 0
      /\ UNCHANGED <<cycles, breaks, outcome, stray, controls, locals, account>>
  BY DEF SubCall, RunCycles
<1>2. FrameTypes'
  BY <1>1 DEF FrameTypes, Places, controls, locals, account
<1>3. CoreIsCalled' /\ StopIsRemembered' /\ CallsAreDue' /\ NoHiddenBreakpoint'
  BY <1>1 DEF CoreIsCalled, StopIsRemembered, CallsAreDue, NoHiddenBreakpoint,
              controls, locals
<1>4. NothingHappened'
  BY <1>1 DEF NothingHappened, locals, account
<1>5. FrameAccount'
  <2> SUFFICES ASSUME ~excused'
               PROVE  /\ frameRan' = ran' + executed'
                      /\ Progress' + (left' - 1) * per' <= want'
    BY <1>1 DEF FrameAccount
  <2>1. /\ frameRan = ran /\ Progress + left * per <= want
        /\ UNCHANGED <<frameRan, ran, left, per, want, cycles>>
    BY <1>1 DEF FrameAccount, locals, account
  <2>2. /\ left \in Nat /\ per \in Nat /\ want \in Nat /\ ran \in Nat
        /\ frameRan \in Nat /\ cycles \in Nat /\ target \in Nat
    BY DEF FrameTypes, CoreInv, TypeOK
  <2>3. (left - 1) * per = left * per - per
    BY <2>2
  <2>4. left * per \in Nat
    BY <2>2
  <2>5. QED
    BY <1>1, <2>1, <2>2, <2>3, <2>4 DEF Progress
<1>6. FractionsCarried'
  BY <1>1 DEF FractionsCarried, account, controls
<1>7. QED
  BY <1>2, <1>3, <1>4, <1>5, <1>6

LEMMA TopUpCallInv == Inv /\ TopUpCall => FrameInv'
<1> SUFFICES ASSUME Inv, TopUpCall PROVE FrameInv'
  OBVIOUS
<1> USE DEF Inv, FrameInv
<1>1. /\ phase = "sub" /\ mode = "idle" /\ ~brk /\ ran < want
      /\ phase' = "topRet" /\ mode' = "running"
      /\ ~breakHit' /\ target' = target + (want - ran) /\ executed' = 0
      /\ UNCHANGED <<cycles, breaks, outcome, stray, controls, locals, account>>
  BY DEF TopUpCall, SubLoopOver, RunCycles, TopUpAmount
<1>2. FrameTypes'
  BY <1>1 DEF FrameTypes, Places, controls, locals, account
<1>3. CoreIsCalled' /\ StopIsRemembered' /\ CallsAreDue' /\ NoHiddenBreakpoint'
  BY <1>1 DEF CoreIsCalled, StopIsRemembered, CallsAreDue, NoHiddenBreakpoint,
              controls, locals
<1>4. NothingHappened'
  BY <1>1 DEF NothingHappened, locals, account
<1>5. FrameAccount'
  <2> SUFFICES ASSUME ~excused'
               PROVE  /\ frameRan' = ran' + executed'
                      /\ Progress' \in (want' - Slack)..want'
    BY <1>1 DEF FrameAccount
  <2>1. /\ frameRan = ran /\ ~excused /\ UNCHANGED <<frameRan, ran, want, cycles>>
    BY <1>1 DEF FrameAccount, locals, account
  <2>2. /\ want \in Nat /\ ran \in Nat /\ cycles \in Nat /\ target \in Nat
    BY DEF FrameTypes, CoreInv, TypeOK
  <2>3. target <= cycles /\ cycles <= target + Slack /\ Slack \in Nat
    BY <1>1, <2>1, SchedulerAssumption
       DEF SchedulerAssumption, NothingHappened, CoreInv, Settled, NeverAhead,
           AccountIsTarget, TypeOK, Slack
  <2>4. Progress' = want - (cycles - target)
    BY <1>1, <2>1, <2>2 DEF Progress
  <2>5. QED
    BY <1>1, <2>1, <2>2, <2>3, <2>4
<1>6. FractionsCarried'
  BY <1>1 DEF FractionsCarried, account, controls
<1>7. QED
  BY <1>2, <1>3, <1>4, <1>5, <1>6

(* The core works for the page: what it runs is run for the frame, and a    *)
(* stop or a failure closes the account.                                    *)
LEMMA CoreLoopInv == Inv /\ CoreLoop => FrameInv'
<1> SUFFICES ASSUME Inv, CoreLoop PROVE FrameInv'
  OBVIOUS
<1> USE DEF Inv, FrameInv
<1>1. /\ mode = "running" /\ ~breakHit /\ phase \in {"subRet", "topRet"}
      /\ UNCHANGED <<breaks, ask, stray, controls, phase, locals>>
  BY DEF CoreLoop, Loop, RunBreak, RunStep, RunFail, RunDone, InBudget,
         CoreInv, MidRun, CoreIsCalled
<1>2. PICK d \in Nat : cycles' = cycles + d /\ executed' = executed + d
  <2>1. CASE \E c \in StepCosts : RunStep(c)
    BY <2>1, SchedulerAssumption DEF SchedulerAssumption, RunStep
  <2>2. CASE RunBreak \/ RunFail \/ RunDone
    <3>1. cycles' = cycles + 0 /\ executed' = executed + 0
      BY <2>2 DEF RunBreak, RunFail, RunDone, CoreInv, TypeOK
    <3>2. QED
      BY <3>1
  <2>3. QED
    BY <2>1, <2>2 DEF CoreLoop, Loop
<1>3. \/ excused' = TRUE /\ frameRan' = 0 /\ wanted' = 0 /\ wallTime' = 0
      \/ /\ ~excused /\ outcome' \notin {"break", "err"}
         /\ frameRan' = frameRan + d
         /\ UNCHANGED <<wanted, wallTime, excused>>
  <2>1. (cycles + d) - cycles = d
    BY DEF CoreInv, TypeOK
  <2>2. QED
    BY <1>2, <2>1 DEF CoreLoop, AccountClosed
<1>4. mode' = "idle" /\ breakHit' => StoppedAtMark'
  BY <1>1 DEF CoreLoop, Loop, RunBreak, RunStep, RunFail, RunDone, InBudget,
              Return, StoppedAtMark
<1>5. /\ target' = target \/ outcome' = "break"
      /\ breakHit' = breakHit \/ outcome' = "break"
      /\ outcome' \in {"ok", "break", "err"} \/ outcome' = outcome
  BY DEF CoreLoop, Loop, RunBreak, RunStep, RunFail, RunDone, Return
<1>6. FrameTypes'
  <2>1. excused' \in BOOLEAN
    BY <1>3 DEF FrameTypes
  <2>2. frameRan' \in Nat /\ wanted' \in Nat /\ wallTime' \in Nat
    BY <1>3 DEF FrameTypes
  <2>3. QED
    BY <1>1, <2>1, <2>2 DEF FrameTypes, controls, locals
<1>7. CoreIsCalled' /\ StopIsRemembered' /\ CallsAreDue' /\ NoHiddenBreakpoint'
  BY <1>1, <1>4 DEF CoreIsCalled, StopIsRemembered, CallsAreDue,
                    NoHiddenBreakpoint, controls, locals
<1>8. NothingHappened'
  BY <1>1, <1>3, <1>5 DEF NothingHappened, locals
<1>9. FrameAccount'
  <2> SUFFICES ASSUME ~excused' PROVE FrameAccount'
    BY DEF FrameAccount
  <2>1. ~excused /\ target' = target /\ frameRan' = frameRan + d
    BY <1>3, <1>5
  <2>2. Progress' = Progress
    <3>1. frameRan \in Nat /\ target \in Nat /\ cycles \in Nat
      BY DEF FrameTypes, CoreInv, TypeOK
    <3>2. QED
      BY <2>1, <3>1, <1>2 DEF Progress
  <2>3. frameRan = ran + executed => frameRan' = ran + executed'
    BY <2>1, <1>2 DEF FrameTypes, CoreInv, TypeOK
  <2>4. QED
    BY <1>1, <2>1, <2>2, <2>3 DEF FrameAccount, locals
<1>10. FractionsCarried'
  BY <1>1, <1>3 DEF FractionsCarried, controls
<1>11. QED
  BY <1>6, <1>7, <1>8, <1>9, <1>10

(* The page takes the answer: what the core says it ran is what it ran.     *)
LEMMA SubReturnInv == Inv /\ SubReturn => FrameInv'
<1> SUFFICES ASSUME Inv, SubReturn PROVE FrameInv'
  OBVIOUS
<1> USE DEF Inv, FrameInv
<1>1. /\ phase = "subRet" /\ mode = "idle" /\ left > 0 /\ phase' = "sub"
      /\ ran' = ran + retval /\ brk' = breakHit /\ left' = left - 1
      /\ UNCHANGED <<vars, controls, want, per, account>>
  BY DEF SubReturn, CallsAreDue
<1>2. FrameTypes'
  <2>1. ran' \in Nat /\ left' \in Nat /\ brk' \in BOOLEAN
    BY <1>1 DEF FrameTypes, CoreInv, TypeOK
  <2>2. QED
    BY <1>1, <2>1 DEF FrameTypes, Places, controls, account
<1>3. CoreIsCalled' /\ StopIsRemembered' /\ CallsAreDue' /\ NoHiddenBreakpoint'
  BY <1>1 DEF CoreIsCalled, StopIsRemembered, StoppedAtMark, CallsAreDue,
              NoHiddenBreakpoint, vars, controls
<1>4. NothingHappened'
  BY <1>1 DEF NothingHappened, vars, account
<1>5. FrameAccount'
  <2> SUFFICES ASSUME ~excused'
               PROVE  /\ frameRan' = ran'
                      /\ Progress' + left' * per' <= want'
    BY <1>1 DEF FrameAccount
  <2>1. /\ ~excused /\ UNCHANGED <<frameRan, cycles, target, per, want>>
    BY <1>1 DEF vars, account
  <2>2. retval = executed
    BY <1>1, <2>1 DEF NothingHappened, CoreInv, Settled
  <2>3. frameRan = ran + executed /\ Progress + (left - 1) * per <= want
    BY <1>1, <2>1 DEF FrameAccount
  <2>4. Progress' = Progress
    BY <2>1 DEF Progress
  <2>5. QED
    BY <1>1, <2>1, <2>2, <2>3, <2>4
<1>6. FractionsCarried'
  BY <1>1 DEF FractionsCarried, account, controls
<1>7. QED
  BY <1>2, <1>3, <1>4, <1>5, <1>6

(* Nothing is left over: the shares have run at least what was wanted, and  *)
(* no more than it and the tail of one instruction.                         *)
LEMMA NoTopUpInv == Inv /\ NoTopUp => FrameInv'
<1> SUFFICES ASSUME Inv, NoTopUp PROVE FrameInv'
  OBVIOUS
<1> USE DEF Inv, FrameInv
<1>1. /\ phase = "sub" /\ mode = "idle" /\ (left = 0 \/ brk) /\ (brk \/ ran >= want)
      /\ phase' = "end"
      /\ UNCHANGED <<vars, controls, locals, account>>
  BY DEF NoTopUp, SubLoopOver
<1>2. FrameTypes'
  BY <1>1 DEF FrameTypes, Places, controls, locals, account
<1>3. CoreIsCalled' /\ StopIsRemembered' /\ CallsAreDue' /\ NoHiddenBreakpoint'
  BY <1>1 DEF CoreIsCalled, StopIsRemembered, StoppedAtMark, CallsAreDue,
              NoHiddenBreakpoint, vars, controls, locals
<1>4. NothingHappened'
  BY <1>1 DEF NothingHappened, vars, locals, account
<1>5. FrameAccount'
  <2> SUFFICES ASSUME ~excused'
               PROVE  frameRan' \in (want' - Slack)..(want' + Slack)
    BY <1>1 DEF FrameAccount
  <2>1. ~excused /\ UNCHANGED <<frameRan, want>>
    BY <1>1 DEF locals, account
  <2>2. ~brk /\ left = 0 /\ ran >= want
    BY <1>1, <2>1 DEF NothingHappened
  <2>3. frameRan = ran /\ Progress + 0 * per <= want
    BY <1>1, <2>1, <2>2 DEF FrameAccount
  <2>4. /\ want \in Nat /\ ran \in Nat /\ per \in Nat
        /\ cycles \in Nat /\ target \in Nat /\ Slack \in Nat
    BY SchedulerAssumption
       DEF SchedulerAssumption, FrameTypes, CoreInv, TypeOK, Slack
  <2>5. cycles <= target + Slack
    BY <2>1, <2>4 DEF NothingHappened, CoreInv, NeverAhead, AccountIsTarget
  <2>6. QED
    BY <2>1, <2>2, <2>3, <2>4, <2>5 DEF Progress
<1>6. FractionsCarried'
  BY <1>1 DEF FractionsCarried, account, controls
<1>7. QED
  BY <1>2, <1>3, <1>4, <1>5, <1>6

(* The top-up has run what was left over, within one instruction.           *)
LEMMA TopUpReturnInv == Inv /\ TopUpReturn => FrameInv'
<1> SUFFICES ASSUME Inv, TopUpReturn PROVE FrameInv'
  OBVIOUS
<1> USE DEF Inv, FrameInv
<1>1. /\ phase = "topRet" /\ mode = "idle" /\ phase' = "end" /\ brk' = breakHit
      /\ UNCHANGED <<vars, controls, want, per, left, ran, account>>
  BY DEF TopUpReturn
<1>2. FrameTypes'
  <2>1. brk' \in BOOLEAN
    BY <1>1 DEF CoreInv, TypeOK
  <2>2. QED
    BY <1>1, <2>1 DEF FrameTypes, Places, controls, account
<1>3. CoreIsCalled' /\ StopIsRemembered' /\ CallsAreDue' /\ NoHiddenBreakpoint'
  BY <1>1 DEF CoreIsCalled, StopIsRemembered, StoppedAtMark, CallsAreDue,
              NoHiddenBreakpoint, vars, controls
<1>4. NothingHappened'
  BY <1>1 DEF NothingHappened, vars, account
<1>5. FrameAccount'
  <2> SUFFICES ASSUME ~excused'
               PROVE  frameRan' \in (want' - Slack)..(want' + Slack)
    BY <1>1 DEF FrameAccount
  <2>1. ~excused /\ UNCHANGED <<frameRan, want>>
    BY <1>1 DEF account
  <2>2. Progress \in (want - Slack)..want
    BY <1>1, <2>1 DEF FrameAccount
  <2>3. /\ want \in Nat /\ frameRan \in Nat
        /\ cycles \in Nat /\ target \in Nat /\ Slack \in Nat
    BY SchedulerAssumption
       DEF SchedulerAssumption, FrameTypes, CoreInv, TypeOK, Slack
  <2>4. target <= cycles /\ cycles <= target + Slack
    BY <1>1, <2>1, <2>3
       DEF NothingHappened, CoreInv, NeverAhead, AccountIsTarget, Settled
  <2>5. QED
    BY <2>1, <2>2, <2>3, <2>4 DEF Progress
<1>6. FractionsCarried'
  BY <1>1 DEF FractionsCarried, account, controls
<1>7. QED
  BY <1>2, <1>3, <1>4, <1>5, <1>6

(* A fresh account owes nothing but the fraction in the budget. *)
LEMMA FreshStart ==
  ASSUME Inv, FreshAccount, UNCHANGED cycleBudget
  PROVE  /\ FractionsCarried' /\ excused' \in BOOLEAN
         /\ frameRan' \in Nat /\ wanted' \in Nat /\ wallTime' \in Nat
<1>1. excused' \in BOOLEAN
  BY DEF FreshAccount
<1>2. Den * 0 = 0 /\ cycleBudget \in Nat
  BY FrameAssumption DEF FrameAssumption, Inv, FrameInv, FrameTypes
<1>3. frameRan' = 0 /\ wanted' = 0 /\ wallTime' = cycleBudget
  BY DEF FreshAccount
<1>4. QED
  BY <1>1, <1>2, <1>3 DEF FractionsCarried

(* A closed one says nothing. *)
LEMMA Closing ==
  ASSUME AccountClosed
  PROVE  /\ FractionsCarried' /\ excused' = TRUE
         /\ frameRan' \in Nat /\ wanted' \in Nat /\ wallTime' \in Nat
BY DEF AccountClosed, FractionsCarried

LEMMA FrameEndInv == Inv /\ FrameEnd => FrameInv'
<1> SUFFICES ASSUME Inv, FrameEnd PROVE FrameInv'
  OBVIOUS
<1> USE DEF Inv, FrameInv
<1>1. /\ phase = "end" /\ mode = "idle" /\ phase' = "idle" /\ NoLocals
      /\ running' = (running /\ ~brk)
      /\ UNCHANGED <<vars, breakSet, cycleBudget, account>>
  BY DEF FrameEnd, CoreIsCalled, CoreInv, TypeOK
<1>2. FrameTypes'
  <2>1. running' \in BOOLEAN /\ brk' \in BOOLEAN
    BY <1>1 DEF FrameTypes, NoLocals
  <2>2. QED
    BY <1>1, <2>1 DEF FrameTypes, Places, NoLocals, account
<1>3. FractionsCarried' /\ NoHiddenBreakpoint'
  BY <1>1 DEF FractionsCarried, NoHiddenBreakpoint, vars, account
<1>4. ~excused' => outcome' \in {"none", "ok"} /\ stray' = 0
  BY <1>1 DEF NothingHappened, vars, account
<1>5. QED
  BY <1>1, <1>2, <1>3, <1>4 DEF vars, CoreIsCalled, StopIsRemembered,
     NothingHappened, FrameAccount, CallsAreDue

(* The rest of a load and of a step burst. *)
LEMMA OtherStepsInv ==
  Inv /\ (AfterHexClear \/ StepPass \/ StepEnd) => FrameInv'
<1> SUFFICES ASSUME Inv, AfterHexClear \/ StepPass \/ StepEnd PROVE FrameInv'
  OBVIOUS
<1> USE DEF Inv, FrameInv
<1>1. CASE AfterHexClear
  <2>1. /\ phase' = "idle" /\ mode' = "idle" /\ phase = "hexClear"
        /\ breaks' = {} /\ breakSet' = {}
        /\ UNCHANGED <<running, cycleBudget, locals, account, outcome, stray>>
    BY <1>1 DEF AfterHexClear, ClearBreaks, EditBreaks, history
  <2>2. FrameTypes'
    BY <2>1 DEF FrameTypes, Places, locals, account
  <2>3. FractionsCarried' /\ NoHiddenBreakpoint'
    BY <2>1 DEF FractionsCarried, NoHiddenBreakpoint, account
  <2>4. ~excused' => outcome' \in {"none", "ok"} /\ stray' = 0
    BY <2>1 DEF NothingHappened, account
  <2>5. QED
    BY <2>1, <2>2, <2>3, <2>4 DEF CoreIsCalled, StopIsRemembered,
       NothingHappened, FrameAccount, CallsAreDue
<1>2. CASE StepPass
  <2>1. /\ phase = "step" /\ phase' = "step" /\ mode = "idle" /\ mode' = "idle"
        /\ left > 0 /\ left' \in {0, left - 1} /\ breaks' = breaks
        /\ UNCHANGED <<controls, want, per, ran, brk, account>>
    BY <1>2 DEF StepPass, StepOne, vars, CoreIsCalled, CoreInv, TypeOK
  <2>2. excused' /\ excused
    BY <2>1 DEF NothingHappened, account
  <2>3. left' \in Nat
    BY <2>1 DEF FrameTypes
  <2>4. FrameTypes'
    BY <2>1, <2>3 DEF FrameTypes, controls, account
  <2>5. FractionsCarried' /\ NoHiddenBreakpoint'
    BY <2>1 DEF FractionsCarried, NoHiddenBreakpoint, controls, account
  <2>6. QED
    BY <2>1, <2>2, <2>4, <2>5 DEF CoreIsCalled, StopIsRemembered,
       NothingHappened, FrameAccount, CallsAreDue
<1>3. CASE StepEnd
  <2>1. /\ phase = "step" /\ phase' = "idle" /\ mode = "idle"
        /\ UNCHANGED <<vars, controls, locals, account>>
    BY <1>3 DEF StepEnd, CoreIsCalled, CoreInv, TypeOK
  <2>2. FrameTypes'
    BY <2>1 DEF FrameTypes, Places, controls, locals, account
  <2>3. FractionsCarried' /\ NoHiddenBreakpoint'
    BY <2>1 DEF FractionsCarried, NoHiddenBreakpoint, vars, controls, account
  <2>4. QED
    BY <2>1, <2>2, <2>3 DEF vars, account, CoreIsCalled, StopIsRemembered,
       NothingHappened, FrameAccount, CallsAreDue
<1>4. QED
  BY <1>1, <1>2, <1>3

(* The transport controls and the debugger. *)
LEMMA UserInv == Inv /\ User => FrameInv'
<1> SUFFICES ASSUME Inv, User PROVE FrameInv'
  OBVIOUS
<1> USE DEF Inv, FrameInv
<1> DEFINE Outside ==
      /\ phase' \in {"idle", "hexClear", "step"} /\ mode' = "idle"
      /\ FrameTypes' /\ FractionsCarried' /\ NoHiddenBreakpoint'
      /\ ~excused' => /\ outcome' \in {"none", "ok"} /\ stray' = 0
                      /\ phase' # "step"
<1>1. ASSUME Outside PROVE FrameInv'
  BY <1>1 DEF CoreIsCalled, StopIsRemembered, NothingHappened, FrameAccount,
              CallsAreDue
<1>2. CASE Play
  <2>1. /\ phase = "idle" /\ phase' = "idle" /\ mode = "idle" /\ mode' = "idle"
        /\ running' = TRUE /\ breaks' = breaks
        /\ UNCHANGED <<breakSet, cycleBudget, locals>>
        /\ AccountClosed \/ UNCHANGED <<vars, account>>
    BY <1>2 DEF Play, HandlerFree, StepOne, vars
  <2>2. FrameTypes' /\ FractionsCarried'
    <3>1. CASE AccountClosed
      BY <2>1, <3>1, Closing DEF FrameTypes, locals
    <3>2. CASE UNCHANGED <<vars, account>>
      BY <2>1, <3>2 DEF FrameTypes, FractionsCarried, locals, account
    <3>3. QED
      BY <2>1, <3>1, <3>2
  <2>3. NoHiddenBreakpoint'
    BY <2>1 DEF NoHiddenBreakpoint
  <2>4. ~excused' => outcome' \in {"none", "ok"} /\ stray' = 0
    BY <2>1 DEF NothingHappened, AccountClosed, vars, account
  <2>5. QED
    BY <1>1, <2>1, <2>2, <2>3, <2>4
<1>3. CASE Pause
  <2>1. /\ phase = "idle" /\ phase' = "idle" /\ mode = "idle"
        /\ running' = FALSE
        /\ UNCHANGED <<vars, breakSet, cycleBudget, locals, account>>
    BY <1>3 DEF Pause, HandlerFree
  <2>2. FrameTypes'
    BY <2>1 DEF FrameTypes, locals, account
  <2>3. FractionsCarried' /\ NoHiddenBreakpoint'
    BY <2>1 DEF FractionsCarried, NoHiddenBreakpoint, vars, account
  <2>4. ~excused' => outcome' \in {"none", "ok"} /\ stray' = 0
    BY <2>1 DEF NothingHappened, vars, account
  <2>5. QED
    BY <1>1, <2>1, <2>2, <2>3, <2>4 DEF vars
<1>4. CASE Stop \/ LoadHex
  <2>1. /\ phase = "idle" /\ phase' \in {"idle", "hexClear"} /\ mode' = "idle"
        /\ running' \in BOOLEAN /\ outcome' = "none" /\ stray' = 0
        /\ FreshAccount
        /\ UNCHANGED <<breaks, breakSet, cycleBudget, locals>>
    BY <1>4 DEF Stop, LoadHex, Reset, HandlerFree
  <2>2. FrameTypes' /\ FractionsCarried'
    BY <2>1, FreshStart DEF FrameTypes, Places, locals
  <2>3. NoHiddenBreakpoint'
    BY <2>1 DEF NoHiddenBreakpoint
  <2>4. QED
    BY <1>1, <2>1, <2>2, <2>3
<1>5. CASE ReloadCore
  <2>1. /\ phase = "idle" /\ phase' = "idle" /\ mode' = "idle"
        /\ outcome' = "none" /\ stray' = 0 /\ breaks' = {}
        /\ FreshAccount
        /\ UNCHANGED <<controls, locals>>
    BY <1>5 DEF ReloadCore, HandlerFree
  <2>2. FrameTypes' /\ FractionsCarried'
    BY <2>1, FreshStart DEF FrameTypes, locals, controls
  <2>3. NoHiddenBreakpoint'
    BY <2>1 DEF NoHiddenBreakpoint
  <2>4. QED
    BY <1>1, <2>1, <2>2, <2>3
<1>6. CASE \E n \in StepBursts : StepBegin(n)
  <2>1. PICK n \in StepBursts : StepBegin(n)
    BY <1>6
  <2>2. n \in Nat
    BY FrameAssumption DEF FrameAssumption
  <2>3. /\ phase = "idle" /\ phase' = "step" /\ mode = "idle"
        /\ running' = FALSE /\ left' = n /\ AccountClosed
        /\ UNCHANGED <<vars, breakSet, cycleBudget, want, per, ran, brk>>
    BY <2>1 DEF StepBegin, HandlerFree
  <2>4. FrameTypes' /\ FractionsCarried'
    BY <2>2, <2>3, Closing DEF FrameTypes, Places
  <2>5. NoHiddenBreakpoint' /\ excused'
    BY <2>3, Closing DEF NoHiddenBreakpoint, vars
  <2>6. QED
    BY <1>1, <2>3, <2>4, <2>5 DEF vars
<1>7. CASE \E a \in Flash : ToggleBreak(a)
  <2>1. PICK a \in Flash : ToggleBreak(a)
    BY <1>7
  <2>2. /\ phase = "idle" /\ phase' = "idle" /\ mode' = "idle"
        /\ UNCHANGED <<running, cycleBudget, locals, account, outcome, stray>>
    BY <2>1 DEF ToggleBreak, HandlerFree, SetBreak, ClearBreak, EditBreaks, history
  <2>3. FrameTypes'
    BY <2>2 DEF FrameTypes, locals, account
  <2>4. FractionsCarried'
    BY <2>2 DEF FractionsCarried, account
  <2>5. NoHiddenBreakpoint'
    BY <2>1, <2>2 DEF NoHiddenBreakpoint, ToggleBreak, SetBreak, ClearBreak,
                      EditBreaks
  <2>6. ~excused' => outcome' \in {"none", "ok"} /\ stray' = 0
    BY <2>2 DEF NothingHappened, account
  <2>7. QED
    BY <1>1, <2>2, <2>3, <2>4, <2>5, <2>6
<1>8. QED
  BY <1>2, <1>3, <1>4, <1>5, <1>6, <1>7 DEF User

----------------------------------------------------------------------------
(* The theorems                                                             *)

LEMMA StepInv == Inv /\ [FrameNext]_allVars => Inv'
<1> SUFFICES ASSUME Inv, [FrameNext]_allVars PROVE Inv'
  OBVIOUS
<1>1. CASE FrameNext
  <2>1. FrameInv'
    BY <1>1, FrameBeginInv, SubCallInv, CoreLoopInv, SubReturnInv, TopUpCallInv,
       TopUpReturnInv, NoTopUpInv, FrameEndInv, OtherStepsInv, UserInv
       DEF FrameNext, FrameStep
  <2>2. QED
    BY <1>1, <2>1, CoreKept DEF Inv
<1>2. CASE UNCHANGED allVars
  <2> USE <1>2 DEF allVars, frameVars, Inv, FrameInv, locals, account, controls
  <2>1. CoreInv'
    BY StutterCoreInv
  <2>2. FrameTypes' /\ FractionsCarried'
    BY DEF FrameTypes, FractionsCarried
  <2>3. CoreIsCalled' /\ StopIsRemembered' /\ CallsAreDue' /\ NoHiddenBreakpoint'
    BY DEF vars, CoreIsCalled, StopIsRemembered, StoppedAtMark, CallsAreDue,
           NoHiddenBreakpoint
  <2>4. NothingHappened' /\ FrameAccount'
    BY DEF vars, NothingHappened, FrameAccount, Progress
  <2>5. QED
    BY <2>1, <2>2, <2>3, <2>4
<1>3. QED
  BY <1>1, <1>2

LEMMA FrameInductive == FrameSpec => []Inv
  BY InitInv, StepInv, PTL DEF FrameSpec

(* Wall-clock time is neither lost nor invented on its way to cycles,       *)
(* whatever the frame rate, the starts and the stops.                       *)
THEOREM FractionsAreCarried == FrameSpec => []FractionsCarried
<1>1. Inv => FractionsCarried
  BY DEF Inv, FrameInv
<1>2. QED
  BY <1>1, FrameInductive, PTL

(* A frame executes what it asked for, within one instruction either way,   *)
(* into however many calls it is cut.                                       *)
THEOREM FramesRunWhatTheyWant == FrameSpec => []FrameRunsWhatItWants
<1>1. Inv => FrameRunsWhatItWants
  BY DEF Inv, FrameInv, FrameAccount, FrameRunsWhatItWants
<1>2. QED
  BY <1>1, FrameInductive, PTL

(* The core never stops at a line the program list does not mark.           *)
THEOREM BreakpointsAreShown == FrameSpec => []NoHiddenBreakpoint
<1>1. Inv => NoHiddenBreakpoint
  BY DEF Inv, FrameInv
<1>2. QED
  BY <1>1, FrameInductive, PTL

(* A frame that ends at a breakpoint leaves the simulation paused in front  *)
(* of the marked instruction, with no unspent budget in the core.           *)
THEOREM BreakpointsPause == FrameSpec => PausesAtBreakpoint
<1> DEFINE Pauses == phase = "end" /\ brk =>
                       ~running' /\ pc' \in breaks /\ target' = cycles'
<1>1. Inv /\ [FrameNext]_allVars => [Pauses]_allVars
  <2> SUFFICES ASSUME Inv, FrameNext, phase = "end", brk PROVE Pauses
    OBVIOUS
  <2>1. mode = "idle" /\ pc \in breaks /\ target = cycles
    BY DEF Inv, FrameInv, StopIsRemembered, StoppedAtMark
  <2>2. FrameEnd
    BY <2>1 DEF FrameNext, FrameStep, User, FrameBegin, SubCall, CoreLoop, Loop,
                RunBreak, RunStep, RunFail, RunDone, InBudget, SubReturn,
                TopUpCall, TopUpReturn, NoTopUp, SubLoopOver, AfterHexClear,
                StepPass, StepEnd, Play, Pause, Stop, LoadHex, ReloadCore,
                StepBegin, ToggleBreak, HandlerFree
  <2>3. QED
    BY <2>1, <2>2 DEF FrameEnd, vars
<1>2. QED
  BY <1>1, FrameInductive, PTL DEF FrameSpec, PausesAtBreakpoint

(* Pressing play in front of a breakpoint always executes something.        *)
THEOREM PlayMakesProgress == FrameSpec => ResumeMakesProgress
<1> DEFINE Resumes == ~running /\ running' /\ phase' = "idle" /\ pc \in breaks =>
                        cycles' > cycles
<1>1. Inv /\ [FrameNext]_allVars => [Resumes]_allVars
  <2> SUFFICES ASSUME Inv, FrameNext, ~running, running', phase' = "idle",
                      pc \in breaks
               PROVE  cycles' > cycles
    OBVIOUS
  <2>1. Play
    BY DEF FrameNext, FrameStep, User, FrameBegin, SubCall, CoreLoop, SubReturn,
           TopUpCall, TopUpReturn, NoTopUp, FrameEnd, AfterHexClear, StepPass,
           StepEnd, Pause, Stop, LoadHex, ReloadCore, StepBegin, ToggleBreak,
           controls
  <2>2. breaks \subseteq breakSet
    BY <2>1 DEF Play, HandlerFree, Inv, FrameInv, NoHiddenBreakpoint
  <2>3. PICK c \in StepCosts : StepOne(c)
    BY <2>1, <2>2 DEF Play
  <2>4. c \in Nat /\ c > 0 /\ cycles \in Nat
    BY SchedulerAssumption DEF SchedulerAssumption, Inv, CoreInv, TypeOK
  <2>5. QED
    BY <2>3, <2>4 DEF StepOne
<1>2. QED
  BY <1>1, FrameInductive, PTL DEF FrameSpec, ResumeMakesProgress

=============================================================================
