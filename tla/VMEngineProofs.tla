--------------------------- MODULE VMEngineProofs ---------------------------
(* Theorems about VMEngine, for every number of calls and every way the    *)
(* guest leaves to the hypervisor.                                         *)
EXTENDS VMEngine, SequenceTheorems, TLAPS

(* A block leaves the queue when it ends, so the one executing is there.   *)
BlockIsQueued == worker # "idle" => vmQueue # <<>>

(* A kernel is loaded into an initialized machine only, and destroying the *)
(* machine forgets both.                                                   *)
LoadedIsInitialized == loaded \/ worker = "load" => initialized

(* The inductive invariant.                                                *)
EngineInv == TypeOK /\ BlockIsQueued /\ LoadedIsInitialized /\ LoopOnLiveMachine

LEMMA InitEstablishesInv == Init => EngineInv
<1>1. <<>> \in Seq(Block) /\ 0 \in 0 .. MaxCalls
  BY EmptySeq, EngineConstants
<1> QED
  BY <1>1 DEF Init, EngineInv, TypeOK, States, BlockIsQueued, LoadedIsInitialized,
              LoopOnLiveMachine

(* What the user interface's thread writes: the state, the running flag,   *)
(* its own step, and a block at the end of the queue.  It touches neither  *)
(* the machine's memory nor the worker's step.                             *)
LEMMA UiKeepsInv ==
  ASSUME EngineInv, UiStep
  PROVE  EngineInv'
<1> USE DEF EngineInv, TypeOK
<1>1. /\ state' \in States /\ running' \in BOOLEAN
      /\ ui' \in {"idle", "stop", "stop flag", "pause", "pause state",
                  "resume", "resume flag"}
      /\ calls' \in 0 .. MaxCalls
      /\ UNCHANGED <<initialized, loaded, worker, ret>>
      /\ vmQueue' = vmQueue \/ \E b \in Block : vmQueue' = Append(vmQueue, b)
  <2>0. ASSUME Called PROVE calls' \in 0 .. MaxCalls
    BY <2>0, EngineConstants DEF Called
  <2>1. CASE Start
    BY <2>0, <2>1 DEF Start, Called, States, Block, machine
  <2>2. CASE Stop
    BY <2>0, <2>2 DEF Stop, Call, Called, SetState, ClearRunning, Cleared, States, machine
  <2>3. CASE Pause
    BY <2>0, <2>3 DEF Pause, Call, Called, SetState, ClearRunning, Cleared, States, machine
  <2>4. CASE Resume
    BY <2>0, <2>4 DEF Resume, Call, Called, SetState, States, Block, machine
  <2> QED
    BY <2>1, <2>2, <2>3, <2>4 DEF UiStep
<1>2. vmQueue' \in Seq(Block) /\ (vmQueue # <<>> => vmQueue' # <<>>)
  <2>1. ASSUME NEW b \in Block
        PROVE  Append(vmQueue, b) \in Seq(Block) /\ Append(vmQueue, b) # <<>>
    <3>1. vmQueue \in Seq(Block)
      OBVIOUS
    <3> HIDE DEF EngineInv, TypeOK
    <3> QED
      BY <3>1, AppendProperties
  <2> QED
    BY <1>1, <2>1
<1> QED
  BY <1>1, <1>2 DEF BlockIsQueued, LoadedIsInitialized, LoopOnLiveMachine

(* The end of a block takes it off the queue.                              *)
LEMMA EndBlockQueue ==
  ASSUME EngineInv, worker # "idle", EndBlock
  PROVE  worker' = "idle" /\ vmQueue' \in Seq(Block)
  BY HeadTailProperties DEF EngineInv, TypeOK, BlockIsQueued, EndBlock, Goto

(* The worker's steps that leave the machine's memory alone and do not     *)
(* enter the loop.                                                         *)
LEMMA QuietWorkerKeepsInv ==
  ASSUME EngineInv, calm' = (calm /\ ui = "idle"),
         UNCHANGED <<initialized, loaded, ui, calls>>,
         running' \in BOOLEAN, state' \in States, ret' \in {"ok", "error"},
         vmQueue' \in Seq(Block),
         worker' \in {"idle", "init", "dtb", "announce", "run", "loop", "vcpu",
                      "returned", "cleanup", "settle"},
         worker' # "idle" => vmQueue' # <<>>,
         worker' \in {"loop", "vcpu"} => loaded
  PROVE  EngineInv'
  BY DEF EngineInv, TypeOK, BlockIsQueued, LoadedIsInitialized, LoopOnLiveMachine

LEMMA WorkerKeepsInv ==
  ASSUME EngineInv, WorkerStep
  PROVE  EngineInv'
<1> USE DEF EngineInv, At, Goto
<1>1. CASE TakeBlock
  <2>1. vmQueue' = vmQueue /\ vmQueue # <<>> /\ worker' \in {"init", "run"}
    BY <1>1 DEF TakeBlock
  <2> QED
    BY <1>1, <2>1, QuietWorkerKeepsInv DEF TakeBlock, TypeOK, machine
<1>2. CASE InitMachine
  <2>1. CASE Goto("load") /\ initialized' = TRUE /\ UNCHANGED <<state, vmQueue>>
    BY <1>2, <2>1
       DEF InitMachine, TypeOK, BlockIsQueued, LoadedIsInitialized, LoopOnLiveMachine
  <2>2. CASE state' = "Error" /\ EndBlock /\ UNCHANGED initialized
    <3>1. worker' = "idle" /\ vmQueue' \in Seq(Block)
      BY <1>2, <2>2, EndBlockQueue DEF InitMachine
    <3> QED
      BY <1>2, <2>2, <3>1
         DEF InitMachine, TypeOK, States, BlockIsQueued, LoadedIsInitialized,
             LoopOnLiveMachine
  <2> QED
    BY <1>2, <2>1, <2>2 DEF InitMachine
<1>3. CASE LoadKernel
  <2>1. initialized /\ initialized' = initialized /\ vmQueue' = vmQueue
        /\ worker' \in {"dtb", "cleanup"} /\ loaded' \in BOOLEAN
        /\ state' \in States /\ UNCHANGED <<running, ret, ui, calls>>
    BY <1>3 DEF LoadKernel, Fail, LoadedIsInitialized, TypeOK, States, machine
  <2> QED
    BY <1>3, <2>1
       DEF LoadKernel, TypeOK, BlockIsQueued, LoadedIsInitialized, LoopOnLiveMachine
<1>4. CASE LoadDtb
  BY <1>4, QuietWorkerKeepsInv DEF LoadDtb, Fail, TypeOK, States, BlockIsQueued, machine
<1>5. CASE Announce
  BY <1>5, QuietWorkerKeepsInv DEF Announce, TypeOK, States, BlockIsQueued, machine
<1>6. CASE RunEntry
  BY <1>6, QuietWorkerKeepsInv DEF RunEntry, MayRun, TypeOK, BlockIsQueued
<1>7. CASE Loop
  BY <1>7, QuietWorkerKeepsInv
     DEF Loop, TypeOK, BlockIsQueued, LoopOnLiveMachine, machine
<1>8. CASE Returned
  <2>1. vmQueue' \in Seq(Block) /\ worker' \in {"idle", "cleanup"}
        /\ (worker' # "idle" => vmQueue' # <<>>)
    BY <1>8, EndBlockQueue DEF Returned, TypeOK, BlockIsQueued
  <2> QED
    BY <1>8, <2>1, QuietWorkerKeepsInv DEF Returned, TypeOK, States, machine
<1>9. CASE Cleanup
  BY <1>9
     DEF Cleanup, Destroyed, TypeOK, BlockIsQueued, LoadedIsInitialized, LoopOnLiveMachine
<1>10. CASE Settle
  <2>1. vmQueue' \in Seq(Block) /\ worker' = "idle"
    BY <1>10, EndBlockQueue DEF Settle
  <2> QED
    BY <1>10, <2>1, QuietWorkerKeepsInv DEF Settle, TypeOK, States, machine
<1>11. ASSUME NEW exit \in Exits, VcpuExit(exit)
       PROVE  EngineInv'
  BY <1>11, QuietWorkerKeepsInv
     DEF VcpuExit, TypeOK, BlockIsQueued, LoopOnLiveMachine
<1> QED
  BY <1>1, <1>2, <1>3, <1>4, <1>5, <1>6, <1>7, <1>8, <1>9, <1>10, <1>11
     DEF WorkerStep

LEMMA NextKeepsInv ==
  ASSUME EngineInv, [Next]_engineVars
  PROVE  EngineInv'
<1>1. CASE Next
  BY <1>1, UiKeepsInv, WorkerKeepsInv DEF Next
<1>2. CASE UNCHANGED engineVars
  BY <1>2 DEF engineVars, machine, uiVars, EngineInv, TypeOK, BlockIsQueued,
              LoadedIsInitialized, LoopOnLiveMachine
<1> QED
  BY <1>1, <1>2

(* The invariant holds in every state the two threads can reach.           *)
THEOREM EngineInvariant == Spec => []EngineInv
  BY InitEstablishesInv, NextKeepsInv, PTL DEF Spec

(* The state property, the machine's fields and the queue keep their       *)
(* types, whatever order the threads run in (VMEngine.m, machine.c).       *)
THEOREM EngineTypeCorrect == Spec => []TypeOK
<1>1. EngineInv => TypeOK
  BY DEF EngineInv
<1> QED
  BY <1>1, EngineInvariant, PTL

(* A vCPU executes only on a machine that is initialized and has a kernel, *)
(* however the calls of the user interface fall between the steps of the   *)
(* blocks: sv_machine_run checks kernel_entry, and only the queue's own    *)
(* blocks destroy the machine.                                             *)
THEOREM EngineLoopOnLive == Spec => []LoopOnLiveMachine
<1>1. EngineInv => LoopOnLiveMachine
  BY DEF EngineInv
<1> QED
  BY <1>1, EngineInvariant, PTL

-----------------------------------------------------------------------------
(* As long as the threads have not overlapped, a method runs only while    *)
(* the guest executes, the queue is one runVM followed by blocks resume    *)
(* posted, and those find the machine the runVM destroyed.                 *)

MethodDuringGuest == ui # "idle" => worker = "vcpu"
RestIsShown == vmQueue = <<>> => state \in {"Idle", "Error"}
RunFirst == \A i \in DOMAIN vmQueue : vmQueue[i] = "runVM" => i = 1
RunExecutes ==
  /\ worker \notin {"idle", "run", "returned"} => vmQueue[1] = "runVM"
  /\ worker \in {"run", "loop", "vcpu"} /\ vmQueue[1] = "runVM"
       => state \in {"Running", "Paused", "Stopping"}
DestroyedOutside ==
  /\ worker \in {"idle", "init", "settle"} => ~initialized
  /\ vmQueue # <<>> /\ vmQueue[1] = "resume" => ~initialized

CalmFacts == MethodDuringGuest /\ RestIsShown /\ RunFirst /\ RunExecutes /\ DestroyedOutside
CalmInv == calm => CalmFacts

LEMMA AppendKeepsFirst ==
  ASSUME NEW q \in Seq(Block), NEW b \in Block
  PROVE  /\ Append(q, b) \in Seq(Block) /\ Append(q, b) # <<>>
         /\ q # <<>> => Append(q, b)[1] = q[1]
         /\ q = <<>> => Append(q, b)[1] = b
         /\ \A i \in DOMAIN Append(q, b) :
              \/ i \in DOMAIN q /\ Append(q, b)[i] = q[i]
              \/ i = Len(q) + 1 /\ Append(q, b)[i] = b
<1>1. /\ Append(q, b) \in Seq(Block) /\ Append(q, b) # <<>>
      /\ Len(Append(q, b)) = Len(q) + 1
      /\ \A i \in 1 .. Len(q) : Append(q, b)[i] = q[i]
      /\ Append(q, b)[Len(q) + 1] = b
  BY AppendProperties
<1>2. Len(q) \in Nat /\ DOMAIN q = 1 .. Len(q) /\ DOMAIN Append(q, b) = 1 .. (Len(q) + 1)
  BY <1>1
<1>3. q # <<>> => Len(q) >= 1
  BY <1>2, EmptySeq
<1>4. q = <<>> => Len(q) = 0
  BY EmptySeq
<1>5. \A i \in DOMAIN Append(q, b) : i \in 1 .. Len(q) \/ i = Len(q) + 1
  BY <1>2
<1> QED
  BY <1>1, <1>2, <1>3, <1>4, <1>5

LEMMA TailDropsRun ==
  ASSUME NEW q \in Seq(Block), q # <<>>, \A i \in DOMAIN q : q[i] = "runVM" => i = 1
  PROVE  \A i \in DOMAIN Tail(q) : Tail(q)[i] # "runVM"
<1>1. /\ Tail(q) \in Seq(Block) /\ Len(Tail(q)) = Len(q) - 1
      /\ \A i \in 1 .. Len(Tail(q)) : Tail(q)[i] = q[i + 1]
  BY HeadTailProperties
<1>2. ASSUME NEW i \in DOMAIN Tail(q) PROVE Tail(q)[i] # "runVM"
  <2>1. i \in 1 .. Len(Tail(q)) /\ i + 1 \in 1 .. Len(q) /\ i + 1 # 1 /\ DOMAIN q = 1 .. Len(q)
    BY <1>1
  <2> QED
    BY <1>1, <2>1
<1> QED
  BY <1>2

LEMMA UiKeepsCalm ==
  ASSUME EngineInv, CalmInv, UiStep
  PROVE  CalmInv'
<1> SUFFICES ASSUME calm' PROVE CalmFacts'
  BY DEF CalmInv
<1>0. vmQueue \in Seq(Block) /\ BlockIsQueued
  BY DEF EngineInv, TypeOK
<1>1. calm /\ CalmFacts
  BY DEF UiStep, Start, Stop, Pause, Resume, Call, Called, SetState, ClearRunning, CalmInv
<1>2. worker' = worker /\ initialized' = initialized
  BY DEF UiStep, Start, Stop, Pause, Resume, Call, Called, SetState, ClearRunning, machine
<1>3. CASE Start
  <2>1. ui = "idle" /\ state = "Idle" /\ (worker = "vcpu" \/ vmQueue = <<>>)
    BY <1>3 DEF Start, Called, MayStart
  <2>2. vmQueue = <<>> /\ worker = "idle" /\ ui' = "idle"
    <3>1. worker = "vcpu" => vmQueue[1] = "runVM"
      BY <1>1 DEF CalmFacts, RunExecutes
    <3>2. worker # "vcpu"
      BY <1>1, <2>1, <3>1 DEF CalmFacts, RunExecutes
    <3> QED
      BY <1>0, <1>3, <2>1, <3>2 DEF BlockIsQueued, Start
  <2>3. vmQueue' = Append(<<>>, "runVM") /\ "runVM" \in Block /\ <<>> \in Seq(Block)
    BY <1>0, <1>3, <2>2 DEF Start, Block
  <2>4. /\ vmQueue' # <<>> /\ vmQueue'[1] = "runVM"
        /\ \A i \in DOMAIN vmQueue' : i = Len(<<>>) + 1 \/ i \in DOMAIN <<>>
    BY <2>3, AppendKeepsFirst
  <2>5. \A i \in DOMAIN vmQueue' : i = 1
    BY <2>4
  <2> QED
    BY <1>1, <1>2, <2>2, <2>4, <2>5
    DEF CalmFacts, MethodDuringGuest, RestIsShown, RunFirst, RunExecutes, DestroyedOutside
<1>4. CASE Stop \/ Pause \/ Resume
  <2>1. worker = "vcpu" /\ vmQueue # <<>>
    <3>1. ui # "idle" \/ (state \notin {"Idle", "Error"} /\ (worker = "vcpu" \/ vmQueue = <<>>))
      BY <1>4 DEF Stop, Pause, Resume, Call, Called, SetState, ClearRunning
    <3> QED
      BY <1>0, <1>1, <3>1 DEF CalmFacts, MethodDuringGuest, RestIsShown, BlockIsQueued
  <2>2. vmQueue[1] = "runVM" /\ state' \in {"Running", "Paused", "Stopping"}
    BY <1>1, <1>4, <2>1
    DEF Stop, Pause, Resume, Call, SetState, ClearRunning, CalmFacts, RunExecutes
  <2>3. vmQueue' = vmQueue \/ vmQueue' = Append(vmQueue, "resume")
    BY <1>4 DEF Stop, Pause, Resume, Call, SetState, ClearRunning
  <2>4. vmQueue' # <<>> /\ vmQueue'[1] = "runVM" /\ RunFirst'
    <3>1. CASE vmQueue' = vmQueue
      BY <1>1, <2>1, <2>2, <3>1 DEF CalmFacts, RunFirst
    <3>2. CASE vmQueue' = Append(vmQueue, "resume")
      <4>1. "resume" \in Block
        BY DEF Block
      <4>2. /\ vmQueue' # <<>> /\ vmQueue'[1] = vmQueue[1]
            /\ \A i \in DOMAIN vmQueue' :
                 \/ i \in DOMAIN vmQueue /\ vmQueue'[i] = vmQueue[i]
                 \/ vmQueue'[i] = "resume"
        BY <1>0, <2>1, <3>2, <4>1, AppendKeepsFirst
      <4> QED
        BY <1>1, <2>2, <4>2 DEF CalmFacts, RunFirst
    <3> QED
      BY <2>3, <3>1, <3>2
  <2> QED
    BY <1>2, <2>1, <2>2, <2>4
    DEF CalmFacts, MethodDuringGuest, RestIsShown, RunExecutes, DestroyedOutside
<1> QED
  BY <1>3, <1>4 DEF UiStep

(* The end of a block: the machine must be destroyed and the state shown.  *)
LEMMA EndBlockKeepsCalm ==
  ASSUME EngineInv, CalmFacts, worker # "idle", EndBlock, ui' = "idle",
         ~initialized', state' \in {"Idle", "Error"}
  PROVE  CalmFacts'
<1>1. vmQueue \in Seq(Block) /\ vmQueue # <<>> /\ worker' = "idle" /\ vmQueue' = Tail(vmQueue)
  BY DEF EngineInv, TypeOK, BlockIsQueued, EndBlock, Goto
<1>2. \A i \in DOMAIN vmQueue' : vmQueue'[i] # "runVM"
  BY <1>1, TailDropsRun DEF CalmFacts, RunFirst
<1> QED
  BY <1>1, <1>2
  DEF CalmFacts, MethodDuringGuest, RestIsShown, RunFirst, RunExecutes, DestroyedOutside

(* A step that leaves the queue alone.                                     *)
LEMMA SameQueueKeepsCalm ==
  ASSUME EngineInv, CalmFacts, vmQueue' = vmQueue, vmQueue # <<>>, ui' = "idle",
         RunExecutes', DestroyedOutside'
  PROVE  CalmFacts'
  BY DEF CalmFacts, MethodDuringGuest, RestIsShown, RunFirst

LEMMA WorkerKeepsCalm ==
  ASSUME EngineInv, CalmInv, WorkerStep
  PROVE  CalmInv'
<1> SUFFICES ASSUME calm' PROVE CalmFacts'
  BY DEF CalmInv
<1>0. vmQueue \in Seq(Block) /\ BlockIsQueued /\ LoadedIsInitialized
  BY DEF EngineInv, TypeOK
<1>1. calm /\ CalmFacts /\ ui = "idle" /\ ui' = "idle"
  BY DEF WorkerStep, TakeBlock, InitMachine, LoadKernel, LoadDtb, Announce, RunEntry, Loop,
         Returned, Cleanup, Settle, VcpuExit, At, CalmInv
<1>2. vmQueue # <<>>
  BY <1>0
  DEF WorkerStep, TakeBlock, InitMachine, LoadKernel, LoadDtb, Announce, RunEntry, Loop,
      Returned, Cleanup, Settle, VcpuExit, At, BlockIsQueued
<1>3. vmQueue[1] \in Block /\ Head(vmQueue) = vmQueue[1]
  BY <1>0, <1>2, EmptySeq
<1>4. RunExecutes /\ DestroyedOutside
  BY <1>1 DEF CalmFacts
<1>5. CASE TakeBlock
  BY <1>0, <1>1, <1>2, <1>3, <1>4, <1>5, SameQueueKeepsCalm
  DEF TakeBlock, At, Goto, machine, RunExecutes, DestroyedOutside, Block
<1>6. CASE InitMachine
  <2>1. worker = "init" /\ ~initialized /\ vmQueue[1] = "runVM"
    BY <1>4, <1>6 DEF InitMachine, At, RunExecutes, DestroyedOutside
  <2>2. CASE worker' = "load" /\ vmQueue' = vmQueue
    BY <1>1, <1>2, <2>1, <2>2, SameQueueKeepsCalm DEF RunExecutes, DestroyedOutside
  <2>3. CASE state' = "Error" /\ EndBlock /\ UNCHANGED initialized
    BY <1>1, <2>1, <2>3, EndBlockKeepsCalm
  <2> QED
    BY <1>6, <2>2, <2>3 DEF InitMachine, Goto
<1>7. CASE LoadKernel \/ LoadDtb
  <2>1. /\ worker \in {"load", "dtb"} /\ worker' \in {"dtb", "announce", "cleanup"}
        /\ vmQueue' = vmQueue
    BY <1>7 DEF LoadKernel, LoadDtb, At, Goto, Fail
  <2>2. vmQueue[1] = "runVM"
    BY <1>4, <2>1 DEF RunExecutes
  <2> QED
    BY <1>1, <1>2, <2>1, <2>2, SameQueueKeepsCalm DEF RunExecutes, DestroyedOutside
<1>8. CASE Announce
  <2>1. /\ worker = "announce" /\ vmQueue' = vmQueue
        /\ worker' = "cleanup" \/ (worker' = "run" /\ state' = "Running")
    BY <1>8 DEF Announce, At, Goto
  <2>2. vmQueue[1] = "runVM"
    BY <1>4, <2>1 DEF RunExecutes
  <2> QED
    BY <1>1, <1>2, <2>1, <2>2, SameQueueKeepsCalm DEF RunExecutes, DestroyedOutside
<1>9. CASE RunEntry
  <2>1. /\ worker = "run" /\ vmQueue' = vmQueue /\ state' = state
        /\ initialized' = initialized
        /\ worker' = "returned" \/ (worker' = "loop" /\ loaded)
    BY <1>9 DEF RunEntry, At, Goto, MayRun
  <2>2. worker' = "loop" => vmQueue[1] = "runVM"
    BY <1>0, <1>2, <1>3, <1>4, <2>1 DEF LoadedIsInitialized, DestroyedOutside, Block
  <2> QED
    BY <1>1, <1>2, <1>4, <2>1, <2>2, SameQueueKeepsCalm DEF RunExecutes, DestroyedOutside
<1>10. CASE Loop \/ \E exit \in Exits : VcpuExit(exit)
  <2>1. /\ worker \in {"loop", "vcpu"} /\ worker' \in {"loop", "vcpu", "returned"}
        /\ vmQueue' = vmQueue /\ state' = state /\ initialized' = initialized
    BY <1>10 DEF Loop, VcpuExit, At, Goto, machine
  <2> QED
    BY <1>1, <1>2, <1>4, <2>1, SameQueueKeepsCalm DEF RunExecutes, DestroyedOutside
<1>11. CASE Returned
  <2>1. /\ worker = "returned" /\ state' \in {"Idle", "Error"}
        /\ initialized' = initialized
    BY <1>11 DEF Returned, At, machine
  <2>2. CASE vmQueue[1] = "runVM"
    <3>1. worker' = "cleanup" /\ vmQueue' = vmQueue
      BY <1>3, <1>11, <2>2 DEF Returned, Goto
    <3> QED
      BY <1>1, <1>2, <2>2, <3>1, SameQueueKeepsCalm DEF RunExecutes, DestroyedOutside
  <2>3. CASE vmQueue[1] = "resume"
    <3>1. EndBlock /\ ~initialized
      BY <1>2, <1>3, <1>4, <1>11, <2>3 DEF Returned, DestroyedOutside
    <3> QED
      BY <1>1, <2>1, <3>1, EndBlockKeepsCalm
  <2> QED
    BY <1>3, <2>2, <2>3 DEF Block
<1>12. CASE Cleanup
  <2>1. /\ worker = "cleanup" /\ worker' = "settle" /\ vmQueue' = vmQueue /\ ~initialized'
    BY <1>12 DEF Cleanup, Destroyed, At, Goto
  <2> QED
    BY <1>1, <1>2, <1>4, <2>1, SameQueueKeepsCalm DEF RunExecutes, DestroyedOutside
<1>13. CASE Settle
  <2>1. /\ worker = "settle" /\ state' \in {"Idle", "Error"} /\ EndBlock
        /\ initialized' = initialized
    BY <1>13 DEF Settle, At, machine
  <2>2. ~initialized
    BY <1>4, <2>1 DEF DestroyedOutside
  <2> QED
    BY <1>1, <2>1, <2>2, EndBlockKeepsCalm
<1> QED
  BY <1>5, <1>6, <1>7, <1>8, <1>9, <1>10, <1>11, <1>12, <1>13 DEF WorkerStep

(* Whatever the threads did before they first overlapped, the queue and    *)
(* the machine agree (VMEngine.m).                                         *)
THEOREM CalmInvariant == Spec => [](EngineInv /\ CalmInv)
<1>1. Init => EngineInv /\ CalmInv
  <2>1. Init => CalmInv
    BY DEF Init, CalmInv, CalmFacts, MethodDuringGuest, RestIsShown, RunFirst, RunExecutes,
           DestroyedOutside
  <2> QED
    BY <2>1, InitEstablishesInv
<1>2. EngineInv /\ CalmInv /\ [Next]_engineVars => (EngineInv /\ CalmInv)'
  <2> SUFFICES ASSUME EngineInv, CalmInv, [Next]_engineVars PROVE EngineInv' /\ CalmInv'
    OBVIOUS
  <2>1. CASE UNCHANGED engineVars
    <3>1. CalmInv'
      BY <2>1 DEF engineVars, machine, uiVars, CalmInv, CalmFacts, MethodDuringGuest,
                  RestIsShown, RunFirst, RunExecutes, DestroyedOutside
    <3> QED
      BY <3>1, NextKeepsInv
  <2> QED
    BY <2>1, NextKeepsInv, UiKeepsCalm, WorkerKeepsCalm DEF Next
<1> QED
  BY <1>1, <1>2, PTL DEF Spec

(* When both threads have come to rest the machine is destroyed and the    *)
(* engine shows Idle or the error, unless they overlapped (VMEngine.m).    *)
THEOREM EngineSettles == Spec => []SettledIsClean
<1>1. EngineInv /\ CalmInv => SettledIsClean
  BY DEF EngineInv, BlockIsQueued, CalmInv, CalmFacts, RestIsShown, DestroyedOutside,
         SettledIsClean
<1> QED
  BY <1>1, CalmInvariant, PTL

(* start never posts a second runVM (VMEngine.m, start), unless the        *)
(* threads overlapped.                                                     *)
THEOREM EngineRunsOnce == Spec => []OneRunAtATime
<1>1. CalmInv => OneRunAtATime
  BY DEF CalmInv, CalmFacts, RunFirst, OneRunAtATime
<1> QED
  BY <1>1, CalmInvariant, PTL

=============================================================================
