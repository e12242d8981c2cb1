------------------------------ MODULE VMEngine ------------------------------
(***************************************************************************)
(* The life of a virtual machine under the Cocoa front end:                *)
(* frontend/cocoa/VMEngine.m over sv_machine_init, _load_kernel, _run,     *)
(* _stop and _destroy of core/vm/machine.c.                                *)
(*                                                                         *)
(* The user interface's thread calls start, stop, pause and resume; the    *)
(* serial queue vmQueue executes the blocks they post.  The two threads    *)
(* share the state property, _initialized and the sv_machine_t without a   *)
(* lock, so the steps of a method interleave freely with those of the      *)
(* block.  calm says that so far they have not: each method was called     *)
(* while the guest executed or when nothing was posted, and completed      *)
(* before the block went on.  stopRequested is written and read by         *)
(* nothing, so it is left out.                                             *)
(***************************************************************************)
EXTENDS Naturals, Sequences, SequencesExt

CONSTANTS
  Exits,     (* how vcpu_run returns: "handled", "halt", "error"           *)
  MaxCalls   (* bound: calls of the user interface                        *)

ASSUME EngineConstants ==
  /\ Exits \subseteq {"handled", "halt", "error"}
  /\ MaxCalls \in Nat

States == {"Idle", "Starting", "Running", "Paused", "Stopping", "Error"}
Block == {"runVM", "resume"}

VARIABLES
  state,        (* VMEngine.state                                          *)
  initialized,  (* _initialized                                            *)
  loaded,       (* _machine.kernel_entry # 0; guest RAM is there           *)
  running,      (* _machine.running                                        *)
  vmQueue,      (* blocks posted, the one executing first                  *)
  worker,       (* the step of the executing block; "idle" without one     *)
  ret,          (* what sv_machine_run returned: "ok" or "error"           *)
  ui,           (* the step of the method being called; "idle" without one *)
  calls,       (* calls so far                                           *)
  calm         (* ghost: the threads have not overlapped                   *)

machine == <<initialized, loaded, running>>
uiVars == <<ui, calls, calm>>
engineVars == <<state, machine, vmQueue, worker, ret, uiVars>>

Init ==
  /\ state = "Idle"
  /\ initialized = FALSE /\ loaded = FALSE /\ running = FALSE
  /\ vmQueue = <<>> /\ worker = "idle" /\ ret = "ok"
  /\ ui = "idle" /\ calls = 0 /\ calm = TRUE

-----------------------------------------------------------------------------
(* The user interface's thread.                                            *)

Called ==
  /\ ui = "idle" /\ calls < MaxCalls
  /\ calls' = calls + 1
  /\ calm' = (calm /\ (worker = "vcpu" \/ vmQueue = <<>>))

MayStartAlways == TRUE
MayStart == state = "Idle"

Start ==
  /\ Called /\ MayStart
  /\ state' = "Starting"
  /\ vmQueue' = Append(vmQueue, "runVM")
  /\ UNCHANGED <<machine, worker, ret, ui>>

(* A method that returns early changes nothing and is no action.           *)
Call(guard, next) ==
  /\ Called /\ guard
  /\ ui' = next
  /\ UNCHANGED <<state, machine, vmQueue, worker, ret>>

SetStateSwapped(at, s, next) ==
  /\ ui = at /\ ui' = next
  /\ state' = next
  /\ UNCHANGED <<machine, vmQueue, worker, ret, calls, calm>>
SetState(at, s, next) ==
  /\ ui = at /\ ui' = next
  /\ state' = s
  /\ UNCHANGED <<machine, vmQueue, worker, ret, calls, calm>>

(* sv_machine_stop, guarded by _initialized.                               *)
ClearedInverted == running /\ initialized
Cleared == running /\ ~initialized
ClearRunning(at, next) ==
  /\ ui = at /\ ui' = next
  /\ running' = Cleared
  /\ UNCHANGED <<state, initialized, loaded, vmQueue, worker, ret, calls, calm>>

Stop ==
  \/ Call(state \notin {"Idle", "Error"}, "stop")
  \/ SetState("stop", "Stopping", "stop flag")
  \/ ClearRunning("stop flag", "idle")

Pause ==
  \/ Call(state = "Running", "pause")
  \/ ClearRunning("pause", "pause state")
  \/ SetState("pause state", "Paused", "idle")

Resume ==
  \/ Call(state = "Paused", "resume")
  \/ SetState("resume", "Running", "resume flag")
  \/ /\ ui = "resume flag" /\ ui' = "idle"
     /\ running' = TRUE
     /\ vmQueue' = Append(vmQueue, "resume")
     /\ UNCHANGED <<state, initialized, loaded, worker, ret, calls, calm>>

UiStep == Start \/ Stop \/ Pause \/ Resume

-----------------------------------------------------------------------------
(* The blocks on vmQueue: runVM, and the one resume posts.                 *)

At(label) ==
  /\ worker = label
  /\ calm' = (calm /\ ui = "idle")
  /\ UNCHANGED <<ui, calls>>
Goto(label) == worker' = label

TakeBlock ==
  /\ At("idle") /\ vmQueue # <<>>
  /\ Goto(IF Head(vmQueue) = "runVM" THEN "init" ELSE "run")
  /\ UNCHANGED <<state, machine, vmQueue, ret>>

EndBlock == Goto("idle") /\ vmQueue' = Tail(vmQueue)

(* A step of runVM fails: the error state, then the cleanup.               *)
Fail == state' = "Error" /\ Goto("cleanup") /\ UNCHANGED <<machine, vmQueue>>

InitMachine ==        (* sv_machine_init                                   *)
  /\ At("init")
  /\ loaded' = FALSE /\ running' = FALSE
  /\ \/ /\ initialized' = TRUE
        /\ Goto("load")
        /\ UNCHANGED <<state, vmQueue>>
     \/ /\ state' = "Error"
        /\ EndBlock
        /\ UNCHANGED initialized
  /\ UNCHANGED ret

LoadKernel ==         (* sv_machine_load_kernel, when a path is given      *)
  /\ At("load")
  /\ \/ /\ loaded' \in BOOLEAN
        /\ Goto("dtb")
        /\ UNCHANGED <<state, initialized, running, vmQueue>>
     \/ Fail
  /\ UNCHANGED ret

LoadDtb ==            (* device tree and virtio devices                    *)
  /\ At("dtb")
  /\ \/ Goto("announce") /\ UNCHANGED <<state, machine, vmQueue>>
     \/ Fail
  /\ UNCHANGED ret

Announce ==           (* dry run, or the main loop                         *)
  /\ At("announce")
  /\ \/ state' = "Idle" /\ Goto("cleanup")
     \/ state' = "Running" /\ Goto("run")
  /\ UNCHANGED <<machine, vmQueue, ret>>

MayRunUnloaded == TRUE
MayRun == loaded

RunEntry ==           (* sv_machine_run up to its loop                     *)
  /\ At("run")
  /\ \/ MayRun /\ running' = TRUE /\ Goto("loop") /\ UNCHANGED ret
     \/ MayRun /\ running' = FALSE /\ ret' = "ok" /\ Goto("returned")
     \/ running' = running /\ ret' = "error" /\ Goto("returned")
  /\ UNCHANGED <<state, initialized, loaded, vmQueue>>

Loop ==               (* while (vm->running)                               *)
  /\ At("loop")
  /\ \/ running /\ Goto("vcpu") /\ UNCHANGED ret
     \/ ~running /\ ret' = "ok" /\ Goto("returned")
  /\ UNCHANGED <<state, machine, vmQueue>>

VcpuExit(exit) ==     (* hv->vcpu_run returns                              *)
  /\ At("vcpu")
  /\ running' = (running /\ exit # "halt")
  /\ ret' = IF exit = "error" THEN "error" ELSE ret
  /\ Goto(IF exit = "error" THEN "returned" ELSE "loop")
  /\ UNCHANGED <<state, initialized, loaded, vmQueue>>

Returned ==           (* sv_machine_run has returned to the block          *)
  /\ At("returned")
  /\ state' = IF ret = "error" THEN "Error" ELSE "Idle"
  /\ IF Head(vmQueue) = "runVM" THEN Goto("cleanup") /\ UNCHANGED vmQueue
                                ELSE EndBlock
  /\ UNCHANGED <<machine, ret>>

DestroyedForgets == UNCHANGED initialized /\ loaded' = FALSE /\ running' = FALSE
Destroyed == initialized' = FALSE /\ loaded' = FALSE /\ running' = FALSE

Cleanup ==            (* sv_machine_destroy                                *)
  /\ At("cleanup")
  /\ Destroyed
  /\ Goto("settle")
  /\ UNCHANGED <<state, vmQueue, ret>>

Settle ==
  /\ At("settle")
  /\ state' = IF state = "Error" THEN "Error" ELSE "Idle"
  /\ EndBlock
  /\ UNCHANGED <<machine, ret>>

WorkerStep ==
  \/ TakeBlock \/ InitMachine \/ LoadKernel \/ LoadDtb \/ Announce
  \/ RunEntry \/ Loop \/ Returned \/ Cleanup \/ Settle
  \/ \E exit \in Exits : VcpuExit(exit)

-----------------------------------------------------------------------------
Next == UiStep \/ WorkerStep

UiReturns == ui # "idle" /\ UiStep

(* Both threads run, and the guest keeps leaving to the hypervisor.        *)
Spec ==
  /\ Init /\ [][Next]_engineVars
  /\ WF_engineVars(UiReturns) /\ WF_engineVars(WorkerStep)

-----------------------------------------------------------------------------
TypeOK ==
  /\ state \in States
  /\ initialized \in BOOLEAN /\ loaded \in BOOLEAN /\ running \in BOOLEAN
  /\ vmQueue \in Seq(Block) /\ ret \in {"ok", "error"} /\ calls \in 0 .. MaxCalls
  /\ worker \in {"idle", "init", "load", "dtb", "announce", "run", "loop", "vcpu",
                 "returned", "cleanup", "settle"}
  /\ ui \in {"idle", "stop", "stop flag", "pause", "pause state", "resume", "resume flag"}

(* A vCPU executes only on a machine that is initialized and loaded,       *)
(* whatever the user interface does meanwhile: no block is left in the     *)
(* loop when another has destroyed the machine.                            *)
LoopOnLiveMachine == worker \in {"loop", "vcpu"} => initialized /\ loaded

(* As long as the threads have not overlapped: once both have come to rest *)
(* the machine is destroyed and the engine is ready for the next start, or *)
(* shows the error.                                                        *)
SettledIsClean ==
  calm /\ ui = "idle" /\ vmQueue = <<>> => state \in {"Idle", "Error"} /\ ~initialized

(* The "VM is already running" check works while the threads do not        *)
(* overlap: one runVM at a time is posted.                                 *)
OneRunAtATime ==
  calm => \A i, j \in DOMAIN vmQueue : vmQueue[i] = "runVM" /\ vmQueue[j] = "runVM" => i = j

(* Once stop is called the engine becomes ready for the next start or      *)
(* shows the error, even if the guest would run for ever, unless the       *)
(* threads overlap.                                                        *)
StopEnds == state = "Stopping" ~> state \in {"Idle", "Error"} \/ ~calm

-----------------------------------------------------------------------------
(* What the repository says of the engine and the code does not do.        *)

(* VMEngine.h on stop: "Request graceful shutdown.  Sets the internal      *)
(* running flag and waits for the main loop to exit."                      *)
StopLeavesLoop == state = "Stopping" ~> worker \notin {"loop", "vcpu"} /\ vmQueue = <<>>

=============================================================================
