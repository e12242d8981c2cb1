----------------------------- MODULE VMManager -----------------------------
(***************************************************************************)
(* The life of a virtual machine under the Qt front end:                   *)
(* frontend/qt/VMManager.cpp over core/vm/machine.c.                       *)
(*                                                                         *)
(* start connects QThread::started to VMManager::runVM.  The VMManager     *)
(* lives in the main thread, so the connection is queued: runVM executes   *)
(* as an event of the main thread, and until it returns no other event is  *)
(* delivered, neither a click nor a state change runVM posts.              *)
(***************************************************************************)
EXTENDS AndroidMachine

CONSTANTS
  Configs,     (* Configs[n]: what the user has chosen: the kernel's file, *)
               (* a device tree of tree cells or none, the command line,   *)
               (* root file system, CPUs, RAM, dry run; and the back ends  *)
               (* the host has                                             *)
  VcpuExits,   (* how vcpu_run returns: "handled", "halt", "error"         *)
  MaxClicks    (* bound: clicks of the user                                *)

(* MainWindow.cpp offers at least one CPU.                                 *)
Config ==
  [kernel : BootImages, tree : Nat, cmdline : STRING, rootfs : BOOLEAN, cpus : Nat \ {0},
   ram : Nat, dry : BOOLEAN, backends : Seq(Registered)]

ASSUME ManagerConstants ==
  /\ VcpuExits \subseteq {"handled", "halt", "error"}
  /\ MaxClicks \in Nat
  /\ 1 \in DOMAIN Configs /\ \A n \in DOMAIN Configs : Configs[n] \in Config

State == {"Idle", "Starting", "Running", "Paused", "Stopping", "Error"}
Button == {"start", "stop", "pause", "resume"}
Event == {"runVM", "Running", "Idle", "Error"}

VARIABLES
  m_state, m_initialized,
  m_config,  (* the number of the configuration started last               *)
  m_machine, (* without running, which has a variable of its own           *)
  running,   (* m_machine.running                                          *)
  hvm,       (* the back end's VM of sv_machine_run                        *)
  vcpu,      (* x0 and the program counter vCPU 0 was given                *)
  events,    (* posted to the main thread, oldest first                    *)
  main,      (* what the main thread executes; "idle" in its event loop    *)
  clicked,   (* clicks not yet delivered, oldest first                     *)
  clicks     (* clicks so far                                              *)

machineVars == <<m_machine, hvm, vcpu>>
vars == <<m_state, m_initialized, m_config, machineVars, running, events, main, clicked, clicks>>
config == Configs[m_config]

Init ==
  /\ m_state = "Idle" /\ m_initialized = FALSE /\ running = FALSE
  /\ m_config = 1 /\ m_machine = NoMachine /\ hvm = NoVm /\ vcpu = NoRegs
  /\ events = <<>> /\ main = "idle" /\ clicked = <<>> /\ clicks = 0

-----------------------------------------------------------------------------
Click(b) ==
  /\ clicks < MaxClicks
  /\ clicks' = clicks + 1
  /\ clicked' = Append(clicked, b)
  /\ UNCHANGED <<m_state, m_initialized, m_config, machineVars, running, events, main>>

MayStartUnlessRunning == m_state # "Running"
MayStart == m_state = "Idle"
MayStop == m_state \notin {"Idle", "Error"}
StopRunning == running /\ ~m_initialized

(* start, stop, pause, resume; each returns early in the other states.     *)
Deliver ==
  /\ main = "idle" /\ clicked # <<>>
  /\ clicked' = Tail(clicked)
  /\ \/ /\ Head(clicked) = "start" /\ MayStart
        /\ m_state' = "Starting" /\ events' = Append(events, "runVM")
        /\ m_config' \in DOMAIN Configs
        /\ UNCHANGED running
     \/ /\ Head(clicked) = "stop" /\ MayStop
        /\ m_state' = "Stopping" /\ running' = StopRunning
        /\ UNCHANGED <<m_config, events>>
     \/ /\ Head(clicked) = "pause" /\ m_state = "Running"
        /\ m_state' = "Paused" /\ running' = StopRunning
        /\ UNCHANGED <<m_config, events>>
     \/ /\ Head(clicked) = "resume" /\ m_state = "Paused"
        /\ m_state' = "Running" /\ running' = TRUE
        /\ UNCHANGED <<m_config, events>>
     \/ /\ \/ Head(clicked) = "start" /\ ~MayStart
           \/ Head(clicked) = "stop" /\ ~MayStop
           \/ Head(clicked) = "pause" /\ m_state # "Running"
           \/ Head(clicked) = "resume" /\ m_state # "Paused"
        /\ UNCHANGED <<m_state, m_config, running, events>>
  /\ UNCHANGED <<m_initialized, machineVars, main, clicks>>

(* A setState lambda, or runVM up to its setup steps.                      *)
Dispatch ==
  /\ main = "idle" /\ events # <<>>
  /\ events' = Tail(events)
  /\ IF Head(events) = "runVM"
     THEN main' = "init" /\ UNCHANGED m_state
     ELSE m_state' = Head(events) /\ UNCHANGED main
  /\ UNCHANGED <<m_initialized, m_config, machineVars, running, clicked, clicks>>

-----------------------------------------------------------------------------
(* runVM                                                                   *)
PostNothing(s) == UNCHANGED events
Post(s) == events' = Append(events, s)

Goto(label) == main' = label
Fail == Post("Error") /\ Goto("cleanup")
UserVars == <<m_state, m_config, clicked, clicks>>

InitMachine ==
  /\ main = "init"
  /\ running' = FALSE
  /\ \/ /\ m_initialized' = TRUE /\ Goto("kernel")
        /\ m_machine' = NewMachine(config.cpus, config.ram)
        /\ UNCHANGED events
     \/ /\ Post("Error") /\ Goto("idle")
        /\ m_machine' = [NoMachine EXCEPT !.cpus = config.cpus]
        /\ UNCHANGED m_initialized
  /\ UNCHANGED <<UserVars, hvm, vcpu>>

LoadKernelFile ==
  /\ main = "kernel"
  /\ \/ Fail /\ UNCHANGED m_machine
     \/ LET load == LoadKernel(m_machine, config.kernel)
        IN  /\ m_machine' = load.vm
            /\ IF load.ok THEN Goto("tree") /\ UNCHANGED events ELSE Fail
  /\ UNCHANGED <<UserVars, m_initialized, running, hvm, vcpu>>

(* A tree that cannot be loaded is no error; one that is generated carries *)
(* the command line of the configuration if there is one.                  *)
MakeTree ==
  /\ main = "tree" /\ Goto("attach")
  /\ IF config.tree > 0
     THEN m_machine' \in LoadDtbResults(m_machine, config.tree)
     ELSE m_machine' = GenerateDtb([m_machine EXCEPT
                         !.cmdline = IF config.cmdline = "" THEN @ ELSE config.cmdline])
  /\ UNCHANGED <<UserVars, m_initialized, running, events, hvm, vcpu>>

(* A device that cannot be attached is left out.                           *)
Attach ==
  /\ main = "attach" /\ Goto("announce")
  /\ \E devices \in SUBSET ({"net", "console"} \cup (IF config.rootfs THEN {"blk"} ELSE {})) :
       m_machine' = [m_machine EXCEPT !.devices = devices]
  /\ UNCHANGED <<UserVars, m_initialized, running, events, hvm, vcpu>>

Announce ==   (* dry run, or the main loop                                 *)
  /\ main = "announce"
  /\ IF config.dry THEN Post("Idle") /\ Goto("cleanup") ELSE Post("Running") /\ Goto("run")
  /\ UNCHANGED <<UserVars, m_initialized, running, machineVars>>

(* sv_machine_run, after a kernel was loaded.  Without a back end it       *)
(* returns as if the guest had halted.                                     *)
Backend == GetBest(config.backends)
WithTree == IF m_machine.dtb_addr = 0 THEN GenerateDtb(m_machine) ELSE m_machine
RunEntry ==
  /\ main = "run" /\ m_machine.kernel_entry # 0
  /\ m_machine' = WithTree
  /\ \/ /\ Backend = NoBackend
        /\ running' = FALSE /\ Post("Idle") /\ Goto("cleanup")
        /\ UNCHANGED hvm
     \/ /\ Backend # NoBackend
        /\ MayCreate(hvm, Backend)
        /\ hvm' = NewVm(hvm, Backend) /\ Goto("vcpus")
        /\ UNCHANGED <<running, events>>
     \/ /\ Backend # NoBackend   (* vm_create fails                        *)
        /\ Goto("failed")
        /\ UNCHANGED <<running, events, hvm>>
  /\ UNCHANGED <<UserVars, m_initialized, vcpu>>

(* A vCPU is not created, or is but does not take its registers.           *)
VcpuFails ==
  /\ main = "vcpus" /\ hvm.ready < m_machine.cpus
  /\ \E vcpus \in {hvm.ready, hvm.ready + 1} : hvm' = VmDestroy(hvm, vcpus)
  /\ Goto("failed")
  /\ UNCHANGED <<UserVars, m_initialized, running, events, m_machine, vcpu>>
SetUpVcpu ==
  LET writes == RegWrites(m_machine, hvm.ready)
  IN  /\ main = "vcpus" /\ hvm.ready < m_machine.cpus
      /\ Accepts(hvm.backend, writes)
      /\ hvm' = NewVcpu(hvm)
      /\ vcpu' = IF hvm.ready = 0 THEN Written(hvm.backend, writes) ELSE vcpu
      /\ UNCHANGED <<UserVars, m_initialized, running, events, main, m_machine>>
EnterLoop ==
  /\ main = "vcpus" /\ hvm.ready = m_machine.cpus
  /\ running' = TRUE /\ Goto("loop")
  /\ UNCHANGED <<UserVars, m_initialized, events, machineVars>>

(* The loop ends with the halt or the failure of vCPU 0, and the VM with   *)
(* the loop.                                                               *)
Loop(exit) ==
  /\ main = "loop"
  /\ \/ exit = "handled" /\ UNCHANGED <<running, main, events, hvm>>
     \/ /\ exit = "halt" /\ running' = FALSE
        /\ hvm' = VmDestroy(hvm, hvm.ready) /\ Post("Idle") /\ Goto("cleanup")
     \/ /\ exit = "error" /\ UNCHANGED <<running, events>>
        /\ hvm' = VmDestroy(hvm, hvm.ready) /\ Goto("failed")
  /\ UNCHANGED <<UserVars, m_initialized, m_machine, vcpu>>

Failed ==
  /\ main = "failed" /\ Fail
  /\ UNCHANGED <<UserVars, m_initialized, running, machineVars>>

Cleanup ==
  /\ main = "cleanup" /\ Goto("idle")
  /\ running' = FALSE /\ m_initialized' = FALSE /\ m_machine' = NoMachine
  /\ UNCHANGED <<UserVars, events, hvm, vcpu>>

MainStep ==
  \/ Deliver \/ Dispatch \/ InitMachine \/ LoadKernelFile \/ MakeTree \/ Attach \/ Announce
  \/ RunEntry \/ VcpuFails \/ SetUpVcpu \/ EnterLoop \/ Failed \/ Cleanup
  \/ \E exit \in VcpuExits : Loop(exit)

Next == MainStep \/ \E b \in Button : Click(b)

(* The main thread runs, and posted events do not wait behind clicks.      *)
Spec == Init /\ [][Next]_vars /\ WF_vars(MainStep) /\ SF_vars(Dispatch)

-----------------------------------------------------------------------------
(* When the main thread has delivered everything, the machine a start set  *)
(* up is destroyed, after vm_destroy for its VM, and the state shown is    *)
(* final, whatever step of the set-up failed and whatever the user clicked *)
(* between the state changes of a run that was over already (runVM).       *)
ManagerSettled ==
  main = "idle" /\ events = <<>> =>
    /\ ~m_initialized /\ m_machine.ram = NoMachine.ram
    /\ hvm.backend = NoBackend
    /\ m_state \in {"Idle", "Error"}

(* However often the user clicks, no run is queued behind another one,     *)
(* which would set up the machine again from stale settings (start).       *)
OneStartPosted ==
  \A i, j \in DOMAIN events : events[i] = "runVM" /\ events[j] = "runVM" => i = j

(* When vCPU 0 executes it is at the first cell of the kernel the user     *)
(* chose and x0 names a whole device tree; the kernel and its ramdisk are  *)
(* in RAM as they are in the file, wherever the parts ended up; and a tree *)
(* that was not supplied has the user's command line and CPUs, nothing of  *)
(* an earlier run (bootimg.c:62-75, machine.c:118-261).  For raw kernels   *)
(* and images of version 0, the others are cut at the wrong offsets, with  *)
(* a tree that ends below the kernel or is refused as too large for RAM.   *)
At(addr, data) == \A k \in DOMAIN data : m_machine.ram[addr - RamBase + k] = data[k]
Whole(part, size) == [k \in 0..(size - 1) |-> <<part, k>>]
Bootable ==
  /\ config.kernel.magic => config.kernel.version = 0
  /\ DtbOffset + config.tree <= KernelOffset \/ DtbOffset + config.tree > config.ram

BootsChosenKernel ==
  LET image == config.kernel
  IN  main = "loop" /\ Bootable =>
        /\ At(vcpu.pc, Whole("kernel", image.kernel))
        /\ image.magic => At(RamBase + RamdiskOffset(image), Whole("ramdisk", image.ramdisk))
        /\ \/ config.tree > 0 /\ At(vcpu.x0, TreeFile(config.tree))
           \/ At(vcpu.x0, Generated(m_machine)) /\ m_machine.cpus = config.cpus
        /\ config.tree = 0 /\ config.cmdline # "" => m_machine.cmdline = config.cmdline

-----------------------------------------------------------------------------
(* VMManager.h: "Thread-safe wrapper ... Runs sv_machine_run() on a        *)
(* QThread": a click is delivered also while the guest executes.           *)
ClicksAreDelivered == clicked # <<>> ~> clicked = <<>>

=============================================================================
