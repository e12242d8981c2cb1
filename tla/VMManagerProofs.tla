-------------------------- MODULE VMManagerProofs --------------------------
(***************************************************************************)
(* Proofs about VMManager, for every set of configurations, every size of  *)
(* RAM and of its parts and any number of clicks: at rest machine and VM   *)
(* are gone and the state is final, one run is posted at a time, and the   *)
(* guest that executes is the kernel that was chosen.                      *)
(***************************************************************************)
EXTENDS VMManager, FiniteSetTheorems, SequenceTheorems, TLAPS

-----------------------------------------------------------------------------
(* The inductive invariant.                                                *)

(* A state is shown as final exactly when nothing is executed or queued;   *)
(* otherwise the queue is what the run posted so far, oldest first.        *)
Final == {"Idle", "Error"}
Ended == {<<"Idle">>, <<"Error">>, <<"Running", "Idle">>, <<"Running", "Error">>}
QueueInv ==
  \/ main = "idle" /\ events = <<>> /\ m_state \in Final
  \/ /\ m_state \in State \ Final
     /\ \/ main = "idle" /\ events \in {<<"runVM">>} \cup Ended
        \/ main \in {"init", "kernel", "tree", "attach", "announce"} /\ events = <<>>
        \/ main \in {"run", "vcpus", "loop", "failed"} /\ events = <<"Running">>
        \/ main = "cleanup" /\ events \in Ended

(* What a VM is, and one whose handle is gone.                             *)
IsVm(vm) == vm = [backend |-> vm.backend, ready |-> vm.ready, remains |-> vm.remains]
NoHandle(vm) == vm.backend = NoBackend /\ vm.ready = 0

(* The machine lives from its initialization to the clean-up of the run    *)
(* that made it, the VM within it.                                         *)
LifeInv ==
  /\ m_initialized = (main \notin {"idle", "init"})
  /\ main \in {"idle", "init"} => m_machine.ram = NoMachine.ram
  /\ IsVm(hvm)
  /\ main \notin {"vcpus", "loop"} => NoHandle(hvm)

(* The configuration of a run stays the one its machine was made from.     *)
IsMachine(m) ==
  m = [ram |-> m.ram, kernel_entry |-> m.kernel_entry, dtb_addr |-> m.dtb_addr,
       cmdline |-> m.cmdline, cpus |-> m.cpus, devices |-> m.devices]
MachineInv ==
  /\ m_config \in DOMAIN Configs
  /\ IsMachine(m_machine)
  /\ main \notin {"idle", "init"} =>
       /\ DOMAIN m_machine.ram = 0..(config.ram - 1)
       /\ m_machine.cpus = config.cpus

(* What was placed in RAM stays where it is, up to the end of the loop.    *)
HasKernel(m, image, size) ==
  /\ m.kernel_entry = RamBase + KernelOffset /\ KernelOffset + image.kernel <= size
  /\ \A k \in 0..(image.kernel - 1) : m.ram[KernelOffset + k] = <<"kernel", k>>
  /\ image.magic /\ image.ramdisk > 0 =>
       /\ RamdiskOffset(image) + image.ramdisk <= size
       /\ \A k \in 0..(image.ramdisk - 1) : m.ram[RamdiskOffset(image) + k] = <<"ramdisk", k>>
KernelInv ==
  main \in {"tree", "attach", "announce", "run", "vcpus", "loop"} /\ Bootable =>
    HasKernel(m_machine, config.kernel, config.ram)

(* The tree: none yet, the one that was supplied, or a generated one.      *)
HasTree(m, tree) ==
  /\ m.dtb_addr = RamBase + DtbOffset
  /\ \/ tree > 0 /\ \A k \in 0..(tree - 1) : m.ram[DtbOffset + k] = <<"treeFile", k>>
     \/ \A k \in 0..(TreeCells - 1) : m.ram[DtbOffset + k] = <<"tree", m.cmdline, m.cpus, k>>
TreeInv ==
  /\ main \in {"kernel", "tree"} /\ Bootable => m_machine.dtb_addr = 0
  /\ main \in {"attach", "announce", "run", "vcpus", "loop"} /\ Bootable =>
       /\ \/ main \notin {"vcpus", "loop"} /\ m_machine.dtb_addr = 0
          \/ HasTree(m_machine, config.tree)
       /\ config.tree = 0 /\ config.cmdline # "" => m_machine.cmdline = config.cmdline

(* vCPU 0 has the tree's and the kernel's address when it is set up.       *)
VcpuInv ==
  main \in {"vcpus", "loop"} =>
    /\ hvm.backend \in Registered /\ hvm.ready \in Nat
    /\ hvm.ready > 0 => vcpu = [x0 |-> m_machine.dtb_addr, pc |-> m_machine.kernel_entry]
    /\ main = "loop" => hvm.ready = config.cpus

ManagerInv == QueueInv /\ LifeInv /\ MachineInv
BootInv == ManagerInv /\ KernelInv /\ TreeInv /\ VcpuInv

-----------------------------------------------------------------------------
(* Memory and the loaders' effect on the machine.                          *)

(* A copy changes RAM where it goes, as far as RAM reaches, and leaves the *)
(* rest (memcpy into the mapped RAM).                                      *)
LEMMA CopyPlaces ==
  ASSUME NEW ram, NEW at \in Int, NEW data, DOMAIN ram \subseteq Int, DOMAIN data \subseteq Int
  PROVE  /\ DOMAIN Copy(ram, at, data) = DOMAIN ram
         /\ \A k \in DOMAIN data : at + k \in DOMAIN ram => Copy(ram, at, data)[at + k] = data[k]
         /\ \A k \in DOMAIN ram : k - at \notin DOMAIN data => Copy(ram, at, data)[k] = ram[k]
  BY DEF Copy

(* Whatever part fits or not, RAM keeps its size.                          *)
LEMMA PlaceKeepsDomain ==
  ASSUME NEW load, NEW part, NEW ramSize, load = [ok |-> load.ok, ram |-> load.ram]
  PROVE  /\ Place(load, part, ramSize) =
              [ok |-> Place(load, part, ramSize).ok, ram |-> Place(load, part, ramSize).ram]
         /\ DOMAIN Place(load, part, ramSize).ram = DOMAIN load.ram
         /\ PlaceIfPresent(load, part, ramSize) =
              [ok |-> PlaceIfPresent(load, part, ramSize).ok,
               ram |-> PlaceIfPresent(load, part, ramSize).ram]
         /\ DOMAIN PlaceIfPresent(load, part, ramSize).ram = DOMAIN load.ram
  BY DEF Place, PlaceIfPresent, Copy

(* A tree copied into RAM leaves the machine's size and CPUs.              *)
Copied(m, data) == [m EXCEPT !.ram = Copy(@, DtbOffset, data)]
CopiedAt(m, data, addr) == [m EXCEPT !.ram = Copy(@, DtbOffset, data), !.dtb_addr = addr]

LEMMA TreeCopyKeepsMachine ==
  ASSUME NEW m, IsMachine(m), NEW data, NEW addr, NEW vm,
         vm = Copied(m, data) \/ vm = CopiedAt(m, data, addr)
  PROVE  IsMachine(vm) /\ DOMAIN vm.ram = DOMAIN m.ram /\ vm.cpus = m.cpus
<1> DEFINE ram == Copy(m.ram, DtbOffset, data)
<1>1. DOMAIN ram = DOMAIN m.ram
  BY DEF Copy
<1> HIDE DEF ram
<1>2. CASE vm = [m EXCEPT !.ram = ram]
  BY <1>1, <1>2 DEF IsMachine
<1>3. CASE vm = [m EXCEPT !.ram = ram, !.dtb_addr = addr]
  BY <1>1, <1>3 DEF IsMachine
<1> QED
  BY <1>2, <1>3 DEF ram, Copied, CopiedAt

(* The loaders change neither the size of RAM nor the number of CPUs.      *)
LEMMA LoadersKeepMachine ==
  ASSUME NEW m, IsMachine(m), NEW image, NEW size
  PROVE  /\ LET vm == LoadKernel(m, image).vm
            IN  IsMachine(vm) /\ DOMAIN vm.ram = DOMAIN m.ram /\ vm.cpus = m.cpus
         /\ \A vm \in LoadDtbResults(m, size) :
              IsMachine(vm) /\ DOMAIN vm.ram = DOMAIN m.ram /\ vm.cpus = m.cpus
         /\ LET vm == GenerateDtb(m)
            IN  IsMachine(vm) /\ DOMAIN vm.ram = DOMAIN m.ram /\ vm.cpus = m.cpus
<1>1. LET vm == LoadKernel(m, image).vm
      IN  IsMachine(vm) /\ DOMAIN vm.ram = DOMAIN m.ram /\ vm.cpus = m.cpus
  <2> DEFINE size0 == RamSizeOf(m)
             kernel == Place([ok |-> TRUE, ram |-> m.ram], KernelPart(image), size0)
             ramdisk == PlaceIfPresent(kernel, RamdiskPart(image), size0)
             load == PlaceIfPresent(ramdisk, TreePart(image), size0)
  <2>1. kernel = [ok |-> kernel.ok, ram |-> kernel.ram] /\ DOMAIN kernel.ram = DOMAIN m.ram
    BY PlaceKeepsDomain
  <2> HIDE DEF kernel
  <2>2. ramdisk = [ok |-> ramdisk.ok, ram |-> ramdisk.ram] /\ DOMAIN ramdisk.ram = DOMAIN m.ram
    BY <2>1, PlaceKeepsDomain
  <2> HIDE DEF ramdisk
  <2>3. DOMAIN load.ram = DOMAIN m.ram
    BY <2>2, PlaceKeepsDomain
  <2> HIDE DEF load
  <2> QED
    BY <2>3 DEF IsMachine, LoadKernel, kernel, ramdisk, load, size0
<1>2. \A vm \in LoadDtbResults(m, size) :
        IsMachine(vm) /\ DOMAIN vm.ram = DOMAIN m.ram /\ vm.cpus = m.cpus
  <2> SUFFICES ASSUME NEW vm \in LoadDtbResults(m, size)
               PROVE  IsMachine(vm) /\ DOMAIN vm.ram = DOMAIN m.ram /\ vm.cpus = m.cpus
    OBVIOUS
  <2>1. \/ vm = m
        \/ \E data, addr : vm = Copied(m, data) \/ vm = CopiedAt(m, data, addr)
    BY DEF LoadDtbResults, Copied, CopiedAt
  <2>2. CASE vm = m
    BY <2>2
  <2>3. CASE vm # m
    <3>1. PICK data, addr :
            vm = Copied(m, data) \/ vm = CopiedAt(m, data, addr)
      BY <2>1, <2>3
    <3> QED
      BY <3>1, TreeCopyKeepsMachine
  <2> QED
    BY <2>2, <2>3
<1>3. LET vm == GenerateDtb(m)
      IN  IsMachine(vm) /\ DOMAIN vm.ram = DOMAIN m.ram /\ vm.cpus = m.cpus
  <2>1. GenerateDtb(m) = CopiedAt(m, Generated(m), RamBase + DtbOffset)
    BY DEF GenerateDtb, CopiedAt
  <2> QED
    BY <2>1, TreeCopyKeepsMachine
<1> QED
  BY <1>1, <1>2, <1>3

-----------------------------------------------------------------------------
(* The run's control.                                                      *)

(* vm_destroy leaves no handle; the other calls keep what they do not name. *)
LEMMA VmCalls ==
  /\ IsVm(NoVm) /\ NoHandle(NoVm)
  /\ \A vm, vcpus : IsVm(VmDestroy(vm, vcpus)) /\ NoHandle(VmDestroy(vm, vcpus))
  /\ \A vm, backend : IsVm(vm) =>
       /\ IsVm(NewVm(vm, backend))
       /\ NewVm(vm, backend).backend = backend /\ NewVm(vm, backend).ready = vm.ready
  /\ \A vm : IsVm(vm) =>
       /\ IsVm(NewVcpu(vm))
       /\ NewVcpu(vm).backend = vm.backend /\ NewVcpu(vm).ready = vm.ready + 1
  BY DEF IsVm, NoHandle, NoVm, VmDestroy, NewVm, NewVcpu

LEMMA InitEstablishesManagerInv == Init => ManagerInv
  BY ManagerConstants, VmCalls
     DEF Init, ManagerInv, QueueInv, LifeInv, MachineInv, IsMachine, NoMachine, Final

(* What a click does when it is delivered (start, stop, pause, resume).    *)
LEMMA DeliverKeepsManagerInv ==
  ASSUME ManagerInv, Deliver
  PROVE  ManagerInv'
<1> USE DEF ManagerInv
<1>1. QueueInv'
  <2>1. main' = "idle" /\ main = "idle"
    BY DEF Deliver
  <2>2. CASE Head(clicked) = "start" /\ MayStart /\ m_state' = "Starting"
             /\ events' = Append(events, "runVM")
    <3>1. events = <<>>
      BY <2>2, <2>1 DEF QueueInv, MayStart, Final
    <3>2. events' = <<"runVM">>
      BY <2>2, <3>1
    <3> QED
      BY <2>1, <2>2, <3>2 DEF QueueInv, State, Final
  <2>3. CASE m_state \in State \ Final /\ m_state' \in State \ Final /\ UNCHANGED events
    BY <2>1, <2>3 DEF QueueInv
  <2>4. CASE UNCHANGED <<m_state, events>>
    BY <2>1, <2>4 DEF QueueInv
  <2>5. m_state \in State
    BY DEF QueueInv, Final, State
  <2> QED
    BY <2>2, <2>3, <2>4, <2>5 DEF Deliver, MayStop, Final, State
<1>2. LifeInv'
  BY DEF Deliver, LifeInv, machineVars
<1>3. MachineInv'
  BY DEF Deliver, QueueInv, MachineInv, machineVars, config
<1> QED
  BY <1>1, <1>2, <1>3

LEMMA DispatchKeepsManagerInv ==
  ASSUME ManagerInv, Dispatch
  PROVE  ManagerInv'
<1> USE DEF ManagerInv
<1>1. QueueInv'
  <2>1. main = "idle" /\ m_state \in State \ Final /\ events \in {<<"runVM">>} \cup Ended
    BY DEF Dispatch, QueueInv
  <2>2. CASE events = <<"runVM">>
    BY <2>1, <2>2 DEF Dispatch, QueueInv
  <2>3. CASE events \in {<<"Idle">>, <<"Error">>}
    <3>1. Head(events) \in Final /\ Tail(events) = <<>>
      <4>1. CASE events = <<"Idle">>
        BY <4>1 DEF Final
      <4>2. CASE events = <<"Error">>
        BY <4>2 DEF Final
      <4> QED
        BY <2>3, <4>1, <4>2
    <3>2. m_state' \in Final /\ main' = "idle" /\ events' = <<>>
      BY <2>1, <3>1 DEF Dispatch, Final
    <3> QED
      BY <3>2 DEF QueueInv
  <2>4. CASE events \in {<<"Running", "Idle">>, <<"Running", "Error">>}
    <3>1. Head(events) = "Running" /\ Tail(events) \in {<<"Idle">>, <<"Error">>}
      <4>1. CASE events = <<"Running", "Idle">>
        BY <4>1
      <4>2. CASE events = <<"Running", "Error">>
        BY <4>2
      <4> QED
        BY <2>4, <4>1, <4>2
    <3>2. m_state' = "Running" /\ main' = "idle" /\ events' \in {<<"Idle">>, <<"Error">>}
      BY <2>1, <3>1 DEF Dispatch
    <3> QED
      BY <3>2 DEF QueueInv, State, Final, Ended
  <2> QED
    BY <2>1, <2>2, <2>3, <2>4 DEF Ended
<1>2. LifeInv'
  BY DEF Dispatch, QueueInv, LifeInv, machineVars, Ended
<1>3. MachineInv'
  BY DEF Dispatch, QueueInv, MachineInv, machineVars, config, Ended
<1> QED
  BY <1>1, <1>2, <1>3

(* runVM posts its states in order: "Running" at most once, then the last. *)
LEMMA RunKeepsQueueInv ==
  ASSUME QueueInv, main # "idle",
         InitMachine \/ LoadKernelFile \/ MakeTree \/ Attach \/ Announce \/ RunEntry
         \/ VcpuFails \/ SetUpVcpu \/ EnterLoop \/ Failed \/ Cleanup
         \/ \E exit \in VcpuExits : Loop(exit)
  PROVE  QueueInv'
<1>a. m_state \in State \ Final /\ m_state' = m_state
  BY DEF QueueInv, InitMachine, LoadKernelFile, MakeTree, Attach, Announce, RunEntry, VcpuFails,
         SetUpVcpu, EnterLoop, Failed, Cleanup, Loop, UserVars
<1>b. /\ Append(<<>>, "Error") = <<"Error">> /\ Append(<<>>, "Idle") = <<"Idle">>
      /\ Append(<<>>, "Running") = <<"Running">>
      /\ Append(<<"Running">>, "Error") = <<"Running", "Error">>
      /\ Append(<<"Running">>, "Idle") = <<"Running", "Idle">>
  <2>1. \A s : Append(<<>>, s) = <<s>>
    OBVIOUS
  <2>2. ASSUME NEW s PROVE Append(<<"Running">>, s) = <<"Running", s>>
    <3> DEFINE S == {"Running", s}
    <3>1. <<"Running">> \in Seq(S) /\ <<"Running", s>> \in Seq(S)
      OBVIOUS
    <3>2. /\ Append(<<"Running">>, s) \in Seq(S) /\ Len(Append(<<"Running">>, s)) = 2
          /\ Append(<<"Running">>, s)[1] = "Running" /\ Append(<<"Running">>, s)[2] = s
      BY <3>1, AppendProperties
    <3>3. /\ Len(Append(<<"Running">>, s)) = Len(<<"Running", s>>)
          /\ \A i \in 1..2 : Append(<<"Running">>, s)[i] = <<"Running", s>>[i]
      BY <3>2
    <3> HIDE DEF S
    <3> QED
      BY <3>1, <3>2, <3>3, SeqEqual
  <2> QED
    BY <2>1, <2>2
<1> USE DEF QueueInv, Ended, Goto, Post, Fail
<1>1. CASE InitMachine
  BY <1>a, <1>b, <1>1 DEF InitMachine
<1>2. CASE LoadKernelFile
  BY <1>a, <1>b, <1>2 DEF LoadKernelFile
<1>3. CASE MakeTree
  BY <1>a, <1>b, <1>3 DEF MakeTree
<1>4. CASE Attach
  BY <1>a, <1>b, <1>4 DEF Attach
<1>5. CASE Announce
  BY <1>a, <1>b, <1>5 DEF Announce
<1>6. CASE RunEntry
  BY <1>a, <1>b, <1>6 DEF RunEntry
<1>7. CASE VcpuFails
  BY <1>a, <1>b, <1>7 DEF VcpuFails
<1>8. CASE SetUpVcpu
  BY <1>a, <1>b, <1>8 DEF SetUpVcpu
<1>9. CASE EnterLoop
  BY <1>a, <1>b, <1>9 DEF EnterLoop
<1>10. CASE Failed
  BY <1>a, <1>b, <1>10 DEF Failed
<1>11. CASE Cleanup
  BY <1>a, <1>b, <1>11 DEF Cleanup
<1>12. CASE \E exit \in VcpuExits : Loop(exit)
  BY <1>a, <1>b, <1>12 DEF Loop
<1> QED
  BY <1>1, <1>2, <1>3, <1>4, <1>5, <1>6, <1>7, <1>8, <1>9, <1>10, <1>11, <1>12

(* runVM and sv_machine_run make and destroy the machine and the VM in     *)
(* pairs, and every step between keeps the machine's size and CPUs.        *)
LEMMA RunKeepsLifeAndMachine ==
  ASSUME ManagerInv, main # "idle",
         InitMachine \/ LoadKernelFile \/ MakeTree \/ Attach \/ Announce \/ RunEntry
         \/ VcpuFails \/ SetUpVcpu \/ EnterLoop \/ Failed \/ Cleanup
         \/ \E exit \in VcpuExits : Loop(exit)
  PROVE  LifeInv' /\ MachineInv'
<1>0. config' = config /\ m_config' = m_config
  BY DEF InitMachine, LoadKernelFile, MakeTree, Attach, Announce, RunEntry, VcpuFails,
         SetUpVcpu, EnterLoop, Failed, Cleanup, Loop, UserVars, config
<1> USE DEF ManagerInv, LifeInv, MachineInv, Goto, machineVars
<1>1. CASE InitMachine
  BY <1>0, <1>1 DEF InitMachine, NewMachine, NoMachine, IsMachine
<1>2. CASE LoadKernelFile
  BY <1>0, <1>2, LoadersKeepMachine DEF LoadKernelFile, Fail
<1>3. CASE MakeTree
  <2>1. CASE config.tree > 0
    <3>1. m_machine' \in LoadDtbResults(m_machine, config.tree)
      BY <1>3, <2>1 DEF MakeTree
    <3>2. /\ IsMachine(m_machine') /\ m_machine'.cpus = m_machine.cpus
          /\ DOMAIN m_machine'.ram = DOMAIN m_machine.ram
      BY <3>1, LoadersKeepMachine
    <3> QED
      BY <1>0, <1>3, <3>2 DEF MakeTree
  <2>2. CASE ~(config.tree > 0)
    <3> DEFINE cmdline == IF config.cmdline = "" THEN m_machine.cmdline ELSE config.cmdline
               m == [m_machine EXCEPT !.cmdline = cmdline]
    <3>2. m_machine' = GenerateDtb(m)
      BY <1>3, <2>2 DEF MakeTree
    <3> HIDE DEF cmdline
    <3>1. IsMachine(m) /\ m.ram = m_machine.ram /\ m.cpus = m_machine.cpus
      BY DEF IsMachine
    <3> HIDE DEF m
    <3> QED
      BY <1>0, <1>3, <3>1, <3>2, LoadersKeepMachine DEF MakeTree
  <2> QED
    BY <2>1, <2>2
<1>4. CASE Attach
  BY <1>0, <1>4 DEF Attach, IsMachine
<1>5. CASE Announce
  BY <1>0, <1>5 DEF Announce
<1>6. CASE RunEntry
  <2>1. IsVm(hvm') /\ main' # "loop" /\ (main' # "vcpus" => NoHandle(hvm'))
    BY <1>0, <1>6, VmCalls DEF RunEntry
  <2> QED
    BY <1>0, <1>6, <2>1, LoadersKeepMachine DEF RunEntry, WithTree
<1>7. CASE VcpuFails
  BY <1>0, <1>7, VmCalls DEF VcpuFails
<1>8. CASE SetUpVcpu
  BY <1>0, <1>8, VmCalls DEF SetUpVcpu
<1>9. CASE EnterLoop
  BY <1>0, <1>9 DEF EnterLoop
<1>10. CASE Failed
  BY <1>0, <1>10 DEF Failed, Fail
<1>11. CASE Cleanup
  BY <1>0, <1>11 DEF Cleanup, NoMachine, IsMachine
<1>12. CASE \E exit \in VcpuExits : Loop(exit)
  BY <1>0, <1>12, VmCalls DEF Loop
<1> QED
  BY <1>1, <1>2, <1>3, <1>4, <1>5, <1>6, <1>7, <1>8, <1>9, <1>10, <1>11, <1>12

LEMMA NextKeepsManagerInv ==
  ASSUME ManagerInv, [Next]_vars
  PROVE  ManagerInv'
<1>1. CASE Deliver
  BY <1>1, DeliverKeepsManagerInv
<1>2. CASE Dispatch
  BY <1>2, DispatchKeepsManagerInv
<1>3. CASE \/ InitMachine \/ LoadKernelFile \/ MakeTree \/ Attach \/ Announce \/ RunEntry
           \/ VcpuFails \/ SetUpVcpu \/ EnterLoop \/ Failed \/ Cleanup
           \/ \E exit \in VcpuExits : Loop(exit)
  <2>1. main # "idle"
    BY <1>3 DEF InitMachine, LoadKernelFile, MakeTree, Attach, Announce, RunEntry, VcpuFails,
                SetUpVcpu, EnterLoop, Failed, Cleanup, Loop
  <2> QED
    BY <1>3, <2>1, RunKeepsQueueInv, RunKeepsLifeAndMachine DEF ManagerInv
<1>4. CASE (\E b \in Button : Click(b)) \/ UNCHANGED vars
  BY <1>4 DEF Click, vars, machineVars, ManagerInv, QueueInv, LifeInv, MachineInv, config
<1> QED
  BY <1>1, <1>2, <1>3, <1>4 DEF Next, MainStep

THEOREM ManagerCorrect == Spec => []ManagerInv
  BY InitEstablishesManagerInv, NextKeepsManagerInv, PTL DEF Spec

(* When the main thread has delivered everything, the machine is destroyed, *)
(* vm_destroy was called for its VM and the state shown is final, whatever  *)
(* failed and whatever was clicked.                                         *)
THEOREM SettledManager == Spec => []ManagerSettled
<1>1. <<>> \notin {<<"runVM">>} \cup Ended
  BY DEF Ended
<1>2. ManagerInv => ManagerSettled
  BY <1>1 DEF ManagerInv, QueueInv, LifeInv, NoHandle, ManagerSettled, Final
<1> QED
  BY <1>2, ManagerCorrect, PTL

(* No run is queued behind another one, however often the user clicks.     *)
THEOREM OneStartIsPosted == Spec => []OneStartPosted
<1>1. ManagerInv => OneStartPosted
  <2>1. ManagerInv => events \in {<<>>, <<"runVM">>, <<"Running">>} \cup Ended
    BY DEF ManagerInv, QueueInv
  <2>2. events \in {<<>>, <<"runVM">>, <<"Running">>} \cup Ended => OneStartPosted
    BY DEF Ended, OneStartPosted
  <2> QED
    BY <2>1, <2>2
<1> QED
  BY <1>1, ManagerCorrect, PTL

-----------------------------------------------------------------------------
(* The parts of a kernel file.                                             *)

(* Aligning rounds up (align_up).                                          *)
LEMMA AlignUpBounds ==
  ASSUME NEW val \in Nat, NEW page \in Nat \ {0}
  PROVE  AlignUp(val, page) \in Nat /\ val <= AlignUp(val, page)
<1> DEFINE q == (val + page - 1) \div page
           r == (val + page - 1) % page
<1>1. q \in Nat /\ r \in 0..(page - 1) /\ val + page - 1 = page * q + r
  OBVIOUS
<1> HIDE DEF q, r
<1>2. page * q \in Nat /\ page * q = q * page
  BY <1>1
<1>3. val <= page * q
  BY <1>1, <1>2
<1> QED
  BY <1>2, <1>3 DEF AlignUp, q

(* A part lies in a file from an offset on, all of it and in order.        *)
Parts == {"header", "kernel", "ramdisk", "second", "dtbo", "dtb"}
Cell == (Parts \X Nat) \cup {<<"pad">>}
Lies(file, from, part, size) ==
  /\ from + size <= Len(file)
  /\ \A i \in 0..(size - 1) : file[from + i + 1] = <<part, i>>

LEMMA SectionProperties ==
  ASSUME NEW part \in Parts,
         NEW size \in Nat, NEW page \in Nat \ {0}
  PROVE  /\ Section(part, size, page) \in Seq(Cell)
         /\ Len(Section(part, size, page)) = AlignUp(size, page)
         /\ Lies(Section(part, size, page), 0, part, size)
<1> DEFINE n == AlignUp(size, page)
           s == Section(part, size, page)
<1>1. n \in Nat /\ size <= n
  BY AlignUpBounds
<1>2. s \in [1..n -> Cell]
  BY <1>1 DEF Section, Cell
<1>3. \A i \in 0..(size - 1) : s[0 + i + 1] = <<part, i>>
  BY <1>1 DEF Section
<1> HIDE DEF n, s
<1>4. s \in Seq(Cell) /\ Len(s) = n
  BY <1>1, <1>2
<1>5. Lies(s, 0, part, size)
  <2>1. 0 + size <= Len(s)
    BY <1>1, <1>4
  <2> QED
    BY <1>3, <2>1, Zenon DEF Lies
<1> QED
  BY <1>4, <1>5 DEF n, s

(* What follows or precedes a part moves it, but leaves it alone.          *)
LEMMA ConcatKeepsParts ==
  ASSUME NEW s \in Seq(Cell), NEW t \in Seq(Cell),
         NEW from \in Nat, NEW part, NEW size \in Nat
  PROVE  /\ s \o t \in Seq(Cell) /\ Len(s \o t) = Len(s) + Len(t)
         /\ Lies(s, from, part, size) => Lies(s \o t, from, part, size)
         /\ Lies(t, from, part, size) => Lies(s \o t, Len(s) + from, part, size)
<1>1. Len(s) \in Nat /\ Len(t) \in Nat
  OBVIOUS
<1>2. /\ s \o t \in Seq(Cell) /\ Len(s \o t) = Len(s) + Len(t)
      /\ \A k \in 1..(Len(s) + Len(t)) :
           (s \o t)[k] = IF k <= Len(s) THEN s[k] ELSE t[k - Len(s)]
  BY ConcatProperties
<1> DEFINE st == s \o t
<1> HIDE DEF st
<1>3. ASSUME Lies(s, from, part, size) PROVE Lies(st, from, part, size)
  BY <1>1, <1>2, <1>3 DEF Lies, st
<1>4. ASSUME Lies(t, from, part, size) PROVE Lies(st, Len(s) + from, part, size)
  <2>1. Len(s) + from + size <= Len(st)
    BY <1>1, <1>2, <1>4 DEF Lies, st
  <2>2. ASSUME NEW i \in 0..(size - 1) PROVE st[Len(s) + from + i + 1] = <<part, i>>
    <3>1. from + i + 1 \in 1..Len(t) /\ t[from + i + 1] = <<part, i>>
      <4>1. from + size <= Len(t) /\ t[from + i + 1] = <<part, i>>
        BY <1>4 DEF Lies
      <4> QED
        BY <1>1, <4>1
    <3> QED
      BY <1>1, <1>2, <3>1 DEF st
  <2> QED
    BY <2>1, <2>2 DEF Lies
<1> QED
  BY <1>2, <1>3, <1>4 DEF st

LEMMA CutIsWhole ==
  ASSUME NEW image, NEW from \in Nat, NEW part, NEW size \in Nat,
         Contents(image) \in Seq(Cell), Lies(Contents(image), from, part, size)
  PROVE  Cut(image, from, size) = Whole(part, size)
<1>1. Len(Contents(image)) \in Nat
  OBVIOUS
<1> QED
  BY <1>1 DEF Lies, Cut, Whole

(* Of a raw kernel, and of an image of version 0, the parser cuts out the  *)
(* kernel and the ramdisk as they are in the file (sv_bootimg_parse).      *)
LEMMA CutsWholeParts ==
  ASSUME NEW image \in BootImages, image.magic => image.version = 0
  PROVE  /\ KernelPart(image).data = Whole("kernel", image.kernel)
         /\ image.magic => RamdiskPart(image).data = Whole("ramdisk", image.ramdisk)
<1> DEFINE page == PageOf(image)
           h == Section("header", image.header, page)
           k == Section("kernel", image.kernel, page)
           r == Section("ramdisk", image.ramdisk, page)
           s == Section("second", image.second, page)
           o == Section("dtbo", image.dtbo, page)
           d == Section("dtb", image.dtb, page)
<1>1. /\ image.kernel \in Nat /\ image.ramdisk \in Nat /\ image.header \in Nat
      /\ image.second \in Nat /\ image.dtbo \in Nat /\ image.dtb \in Nat
      /\ image.page \in Nat \ {0} /\ image.magic \in BOOLEAN
  BY DEF BootImages
<1>2. CASE ~image.magic
  <2>1. Contents(image) = Section("kernel", image.kernel, 1)
    BY <1>2 DEF Contents
  <2>2. Contents(image) \in Seq(Cell) /\ Lies(Contents(image), 0, "kernel", image.kernel)
    <3>1. 1 \in Nat \ {0} /\ "kernel" \in Parts
      BY DEF Parts
    <3> QED
      BY <1>1, <2>1, <3>1, SectionProperties
  <2>3. Cut(image, 0, image.kernel) = Whole("kernel", image.kernel)
    BY <1>1, <2>2, CutIsWhole
  <2> QED
    BY <1>2, <2>3 DEF KernelPart, Part
<1>3. CASE image.magic
  <2>1. /\ page = image.page /\ KernelAt(image) = AlignUp(image.header, page)
        /\ RamdiskAt(image) = AlignUp(image.header, page) + AlignUp(image.kernel, page)
    BY <1>3 DEF PageOf, KernelAt, RamdiskAt
  <2>2. Contents(image) = h \o k \o r \o s \o o \o d
    BY <1>3 DEF Contents
  <2>3. page \in Nat \ {0} /\ Parts = {"header", "kernel", "ramdisk", "second", "dtbo", "dtb"}
    BY <1>1, <2>1 DEF Parts
  <2> HIDE DEF page
  <2>4. /\ h \in Seq(Cell) /\ Len(h) = AlignUp(image.header, page)
        /\ k \in Seq(Cell) /\ Len(k) = AlignUp(image.kernel, page)
        /\ Lies(k, 0, "kernel", image.kernel)
        /\ r \in Seq(Cell) /\ Lies(r, 0, "ramdisk", image.ramdisk)
    BY <1>1, <2>3, SectionProperties
  <2>5. s \in Seq(Cell) /\ o \in Seq(Cell) /\ d \in Seq(Cell)
    BY <1>1, <2>3, SectionProperties
  <2> HIDE DEF h, k, r, s, o, d
  <2>6. Len(h) \in Nat /\ Len(k) \in Nat
    BY <2>4
  <2> DEFINE parts == h \o k \o r
  <2>7. /\ h \o k \in Seq(Cell) /\ Len(h \o k) = Len(h) + Len(k)
        /\ Lies(h \o k, Len(h), "kernel", image.kernel)
    <3>1. Lies(h \o k, Len(h) + 0, "kernel", image.kernel)
      BY <1>1, <2>4, ConcatKeepsParts
    <3> QED
      <4>1. Len(h) + 0 = Len(h)
        BY <2>6
      <4>2. h \o k \in Seq(Cell) /\ Len(h \o k) = Len(h) + Len(k)
        BY <2>4, ConcatProperties
      <4> QED
        BY <3>1, <4>1, <4>2
  <2>8. parts \in Seq(Cell) /\ Lies(parts, Len(h), "kernel", image.kernel)
    BY <1>1, <2>4, <2>6, <2>7, ConcatKeepsParts
  <2>9. Lies(parts, Len(h) + Len(k), "ramdisk", image.ramdisk)
    <3>1. Lies(parts, Len(h \o k) + 0, "ramdisk", image.ramdisk)
      BY <1>1, <2>4, <2>7, ConcatKeepsParts
    <3> QED
      BY <2>6, <2>7, <3>1
  <2> HIDE DEF parts
  <2>10. ASSUME NEW from \in Nat, NEW part, NEW size \in Nat, Lies(parts, from, part, size)
         PROVE  Contents(image) \in Seq(Cell) /\ Lies(Contents(image), from, part, size)
    <3>1. parts \o s \in Seq(Cell) /\ Lies(parts \o s, from, part, size)
      BY <2>5, <2>8, <2>10, ConcatKeepsParts
    <3>2. (parts \o s) \o o \in Seq(Cell) /\ Lies((parts \o s) \o o, from, part, size)
      BY <2>5, <3>1, ConcatKeepsParts
    <3>3. /\ ((parts \o s) \o o) \o d \in Seq(Cell)
          /\ Lies(((parts \o s) \o o) \o d, from, part, size)
      BY <2>5, <3>2, ConcatKeepsParts
    <3> QED
      BY <2>2, <3>3 DEF parts
  <2>11. Cut(image, KernelAt(image), image.kernel) = Whole("kernel", image.kernel)
    BY <1>1, <2>1, <2>4, <2>6, <2>8, <2>10, CutIsWhole
  <2>12. Cut(image, RamdiskAt(image), image.ramdisk) = Whole("ramdisk", image.ramdisk)
    <3>1. RamdiskAt(image) \in Nat /\ RamdiskAt(image) = Len(h) + Len(k)
      BY <2>1, <2>4, <2>6
    <3> QED
      BY <1>1, <2>9, <2>10, <3>1, CutIsWhole
  <2> QED
    BY <1>3, <2>11, <2>12 DEF KernelPart, RamdiskPart, Part
<1> QED
  BY <1>1, <1>2, <1>3

-----------------------------------------------------------------------------
(* What the loaders put where.                                             *)

(* A kernel that was loaded is in RAM whole, and its ramdisk behind it     *)
(* (sv_machine_load_kernel).                                               *)
LEMMA LoadKernelPlaces ==
  ASSUME NEW m, IsMachine(m), NEW n \in Nat, DOMAIN m.ram = 0..(n - 1), m.dtb_addr = 0,
         NEW image \in BootImages, image.magic => image.version = 0, LoadKernel(m, image).ok
  PROVE  HasKernel(LoadKernel(m, image).vm, image, n) /\ LoadKernel(m, image).vm.dtb_addr = 0
<1> DEFINE size == RamSizeOf(m)
           kernel == Place([ok |-> TRUE, ram |-> m.ram], KernelPart(image), size)
           ramdisk == PlaceIfPresent(kernel, RamdiskPart(image), size)
           load == PlaceIfPresent(ramdisk, TreePart(image), size)
           vm == LoadKernel(m, image).vm
<1>1. /\ image.kernel \in Nat /\ image.ramdisk \in Nat /\ image.magic \in BOOLEAN
      /\ KernelOffset \in Nat /\ RamdiskAlign \in Nat \ {0}
  BY AndroidConstants DEF BootImages
<1>2. size = n
  BY FS_Interval DEF RamSizeOf
<1>3. load = ramdisk /\ ~(load.ok /\ image.magic /\ HasDtb(image))
  BY DEF TreePart, Part, PlaceIfPresent, HasDtb
<1>4. load.ok /\ vm.ram = load.ram /\ vm.dtb_addr = 0
      /\ vm.kernel_entry = (IF kernel.ok THEN RamBase + KernelOffset ELSE 0)
  <2> HIDE DEF kernel, ramdisk, load
  <2>1. LoadKernel(m, image).ok = load.ok
    BY DEF LoadKernel, kernel, ramdisk, load
  <2>2. vm = [m EXCEPT
             !.ram = load.ram,
             !.kernel_entry = IF kernel.ok THEN RamBase + KernelOffset ELSE 0,
             !.dtb_addr = IF load.ok /\ image.magic /\ HasDtb(image) THEN RamBase + DtbOffset ELSE @,
             !.cmdline = IF load.ok /\ image.magic /\ image.cmdline # "" THEN image.cmdline ELSE @]
    BY DEF LoadKernel, kernel, ramdisk, load
  <2> HIDE DEF vm
  <2> QED
    BY <1>3, <2>1, <2>2 DEF IsMachine
<1> HIDE DEF vm, load
<1>5. kernel.ok
  BY <1>3, <1>4 DEF PlaceIfPresent, Place
<1>6. /\ KernelOffset + image.kernel <= n
      /\ kernel.ram = Copy(m.ram, KernelOffset, Whole("kernel", image.kernel))
  BY <1>2, <1>5, CutsWholeParts DEF Place, KernelPart, Part
<1> HIDE DEF kernel
<1>7. /\ DOMAIN kernel.ram = 0..(n - 1)
      /\ \A k \in 0..(image.kernel - 1) : kernel.ram[KernelOffset + k] = <<"kernel", k>>
  <2>1. DOMAIN kernel.ram = 0..(n - 1)
    BY <1>6 DEF Copy
  <2>2. ASSUME NEW k \in 0..(image.kernel - 1)
        PROVE  kernel.ram[KernelOffset + k] = <<"kernel", k>>
    <3>1. KernelOffset + k \in DOMAIN m.ram /\ (KernelOffset + k) - KernelOffset = k
      BY <1>1, <1>6
    <3> QED
      BY <1>6, <3>1 DEF Copy, Whole
  <2> QED
    BY <2>1, <2>2
<1>8. CASE ~(image.magic /\ image.ramdisk > 0)
  <2>1. ramdisk = kernel
    BY <1>1, <1>8 DEF PlaceIfPresent, RamdiskPart, Part
  <2> QED
    BY <1>3, <1>4, <1>5, <1>6, <1>7, <1>8, <2>1 DEF HasKernel, vm
<1>9. CASE image.magic /\ image.ramdisk > 0
  <2> DEFINE at == RamdiskOffset(image)
             data == Whole("ramdisk", image.ramdisk)
  <2>1. at \in Nat /\ KernelOffset + image.kernel <= at
    <3>1. AlignUp(image.kernel, RamdiskAlign) \in Nat /\ image.kernel <= AlignUp(image.kernel, RamdiskAlign)
      BY <1>1, AlignUpBounds
    <3> QED
      BY <1>1, <3>1 DEF RamdiskOffset
  <2>2. at + image.ramdisk <= n /\ ramdisk.ram = Copy(kernel.ram, at, data)
    BY <1>1, <1>2, <1>3, <1>4, <1>9, CutsWholeParts
       DEF PlaceIfPresent, Place, RamdiskPart, Part
  <2> HIDE DEF at
  <2>3. \A k \in 0..(image.ramdisk - 1) : ramdisk.ram[at + k] = <<"ramdisk", k>>
    BY <1>1, <1>7, <2>1, <2>2 DEF Copy, Whole
  <2>4. \A k \in 0..(image.kernel - 1) : ramdisk.ram[KernelOffset + k] = <<"kernel", k>>
    <3> SUFFICES ASSUME NEW k \in 0..(image.kernel - 1)
                 PROVE  ramdisk.ram[KernelOffset + k] = <<"kernel", k>>
      OBVIOUS
    <3>1. KernelOffset + k \in DOMAIN kernel.ram /\ (KernelOffset + k) - at \notin DOMAIN data
      BY <1>1, <1>6, <1>7, <2>1 DEF Whole
    <3> QED
      BY <1>7, <2>2, <3>1 DEF Copy
  <2> QED
    BY <1>3, <1>4, <1>5, <1>6, <2>2, <2>3, <2>4 DEF HasKernel, vm, at
<1> QED
  BY <1>4, <1>8, <1>9 DEF vm

(* Data below the kernel leaves the kernel and its ramdisk alone.          *)
LEMMA CopyBelowKernel ==
  ASSUME NEW m, NEW n \in Nat, DOMAIN m.ram = 0..(n - 1),
         NEW image \in BootImages, HasKernel(m, image, n),
         NEW data, NEW size \in Nat, DOMAIN data = 0..(size - 1),
         DtbOffset + size <= KernelOffset,
         NEW vm, vm.ram = Copy(m.ram, DtbOffset, data), vm.kernel_entry = m.kernel_entry
  PROVE  /\ HasKernel(vm, image, n)
         /\ \A k \in 0..(size - 1) : vm.ram[DtbOffset + k] = data[k]
<1>1. /\ image.kernel \in Nat /\ image.ramdisk \in Nat
      /\ KernelOffset \in Nat /\ DtbOffset \in Nat /\ RamdiskAlign \in Nat \ {0}
  BY AndroidConstants DEF BootImages
<1>2. RamdiskOffset(image) \in Nat /\ KernelOffset <= RamdiskOffset(image)
  <2>1. AlignUp(image.kernel, RamdiskAlign) \in Nat
    BY <1>1, AlignUpBounds
  <2> QED
    BY <1>1, <2>1 DEF RamdiskOffset
<1>3. KernelOffset <= n
  BY <1>1 DEF HasKernel
<1>4. \A k \in KernelOffset..(n - 1) : vm.ram[k] = m.ram[k]
  BY <1>1 DEF Copy
<1>5. \A k \in 0..(size - 1) : vm.ram[DtbOffset + k] = data[k]
  BY <1>1, <1>3 DEF Copy
<1>6. \A k \in 0..(image.kernel - 1) : vm.ram[KernelOffset + k] = <<"kernel", k>>
  <2> SUFFICES ASSUME NEW k \in 0..(image.kernel - 1)
               PROVE  vm.ram[KernelOffset + k] = <<"kernel", k>>
    OBVIOUS
  <2>1. KernelOffset + k \in KernelOffset..(n - 1) /\ m.ram[KernelOffset + k] = <<"kernel", k>>
    BY <1>1 DEF HasKernel
  <2> QED
    BY <1>4, <2>1
<1>7. ASSUME image.magic, image.ramdisk > 0
      PROVE  \A k \in 0..(image.ramdisk - 1) : vm.ram[RamdiskOffset(image) + k] = <<"ramdisk", k>>
  <2> SUFFICES ASSUME NEW k \in 0..(image.ramdisk - 1)
               PROVE  vm.ram[RamdiskOffset(image) + k] = <<"ramdisk", k>>
    OBVIOUS
  <2>1. /\ RamdiskOffset(image) + image.ramdisk <= n
        /\ m.ram[RamdiskOffset(image) + k] = <<"ramdisk", k>>
    BY <1>7 DEF HasKernel
  <2>2. RamdiskOffset(image) + k \in KernelOffset..(n - 1)
    BY <1>1, <1>2, <2>1
  <2> QED
    BY <1>4, <2>1, <2>2
<1> QED
  BY <1>5, <1>6, <1>7 DEF HasKernel

(* A generated tree is placed, and tells the command line and the CPUs of  *)
(* the machine it is generated for (sv_machine_generate_dtb).              *)
LEMMA GenerateDtbPlaces ==
  ASSUME NEW m, IsMachine(m), NEW n \in Nat, DOMAIN m.ram = 0..(n - 1),
         NEW image \in BootImages, HasKernel(m, image, n), NEW tree
  PROVE  /\ HasKernel(GenerateDtb(m), image, n)
         /\ HasTree(GenerateDtb(m), tree) /\ GenerateDtb(m).cmdline = m.cmdline
<1> DEFINE vm == GenerateDtb(m)
           ram == Copy(m.ram, DtbOffset, Generated(m))
<1>1. TreeCells \in Nat /\ DtbOffset + TreeCells <= KernelOffset
  BY AndroidConstants
<1>2. vm = [m EXCEPT !.ram = ram, !.dtb_addr = RamBase + DtbOffset]
  BY DEF GenerateDtb
<1> HIDE DEF vm, ram
<1>3. /\ vm.ram = ram /\ vm.dtb_addr = RamBase + DtbOffset
      /\ vm.kernel_entry = m.kernel_entry /\ vm.cmdline = m.cmdline /\ vm.cpus = m.cpus
  BY <1>2 DEF IsMachine
<1>4. DOMAIN Generated(m) = 0..(TreeCells - 1)
  BY DEF Generated
<1>5. /\ HasKernel(vm, image, n)
      /\ \A k \in 0..(TreeCells - 1) : vm.ram[DtbOffset + k] = Generated(m)[k]
  BY <1>1, <1>3, <1>4, CopyBelowKernel DEF ram
<1> QED
  BY <1>3, <1>5 DEF HasTree, Generated, vm

(* A supplied tree is placed whole or not announced (sv_machine_load_dtb). *)
LEMMA LoadDtbPlaces ==
  ASSUME NEW m, IsMachine(m), NEW n \in Nat, DOMAIN m.ram = 0..(n - 1), m.dtb_addr = 0,
         NEW image \in BootImages, HasKernel(m, image, n), NEW tree \in Nat \ {0},
         DtbOffset + tree <= KernelOffset \/ DtbOffset + tree > n,
         NEW vm \in LoadDtbResults(m, tree)
  PROVE  HasKernel(vm, image, n) /\ (vm.dtb_addr = 0 \/ HasTree(vm, tree))
<1>1. RamSizeOf(m) = n /\ DtbOffset \in Nat /\ KernelOffset \in Nat
  <2>1. RamSizeOf(m) = n
    BY FS_Interval DEF RamSizeOf
  <2> QED
    BY <2>1, AndroidConstants
<1>2. CASE vm = m
  BY <1>2
<1>3. ASSUME NEW size \in 0..(tree - 1), DtbOffset + tree <= n, vm = Copied(m, TreeFile(size))
      PROVE  HasKernel(vm, image, n) /\ vm.dtb_addr = 0
  <2> DEFINE ram == Copy(m.ram, DtbOffset, TreeFile(size))
  <2>1. vm = [m EXCEPT !.ram = ram]
    BY <1>3 DEF Copied
  <2> HIDE DEF ram
  <2>2. vm.ram = ram /\ vm.kernel_entry = m.kernel_entry /\ vm.dtb_addr = 0
    BY <2>1 DEF IsMachine
  <2>3. DOMAIN TreeFile(size) = 0..(size - 1) /\ size \in Nat /\ DtbOffset + size <= KernelOffset
    BY <1>1, <1>3 DEF TreeFile
  <2> QED
    BY <2>2, <2>3, CopyBelowKernel DEF ram
<1>4. ASSUME DtbOffset + tree <= n, vm = CopiedAt(m, TreeFile(tree), RamBase + DtbOffset)
      PROVE  HasKernel(vm, image, n) /\ HasTree(vm, tree)
  <2> DEFINE ram == Copy(m.ram, DtbOffset, TreeFile(tree))
  <2>1. vm = [m EXCEPT !.ram = ram, !.dtb_addr = RamBase + DtbOffset]
    BY <1>4 DEF CopiedAt
  <2> HIDE DEF ram
  <2>2. vm.ram = ram /\ vm.kernel_entry = m.kernel_entry /\ vm.dtb_addr = RamBase + DtbOffset
    BY <2>1 DEF IsMachine
  <2>3. DOMAIN TreeFile(tree) = 0..(tree - 1) /\ tree \in Nat /\ DtbOffset + tree <= KernelOffset
    BY <1>1, <1>4 DEF TreeFile
  <2>4. /\ HasKernel(vm, image, n)
        /\ \A k \in 0..(tree - 1) : vm.ram[DtbOffset + k] = TreeFile(tree)[k]
    BY <2>2, <2>3, CopyBelowKernel DEF ram
  <2> QED
    BY <2>2, <2>4 DEF HasTree, TreeFile
<1>5. \/ vm = m
      \/ /\ DtbOffset + tree <= n
         /\ \/ \E size \in 0..(tree - 1) : vm = Copied(m, TreeFile(size))
            \/ vm = CopiedAt(m, TreeFile(tree), RamBase + DtbOffset)
  BY <1>1 DEF LoadDtbResults, Copied, CopiedAt
<1> QED
  BY <1>2, <1>3, <1>4, <1>5

-----------------------------------------------------------------------------
(* The set-up of a run.                                                    *)

(* The configuration of a run is one the user chose.                       *)
LEMMA ConfigIsOffered ==
  ASSUME MachineInv
  PROVE  /\ config \in Config /\ config.kernel \in BootImages
         /\ config.ram \in Nat /\ config.tree \in Nat /\ config.cpus \in Nat \ {0}
         /\ config.backends \in Seq(Registered)
  BY ManagerConstants DEF MachineInv, config, Config

(* The machine chooses a back end there is code for (sv_hv_get_best).      *)
LEMMA BestIsRegistered ==
  ASSUME NEW backends \in Seq(Registered)
  PROVE  GetBest(backends) \in Registered \cup {NoBackend}
<1> DEFINE Has(rank) == \E k \in DOMAIN backends : backends[k] = Priority[rank]
           Best(rank) == Has(rank) /\ \A r \in 1..(rank - 1) : ~Has(r)
<1>1. CASE \A rank \in DOMAIN Priority : ~Has(rank)
  BY <1>1 DEF GetBest
<1>2. CASE \E rank \in DOMAIN Priority : Has(rank)
  <2>1. DOMAIN Priority = 1..4
    BY DEF Priority
  <2>2. \E rank \in DOMAIN Priority : Best(rank)
    <3>1. CASE Has(1)
      BY <2>1, <3>1
    <3>2. CASE Has(2) /\ ~Has(1)
      BY <2>1, <3>2
    <3>3. CASE Has(3) /\ ~Has(1) /\ ~Has(2)
      BY <2>1, <3>3
    <3>4. CASE Has(4) /\ ~Has(1) /\ ~Has(2) /\ ~Has(3)
      BY <2>1, <3>4
    <3> QED
      BY <1>2, <2>1, <3>1, <3>2, <3>3, <3>4
  <2>3. GetBest(backends) = Priority[CHOOSE rank \in DOMAIN Priority : Best(rank)]
    BY <1>2 DEF GetBest
  <2>4. PICK rank \in DOMAIN Priority : GetBest(backends) = Priority[rank] /\ Has(rank)
    BY <2>2, <2>3
  <2>5. PICK k \in DOMAIN backends : backends[k] = Priority[rank]
    BY <2>4
  <2>6. backends[k] \in Registered
    BY <2>5
  <2> QED
    BY <2>4, <2>5, <2>6
<1> QED
  BY <1>1, <1>2

LEMMA InitEstablishesBootInv == Init => BootInv
  BY InitEstablishesManagerInv DEF Init, BootInv, KernelInv, TreeInv, VcpuInv

(* Loading the kernel: what stays in RAM if it succeeds.                   *)
LEMMA LoadKernelFileKeepsBootInv ==
  ASSUME BootInv, LoadKernelFile, config' = config
  PROVE  KernelInv' /\ TreeInv' /\ VcpuInv'
<1>1. CASE main' # "tree"
  <2>1. main' = "cleanup"
    BY <1>1 DEF LoadKernelFile, Fail, Goto
  <2> QED
    BY <2>1 DEF KernelInv, TreeInv, VcpuInv
<1>2. CASE main' = "tree"
  <2>1. LoadKernel(m_machine, config.kernel).ok
        /\ m_machine' = LoadKernel(m_machine, config.kernel).vm
    BY <1>2 DEF LoadKernelFile, Fail, Goto
  <2>2. ASSUME Bootable
        PROVE  HasKernel(m_machine', config.kernel, config.ram) /\ m_machine'.dtb_addr = 0
    <3>1. config.kernel \in BootImages /\ config.ram \in Nat
      BY ConfigIsOffered DEF BootInv, ManagerInv
    <3>2. /\ IsMachine(m_machine) /\ DOMAIN m_machine.ram = 0..(config.ram - 1)
          /\ m_machine.dtb_addr = 0 /\ (config.kernel.magic => config.kernel.version = 0)
      BY <2>2 DEF BootInv, ManagerInv, MachineInv, TreeInv, LoadKernelFile, Bootable
    <3> QED
      BY <2>1, <3>1, <3>2, LoadKernelPlaces
  <2>3. Bootable' <=> Bootable
    BY DEF Bootable
  <2> QED
    BY <1>2, <2>2, <2>3 DEF KernelInv, TreeInv, VcpuInv
<1> QED
  BY <1>1, <1>2

(* The tree is supplied, or generated with the user's command line.        *)
LEMMA MakeTreeKeepsBootInv ==
  ASSUME BootInv, MakeTree, config' = config
  PROVE  KernelInv' /\ TreeInv' /\ VcpuInv'
<1>1. main = "tree" /\ main' = "attach" /\ (Bootable' <=> Bootable)
  BY DEF MakeTree, Goto, Bootable
<1> SUFFICES ASSUME Bootable
             PROVE  /\ HasKernel(m_machine', config.kernel, config.ram)
                    /\ m_machine'.dtb_addr = 0 \/ HasTree(m_machine', config.tree)
                    /\ config.tree = 0 /\ config.cmdline # "" => m_machine'.cmdline = config.cmdline
  BY <1>1 DEF KernelInv, TreeInv, VcpuInv
<1>2. /\ config.kernel \in BootImages /\ config.ram \in Nat /\ config.tree \in Nat
      /\ IsMachine(m_machine) /\ DOMAIN m_machine.ram = 0..(config.ram - 1)
      /\ m_machine.dtb_addr = 0 /\ HasKernel(m_machine, config.kernel, config.ram)
      /\ DtbOffset + config.tree <= KernelOffset \/ DtbOffset + config.tree > config.ram
  BY <1>1, ConfigIsOffered
     DEF BootInv, ManagerInv, MachineInv, KernelInv, TreeInv, Bootable
<1>3. CASE config.tree > 0
  <2>1. m_machine' \in LoadDtbResults(m_machine, config.tree)
    BY <1>3 DEF MakeTree
  <2> QED
    <3>1. config.tree \in Nat \ {0}
      BY <1>2, <1>3
    <3>2. /\ HasKernel(m_machine', config.kernel, config.ram)
          /\ m_machine'.dtb_addr = 0 \/ HasTree(m_machine', config.tree)
      BY <1>2, <2>1, <3>1, LoadDtbPlaces
    <3> QED
      BY <3>1, <3>2
<1>4. CASE ~(config.tree > 0)
  <2> DEFINE cmdline == IF config.cmdline = "" THEN m_machine.cmdline ELSE config.cmdline
             m == [m_machine EXCEPT !.cmdline = cmdline]
  <2>1. m_machine' = GenerateDtb(m)
    BY <1>4 DEF MakeTree
  <2>2. config.cmdline # "" => cmdline = config.cmdline
    OBVIOUS
  <2> HIDE DEF cmdline
  <2>3. /\ IsMachine(m) /\ m.ram = m_machine.ram /\ m.cmdline = cmdline
        /\ m.kernel_entry = m_machine.kernel_entry
    BY <1>2 DEF IsMachine
  <2> HIDE DEF m
  <2>4. HasKernel(m, config.kernel, config.ram)
    BY <1>2, <2>3 DEF HasKernel
  <2> QED
    BY <1>2, <2>1, <2>2, <2>3, <2>4, GenerateDtbPlaces
<1> QED
  BY <1>3, <1>4

(* sv_machine_run generates a tree if there is none yet.                   *)
LEMMA RunEntryKeepsBootInv ==
  ASSUME BootInv, RunEntry, config' = config
  PROVE  KernelInv' /\ TreeInv' /\ VcpuInv'
<1>1. /\ main = "run" /\ main' \in {"cleanup", "vcpus", "failed"} /\ (Bootable' <=> Bootable)
      /\ m_machine' = WithTree
      /\ main' = "vcpus" => hvm' = NewVm(hvm, Backend) /\ Backend # NoBackend
  BY DEF RunEntry, Goto, Bootable
<1>2. CASE main' # "vcpus"
  BY <1>1, <1>2 DEF KernelInv, TreeInv, VcpuInv
<1>3. CASE main' = "vcpus"
  <2>1. VcpuInv'
    <3>1. Backend \in Registered
      BY <1>1, <1>3, ConfigIsOffered, BestIsRegistered DEF Backend, BootInv, ManagerInv
    <3> QED
      BY <1>1, <1>3, <3>1, VmCalls DEF VcpuInv, BootInv, ManagerInv, LifeInv, NoHandle
  <2> SUFFICES ASSUME Bootable
               PROVE  /\ HasKernel(m_machine', config.kernel, config.ram)
                      /\ HasTree(m_machine', config.tree)
                      /\ config.tree = 0 /\ config.cmdline # "" => m_machine'.cmdline = config.cmdline
    BY <1>1, <1>3, <2>1 DEF KernelInv, TreeInv
  <2>2. /\ config.kernel \in BootImages /\ config.ram \in Nat
        /\ IsMachine(m_machine) /\ DOMAIN m_machine.ram = 0..(config.ram - 1)
        /\ HasKernel(m_machine, config.kernel, config.ram)
        /\ m_machine.dtb_addr = 0 \/ HasTree(m_machine, config.tree)
        /\ config.tree = 0 /\ config.cmdline # "" => m_machine.cmdline = config.cmdline
    BY <1>1, ConfigIsOffered DEF BootInv, ManagerInv, MachineInv, KernelInv, TreeInv
  <2>3. CASE m_machine.dtb_addr = 0
    BY <1>1, <2>2, <2>3, GenerateDtbPlaces DEF WithTree
  <2>4. CASE m_machine.dtb_addr # 0
    BY <1>1, <2>2, <2>4 DEF WithTree
  <2> QED
    BY <2>3, <2>4
<1> QED
  BY <1>2, <1>3

(* The back end takes the registers only if it numbers them as sv_machine  *)
(* does, and then the program counter is where the kernel starts.          *)
LEMMA AcceptedRegs ==
  ASSUME NEW m, NEW backend \in Registered, NEW id \in Nat, Accepts(backend, RegWrites(m, id))
  PROVE  Written(backend, RegWrites(m, id)) = [x0 |-> m.dtb_addr, pc |-> m.kernel_entry]
<1> DEFINE w == RegWrites(m, id)
<1>1. /\ DOMAIN w = 1..4 /\ w[1] = <<0, m.dtb_addr>> /\ w[2] = <<1, id>>
      /\ w[3] = <<32, m.kernel_entry>> /\ w[4] = <<33, EL1hMasked>>
  BY DEF RegWrites
<1> HIDE DEF w
<1>2. backend # "hvf"
  <2>1. IsReg(backend, 33)
    BY <1>1 DEF Accepts, w
  <2> QED
    BY <2>1 DEF IsReg, SpecialRegs, HvfRegs
<1>3. NumberOf(backend, "pc") = 32
  <2>1. SpecialRegs(backend) = <<"sp", "pc", "pstate">>
    BY <1>2 DEF Registered, SpecialRegs, KvmRegs, TcgRegs
  <2>2. \A k \in DOMAIN SpecialRegs(backend) : SpecialRegs(backend)[k] = "pc" <=> k = 2
    BY <2>1
  <2>3. 2 \in DOMAIN SpecialRegs(backend)
    BY <2>1
  <2> QED
    BY <2>2, <2>3 DEF NumberOf
<1>4. ValueOf(w, 0) = m.dtb_addr
  <2>1. \A k \in DOMAIN w : w[k][1] = 0 <=> k = 1
    BY <1>1
  <2> QED
    BY <1>1, <2>1 DEF ValueOf
<1>5. ValueOf(w, 32) = m.kernel_entry
  <2>1. \A k \in DOMAIN w : w[k][1] = 32 <=> k = 3
    BY <1>1
  <2> QED
    BY <1>1, <2>1 DEF ValueOf
<1> QED
  BY <1>3, <1>4, <1>5 DEF Written, w

LEMMA NextKeepsBootInv ==
  ASSUME BootInv, [Next]_vars
  PROVE  BootInv'
<1>0. ManagerInv'
  BY NextKeepsManagerInv DEF BootInv
<1> SUFFICES KernelInv' /\ TreeInv' /\ VcpuInv'
  BY <1>0 DEF BootInv
<1> USE DEF Goto
<1>1. CASE Deliver \/ Dispatch
  BY <1>1 DEF Deliver, Dispatch, KernelInv, TreeInv, VcpuInv
<1>2. CASE InitMachine
  BY <1>2 DEF InitMachine, NewMachine, NoMachine, KernelInv, TreeInv, VcpuInv
<1>3. CASE LoadKernelFile
  BY <1>3, LoadKernelFileKeepsBootInv DEF LoadKernelFile, UserVars, config
<1>4. CASE MakeTree
  BY <1>4, MakeTreeKeepsBootInv DEF MakeTree, UserVars, config
<1>5. CASE Attach
  <2>1. PICK devices : m_machine' = [m_machine EXCEPT !.devices = devices]
    BY <1>5 DEF Attach
  <2>2. /\ m_machine'.ram = m_machine.ram /\ m_machine'.kernel_entry = m_machine.kernel_entry
        /\ m_machine'.dtb_addr = m_machine.dtb_addr /\ m_machine'.cpus = m_machine.cpus
        /\ m_machine'.cmdline = m_machine.cmdline
    BY <2>1 DEF BootInv, ManagerInv, MachineInv, IsMachine
  <2>3. main = "attach" /\ main' = "announce" /\ config' = config /\ (Bootable' <=> Bootable)
    BY <1>5 DEF Attach, UserVars, config, Bootable
  <2> QED
    BY <2>2, <2>3 DEF BootInv, KernelInv, TreeInv, VcpuInv, HasKernel, HasTree
<1>6. CASE Announce
  BY <1>6 DEF Announce, UserVars, machineVars, config, Bootable, BootInv, KernelInv, TreeInv, VcpuInv
<1>7. CASE RunEntry
  BY <1>7, RunEntryKeepsBootInv DEF RunEntry, UserVars, config
<1>8. CASE SetUpVcpu
  <2>1. /\ main = "vcpus" /\ main' = main /\ m_machine' = m_machine /\ config' = config
        /\ (Bootable' <=> Bootable) /\ hvm' = NewVcpu(hvm)
        /\ Accepts(hvm.backend, RegWrites(m_machine, hvm.ready))
        /\ vcpu' = IF hvm.ready = 0
                     THEN Written(hvm.backend, RegWrites(m_machine, hvm.ready)) ELSE vcpu
    BY <1>8 DEF SetUpVcpu, UserVars, config, Bootable
  <2>2. KernelInv' /\ TreeInv'
    BY <2>1 DEF BootInv, KernelInv, TreeInv
  <2>3. /\ hvm.backend \in Registered /\ hvm.ready \in Nat
        /\ hvm.ready > 0 => vcpu = [x0 |-> m_machine.dtb_addr, pc |-> m_machine.kernel_entry]
    BY <2>1 DEF BootInv, VcpuInv
  <2>4. vcpu' = [x0 |-> m_machine.dtb_addr, pc |-> m_machine.kernel_entry]
    BY <2>1, <2>3, AcceptedRegs
  <2>5. hvm'.backend = hvm.backend /\ hvm'.ready \in Nat
    BY <2>1, <2>3, VmCalls DEF BootInv, ManagerInv, LifeInv
  <2> QED
    BY <2>1, <2>2, <2>3, <2>4, <2>5 DEF VcpuInv
<1>9. CASE EnterLoop
  BY <1>9 DEF EnterLoop, UserVars, machineVars, config, Bootable,
              BootInv, ManagerInv, MachineInv, KernelInv, TreeInv, VcpuInv
<1>10. CASE \E exit \in VcpuExits : Loop(exit)
  BY <1>10 DEF Loop, UserVars, config, Bootable, BootInv, KernelInv, TreeInv, VcpuInv
<1>11. CASE VcpuFails \/ Failed \/ Cleanup
  BY <1>11 DEF VcpuFails, Failed, Fail, Cleanup, KernelInv, TreeInv, VcpuInv
<1>12. CASE (\E b \in Button : Click(b)) \/ UNCHANGED vars
  BY <1>12 DEF Click, vars, machineVars, config, Bootable, BootInv, KernelInv, TreeInv, VcpuInv
<1> QED
  BY <1>1, <1>2, <1>3, <1>4, <1>5, <1>6, <1>7, <1>8, <1>9, <1>10, <1>11, <1>12
     DEF Next, MainStep

THEOREM BootCorrect == Spec => []BootInv
  BY InitEstablishesBootInv, NextKeepsBootInv, PTL DEF Spec

(* Whichever configuration the user chose and whatever failed before, when *)
(* vCPU 0 executes it is at the first cell of that kernel, whole in RAM as *)
(* its ramdisk is, and x0 names a whole tree with the user's settings.     *)
THEOREM ChosenKernelBoots == Spec => []BootsChosenKernel
<1>1. BootInv => BootsChosenKernel
  <2> SUFFICES ASSUME BootInv, main = "loop", Bootable
               PROVE  BootsChosenKernel
    BY DEF BootsChosenKernel
  <2>1. /\ HasKernel(m_machine, config.kernel, config.ram)
        /\ HasTree(m_machine, config.tree) /\ m_machine.cpus = config.cpus
        /\ config.tree = 0 /\ config.cmdline # "" => m_machine.cmdline = config.cmdline
        /\ vcpu = [x0 |-> m_machine.dtb_addr, pc |-> m_machine.kernel_entry]
        /\ config.kernel \in BootImages /\ config.tree \in Nat
    <3>1. config.cpus \in Nat \ {0} /\ config.kernel \in BootImages /\ config.tree \in Nat
      BY ConfigIsOffered DEF BootInv, ManagerInv
    <3> QED
      <4>1. /\ HasKernel(m_machine, config.kernel, config.ram)
            /\ HasTree(m_machine, config.tree) /\ m_machine.cpus = config.cpus
            /\ config.tree = 0 /\ config.cmdline # "" => m_machine.cmdline = config.cmdline
        BY DEF BootInv, ManagerInv, MachineInv, KernelInv, TreeInv
      <4>2. hvm.ready = config.cpus
            /\ (hvm.ready > 0 => vcpu = [x0 |-> m_machine.dtb_addr, pc |-> m_machine.kernel_entry])
        BY DEF BootInv, VcpuInv
      <4>3. hvm.ready > 0
        BY <3>1, <4>2
      <4>4. vcpu = [x0 |-> m_machine.dtb_addr, pc |-> m_machine.kernel_entry]
        BY <4>2, <4>3
      <4> QED
        BY <3>1, <4>1, <4>4
  <2>2. /\ RamBase \in Nat /\ DtbOffset \in Nat /\ KernelOffset \in Nat
        /\ RamdiskAlign \in Nat \ {0} /\ TreeCells \in Nat
    BY AndroidConstants
  <2>a. ASSUME NEW off \in Nat, NEW data, NEW n \in Nat, DOMAIN data = 0..(n - 1),
               \A k \in 0..(n - 1) : m_machine.ram[off + k] = data[k]
        PROVE  At(RamBase + off, data)
    <3> SUFFICES ASSUME NEW k \in 0..(n - 1)
                 PROVE  m_machine.ram[(RamBase + off) - RamBase + k] = data[k]
      BY <2>a DEF At
    <3>1. (RamBase + off) - RamBase + k = off + k
      BY <2>2
    <3> QED
      BY <2>a, <3>1
  <2>3. At(vcpu.pc, Whole("kernel", config.kernel.kernel))
    <3> DEFINE n == config.kernel.kernel
               data == Whole("kernel", n)
    <3>1. n \in Nat /\ DOMAIN data = 0..(n - 1) /\ \A k \in 0..(n - 1) : data[k] = <<"kernel", k>>
      BY <2>1 DEF BootImages, Whole
    <3>2. \A k \in 0..(n - 1) : m_machine.ram[KernelOffset + k] = data[k]
      BY <2>1, <3>1 DEF HasKernel
    <3>3. vcpu.pc = RamBase + KernelOffset
      BY <2>1 DEF HasKernel
    <3> HIDE DEF n, data
    <3>4. At(RamBase + KernelOffset, data)
      BY <2>2, <2>a, <3>1, <3>2
    <3> QED
      BY <3>3, <3>4 DEF n, data
  <2>4. config.kernel.magic =>
          At(RamBase + RamdiskOffset(config.kernel), Whole("ramdisk", config.kernel.ramdisk))
    <3> DEFINE n == config.kernel.ramdisk
               data == Whole("ramdisk", n)
               off == RamdiskOffset(config.kernel)
    <3> SUFFICES ASSUME config.kernel.magic PROVE At(RamBase + off, data)
      OBVIOUS
    <3>1. n \in Nat /\ DOMAIN data = 0..(n - 1) /\ \A k \in 0..(n - 1) : data[k] = <<"ramdisk", k>>
      BY <2>1 DEF BootImages, Whole
    <3>2. off \in Nat
      <4>1. config.kernel.kernel \in Nat
        BY <2>1 DEF BootImages
      <4>2. AlignUp(config.kernel.kernel, RamdiskAlign) \in Nat
        BY <2>2, <4>1, AlignUpBounds
      <4> QED
        BY <2>2, <4>2 DEF RamdiskOffset
    <3>3. \A k \in 0..(n - 1) : m_machine.ram[off + k] = data[k]
      <4> SUFFICES ASSUME NEW k \in 0..(n - 1) PROVE m_machine.ram[off + k] = data[k]
        OBVIOUS
      <4>1. n > 0
        BY <3>1
      <4> QED
        BY <2>1, <3>1, <4>1 DEF HasKernel
    <3> HIDE DEF n, data, off
    <3> QED
      BY <2>a, <3>1, <3>2, <3>3
  <2>5. (config.tree > 0 /\ At(vcpu.x0, TreeFile(config.tree))) \/ At(vcpu.x0, Generated(m_machine))
    <3> DEFINE tree == config.tree
    <3>1. vcpu.x0 = RamBase + DtbOffset
      BY <2>1 DEF HasTree
    <3>2. CASE tree > 0 /\ \A k \in 0..(tree - 1) : m_machine.ram[DtbOffset + k] = <<"treeFile", k>>
      <4>1. /\ DOMAIN TreeFile(tree) = 0..(tree - 1)
            /\ \A k \in 0..(tree - 1) : m_machine.ram[DtbOffset + k] = TreeFile(tree)[k]
        BY <3>2 DEF TreeFile
      <4> QED
        <5>1. At(RamBase + DtbOffset, TreeFile(tree))
          BY <2>1, <2>2, <2>a, <4>1
        <5> QED
          BY <3>1, <3>2, <5>1
    <3>3. CASE \A k \in 0..(TreeCells - 1) : m_machine.ram[DtbOffset + k] =
                 <<"tree", m_machine.cmdline, m_machine.cpus, k>>
      <4>1. /\ DOMAIN Generated(m_machine) = 0..(TreeCells - 1)
            /\ \A k \in 0..(TreeCells - 1) : m_machine.ram[DtbOffset + k] = Generated(m_machine)[k]
        BY <3>3 DEF Generated
      <4> QED
        BY <2>2, <2>a, <3>1, <4>1
    <3> QED
      BY <2>1, <3>2, <3>3 DEF HasTree
  <2> QED
    BY <2>1, <2>3, <2>4, <2>5 DEF BootsChosenKernel
<1> QED
  BY <1>1, BootCorrect, PTL
=============================================================================
