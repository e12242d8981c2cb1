------------------------- MODULE AppleMachineProofs -------------------------
(* Theorems about AppleMachine, for every set-up its clients may ask for:  *)
(* every kernel, tree, container and back end, every layout of RAM and     *)
(* every program.                                                          *)
EXTENDS AppleMachine, SequenceTheorems, FiniteSetTheorems, WellFoundedInduction, TLAPS

-----------------------------------------------------------------------------
(* Least and greatest elements: the boot chain takes the first property of *)
(* a name, the last thread command, the last segment that fills a cell.    *)
LessThanNat == {p \in Nat \X Nat : p[1] < p[2]}

(* The order on the naturals is well founded, in the form the next lemma   *)
(* needs it.                                                               *)
LEMMA LessThanWF == IsWellFoundedOn(LessThanNat, Nat)
  BY NatLessThanWellFounded DEF OpToRel, LessThanNat

(* Min of a nonempty set of naturals belongs to the set and bounds it.     *)
LEMMA MinIsLeast ==
  ASSUME NEW S \in SUBSET Nat, S # {}
  PROVE  Min(S) \in S /\ \A y \in S : Min(S) <= y
<1>1. PICK x \in S : \A y \in S : <<y, x>> \notin LessThanNat
  BY LessThanWF, WFMin
<1>2. \A y \in S : x <= y
  <2>1. \A y \in S : ~ (y < x)
    BY <1>1 DEF LessThanNat
  <2> QED
    BY <2>1
<1> QED
  BY <1>2 DEF Min

(* So does Max of one that has a bound: the least bound is in the set.     *)
LEMMA MaxIsGreatest ==
  ASSUME NEW S \in SUBSET Nat, S # {}, NEW n \in Nat, \A y \in S : y <= n
  PROVE  Max(S) \in S /\ \A y \in S : y <= Max(S)
<1> DEFINE Bounds == {m \in Nat : \A y \in S : y <= m}
           m == Min(Bounds)
<1>1. m \in Bounds /\ \A k \in Bounds : m <= k
  BY MinIsLeast
<1> HIDE DEF m
<1>2. m \in S
  <2>1. CASE m = 0
    <3>1. PICK y \in S : TRUE
      OBVIOUS
    <3> QED
      BY <1>1, <2>1, <3>1
  <2>2. CASE m # 0
    <3>1. m - 1 \in Nat /\ m - 1 \notin Bounds
      BY <1>1, <2>2
    <3> QED
      BY <1>1, <3>1
  <2> QED
    BY <2>1, <2>2
<1> QED
  BY <1>1, <1>2 DEF Max

-----------------------------------------------------------------------------
(* The life of the machine and of its VM's handle.                         *)

IsVm(vm) == vm = [backend |-> vm.backend, ready |-> vm.ready, remains |-> vm.remains]
NoHandle(vm) == vm.backend = NoBackend /\ vm.ready = 0

LEMMA VmCalls ==
  /\ IsVm(NoVm) /\ NoHandle(NoVm)
  /\ \A vm, vcpus : IsVm(VmDestroy(vm, vcpus)) /\ NoHandle(VmDestroy(vm, vcpus))
  /\ \A vm, backend : IsVm(vm) =>
       /\ IsVm(NewVm(vm, backend))
       /\ NewVm(vm, backend).backend = backend /\ NewVm(vm, backend).ready = vm.ready
  /\ \A vm : IsVm(vm) =>
       /\ IsVm(NewVcpu(vm))
       /\ NewVcpu(vm).backend = vm.backend /\ NewVcpu(vm).ready = vm.ready + 1
  BY DEF IsVm, NoHandle, NoVm, VmDestroy, NewVm, NewVcpu

(* How far a client may be while the machine exists, and a VM in it.       *)
Lives == {"initialized", "read", "loaded", "treed", "attached", "prologue", "vcpus", "loop",
          "left", "ran"}
WithVm == {"vcpus", "loop", "left"}

(* The inductive invariant behind HandleReleased: the machine has its RAM from *)
(* the initialization to the end, a VM's handle only inside a run.         *)
Machines ==
  [allocated : BOOLEAN, running : BOOLEAN, devices : SUBSET {"net", "console", "blk"}]
Lifetimes ==
  /\ machine \in Machines
  /\ at \in Lives \cup {"start", "loader", "set up", "exited"}
  /\ at \in Lives => machine.allocated
  /\ IsVm(hvm)
  /\ at \notin WithVm => NoHandle(hvm)

(* Without a machine there is no RAM.                                      *)
LEMMA NoMachineType ==
  /\ NoMachine \in Machines
  /\ [NoMachine EXCEPT !.allocated = TRUE] \in Machines
  /\ [NoMachine EXCEPT !.allocated = TRUE].allocated
  BY DEF NoMachine, Machines

LEMMA LifetimesInit == MachineInit => Lifetimes
<1> SUFFICES ASSUME MachineInit
             PROVE  Lifetimes
  OBVIOUS
<1> USE DEF Lifetimes, Lives, WithVm
<1>1. CASE setup.client = "guest"
  <2>1. /\ at = "loop" /\ IsVm(hvm)
        /\ machine = [allocated |-> TRUE, running |-> TRUE, devices |-> {}]
    BY <1>1 DEF MachineInit, NoMachine, NoVm, IsVm
  <2> QED
    BY <2>1 DEF Machines
<1>2. CASE setup.client # "guest"
  <2>1. /\ at \in {"start", "loader"} /\ hvm = NoVm
        /\ machine = [allocated |-> FALSE, running |-> FALSE, devices |-> {}]
    BY <1>2 DEF MachineInit, NoMachine
  <2> QED
    BY <2>1, VmCalls DEF Machines
<1> QED
  BY <1>1, <1>2

(* A machine's own failure paths give its RAM back only where there is no  *)
(* VM.                                                                     *)
LEMMA LifetimesNext == Lifetimes /\ [MachineNext]_machineVars => Lifetimes'
<1> SUFFICES ASSUME Lifetimes, [MachineNext]_machineVars
             PROVE  Lifetimes'
  OBVIOUS
<1> USE DEF Lifetimes, Lives, WithVm, Go
<1>1. CASE Cli
  <2>1. CASE InitializeFails \/ ReadKernelFails
    BY <2>1 DEF InitializeFails, ReadKernelFails, Exit
  <2>2. CASE Initialize \/ AttachFails \/ Destroy
    BY <2>2, NoMachineType DEF Initialize, AttachFails, Destroy
  <2>6. CASE LoadKernel
    <3>1. /\ at = "read" /\ hvm' = hvm
          /\ \/ at' = "loaded" /\ machine' = machine
             \/ at' = "exited" /\ machine' = NoMachine
      BY <2>6 DEF LoadKernel
    <3> QED
      BY <3>1, NoMachineType
  <2>3. CASE ReadKernel \/ LoadDtb \/ FreeKernelFile
    BY <2>3 DEF ReadKernel, LoadDtb, FreeKernelFile
  <2>4. CASE Attach
    BY <2>4 DEF Attach, Machines
  <2>5. CASE Sigint
    BY <2>5 DEF Sigint, Machines
  <2> QED
    BY <1>1, <2>1, <2>2, <2>3, <2>4, <2>5, <2>6 DEF Cli
<1>2. CASE Run
  <2>1. CASE RunFails
    BY <2>1 DEF RunFails, Machines
  <2>2. CASE CreateVm \/ VcpuFails \/ SetUpVcpu \/ DestroyVm
    <3>1. /\ machine' = machine /\ machine.allocated /\ at' \in {"vcpus", "ran"}
          /\ \/ hvm' = NewVm(hvm, Backend) /\ at' = "vcpus"
             \/ \E vcpus \in {hvm.ready, hvm.ready + 1} : hvm' = VmDestroy(hvm, vcpus)
             \/ hvm' = NewVcpu(hvm) /\ at' = "vcpus"
      BY <2>2 DEF CreateVm, VcpuFails, SetUpVcpu, DestroyVm
    <3>2. IsVm(hvm') /\ (at' = "ran" => NoHandle(hvm'))
      BY <3>1, VmCalls
    <3> QED
      BY <3>1, <3>2
  <2>3. CASE EnterLoop \/ HaltTcg
    BY <2>3 DEF EnterLoop, HaltTcg, AtLoop, Machines
  <2>4. CASE RunTcg \/ StepTcg \/ LeaveLoop
    BY <2>4 DEF RunTcg, StepTcg, LeaveLoop, AtLoop
  <2>5. CASE RunHardware
    BY <2>5 DEF RunHardware, AtLoop, Machines
  <2> QED
    BY <1>2, <2>1, <2>2, <2>3, <2>4, <2>5 DEF Run
<1>3. CASE Loader
  BY <1>3 DEF Loader, LoaderKernel, LoaderTree, LoaderSetup
<1>4. CASE UNCHANGED machineVars
  BY <1>4 DEF machineVars
<1> QED
  BY <1>1, <1>2, <1>3, <1>4 DEF MachineNext

(* Of every machine and every back end: vm_destroy is called for the VM,   *)
(* which maps the machine's RAM, before that is freed and before the run   *)
(* is over (machine_apple.c:561-625, 249-264).  What the back end keeps    *)
(* for the vCPUs that are never destroyed is not the handle's.             *)
THEOREM HandleIsReleased == MachineSpec => []HandleReleased
<1>1. Lifetimes => HandleReleased
  BY DEF Lifetimes, Lives, WithVm, NoHandle, HandleReleased
<1> QED
  BY <1>1, LifetimesInit, LifetimesNext, PTL DEF MachineSpec

-----------------------------------------------------------------------------
(* The state of the boot chain.                                            *)

(* The state is a record whose configuration never changes; what a loader  *)
(* is going to read is live.                                               *)
BootState ==
  /\ boot = [config |-> setup.boot, kernel |-> boot.kernel, tree |-> boot.tree, info |-> boot.info]
  /\ at = "loader" => boot.info = NoInfo
  /\ SetupReadsLiveData

(* A payload that was decompressed into the container's own memory is      *)
(* copied before that goes.                                                *)
LEMMA TreeBuffers ==
  ASSUME NEW file
  PROVE  TreeData(file).buffer \in {"treeCopy", "treeFile"}
  BY DEF TreeData

(* What a set-up leaves of the state, whether it succeeds or not.          *)
LEMMA SetupKeeps ==
  ASSUME NEW b, NEW h,
         b = [config |-> b.config, kernel |-> b.kernel, tree |-> b.tree, info |-> b.info]
  PROVE  LET done == XnuSetup(b, RamBase, RamSize, h).boot
         IN  /\ done = [config |-> b.config, kernel |-> b.kernel, tree |-> b.tree,
                        info |-> done.info]
             /\ ~XnuSetup(b, RamBase, RamSize, h).ok => done = b
<1> DEFINE done == XnuSetup(b, RamBase, RamSize, h)
<1>1. CASE ~MachoValid(b.kernel.data)
  BY <1>1 DEF XnuSetup
<1> DEFINE entry == MachoEntry(b.kernel.data, SlideOf(b.config), RamBase, RamSize)
<1>2. CASE MachoValid(b.kernel.data) /\ entry = 0
  BY <1>2 DEF XnuSetup
<1>3. CASE MachoValid(b.kernel.data) /\ entry # 0
  <2>1. done.ok /\ \E info : done.boot = [b EXCEPT !.info = info]
    BY <1>3 DEF XnuSetup
  <2> QED
    BY <2>1
<1> QED
  BY <1>1, <1>2, <1>3

LEMMA BootStateInit == MachineInit => BootState
<1> SUFFICES ASSUME MachineInit
             PROVE  BootState
  OBVIOUS
<1> DEFINE begun == BootInit(setup.boot)
<1>1. begun = [config |-> setup.boot, kernel |-> NoData, tree |-> NoData, info |-> NoInfo]
  BY DEF BootInit
<1>2. CASE setup.client = "guest"
  <2> DEFINE b == [begun EXCEPT !.kernel = KernelData(setup.kernel)]
  <2>1. b = [config |-> setup.boot, kernel |-> KernelData(setup.kernel), tree |-> NoData,
             info |-> NoInfo]
    BY <1>1
  <2>2. at = "loop" /\ boot = XnuSetup(b, RamBase, RamSize, EmptyRam).boot
    BY <1>2 DEF MachineInit, Booted
  <2> HIDE DEF b
  <2>3. boot = [config |-> b.config, kernel |-> b.kernel, tree |-> b.tree, info |-> boot.info]
    BY <2>1, <2>2, SetupKeeps
  <2> QED
    BY <2>1, <2>2, <2>3 DEF BootState, SetupReadsLiveData
<1>3. CASE setup.client # "guest"
  <2>1. boot = begun
    BY <1>3 DEF MachineInit
  <2> QED
    BY <1>1, <2>1 DEF BootState, SetupReadsLiveData, NoData
<1> QED
  BY <1>2, <1>3

(* The steps that work on the boot chain; the others leave it and the      *)
(* loader alone.  No step changes what a client was asked to do.           *)
Chain == LoadKernel \/ LoadDtb \/ Destroy \/ LoaderKernel \/ LoaderTree \/ LoaderSetup

LEMMA OtherSteps ==
  ASSUME [MachineNext]_machineVars
  PROVE  /\ task' = task /\ setup' = setup
         /\ ~Chain => /\ boot' = boot /\ held' = held
                      /\ at = "loader" => live' = live
                      /\ at' \in {"loader", "set up"} => at' = at
                      /\ at = "set up" => at' = at
<1> USE DEF Chain, Go, AtLoop, bootVars, setup
<1>1. CASE Cli
  BY <1>1 DEF Cli, InitializeFails, Initialize, ReadKernelFails, ReadKernel, LoadKernel, LoadDtb,
              AttachFails, Attach, FreeKernelFile, Destroy, Sigint, Exit
<1>2. CASE Run
  BY <1>2 DEF Run, RunFails, CreateVm, VcpuFails, SetUpVcpu, EnterLoop, RunTcg, StepTcg, HaltTcg,
              RunHardware, LeaveLoop, DestroyVm
<1>3. CASE Loader
  BY <1>3 DEF Loader, LoaderKernel, LoaderTree, LoaderSetup
<1>4. CASE UNCHANGED machineVars
  BY <1>4 DEF machineVars
<1> QED
  BY <1>1, <1>2, <1>3, <1>4 DEF MachineNext

(* Of the loader's two files neither is freed before the set-up is done.   *)
LEMMA BootStateNext == BootState /\ [MachineNext]_machineVars => BootState'
<1> SUFFICES ASSUME BootState, [MachineNext]_machineVars
             PROVE  BootState'
  OBVIOUS
<1>a. task' = task /\ setup' = setup
  BY OtherSteps
<1> USE DEF BootState, SetupReadsLiveData
<1>1. CASE ~Chain
  BY <1>1, <1>a, OtherSteps
<1>2. CASE LoadKernel
  <2> DEFINE b == [BootInit(setup.boot) EXCEPT !.kernel = KernelData(setup.kernel)]
             done == XnuSetup(b, RamBase, RamSize, held)
  <2>1. b = [config |-> setup.boot, kernel |-> KernelData(setup.kernel), tree |-> NoData,
             info |-> NoInfo]
    BY DEF BootInit
  <2>2. at' # "loader" /\ boot' \in {done.boot, b}
    BY <1>2 DEF LoadKernel, Go
  <2> HIDE DEF b
  <2>3. done.boot = [config |-> b.config, kernel |-> b.kernel, tree |-> b.tree,
                     info |-> done.boot.info]
    BY <2>1, SetupKeeps
  <2> QED
    BY <2>1, <2>2, <2>3, <1>a
<1>3. CASE LoadDtb
  BY <1>3, <1>a DEF LoadDtb, Go
<1>4. CASE Destroy
  BY <1>4, <1>a DEF Destroy, Go, BootInit
<1>5. CASE LoaderKernel
  BY <1>5, <1>a DEF LoaderKernel
<1>6. CASE LoaderTree
  <2>1. TreeData(setup.tree).buffer \in {"treeCopy", "treeFile"}
    BY TreeBuffers
  <2>2. boot'.tree.buffer \in live'
    BY <1>6, <2>1 DEF LoaderTree
  <2> QED
    BY <1>6, <2>2, <1>a DEF LoaderTree
<1>7. CASE LoaderSetup
  <2> DEFINE done == XnuSetup(boot, RamBase, RamSize, held)
  <2>1. done.boot = [config |-> boot.config, kernel |-> boot.kernel, tree |-> boot.tree,
                     info |-> done.boot.info]
    BY SetupKeeps
  <2>2. at' # "loader" /\ boot' = done.boot
    BY <1>7 DEF LoaderSetup, Go
  <2> HIDE DEF done
  <2> QED
    BY <2>1, <2>2, <1>a
<1> QED
  BY <1>1, <1>2, <1>3, <1>4, <1>5, <1>6, <1>7 DEF Chain

(* Whatever the containers of kernel and tree: what a set-up is going to   *)
(* read has not been freed (xnu_boot.c:78-96, 265-269).                    *)
THEOREM SetupReadsWhatLives == MachineSpec => []SetupReadsLiveData
<1>1. BootState => SetupReadsLiveData
  BY DEF BootState
<1> QED
  BY <1>1, BootStateInit, BootStateNext, PTL DEF MachineSpec

-----------------------------------------------------------------------------
(* Containers and kernels.                                                 *)

LEMMA LayoutFacts ==
  /\ RamBase \in Nat /\ RamSize \in Nat /\ KernelSpace \in Nat /\ Modulus \in Nat
  /\ RamBase + RamSize < KernelSpace /\ KernelSpace <= Modulus
  /\ TreeRoom \in Nat /\ ArgsRoom \in Nat /\ TreeCells \in Nat /\ ArgsCells \in Nat
  /\ TreeCells + ArgsRoom <= TreeRoom /\ ArgsCells <= ArgsRoom /\ TreeRoom <= RamSize
  BY TcgAssumption, BootAssumption, MachineAssumption

(* What the IM4Ps of a file yield is the contents of one of them, or       *)
(* nothing.                                                                *)
LEMMA Im4psYield ==
  ASSUME NEW S, NEW chunks \in Seq(S), \A chunk \in S : IsData(chunk.body), Im4ps(chunks).ok
  PROVE  IsData(Im4ps(chunks).data)
<1> DEFINE inside == {k \in DOMAIN chunks : chunks[k].inside}
<1>1. CASE inside = {}
  BY <1>1 DEF Im4ps, Payload, Nothing, IsData, Failed
<1>2. CASE inside # {}
  <2>1. inside \in SUBSET Nat /\ Len(chunks) \in Nat /\ \A k \in inside : k <= Len(chunks)
    OBVIOUS
  <2>2. Max(inside) \in DOMAIN chunks
    BY <1>2, <2>1, MaxIsGreatest
  <2>3. chunks[Max(inside)] \in S
    BY <2>2
  <2>4. Im4ps(chunks).data = chunks[Max(inside)].body
    BY <1>2 DEF Im4ps, Payload, Failed
  <2> QED
    BY <2>3, <2>4
<1> QED
  BY <1>1, <1>2

(* So is what is taken of a file for the kernel or the tree.               *)
LEMMA FileYields ==
  ASSUME NEW file, IsFile(file)
  PROVE  IsData(KernelData(file).data) /\ IsData(TreeData(file).data)
<1> DEFINE S == Range(file.chunks)
<1>1. file.chunks \in Seq(S) /\ \A chunk \in S : IsData(chunk.body)
  BY DEF IsFile
<1>2. IsData(file.body)
  BY DEF IsFile
<1>3. ASSUME Img4Load(file).ok PROVE IsData(Img4Load(file).data)
  <2>1. CASE file.form = "im4p" \/ (file.form = "der" /\ file.wellFormed)
    <3>1. file.chunks # <<>>
      BY <2>1 DEF IsFile
    <3>2. file.chunks[1] \in S
      BY <1>1, <3>1
    <3> DEFINE one == <<file.chunks[1]>>
    <3>3. one \in Seq(S)
      BY <3>2
    <3>4. Img4Load(file) = Im4ps(one)
      BY <2>1 DEF Img4Load
    <3> QED
      BY <1>1, <1>3, <3>3, <3>4, Im4psYield
  <2>2. CASE file.form = "img4"
    <3>1. Img4Load(file) = Im4ps(file.chunks)
      BY <1>3, <2>2 DEF Img4Load, Failed
    <3> QED
      BY <1>1, <1>3, <3>1, Im4psYield
  <2>3. CASE ~(file.form = "im4p" \/ (file.form = "der" /\ file.wellFormed))
             /\ file.form # "img4"
    BY <1>2, <2>3 DEF Img4Load, Payload
  <2> QED
    BY <2>1, <2>2, <2>3
<1> QED
  BY <1>2, <1>3 DEF KernelData, TreeData

(* A kernel's numbers.                                                     *)
LEMMA KernelTypes ==
  ASSUME NEW kernel, kernel.cmds \in Seq(Command)
  PROVE  /\ \A k \in Segments(kernel) :
              /\ kernel.cmds[k].vmaddr \in Nat /\ kernel.cmds[k].vmsize \in Nat
              /\ kernel.cmds[k].filesize \in Nat
         /\ BaseAddr(kernel) \in Nat /\ EntryPoint(kernel) \in Nat
<1>1. \A k \in DOMAIN kernel.cmds :
        /\ kernel.cmds[k] \in Command
        /\ kernel.cmds[k].cmd = "segment" => /\ kernel.cmds[k].vmaddr \in Nat
                                             /\ kernel.cmds[k].vmsize \in Nat
                                             /\ kernel.cmds[k].filesize \in Nat
        /\ kernel.cmds[k].cmd = "entry" => kernel.cmds[k].vmaddr \in Nat
        /\ kernel.cmds[k].cmd = "thread" => kernel.cmds[k].pc \in Nat
  <2>1. \A c \in Command :
          /\ c.cmd = "segment" => c.vmaddr \in Nat /\ c.vmsize \in Nat /\ c.filesize \in Nat
          /\ c.cmd = "entry" => c.vmaddr \in Nat
          /\ c.cmd = "thread" => c.pc \in Nat
    BY DEF Command
  <2>2. \A k \in DOMAIN kernel.cmds : kernel.cmds[k] \in Command
    OBVIOUS
  <2> QED
    BY <2>1, <2>2
<1>2. LinkedAt(kernel) \in SUBSET Nat
  BY <1>1 DEF LinkedAt, Range
<1>3. BaseAddr(kernel) \in Nat
  BY <1>2, MinIsLeast DEF BaseAddr
<1>4. EntryPoint(kernel) \in Nat
  <2>1. CASE HasEntry(kernel)
    <3>1. /\ Threads(kernel) \in SUBSET Nat /\ Len(kernel.cmds) \in Nat
          /\ \A k \in Threads(kernel) : k <= Len(kernel.cmds)
      BY DEF Threads
    <3>2. Max(Threads(kernel)) \in Threads(kernel)
      BY <2>1, <3>1, MaxIsGreatest DEF HasEntry
    <3> QED
      BY <1>1, <2>1, <3>2 DEF EntryPoint, Threads
  <2> QED
    BY <2>1 DEF EntryPoint
<1> QED
  BY <1>1, <1>3, <1>4 DEF Segments

-----------------------------------------------------------------------------
(* What a set-up puts into RAM.                                            *)
Ram == RamBase..(RamBase + RamSize - 1)
Place(kernel, slide, addr) == RamBase + Offset(kernel, slide, addr)

(* Where the contents of one segment only are to lie, macho_load puts      *)
(* them, whatever lay there before.                                        *)
LEMMA SegmentsAreLoaded ==
  ASSUME NEW kernel, kernel.cmds \in Seq(Command), ~kernel.fileset,
         NEW slide \in Nat, NEW mem, DOMAIN mem = Ram,
         NEW addr \in Contents(kernel, Loaded(kernel, slide, RamSize)),
         Place(kernel, slide, addr) \in Ram
  PROVE  MachoHeld(kernel, slide, RamBase, RamSize, mem)[Place(kernel, slide, addr)]
           = <<"kernel", addr>>
<1> DEFINE loaded == Loaded(kernel, slide, RamSize)
           a == Place(kernel, slide, addr)
           linked == a - RamBase - slide + BaseAddr(kernel)
           filling == {k \in loaded : Fills(kernel.cmds[k], linked)}
<1>1. /\ BaseAddr(kernel) \in Nat
      /\ \A k \in loaded : /\ kernel.cmds[k].vmaddr \in Nat /\ kernel.cmds[k].vmsize \in Nat
                           /\ kernel.cmds[k].filesize \in Nat
  BY KernelTypes DEF Loaded
<1>2. PICK k \in loaded :
        addr \in kernel.cmds[k].vmaddr..(kernel.cmds[k].vmaddr + kernel.cmds[k].filesize - 1)
  BY DEF Contents
<1>3. addr \in Int /\ linked = addr
  BY <1>1, <1>2, LayoutFacts DEF Place, Offset
<1>4. Fills(kernel.cmds[k], addr)
  <2> DEFINE c == kernel.cmds[k]
  <2>1. {c.vmsize, c.filesize} \in SUBSET Nat /\ c.vmsize + c.filesize \in Nat
    BY <1>1
  <2>2. \A y \in {c.vmsize, c.filesize} : y <= c.vmsize + c.filesize
    BY <1>1
  <2>3. Max({c.vmsize, c.filesize}) \in Nat /\ c.filesize <= Max({c.vmsize, c.filesize})
    BY <2>1, <2>2, MaxIsGreatest
  <2>4. /\ c.vmaddr \in Nat /\ c.filesize \in Nat
        /\ addr \in Int /\ c.vmaddr <= addr /\ addr <= c.vmaddr + c.filesize - 1
    BY <1>1, <1>2
  <2> HIDE DEF c
  <2>5. c.filesize > 0 /\ addr \in c.vmaddr..(c.vmaddr + Max({c.vmsize, c.filesize}) - 1)
    BY <2>3, <2>4
  <2> QED
    BY <2>5 DEF Fills, c
<1>5. filling = {k}
  BY <1>3, <1>4 DEF Contents
<1>6. Max(filling) = k
  <2>1. k \in Nat
    BY DEF Loaded, Segments
  <2> QED
    BY <1>5, <2>1 DEF Max
<1>7. MachoHeld(kernel, slide, RamBase, RamSize, mem)[a] = LoadSegment(kernel.cmds[k], addr)
  BY <1>3, <1>5, <1>6 DEF MachoHeld
<1>8. LoadSegment(kernel.cmds[k], addr) = <<"kernel", addr>>
  <2>1. kernel.cmds[k].vmaddr + kernel.cmds[k].filesize > addr
    BY <1>1, <1>2, <1>3
  <2> QED
    BY <2>1 DEF LoadSegment
<1> QED
  BY <1>7, <1>8

(* The image of a guest: arguments, tree, segments.                        *)
Image(info, kernel, mem) ==
  /\ \A k \in 0..(ArgsCells - 1) : mem[info.args + k] = <<"args", k>>
  /\ info.bootArgs.tree # 0 =>
       \A k \in 0..(TreeCells - 1) : mem[info.bootArgs.tree + k] = <<"tree", k>>
  /\ \A addr \in Contents(kernel, Loaded(kernel, info.slide, RamSize)) :
       Place(kernel, info.slide, addr) \in KernelRam
         => mem[Place(kernel, info.slide, addr)] = <<"kernel", addr>>

(* What the boot information says of the kernel.                           *)
Described(info, kernel) ==
  /\ kernel.cmds \in Seq(Command) /\ ~kernel.fileset
  /\ info.slide \in Nat /\ info.virtBase = BaseAddr(kernel)
  /\ info.virtEntry = (IF HasEntry(kernel) THEN EntryPoint(kernel) ELSE BaseAddr(kernel))
  /\ info.entry = MachoEntry(kernel, info.slide, RamBase, RamSize)

(* What is put into RAM in one piece.                                      *)
LEMMA PutPuts ==
  ASSUME NEW mem, DOMAIN mem = Ram, NEW from \in Nat, NEW size \in Nat, NEW what
  PROVE  /\ DOMAIN Put(mem, from, size, what) = Ram
         /\ \A a \in Ram : a \notin from..(from + size - 1)
                         => Put(mem, from, size, what)[a] = mem[a]
         /\ \A k \in 0..(size - 1) : from + k \in Ram
                         => Put(mem, from, size, what)[from + k] = <<what, k>>
  BY DEF Put, Ram

(* A set-up that succeeds: the tree, then the arguments, written over what *)
(* the kernel left, touch neither each other nor the kernel below them.    *)
LEMMA SetupPlaces ==
  ASSUME NEW b, NEW mem, DOMAIN mem = Ram, IsData(b.kernel.data),
         b = [config |-> b.config, kernel |-> b.kernel, tree |-> b.tree, info |-> b.info],
         b.config.slide \in {"auto", "off"},
         XnuSetup(b, RamBase, RamSize, mem).ok
  PROVE  LET done == XnuSetup(b, RamBase, RamSize, mem)
         IN  /\ Image(done.boot.info, b.kernel.data, done.held)
             /\ Described(done.boot.info, b.kernel.data)
<1> DEFINE done == XnuSetup(b, RamBase, RamSize, mem)
           kernel == b.kernel.data
           slide == SlideOf(b.config)
           entry == MachoEntry(kernel, slide, RamBase, RamSize)
           tree == EditedTree(b, RamBase, RamSize)
           treeAt == RamBase + RamSize - TreeRoom
           placed == Serializes(tree) /\ TreeCells < TreeRoom
           argsAt == RamBase + RamSize - ArgsRoom
           withKernel == MachoHeld(kernel, slide, RamBase, RamSize, mem)
           withTree == IF placed THEN Put(withKernel, treeAt, TreeCells, "tree") ELSE withKernel
           info == done.boot.info
<1>1. MachoValid(kernel) /\ entry # 0
  BY DEF XnuSetup
<1>2. /\ done.held = Put(withTree, argsAt, ArgsCells, "args")
      /\ info.entry = entry /\ info.virtBase = BaseAddr(kernel) /\ info.slide = slide
      /\ info.virtEntry = (IF HasEntry(kernel) THEN EntryPoint(kernel) ELSE BaseAddr(kernel))
      /\ info.args = argsAt /\ info.bootArgs.tree \in {0, IF placed THEN treeAt ELSE 0}
  BY <1>1 DEF XnuSetup, BootArgsRev2, BootArgsRev3
<1>3. slide \in Nat
  BY BootAssumption DEF SlideOf
<1>4. kernel.cmds \in Seq(Command) /\ ~kernel.fileset
  BY <1>1 DEF IsData, MachoValid, MachoEntry
<1> HIDE DEF done, kernel, slide, entry, tree, placed, info
<1>5. Described(info, kernel)
  BY <1>2, <1>3, <1>4 DEF Described, entry
<1>6. DOMAIN withKernel = Ram
  BY DEF MachoHeld
<1>7. treeAt \in Nat /\ argsAt \in Nat
  BY LayoutFacts
<1>8. /\ DOMAIN withTree = Ram
      /\ \A a \in Ram : a \notin treeAt..(treeAt + TreeCells - 1) => withTree[a] = withKernel[a]
      /\ placed => \A k \in 0..(TreeCells - 1) : withTree[treeAt + k] = <<"tree", k>>
  <2>1. \A k \in 0..(TreeCells - 1) : treeAt + k \in Ram
    BY LayoutFacts DEF Ram
  <2> HIDE DEF withKernel, treeAt
  <2>2. /\ DOMAIN Put(withKernel, treeAt, TreeCells, "tree") = Ram
        /\ \A a \in Ram : a \notin treeAt..(treeAt + TreeCells - 1)
              => Put(withKernel, treeAt, TreeCells, "tree")[a] = withKernel[a]
        /\ \A k \in 0..(TreeCells - 1) : treeAt + k \in Ram
              => Put(withKernel, treeAt, TreeCells, "tree")[treeAt + k] = <<"tree", k>>
    BY <1>6, <1>7, LayoutFacts, PutPuts
  <2> QED
    BY <1>6, <2>1, <2>2
<1> HIDE DEF withTree, withKernel
<1>9. /\ \A a \in Ram : a \notin argsAt..(argsAt + ArgsCells - 1) => done.held[a] = withTree[a]
      /\ \A k \in 0..(ArgsCells - 1) : done.held[argsAt + k] = <<"args", k>>
  <2>1. \A k \in 0..(ArgsCells - 1) : argsAt + k \in Ram
    BY LayoutFacts DEF Ram
  <2> HIDE DEF argsAt
  <2> QED
    BY <1>2, <1>7, <1>8, <2>1, LayoutFacts, PutPuts
<1>10. ASSUME info.bootArgs.tree # 0, NEW k \in 0..(TreeCells - 1)
       PROVE  done.held[info.bootArgs.tree + k] = <<"tree", k>>
  <2>1. placed /\ info.bootArgs.tree = treeAt
    BY <1>2, <1>10
  <2>2. treeAt + k \in Ram /\ treeAt + k \notin argsAt..(argsAt + ArgsCells - 1)
    <3>1. k \in 0..(TreeCells - 1)
      BY <1>10
    <3>2. treeAt + k \in Int /\ treeAt + k < argsAt /\ RamBase <= treeAt + k
      BY <3>1, LayoutFacts
    <3>3. argsAt <= RamBase + RamSize
      BY LayoutFacts
    <3> DEFINE a == treeAt + k
    <3>4. a \in Int /\ a < argsAt /\ RamBase <= a
      BY <3>2
    <3> HIDE DEF a, argsAt, treeAt
    <3>5. a \in Ram /\ a \notin argsAt..(argsAt + ArgsCells - 1)
      BY <1>7, <3>3, <3>4, LayoutFacts DEF Ram
    <3> QED
      BY <3>5 DEF a
  <2> QED
    BY <1>8, <1>9, <2>1, <2>2
<1>11. ASSUME NEW addr \in Contents(kernel, Loaded(kernel, slide, RamSize)),
              Place(kernel, slide, addr) \in KernelRam
       PROVE  done.held[Place(kernel, slide, addr)] = <<"kernel", addr>>
  <2> DEFINE a == Place(kernel, slide, addr)
  <2>1. /\ a \in Ram /\ a \notin treeAt..(treeAt + TreeCells - 1)
        /\ a \notin argsAt..(argsAt + ArgsCells - 1)
    <3>1. a \in Int /\ RamBase <= a /\ a < treeAt
      BY <1>11, LayoutFacts DEF KernelRam
    <3>2. treeAt <= argsAt /\ argsAt <= RamBase + RamSize
      BY LayoutFacts
    <3> HIDE DEF a, argsAt, treeAt
    <3> QED
      BY <1>7, <3>1, <3>2, LayoutFacts DEF Ram
  <2>2. withKernel[a] = <<"kernel", addr>>
    BY <1>3, <1>4, <2>1, SegmentsAreLoaded DEF withKernel
  <2> QED
    BY <1>8, <1>9, <2>1, <2>2
<1>12. Image(info, kernel, done.held)
  BY <1>2, <1>9, <1>10, <1>11 DEF Image
<1> QED
  BY <1>5, <1>12 DEF done, kernel, info

(* RAM keeps its size, also when the set-up fails half-way.                *)
LEMMA SetupKeepsRam ==
  ASSUME NEW b, NEW mem, DOMAIN mem = Ram
  PROVE  DOMAIN XnuSetup(b, RamBase, RamSize, mem).held = Ram
<1>1. \A m : DOMAIN m = Ram => DOMAIN MachoHeld(b.kernel.data, SlideOf(b.config), RamBase, RamSize, m) = Ram
  BY DEF MachoHeld
<1>2. \A m, from, size, what : DOMAIN m = Ram => DOMAIN Put(m, from, size, what) = Ram
  BY DEF Put
<1> QED
  BY <1>1, <1>2 DEF XnuSetup

(* The inductive invariant behind GuestImageIntact.                        *)
BootImage ==
  /\ BootState /\ task \in DOMAIN Setups
  /\ DOMAIN held = Ram
  /\ IsData(boot.kernel.data)
  /\ IsSetUp => /\ Image(boot.info, boot.kernel.data, held)
                /\ Described(boot.info, boot.kernel.data)

(* One set-up, whoever makes it.                                           *)
LEMMA SetupYieldsImage ==
  ASSUME NEW b, NEW mem, NEW t \in DOMAIN Setups, DOMAIN mem = Ram, IsData(b.kernel.data),
         b = [config |-> Setups[t].boot, kernel |-> b.kernel, tree |-> b.tree, info |-> NoInfo]
  PROVE  LET done == XnuSetup(b, RamBase, RamSize, mem)
         IN  /\ DOMAIN done.held = Ram
             /\ done.boot.kernel = b.kernel
             /\ done.boot.info.entry # 0 => /\ Image(done.boot.info, b.kernel.data, done.held)
                                           /\ Described(done.boot.info, b.kernel.data)
<1> DEFINE done == XnuSetup(b, RamBase, RamSize, mem)
<1>1. b = [config |-> b.config, kernel |-> b.kernel, tree |-> b.tree, info |-> b.info]
  OBVIOUS
<1>2. /\ done.boot.kernel = b.kernel
      /\ ~done.ok => done.boot = b
  <2>1. /\ done.boot = [config |-> b.config, kernel |-> b.kernel, tree |-> b.tree,
                       info |-> done.boot.info]
        /\ ~done.ok => done.boot = b
    BY ONLY <1>1, SetupKeeps
  <2> HIDE DEF done
  <2> QED
    BY <2>1
<1>3. b.config.slide \in {"auto", "off"}
  BY MachineAssumption
<1>4. done.ok => Image(done.boot.info, b.kernel.data, done.held)
                 /\ Described(done.boot.info, b.kernel.data)
  BY <1>1, <1>3, SetupPlaces
<1>5. ~done.ok => done.boot.info.entry = 0
  BY <1>2 DEF NoInfo
<1>6. DOMAIN done.held = Ram
  BY SetupKeepsRam
<1> QED
  BY <1>2, <1>4, <1>5, <1>6

(* The state a client's kernel is taken into.                              *)
LEMMA KernelTaken ==
  ASSUME NEW t \in DOMAIN Setups
  PROVE  LET b == [BootInit(Setups[t].boot) EXCEPT !.kernel = KernelData(Setups[t].kernel)]
         IN  /\ b = [config |-> Setups[t].boot, kernel |-> b.kernel, tree |-> b.tree,
                     info |-> NoInfo]
             /\ IsData(b.kernel.data) /\ b.tree = NoData
             /\ b.kernel = KernelData(Setups[t].kernel)
<1>1. IsFile(Setups[t].kernel)
  BY MachineAssumption
<1> QED
  BY <1>1, FileYields DEF BootInit

LEMMA EmptyRamDomain == DOMAIN EmptyRam = Ram
  BY DEF EmptyRam, Ram

LEMMA BootImageInit == MachineInit => BootImage
<1> SUFFICES ASSUME MachineInit
             PROVE  BootImage
  OBVIOUS
<1>1. BootState /\ task \in DOMAIN Setups
  BY BootStateInit DEF MachineInit
<1>2. CASE setup.client = "guest"
  <2> DEFINE b == [BootInit(Setups[task].boot) EXCEPT !.kernel = KernelData(Setups[task].kernel)]
             done == XnuSetup(b, RamBase, RamSize, EmptyRam)
  <2>1. boot = done.boot /\ held = done.held
    BY <1>2 DEF MachineInit, Booted, setup
  <2>2. /\ b = [config |-> Setups[task].boot, kernel |-> b.kernel, tree |-> b.tree,
                info |-> NoInfo]
        /\ IsData(b.kernel.data)
    BY <1>1, KernelTaken
  <2> HIDE DEF b
  <2>3. /\ DOMAIN done.held = Ram
        /\ done.boot.kernel = b.kernel
        /\ done.boot.info.entry # 0 => /\ Image(done.boot.info, b.kernel.data, done.held)
                                      /\ Described(done.boot.info, b.kernel.data)
    BY <1>1, <2>2, EmptyRamDomain, SetupYieldsImage
  <2> QED
    BY <1>1, <2>1, <2>2, <2>3 DEF BootImage, IsSetUp
<1>3. CASE setup.client # "guest"
  <2>1. boot = BootInit(setup.boot) /\ held = EmptyRam
    BY <1>3 DEF MachineInit
  <2> QED
    BY <1>1, <2>1, EmptyRamDomain DEF BootImage, BootInit, NoData, NoInfo, Nothing, IsData, IsSetUp
<1> QED
  BY <1>2, <1>3

LEMMA BootImageNext == BootImage /\ [MachineNext]_machineVars => BootImage'
<1> SUFFICES ASSUME BootImage, [MachineNext]_machineVars
             PROVE  BootImage'
  OBVIOUS
<1>a. /\ task' = task /\ setup' = setup /\ setup = Setups[task]
      /\ BootState' /\ task \in DOMAIN Setups /\ BootState
  BY OtherSteps, BootStateNext DEF BootImage, setup
<1>1. CASE ~Chain
  BY <1>1, <1>a, OtherSteps DEF BootImage, IsSetUp
<1>2. CASE LoadKernel
  <2> DEFINE b == [BootInit(Setups[task].boot) EXCEPT !.kernel = KernelData(Setups[task].kernel)]
             done == XnuSetup(b, RamBase, RamSize, held)
  <2>1. \/ boot' = done.boot /\ held' = done.held
        \/ boot' = b /\ held' = EmptyRam
    BY <1>2, <1>a DEF LoadKernel
  <2>2. /\ b = [config |-> Setups[task].boot, kernel |-> b.kernel, tree |-> b.tree,
                info |-> NoInfo]
        /\ IsData(b.kernel.data)
    BY <1>a, KernelTaken
  <2> HIDE DEF b
  <2>3. /\ DOMAIN done.held = Ram
        /\ done.boot.kernel = b.kernel
        /\ done.boot.info.entry # 0 => /\ Image(done.boot.info, b.kernel.data, done.held)
                                      /\ Described(done.boot.info, b.kernel.data)
    BY <1>a, <2>2, SetupYieldsImage DEF BootImage
  <2> HIDE DEF done
  <2>4. CASE boot' = done.boot /\ held' = done.held
    BY <1>a, <2>2, <2>3, <2>4 DEF BootImage, IsSetUp
  <2>5. CASE boot' = b /\ held' = EmptyRam
    <3>1. boot'.info = NoInfo /\ IsData(boot'.kernel.data)
      BY <2>2, <2>5
    <3> QED
      BY <1>a, <2>5, <3>1, EmptyRamDomain DEF BootImage, IsSetUp, NoInfo
  <2> QED
    BY <2>1, <2>4, <2>5
<1>3. CASE LoadDtb \/ LoaderTree
  <2>1. boot'.info = boot.info /\ boot'.kernel = boot.kernel /\ held' = held
    BY <1>3, <1>a DEF LoadDtb, LoaderTree, BootState
  <2> QED
    BY <1>a, <2>1 DEF BootImage, IsSetUp
<1>4. CASE Destroy
  <2>1. boot' = BootInit(setup.boot) /\ held' = EmptyRam
    BY <1>4 DEF Destroy
  <2> QED
    BY <1>a, <2>1, EmptyRamDomain DEF BootImage, BootInit, NoData, NoInfo, Nothing, IsData, IsSetUp
<1>5. CASE LoaderKernel
  <2>1. boot'.info = NoInfo /\ boot'.kernel = KernelData(Setups[task].kernel) /\ held' = held
    BY <1>5, <1>a DEF LoaderKernel, BootState
  <2>2. IsData(boot'.kernel.data)
    BY <1>a, <2>1, FileYields, MachineAssumption
  <2> QED
    BY <1>a, <2>1, <2>2 DEF BootImage, IsSetUp, NoInfo
<1>6. CASE LoaderSetup
  <2> DEFINE done == XnuSetup(boot, RamBase, RamSize, held)
  <2>1. boot' = done.boot /\ held' = done.held /\ at = "loader"
    BY <1>6 DEF LoaderSetup
  <2>2. boot = [config |-> Setups[task].boot, kernel |-> boot.kernel, tree |-> boot.tree,
                info |-> NoInfo]
    BY <1>a, <2>1 DEF BootState
  <2>3. /\ DOMAIN done.held = Ram
        /\ done.boot.kernel = boot.kernel
        /\ done.boot.info.entry # 0 => /\ Image(done.boot.info, boot.kernel.data, done.held)
                                      /\ Described(done.boot.info, boot.kernel.data)
    BY <1>a, <2>2, SetupYieldsImage DEF BootImage
  <2> HIDE DEF done
  <2> QED
    BY <1>a, <2>1, <2>3 DEF BootImage, IsSetUp
<1> QED
  BY <1>1, <1>2, <1>3, <1>4, <1>5, <1>6 DEF Chain

(* Of every kernel, whatever the order of its commands and wherever its    *)
(* segments end, for every layout of RAM: arguments, tree and segments are *)
(* whole (macho.c:197-214, xnu_boot.c:189-233).                            *)
THEOREM GuestImageStaysIntact == MachineSpec => []GuestImageIntact
<1>1. BootImage => GuestImageIntact
  BY DEF BootImage, GuestImageIntact, Image, Place
<1> QED
  BY <1>1, BootImageInit, BootImageNext, PTL DEF MachineSpec

-----------------------------------------------------------------------------
(* The first fetch.                                                        *)

(* The inductive invariant behind FetchesKernelEntry: from the creation of *)
(* the VM on the mapping is the kernel's, and until the first instruction  *)
(* vCPU 0 of the software CPU is as the set-up left it.                    *)
FirstFetch ==
  /\ BootImage /\ Lifetimes /\ count \in Nat
  /\ at \in {"vcpus", "loop"} /\ setup.client = "cli" =>
       /\ IsSetUp
       /\ linear = [virt |-> boot.info.virtBase, phys |-> RamBase + boot.info.slide]
  /\ at = "vcpus" =>
       /\ hvm.ready \in Nat
       /\ hvm.backend = "tcg" /\ hvm.ready > 0 => cpu = BootCpu
  /\ at = "loop" /\ setup.client = "cli" /\ hvm.backend = "tcg" /\ insn.op = "none" =>
       cpu = BootCpu

LEMMA FirstFetchInit == MachineInit => FirstFetch
<1> SUFFICES ASSUME MachineInit
             PROVE  FirstFetch
  OBVIOUS
<1>1. BootImage /\ Lifetimes
  BY BootImageInit, LifetimesInit
<1>2. count \in Nat
  BY DEF MachineInit, TcgInit, NoVcpu
<1>3. at # "vcpus" /\ (at = "loop" => setup.client # "cli")
  BY DEF MachineInit
<1> QED
  BY <1>1, <1>2, <1>3 DEF FirstFetch

(* A step that does not reach the phases of a run by itself.               *)
LEMMA FirstFetchElsewhere ==
  ASSUME FirstFetch, BootImage', Lifetimes', count' = count, at' \notin {"vcpus", "loop"}
  PROVE  FirstFetch'
  BY DEF FirstFetch

(* An instruction is one: "none" stands for the time before the first.     *)
LEMMA InstructionsAreSome ==
  ASSUME count \in Nat, count < Len(Program), NEW i \in Program[count + 1]
  PROVE  i.op # "none" /\ i \in Insn
<1>1. Program \in Seq(SUBSET Insn)
  BY TcgAssumption, MachineAssumption DEF Program
<1> HIDE DEF Program
<1>2. count + 1 \in 1..Len(Program)
  BY <1>1
<1>3. Program[count + 1] \in SUBSET Insn
  BY <1>1, <1>2
<1> QED
  BY <1>3 DEF Insn

LEMMA FirstFetchNext == FirstFetch /\ [MachineNext]_machineVars => FirstFetch'
<1> SUFFICES ASSUME FirstFetch, [MachineNext]_machineVars
             PROVE  FirstFetch'
  OBVIOUS
<1>a. BootImage' /\ Lifetimes' /\ task' = task /\ setup' = setup /\ count \in Nat
  BY BootImageNext, LifetimesNext, OtherSteps DEF FirstFetch
<1>1. CASE Cli
  <2>1. CASE Sigint
    <3>1. UNCHANGED <<at, boot, hvm, cpu, linear, insn, count>>
      BY <2>1 DEF Sigint, bootVars, cpuVars, vars
    <3> QED
      BY <1>a, <3>1 DEF FirstFetch, IsSetUp, BootCpu
  <2>2. CASE ~Sigint
    <3>1. count' = count /\ at' \notin {"vcpus", "loop"}
      BY <1>1, <2>2 DEF Cli, InitializeFails, Initialize, ReadKernelFails, ReadKernel, LoadKernel,
         LoadDtb, AttachFails, Attach, FreeKernelFile, Destroy, Exit, Go, cpuVars, vars
    <3> QED
      BY <1>a, <3>1, FirstFetchElsewhere
  <2> QED
    BY <2>1, <2>2
<1>2. CASE RunFails \/ VcpuFails \/ LeaveLoop \/ DestroyVm
  <2>1. count' = count /\ at' \notin {"vcpus", "loop"}
    BY <1>2 DEF RunFails, VcpuFails, LeaveLoop, DestroyVm, Go, OtherCpuVars, cpuVars, vars
  <2> QED
    BY <1>a, <2>1, FirstFetchElsewhere
<1>3. CASE CreateVm
  <2>1. /\ at' = "vcpus" /\ boot' = boot /\ count' = count /\ IsSetUp
        /\ linear' = [virt |-> boot.info.virtBase, phys |-> RamBase + boot.info.slide]
        /\ at = "prologue" /\ hvm' = NewVm(hvm, Backend)
    BY <1>3 DEF CreateVm, Go, MapKernel, OtherCpuVars, bootVars, IsSetUp
  <2>2. IsVm(hvm) /\ hvm.ready = 0
    BY <2>1 DEF FirstFetch, Lifetimes, WithVm, NoHandle
  <2>3. hvm'.ready = 0
    BY <2>1, <2>2, VmCalls
  <2> QED
    BY <1>a, <2>1, <2>3 DEF FirstFetch, IsSetUp
<1>4. CASE SetUpVcpu
  <2>1. /\ at = "vcpus" /\ UNCHANGED <<at, boot, linear, insn, count>>
        /\ hvm' = NewVcpu(hvm)
        /\ cpu' = IF hvm.backend = "tcg" /\ hvm.ready = 0 THEN BootCpu ELSE cpu
    BY <1>4 DEF SetUpVcpu, bootVars
  <2>2. hvm'.backend = hvm.backend /\ hvm'.ready = hvm.ready + 1
    BY <2>1, VmCalls DEF FirstFetch, Lifetimes
  <2> QED
    BY <1>a, <2>1, <2>2 DEF FirstFetch, IsSetUp, BootCpu
<1>5. CASE EnterLoop
  <2>1. /\ at = "vcpus" /\ at' = "loop" /\ UNCHANGED <<boot, hvm, cpu, linear, insn, count>>
        /\ hvm.ready = setup.cpus
    BY <1>5 DEF EnterLoop, Go, bootVars, cpuVars, vars
  <2>2. setup.cpus \in Nat \ {0}
    BY MachineAssumption DEF setup, FirstFetch, BootImage
  <2> QED
    BY <1>a, <2>1, <2>2 DEF FirstFetch, IsSetUp, BootCpu
<1>6. CASE RunTcg \/ HaltTcg \/ RunHardware \/ (StepTcg /\ FetchError)
  <2>1. /\ at = "loop" /\ at' \in {"loop", "left"}
        /\ UNCHANGED <<boot, hvm, cpu, linear, insn, count>>
    BY <1>6 DEF RunTcg, HaltTcg, RunHardware, StepTcg, FetchError, Resume, AtLoop, bootVars,
                cpuVars, vars
  <2> QED
    BY <1>a, <2>1 DEF FirstFetch, IsSetUp, BootCpu
<1>7. CASE StepTcg /\ ~FetchError
  <2>1. PICK i \in Program[count + 1] : count < Len(Program) /\ Step(i)
    BY <1>7 DEF StepTcg
  <2>2. i.op # "none"
    BY <1>a, <2>1, InstructionsAreSome
  <2>3. insn' = i /\ count' = count + 1 /\ linear' = linear
    BY <2>1 DEF Step
  <2>4. at = "loop" /\ UNCHANGED <<at, boot, hvm>>
    BY <1>7 DEF StepTcg, AtLoop, bootVars
  <2> QED
    BY <1>a, <2>2, <2>3, <2>4 DEF FirstFetch, IsSetUp
<1>8. CASE Loader
  <2>1. count' = count /\ at' \notin {"vcpus", "loop"}
    BY <1>8 DEF Loader, LoaderKernel, LoaderTree, LoaderSetup, Go, cpuVars, vars
  <2> QED
    BY <1>a, <2>1, FirstFetchElsewhere
<1>9. CASE UNCHANGED machineVars
  <2>1. UNCHANGED <<at, boot, hvm, cpu, linear, insn, count>>
    BY <1>9 DEF machineVars, cpuVars, vars
  <2> QED
    BY <1>a, <2>1 DEF FirstFetch, IsSetUp, BootCpu
<1> QED
  BY <1>1, <1>2, <1>3, <1>4, <1>5, <1>6, <1>7, <1>8, <1>9 DEF MachineNext, Run

(* The arithmetic of three files: where the MMU finds the virtual entry is *)
(* where the loader put it.                                                *)
LEMMA EntryIsMapped ==
  ASSUME NEW info, NEW kernel, Described(info, kernel),
         BaseAddr(kernel) >= KernelSpace,
         EntryPoint(kernel) \in Contents(kernel, Loaded(kernel, info.slide, RamSize)),
         info.entry \in KernelRam
  PROVE  /\ info.virtEntry = EntryPoint(kernel)
         /\ EntryPoint(kernel) \in Nat /\ BaseAddr(kernel) \in Nat
         /\ EntryPoint(kernel) >= BaseAddr(kernel)
         /\ info.entry = Place(kernel, info.slide, EntryPoint(kernel))
         /\ Wrap(info.entry) = info.entry
<1> DEFINE entry == EntryPoint(kernel)
<1>1. /\ BaseAddr(kernel) \in Nat /\ entry \in Nat
      /\ \A k \in Segments(kernel) :
            kernel.cmds[k].vmaddr \in Nat /\ kernel.cmds[k].filesize \in Nat
  BY KernelTypes DEF Described
<1>2. entry >= BaseAddr(kernel)
  <2>1. PICK k \in Loaded(kernel, info.slide, RamSize) :
          entry \in kernel.cmds[k].vmaddr..(kernel.cmds[k].vmaddr + kernel.cmds[k].filesize - 1)
    BY DEF Contents
  <2>2. kernel.cmds[k].vmaddr >= BaseAddr(kernel) /\ k \in Segments(kernel)
    BY DEF Loaded, Loadable
  <2> QED
    BY <1>1, <2>1, <2>2
<1>3. HasEntry(kernel)
  BY <1>1, <1>2, LayoutFacts DEF EntryPoint
<1>4. info.entry # entry
  BY <1>1, <1>2, LayoutFacts DEF KernelRam
<1>5. info.entry = RamBase + Offset(kernel, info.slide, entry)
  BY <1>3, <1>4 DEF Described, MachoEntry
<1>6. info.entry \in Int /\ 0 <= info.entry /\ info.entry < Modulus
  BY LayoutFacts DEF KernelRam
<1>7. Wrap(info.entry) = info.entry
  <2> HIDE DEF Modulus
  <2> QED
    BY <1>6, LayoutFacts DEF Wrap
<1> QED
  BY <1>1, <1>2, <1>3, <1>5, <1>7 DEF Described, Place

(* For every kernel linked into kernel space whose entry was loaded below  *)
(* the tree: the first instruction is fetched where its entry was put      *)
(* (macho.c:216-222, machine_apple.c:498-502, 582-585).                    *)
THEOREM FetchesTheEntry == MachineSpec => []FetchesKernelEntry
<1>1. FirstFetch => FetchesKernelEntry
  <2> DEFINE kernel == boot.kernel.data
             info == boot.info
  <2> SUFFICES ASSUME FirstFetch, at = "loop", setup.client = "cli", hvm.backend = "tcg",
                      insn.op = "none", BaseAddr(kernel) >= KernelSpace,
                      EntryPoint(kernel) \in Contents(kernel, Loaded(kernel, info.slide, RamSize)),
                      info.entry \in KernelRam
               PROVE  /\ Phys(cpu, cpu.pc) = info.entry
                      /\ held[Phys(cpu, cpu.pc)] = <<"kernel", EntryPoint(kernel)>>
    BY DEF FetchesKernelEntry
  <2>1. /\ cpu = BootCpu /\ Image(info, kernel, held) /\ Described(info, kernel)
        /\ linear = [virt |-> BaseAddr(kernel), phys |-> RamBase + info.slide]
    BY DEF FirstFetch, BootImage, Described
  <2>2. /\ info.virtEntry = EntryPoint(kernel)
        /\ EntryPoint(kernel) \in Nat /\ BaseAddr(kernel) \in Nat
        /\ EntryPoint(kernel) >= BaseAddr(kernel)
        /\ info.entry = Place(kernel, info.slide, EntryPoint(kernel))
        /\ Wrap(info.entry) = info.entry
    BY <2>1, EntryIsMapped
  <2>3. cpu.pc = EntryPoint(kernel) /\ 0 \in cpu.sys[Sctlr]
    BY <2>1, <2>2 DEF BootCpu, VcpuAt, Settable
  <2>4. Phys(cpu, cpu.pc) = Wrap(RamBase + info.slide + (EntryPoint(kernel) - BaseAddr(kernel)))
    BY <2>1, <2>2, <2>3, LayoutFacts DEF Phys, TranslateIdentity
  <2>5. Place(kernel, info.slide, EntryPoint(kernel))
          = RamBase + info.slide + (EntryPoint(kernel) - BaseAddr(kernel))
    BY <2>1, <2>2, LayoutFacts DEF Place, Offset, Described
  <2>6. Phys(cpu, cpu.pc) = info.entry
    BY <2>2, <2>4, <2>5
  <2> QED
    BY <2>1, <2>2, <2>6 DEF Image
<1> QED
  BY <1>1, FirstFetchInit, FirstFetchNext, PTL DEF MachineSpec

-----------------------------------------------------------------------------
(* Device trees.                                                           *)

(* A node has each property once.                                          *)
IsNode(node) ==
  /\ node = [name |-> node.name, props |-> node.props]
  /\ \E S : node.props \in Seq(S)
  /\ \A j, k \in DOMAIN node.props : node.props[j].name = node.props[k].name => j = k

(* A tree's places have a bound, so there is always a new one.             *)
IsTree(tree) ==
  /\ DOMAIN tree \subseteq Seq(Nat)
  /\ \A q \in DOMAIN tree : IsNode(tree[q])
  /\ \E n \in Nat : \A q \in DOMAIN tree : \A k \in 1..Len(q) : q[k] <= n

(* One property of the name, with the value.                               *)
SaysOnce(node, name, value) ==
  \E k \in Nat : Called(node, name) = {k} /\ node.props[k].value = value

(* Of two nodes what they say under a name is the same.                    *)
SameUnder(node, new, name) ==
  /\ Called(new, name) = Called(node, name)
  /\ \A k \in Called(node, name) : new.props[k] = node.props[k]

LEMMA NewNodes ==
  ASSUME NEW name
  PROVE  IsNode(NodeNew(name)) /\ ShouldKeep(NodeNew(name)) /\ NodeNew(name).name = name
<1>1. /\ NodeNew(name) = [name |-> name, props |-> <<>>]
      /\ <<>> \in Seq({}) /\ DOMAIN <<>> = {}
  BY DEF NodeNew
<1> QED
  BY <1>1 DEF IsNode, ShouldKeep, HasProp, Called

LEMMA CalledIsNat ==
  ASSUME NEW node, IsNode(node), NEW name
  PROVE  Called(node, name) \in SUBSET Nat
  BY DEF IsNode, Called

(* apple_dt_set_prop: the property is there once, with the new value, and  *)
(* what the node says under other names is left.                           *)
LEMMA SetPropSets ==
  ASSUME NEW node, IsNode(node), NEW p
  PROVE  /\ IsNode(SetProp(node, p)) /\ SetProp(node, p).name = node.name
         /\ SaysOnce(SetProp(node, p), p.name, p.value)
         /\ \A name : name # p.name => SameUnder(node, SetProp(node, p), name)
<1> DEFINE new == SetProp(node, p)
<1>1. PICK S : node.props \in Seq(S)
  BY DEF IsNode
<1>2. Len(node.props) \in Nat /\ DOMAIN node.props = 1..Len(node.props)
  BY <1>1
<1>3. CASE HasProp(node, p.name)
  <2> DEFINE m == Min(Called(node, p.name))
  <2>1. m \in Called(node, p.name)
    BY <1>3, CalledIsNat, MinIsLeast DEF HasProp
  <2> HIDE DEF m
  <2>2. new = [name |-> node.name, props |-> [node.props EXCEPT ![m] = p]]
    BY <1>3 DEF SetProp, m, IsNode
  <2>3. m \in DOMAIN node.props /\ node.props[m].name = p.name
    BY <2>1 DEF Called
  <2>4. new.props \in Seq(S \cup {p})
    BY <1>1, <1>2, <2>2, <2>3
  <2>5. /\ DOMAIN new.props = DOMAIN node.props
        /\ \A k \in DOMAIN node.props : new.props[k] = IF k = m THEN p ELSE node.props[k]
    BY <1>1, <2>2, <2>3
  <2>6. \A j, k \in DOMAIN new.props : new.props[j].name = new.props[k].name => j = k
    BY <2>3, <2>5 DEF IsNode
  <2>7. IsNode(new) /\ new.name = node.name
    <3> HIDE DEF new
    <3> QED
      BY <2>2, <2>4, <2>6 DEF IsNode
  <2>8. Called(new, p.name) = {m} /\ m \in Nat /\ new.props[m].value = p.value
    BY <1>2, <2>3, <2>5, <2>6 DEF Called
  <2>9. ASSUME NEW name, name # p.name PROVE SameUnder(node, new, name)
    BY <2>3, <2>5, <2>9 DEF SameUnder, Called
  <2> QED
    BY <2>7, <2>8, <2>9 DEF SaysOnce
<1>4. CASE ~HasProp(node, p.name)
  <2> DEFINE m == Len(node.props) + 1
  <2>1. new = [name |-> node.name, props |-> Append(node.props, p)]
    BY <1>4 DEF SetProp, IsNode
  <2>2. node.props \in Seq(S \cup {p})
    BY <1>1, SeqMonotonic
  <2>3. /\ new.props \in Seq(S \cup {p}) /\ DOMAIN new.props = DOMAIN node.props \cup {m}
        /\ new.props[m] = p /\ \A k \in DOMAIN node.props : new.props[k] = node.props[k]
    BY <1>2, <2>1, <2>2, AppendProperties
  <2>4. m \in Nat /\ m \notin DOMAIN node.props
    BY <1>2
  <2>5. \A k \in DOMAIN node.props : node.props[k].name # p.name
    BY <1>4 DEF HasProp, Called
  <2> HIDE DEF m, new
  <2>6. \A j, k \in DOMAIN new.props : new.props[j].name = new.props[k].name => j = k
    BY <2>3, <2>4, <2>5 DEF IsNode
  <2>7. IsNode(new) /\ new.name = node.name
    BY <2>1, <2>3, <2>6 DEF IsNode
  <2>8. Called(new, p.name) = {m} /\ new.props[m].value = p.value
    BY <2>3, <2>5 DEF Called
  <2>9. ASSUME NEW name, name # p.name PROVE SameUnder(node, new, name)
    BY <2>3, <2>4, <2>9 DEF SameUnder, Called
  <2> QED
    BY <2>4, <2>7, <2>8, <2>9 DEF SaysOnce, new
<1> QED
  BY <1>3, <1>4

(* What is said once is the property's value; saying and keeping depend on *)
(* what is under one name only.                                            *)
LEMMA SaidOnce ==
  ASSUME NEW node, NEW name, NEW value, SaysOnce(node, name, value)
  PROVE  Cardinality(Called(node, name)) = 1 /\ PropValue(node, name) = value
<1>1. PICK k \in Nat : Called(node, name) = {k} /\ node.props[k].value = value
  BY DEF SaysOnce
<1>2. Min({k}) = k
  BY DEF Min
<1> QED
  BY <1>1, <1>2, FS_Singleton DEF PropValue

LEMMA SameSays ==
  ASSUME NEW node, NEW new, NEW name, SameUnder(node, new, name)
  PROVE  \A value : SaysOnce(node, name, value) => SaysOnce(new, name, value)
  BY DEF SameUnder, SaysOnce

LEMMA SameKeeps ==
  ASSUME NEW node, NEW new, IsNode(node), SameUnder(node, new, "compatible")
  PROVE  ShouldKeep(new) <=> ShouldKeep(node)
<1>1. Called(node, "compatible") # {} => Min(Called(node, "compatible")) \in Called(node, "compatible")
  BY CalledIsNat, MinIsLeast
<1> QED
  BY <1>1 DEF SameUnder, ShouldKeep, HasProp, PropValue

(* apple_dt_populate_runtime: what /chosen says then.                      *)
LEMMA RuntimeSays ==
  ASSUME NEW node, IsNode(node), NEW base, NEW size, NEW args
  PROVE  LET new == Runtime(node, base, size, args)
         IN  /\ IsNode(new) /\ new.name = node.name
             /\ ShouldKeep(new) <=> ShouldKeep(node)
             /\ SaysOnce(new, "dram-base", base) /\ SaysOnce(new, "dram-size", size)
             /\ args.cells # 0 => SaysOnce(new, "boot-args", args.text)
<1> DEFINE p1 == Prop("boot-args", args.text, args.cells)
           p2 == Prop("dram-base", base, 2)
           p3 == Prop("dram-size", size, 2)
           p4 == Prop("random-seed", 0, 8)
           p5 == Prop("security-domain", 0, 1)
           n1 == IF args.cells = 0 THEN node ELSE SetProp(node, p1)
           n2 == SetProp(n1, p2)
           n3 == SetProp(n2, p3)
           n4 == SetProp(n3, p4)
           n5 == SetProp(n4, p5)
<1>1. /\ p1.name = "boot-args" /\ p1.value = args.text
      /\ p2.name = "dram-base" /\ p2.value = base
      /\ p3.name = "dram-size" /\ p3.value = size
      /\ p4.name = "random-seed" /\ p5.name = "security-domain"
  BY DEF Prop
<1>2. Runtime(node, base, size, args) = n5
  BY DEF Runtime
<1> HIDE DEF p1, p2, p3, p4, p5
<1>3. /\ IsNode(n1) /\ n1.name = node.name
      /\ ShouldKeep(n1) <=> ShouldKeep(node)
      /\ args.cells # 0 => SaysOnce(n1, "boot-args", args.text)
  BY <1>1, SetPropSets, SameKeeps
<1> HIDE DEF n1
<1>4. /\ IsNode(n2) /\ n2.name = n1.name
      /\ SaysOnce(n2, "dram-base", base)
      /\ \A name : name # "dram-base" => SameUnder(n1, n2, name)
  BY <1>1, <1>3, SetPropSets
<1> HIDE DEF n2
<1>5. /\ IsNode(n3) /\ n3.name = n2.name
      /\ SaysOnce(n3, "dram-size", size)
      /\ \A name : name # "dram-size" => SameUnder(n2, n3, name)
  BY <1>1, <1>4, SetPropSets
<1> HIDE DEF n3
<1>6. /\ IsNode(n4) /\ n4.name = n3.name
      /\ \A name : name # "random-seed" => SameUnder(n3, n4, name)
  BY <1>1, <1>5, SetPropSets
<1> HIDE DEF n4
<1>7. /\ IsNode(n5) /\ n5.name = n4.name
      /\ \A name : name # "security-domain" => SameUnder(n4, n5, name)
  BY <1>1, <1>6, SetPropSets
<1> HIDE DEF n5
<1>8. ShouldKeep(n5) <=> ShouldKeep(node)
  <2>1. ShouldKeep(n2) <=> ShouldKeep(n1)
    BY <1>3, <1>4, SameKeeps
  <2>2. ShouldKeep(n3) <=> ShouldKeep(n2)
    BY <1>4, <1>5, SameKeeps
  <2>3. ShouldKeep(n4) <=> ShouldKeep(n3)
    BY <1>5, <1>6, SameKeeps
  <2>4. ShouldKeep(n5) <=> ShouldKeep(n4)
    BY <1>6, <1>7, SameKeeps
  <2> QED
    BY <1>3, <2>1, <2>2, <2>3, <2>4
<1>9. SaysOnce(n5, "dram-base", base) /\ SaysOnce(n5, "dram-size", size)
  <2>1. SaysOnce(n3, "dram-base", base)
    BY <1>4, <1>5, SameSays
  <2>2. SaysOnce(n4, "dram-base", base) /\ SaysOnce(n4, "dram-size", size)
    BY <1>5, <1>6, <2>1, SameSays
  <2> QED
    BY <1>7, <2>2, SameSays
<1>10. ASSUME args.cells # 0 PROVE SaysOnce(n5, "boot-args", args.text)
  <2>1. SaysOnce(n2, "boot-args", args.text)
    BY <1>3, <1>4, <1>10, SameSays
  <2>2. SaysOnce(n3, "boot-args", args.text)
    BY <1>5, <2>1, SameSays
  <2>3. SaysOnce(n4, "boot-args", args.text)
    BY <1>6, <2>2, SameSays
  <2> QED
    BY <1>7, <2>3, SameSays
<1> QED
  BY <1>2, <1>3, <1>4, <1>5, <1>6, <1>7, <1>8, <1>9, <1>10

-----------------------------------------------------------------------------
(* Paths.                                                                  *)

LEMMA PathBelow ==
  ASSUME NEW path \in Seq(Nat), NEW n \in Nat
  PROVE  /\ Append(path, n) \in Seq(Nat) /\ Append(path, n) # <<>>
         /\ Front(Append(path, n)) = path /\ Last(Append(path, n)) = n
<1> DEFINE q == Append(path, n)
<1>1. /\ q \in Seq(Nat) /\ Len(path) \in Nat /\ Len(q) = Len(path) + 1
      /\ \A k \in 1..Len(path) : q[k] = path[k]
      /\ q[Len(path) + 1] = n
  OBVIOUS
<1> HIDE DEF q
<1>2. q # <<>>
  BY <1>1
<1>3. Front(q) = [k \in 1..Len(path) |-> q[k]]
  BY <1>1 DEF Front
<1>4. Front(q) = path
  BY <1>1, <1>3
<1> QED
  BY <1>1, <1>2, <1>4 DEF Last, q

LEMMA PathEnds ==
  ASSUME NEW path \in Seq(Nat), path # <<>>
  PROVE  /\ Front(path) \in Seq(Nat) /\ Last(path) \in Nat
         /\ path = Append(Front(path), Last(path))
         /\ path \in Above(path)
         /\ Front(path) = <<>> => Above(path) = {path}
<1>1. /\ Len(path) \in Nat \ {0}
      /\ \A k \in 1..Len(path) : path[k] \in Nat
      /\ path = [k \in 1..Len(path) |-> path[k]]
  OBVIOUS
<1>2. /\ Front(path) = [k \in 1..(Len(path) - 1) |-> path[k]]
      /\ Front(path) \in Seq(Nat) /\ Len(Front(path)) = Len(path) - 1
  <2>1. Front(path) = [k \in 1..(Len(path) - 1) |-> path[k]]
    BY <1>1 DEF Front
  <2>2. Len(path) - 1 \in Nat /\ \A k \in 1..(Len(path) - 1) : path[k] \in Nat
    BY <1>1
  <2> QED
    BY <2>1, <2>2
<1>3. path = Append(Front(path), Last(path))
  BY <1>1, <1>2 DEF Last
<1>4. SubSeq(path, 1, Len(path)) = path
  BY <1>1
<1>5. path \in Above(path)
  BY <1>1, <1>4 DEF Above
<1>6. ASSUME Front(path) = <<>> PROVE Above(path) = {path}
  <2>1. Len(path) = 1
    BY <1>1, <1>2, <1>6
  <2>2. \A k \in 1..Len(path) : SubSeq(path, 1, k) = path
    BY <1>4, <2>1
  <2> HIDE DEF Above
  <2> QED
    BY <1>5, <2>2 DEF Above
<1>7. Last(path) \in Nat
  BY <1>1 DEF Last
<1> QED
  BY <1>2, <1>3, <1>5, <1>6, <1>7

(* The numbers of a path have a bound.                                     *)
LEMMA SeqBounded ==
  ASSUME NEW path \in Seq(Nat)
  PROVE  \E m \in Nat : \A k \in 1..Len(path) : path[k] <= m
<1> DEFINE Bounded(n) == \E m \in Nat : \A k \in 1..n : path[k] <= m
           unbounded == {n \in 0..Len(path) : ~Bounded(n)}
<1>1. Len(path) \in Nat /\ \A k \in 1..Len(path) : path[k] \in Nat
  OBVIOUS
<1>2. unbounded = {}
  <2> SUFFICES ASSUME unbounded # {}
               PROVE  FALSE
    OBVIOUS
  <2> DEFINE n == Min(unbounded)
  <2>1. unbounded \in SUBSET Nat
    BY <1>1
  <2> HIDE DEF unbounded
  <2>2. n \in unbounded /\ \A y \in unbounded : n <= y
    BY <2>1, MinIsLeast
  <2> HIDE DEF n
  <2> USE DEF unbounded
  <2>3. n \in 0..Len(path) /\ ~Bounded(n)
    BY <2>2
  <2>4. n # 0
    <3>1. \A k \in 1..0 : path[k] <= 0
      OBVIOUS
    <3> QED
      BY <2>3, <3>1
  <2>5. Bounded(n - 1)
    <3> DEFINE before == n - 1
    <3>1. before \in 0..Len(path) /\ ~(n <= before)
      BY <1>1, <2>3, <2>4
    <3> HIDE DEF before, Bounded
    <3>2. before \notin unbounded
      BY <2>2, <3>1
    <3>3. Bounded(before)
      BY <3>1, <3>2
    <3> QED
      BY <3>3 DEF before
  <2>6. PICK m \in Nat : \A k \in 1..(n - 1) : path[k] <= m
    BY <2>5
  <2> DEFINE top == path[n]
  <2>7. top \in Nat
    BY <1>1, <2>3, <2>4
  <2>8. \A k \in 1..n : path[k] <= m \/ path[k] = top
    <3> SUFFICES ASSUME NEW k \in 1..n, k # n
                 PROVE  path[k] <= m
      OBVIOUS
    <3>1. k \in 1..(n - 1)
      BY <2>3
    <3> QED
      BY <2>6, <3>1
  <2>9. \A k \in 1..n : path[k] \in Nat
    BY <1>1, <2>3
  <2> HIDE DEF top
  <2>10. m + top \in Nat /\ m <= m + top /\ top <= m + top
    BY <2>6, <2>7
  <2>11. ASSUME NEW k \in 1..n PROVE path[k] <= m + top
    <3> DEFINE e == path[k]
    <3>1. e \in Nat /\ (e <= m \/ e = top)
      BY <2>8, <2>9
    <3> HIDE DEF e
    <3>2. e <= m + top
      BY <2>6, <2>7, <3>1
    <3> QED
      BY <3>2 DEF e
  <2> QED
    BY <2>3, <2>10, <2>11
<1> HIDE DEF Bounded
<1>3. Bounded(Len(path))
  BY <1>1, <1>2
<1> QED
  BY <1>3 DEF Bounded

-----------------------------------------------------------------------------
(* Trees.                                                                  *)

(* A new node is behind the others of its list.                            *)
LEMMA NewPathIsNew ==
  ASSUME NEW tree, IsTree(tree), NEW path \in Seq(Nat)
  PROVE  /\ NewPath(tree, path) \in Seq(Nat) \ DOMAIN tree
         /\ NewPath(tree, path) # <<>> /\ Front(NewPath(tree, path)) = path
         /\ \E n \in Nat : NewPath(tree, path) = Append(path, n)
<1> DEFINE places == {Last(q) : q \in Children(tree, path)} \cup {0}
           new == NewPath(tree, path)
<1>1. PICK n \in Nat : \A q \in DOMAIN tree : \A k \in 1..Len(q) : q[k] <= n
  BY DEF IsTree
<1>2. \A q \in Children(tree, path) : q \in Seq(Nat) /\ q # <<>> /\ Last(q) \in Nat /\ Last(q) <= n
  <2> SUFFICES ASSUME NEW q \in Children(tree, path)
               PROVE  q \in Seq(Nat) /\ q # <<>> /\ Last(q) \in Nat /\ Last(q) <= n
    OBVIOUS
  <2>1. q \in DOMAIN tree /\ q \in Seq(Nat) /\ q # <<>>
    BY DEF Children, IsTree
  <2>2. Len(q) \in 1..Len(q)
    BY <2>1
  <2> QED
    BY <1>1, <2>1, <2>2 DEF Last
<1>3. places \in SUBSET Nat /\ places # {} /\ \A y \in places : y <= n
  BY <1>2
<1>4. Max(places) \in Nat /\ \A y \in places : y <= Max(places)
  BY <1>3, MaxIsGreatest
<1>5. new = Append(path, Max(places) + 1) /\ Max(places) + 1 \in Nat
  BY <1>4 DEF NewPath
<1> HIDE DEF places
<1>6. new \in Seq(Nat) /\ new # <<>> /\ Front(new) = path /\ Last(new) = Max(places) + 1
  BY <1>5, PathBelow
<1>7. new \notin DOMAIN tree
  <2> SUFFICES ASSUME new \in DOMAIN tree
               PROVE  FALSE
    OBVIOUS
  <2>1. new \in Children(tree, path)
    BY <1>6 DEF Children
  <2>2. Last(new) \in places
    BY <2>1 DEF places
  <2> QED
    BY <1>4, <1>6, <2>2
<1> QED
  BY <1>5, <1>6, <1>7

(* A tree with a node more.                                                *)
Adds(more, tree, new, node) ==
  /\ IsTree(more) /\ DOMAIN more = DOMAIN tree \cup {new}
  /\ more[new] = node
  /\ \A q \in DOMAIN tree : more[q] = tree[q]

LEMMA AddChildAdds ==
  ASSUME NEW tree, IsTree(tree), NEW path \in Seq(Nat), NEW node, IsNode(node)
  PROVE  Adds(AddChild(tree, path, node), tree, NewPath(tree, path), node)
<1> DEFINE new == NewPath(tree, path)
           more == AddChild(tree, path, node)
<1>1. new \in Seq(Nat) /\ new \notin DOMAIN tree
  BY NewPathIsNew
<1>2. /\ DOMAIN more = DOMAIN tree \cup {new} /\ more[new] = node
      /\ \A q \in DOMAIN tree : more[q] = tree[q]
  BY <1>1 DEF AddChild
<1> HIDE DEF new, more
<1>3. PICK n \in Nat : \A q \in DOMAIN tree : \A k \in 1..Len(q) : q[k] <= n
  BY DEF IsTree
<1>4. PICK m \in Nat : \A k \in 1..Len(new) : new[k] <= m
  BY <1>1, SeqBounded
<1>5. \A q \in DOMAIN more : \A k \in 1..Len(q) : q[k] <= n + m
  <2> SUFFICES ASSUME NEW q \in DOMAIN more, NEW k \in 1..Len(q)
               PROVE  q[k] <= n + m
    OBVIOUS
  <2>1. q \in Seq(Nat)
    BY <1>1, <1>2 DEF IsTree
  <2>2. q[k] \in Nat
    BY <2>1
  <2>3. q[k] <= n \/ q[k] <= m
    BY <1>2, <1>3, <1>4
  <2> QED
    BY <2>2, <2>3
<1>6. n + m \in Nat
  OBVIOUS
<1>7. IsTree(more)
  BY <1>1, <1>2, <1>5, <1>6 DEF IsTree
<1> QED
  BY <1>2, <1>7 DEF new, more, Adds

LEMMA RootIsTree ==
  ASSUME NEW node, IsNode(node)
  PROVE  IsTree([p \in {<<>>} |-> node])
<1>1. <<>> \in Seq(Nat) /\ \A k \in 1..Len(<<>>) : FALSE
  OBVIOUS
<1> QED
  BY <1>1 DEF IsTree

(* A node may be replaced where it is.                                     *)
LEMMA NodeReplaced ==
  ASSUME NEW tree, IsTree(tree), NEW path, NEW node, IsNode(node)
  PROVE  IsTree([tree EXCEPT ![path] = node])
<1> DEFINE new == [tree EXCEPT ![path] = node]
<1>1. /\ DOMAIN new = DOMAIN tree
      /\ \A q \in DOMAIN tree : new[q] = IF q = path THEN node ELSE tree[q]
  OBVIOUS
<1> HIDE DEF new
<1> QED
  BY <1>1 DEF IsTree, new

(* apple_dt_find_node or the node made in its place.                       *)
LEMMA ChildNamed ==
  ASSUME NEW tree, IsTree(tree), NEW path \in Seq(Nat), NEW name
  PROVE  LET more == WithChild(tree, path, name)
         IN  /\ IsTree(more) /\ DOMAIN tree \subseteq DOMAIN more
             /\ \A q \in DOMAIN tree : more[q] = tree[q]
             /\ ChildAt(more, path, name) \in Named(more, path, name)
             /\ \A q \in Named(more, path, name) :
                  q \in Named(tree, path, name) \/ more[q] = NodeNew(name)
<1> DEFINE more == WithChild(tree, path, name)
           new == NewPath(tree, path)
<1>1. /\ IsTree(more) /\ DOMAIN tree \subseteq DOMAIN more
      /\ \A q \in DOMAIN tree : more[q] = tree[q]
      /\ \A q \in DOMAIN more : q \in DOMAIN tree \/ more[q] = NodeNew(name)
      /\ HasChild(more, path, name)
  <2>1. CASE HasChild(tree, path, name)
    BY <2>1 DEF WithChild
  <2>2. CASE ~HasChild(tree, path, name)
    <3>1. more = AddChild(tree, path, NodeNew(name))
      BY <2>2 DEF WithChild
    <3> HIDE DEF more
    <3>2. /\ IsTree(more) /\ DOMAIN more = DOMAIN tree \cup {new}
          /\ more[new] = NodeNew(name)
          /\ \A q \in DOMAIN tree : more[q] = tree[q]
      <4>1. Adds(AddChild(tree, path, NodeNew(name)), tree, NewPath(tree, path), NodeNew(name))
        BY NewNodes, AddChildAdds
      <4> QED
        BY <3>1, <4>1 DEF Adds
    <3>3. new # <<>> /\ Front(new) = path
      BY NewPathIsNew
    <3>4. new \in Named(more, path, name)
      BY <3>2, <3>3, NewNodes DEF Named, Children
    <3> QED
      BY <3>2, <3>4 DEF HasChild
  <2> QED
    BY <2>1, <2>2
<1> HIDE DEF more
<1> DEFINE named == Named(more, path, name)
           places == {Last(q) : q \in named}
<1>2. \A q \in named : Last(q) \in Nat /\ q = Append(path, Last(q))
  <2> SUFFICES ASSUME NEW q \in named
               PROVE  Last(q) \in Nat /\ q = Append(path, Last(q))
    OBVIOUS
  <2>1. q \in Seq(Nat) /\ q # <<>> /\ Front(q) = path
    BY <1>1 DEF Named, Children, IsTree
  <2> QED
    BY <2>1, PathEnds
<1>3. places \in SUBSET Nat /\ places # {}
  BY <1>1, <1>2 DEF HasChild
<1>4. Min(places) \in places
  BY <1>3, MinIsLeast
<1>5. ChildAt(more, path, name) \in named
  BY <1>2, <1>4 DEF ChildAt
<1>6. \A q \in named : q \in Named(tree, path, name) \/ more[q] = NodeNew(name)
  BY <1>1 DEF Named, Children
<1> QED
  BY <1>1, <1>5, <1>6 DEF more

(* apple_dt_populate_runtime: the chosen node says what this machine is,   *)
(* every other node of the tree is left.                                   *)
LEMMA Populated ==
  ASSUME NEW tree, IsTree(tree), NEW base, NEW size, NEW args
  PROVE  LET full == PopulateRuntime(tree, base, size, args)
         IN  /\ IsTree(full) /\ DOMAIN tree \subseteq DOMAIN full
             /\ \A q \in DOMAIN tree : /\ full[q].name = tree[q].name
                                      /\ ShouldKeep(full[q]) <=> ShouldKeep(tree[q])
             /\ \E q \in Named(full, <<>>, "chosen") :
                  /\ SaysOnce(full[q], "dram-base", base) /\ SaysOnce(full[q], "dram-size", size)
                  /\ args.cells # 0 => SaysOnce(full[q], "boot-args", args.text)
                  /\ (\A c \in Named(tree, <<>>, "chosen") : ShouldKeep(tree[c]))
                       => ShouldKeep(full[q])
<1> DEFINE found == WithChild(tree, <<>>, "chosen")
           chosen == ChildAt(found, <<>>, "chosen")
           node == Runtime(found[chosen], base, size, args)
           placed == [found EXCEPT ![chosen] = node]
           full == WithChild(placed, chosen, "manifest-properties")
<1>1. PopulateRuntime(tree, base, size, args) = full
  BY DEF PopulateRuntime
<1>2. <<>> \in Seq(Nat)
  OBVIOUS
<1>3. /\ IsTree(found) /\ DOMAIN tree \subseteq DOMAIN found
      /\ \A q \in DOMAIN tree : found[q] = tree[q]
      /\ chosen \in Named(found, <<>>, "chosen")
      /\ \A q \in Named(found, <<>>, "chosen") :
           q \in Named(tree, <<>>, "chosen") \/ found[q] = NodeNew("chosen")
  <2> DEFINE root == <<>>
             more == WithChild(tree, root, "chosen")
  <2> HIDE DEF root
  <2>1. root \in Seq(Nat)
    BY <1>2 DEF root
  <2>2. /\ IsTree(more) /\ DOMAIN tree \subseteq DOMAIN more
        /\ \A q \in DOMAIN tree : more[q] = tree[q]
        /\ ChildAt(more, root, "chosen") \in Named(more, root, "chosen")
        /\ \A q \in Named(more, root, "chosen") :
             q \in Named(tree, root, "chosen") \/ more[q] = NodeNew("chosen")
    BY <2>1, ChildNamed
  <2> QED
    BY <2>2 DEF root
<1> HIDE DEF found, chosen
<1>4. /\ chosen \in DOMAIN found /\ chosen \in Seq(Nat) /\ chosen # <<>> /\ Front(chosen) = <<>>
      /\ found[chosen].name = "chosen" /\ IsNode(found[chosen])
  BY <1>3 DEF Named, Children, IsTree
<1>5. /\ IsNode(node) /\ node.name = "chosen"
      /\ ShouldKeep(node) <=> ShouldKeep(found[chosen])
      /\ SaysOnce(node, "dram-base", base) /\ SaysOnce(node, "dram-size", size)
      /\ args.cells # 0 => SaysOnce(node, "boot-args", args.text)
  BY <1>4, RuntimeSays
<1> HIDE DEF node
<1>6. /\ IsTree(placed) /\ DOMAIN placed = DOMAIN found /\ placed[chosen] = node
      /\ \A q \in DOMAIN found : q # chosen => placed[q] = found[q]
  BY <1>3, <1>4, <1>5, NodeReplaced
<1> HIDE DEF placed
<1>7. /\ IsTree(full) /\ DOMAIN placed \subseteq DOMAIN full
      /\ \A q \in DOMAIN placed : full[q] = placed[q]
  BY <1>4, <1>6, ChildNamed
<1> HIDE DEF full
<1>8. /\ chosen \in Named(full, <<>>, "chosen") /\ full[chosen] = node
      /\ (\A c \in Named(tree, <<>>, "chosen") : ShouldKeep(tree[c])) => ShouldKeep(node)
  <2>1. full[chosen] = node /\ chosen \in DOMAIN full
    BY <1>4, <1>6, <1>7
  <2>2. chosen \in Named(full, <<>>, "chosen")
    BY <1>4, <1>5, <2>1 DEF Named, Children
  <2>3. ASSUME \A c \in Named(tree, <<>>, "chosen") : ShouldKeep(tree[c]) PROVE ShouldKeep(node)
    <3>1. CASE chosen \in Named(tree, <<>>, "chosen")
      BY <1>3, <1>5, <2>3, <3>1 DEF Named, Children
    <3>2. CASE found[chosen] = NodeNew("chosen")
      BY <1>5, <3>2, NewNodes
    <3> QED
      BY <1>3, <3>1, <3>2
  <2> QED
    BY <2>1, <2>2, <2>3
<1>9. ASSUME NEW q \in DOMAIN tree
      PROVE  /\ full[q].name = tree[q].name
             /\ ShouldKeep(full[q]) <=> ShouldKeep(tree[q])
  BY <1>3, <1>4, <1>5, <1>6, <1>7, <1>9
<1> QED
  BY <1>1, <1>3, <1>5, <1>6, <1>7, <1>8, <1>9

(* apple_dt_filter_nodes: the unsupported properties go, what a node says  *)
(* otherwise is left.                                                      *)
LEMMA Unsupported ==
  ASSUME NEW node, IsNode(node)
  PROVE  LET left == RemoveUnsupported(node)
         IN  /\ left.name = node.name
             /\ \A name \in RemoveProps : Called(left, name) = {}
             /\ \A name : name \notin RemoveProps => SameUnder(node, left, name)
             /\ ShouldKeep(left) <=> ShouldKeep(node)
<1> DEFINE kept == {k \in DOMAIN node.props : node.props[k].name \notin RemoveProps}
           left == RemoveUnsupported(node)
<1>1. left = [name |-> node.name, props |-> [k \in kept |-> node.props[k]]]
  BY DEF IsNode, RemoveUnsupported, Restrict
<1> HIDE DEF left
<1>2. \A name : Called(left, name) = {k \in kept : node.props[k].name = name}
  BY <1>1 DEF Called
<1>3. \A name \in RemoveProps : Called(left, name) = {}
  BY <1>2
<1>4. \A name : name \notin RemoveProps => SameUnder(node, left, name)
  BY <1>1, <1>2 DEF SameUnder, Called
<1>5. "compatible" \notin RemoveProps
  BY DEF RemoveProps
<1>6. ShouldKeep(left) <=> ShouldKeep(node)
  BY <1>4, <1>5, SameKeeps
<1> QED
  BY <1>1, <1>3, <1>4, <1>6 DEF left

(* Nothing below the root that the machine does not have remains, and      *)
(* under the root everything else does.                                    *)
LEMMA Filtered ==
  ASSUME NEW tree, IsTree(tree)
  PROVE  LET less == FilterNodes(tree)
         IN  /\ \A q \in DOMAIN less : q \in DOMAIN tree /\ less[q] = RemoveUnsupported(tree[q])
             /\ \A q \in DOMAIN less \ {<<>>} : ShouldKeep(less[q])
             /\ \A q \in DOMAIN less, name \in RemoveProps : Called(less[q], name) = {}
             /\ \A q \in Children(tree, <<>>) : ShouldKeep(tree[q]) => q \in DOMAIN less
<1> DEFINE less == FilterNodes(tree)
<1>1. /\ DOMAIN less = Remaining(tree)
      /\ \A q \in Remaining(tree) : less[q] = RemoveUnsupported(tree[q])
  BY DEF FilterNodes
<1> HIDE DEF less
<1>2. \A q \in Remaining(tree) : q \in DOMAIN tree /\ q \in Seq(Nat) /\ IsNode(tree[q])
  BY DEF Remaining, IsTree
<1>3. ASSUME NEW q \in DOMAIN less, q # <<>> PROVE ShouldKeep(less[q])
  <2>1. q \in Above(q)
    BY <1>1, <1>2, <1>3, PathEnds
  <2>2. ShouldKeep(tree[q])
    BY <1>1, <1>3, <2>1 DEF Remaining
  <2> QED
    BY <1>1, <1>2, <1>3, <2>2, Unsupported
<1>4. ASSUME NEW q \in DOMAIN less, NEW name \in RemoveProps PROVE Called(less[q], name) = {}
  BY <1>1, <1>2, Unsupported
<1>5. ASSUME NEW q \in Children(tree, <<>>), ShouldKeep(tree[q]) PROVE q \in DOMAIN less
  <2>1. q \in DOMAIN tree /\ q \in Seq(Nat) /\ q # <<>> /\ Front(q) = <<>>
    BY DEF Children, IsTree
  <2>2. Above(q) = {q}
    BY <2>1, PathEnds
  <2> QED
    BY <1>1, <1>5, <2>1, <2>2 DEF Remaining
<1> QED
  BY <1>1, <1>2, <1>3, <1>4, <1>5 DEF less

(* The tree a set-up falls back to.                                        *)
LEMMA MinimalTreeIs ==
  /\ IsTree(MinimalTree)
  /\ \A q \in Named(MinimalTree, <<>>, "chosen") : ShouldKeep(MinimalTree[q])
<1> DEFINE root == SetProp(SetProp(NodeNew("/"), Prop("compatible", <<{}>>, 6)), Prop("model", 0, 8))
           only == [p \in {<<>>} |-> root]
           node == NodeNew("chosen")
<1>1. IsNode(root)
  <2>1. IsNode(NodeNew("/"))
    BY NewNodes
  <2>2. IsNode(SetProp(NodeNew("/"), Prop("compatible", <<{}>>, 6)))
    BY <2>1, SetPropSets
  <2> QED
    BY <2>2, SetPropSets
<1> HIDE DEF root
<1>2. IsTree(only)
  BY <1>1, RootIsTree
<1>3. DOMAIN only = {<<>>} /\ <<>> \in Seq(Nat)
  OBVIOUS
<1> HIDE DEF only
<1>4. Adds(AddChild(only, <<>>, node), only, NewPath(only, <<>>), node)
  BY <1>2, <1>3, NewNodes, AddChildAdds
<1>5. MinimalTree = AddChild(only, <<>>, node)
  BY DEF MinimalTree, only, root
<1>6. ASSUME NEW q \in Named(MinimalTree, <<>>, "chosen") PROVE ShouldKeep(MinimalTree[q])
  <2>1. q \in DOMAIN MinimalTree /\ q # <<>>
    BY DEF Named, Children
  <2>2. MinimalTree[q] = node
    BY <1>3, <1>4, <1>5, <2>1 DEF Adds
  <2> QED
    BY <2>2, NewNodes
<1> QED
  BY <1>4, <1>5, <1>6 DEF Adds

(* What a set-up gives the guest of a tree that was supplied, or of none.  *)
Describes(tree, source, cmdline) ==
  LET Says(node, name, value) ==
        /\ Cardinality(Called(node, name)) = 1
        /\ PropValue(node, name) = value
  IN  /\ (source # NoNode => \A q \in Named(source, <<>>, "chosen") : ShouldKeep(source[q])) =>
           \E q \in Named(tree, <<>>, "chosen") :
             /\ Says(tree[q], "dram-base", RamBase) /\ Says(tree[q], "dram-size", RamSize)
             /\ cmdline.cells # 0 => Says(tree[q], "boot-args", cmdline.text)
      /\ \A q \in DOMAIN tree \ {<<>>} : ShouldKeep(tree[q])
      /\ \A q \in DOMAIN tree, name \in RemoveProps : Called(tree[q], name) = {}
      /\ source # NoNode =>
           \A q \in Children(source, <<>>) :
             ShouldKeep(source[q]) => HasChild(tree, <<>>, source[q].name)

LEMMA EditedTreeKept ==
  ASSUME NEW source, source = NoNode \/ IsTree(source), NEW cmdline
  PROVE  Describes(FilterNodes(PopulateRuntime(IF source = NoNode THEN MinimalTree ELSE source,
                                               RamBase, RamSize, cmdline)),
                   source, cmdline)
<1> DEFINE tree == IF source = NoNode THEN MinimalTree ELSE source
           full == PopulateRuntime(tree, RamBase, RamSize, cmdline)
           less == FilterNodes(full)
<1>1. IsTree(tree)
  BY MinimalTreeIs
<1>2. (source # NoNode => \A q \in Named(source, <<>>, "chosen") : ShouldKeep(source[q])) =>
        \A q \in Named(tree, <<>>, "chosen") : ShouldKeep(tree[q])
  BY MinimalTreeIs
<1>3. source # NoNode => tree = source
  OBVIOUS
<1> HIDE DEF tree
<1>4. /\ IsTree(full) /\ DOMAIN tree \subseteq DOMAIN full
      /\ \A q \in DOMAIN tree : /\ full[q].name = tree[q].name
                               /\ ShouldKeep(full[q]) <=> ShouldKeep(tree[q])
  BY <1>1, Populated
<1>5. PICK c \in Named(full, <<>>, "chosen") :
        /\ SaysOnce(full[c], "dram-base", RamBase) /\ SaysOnce(full[c], "dram-size", RamSize)
        /\ cmdline.cells # 0 => SaysOnce(full[c], "boot-args", cmdline.text)
        /\ (\A q \in Named(tree, <<>>, "chosen") : ShouldKeep(tree[q])) => ShouldKeep(full[c])
  BY <1>1, Populated
<1> HIDE DEF full
<1>6. /\ \A q \in DOMAIN less : q \in DOMAIN full /\ less[q] = RemoveUnsupported(full[q])
      /\ \A q \in DOMAIN less \ {<<>>} : ShouldKeep(less[q])
      /\ \A q \in DOMAIN less, name \in RemoveProps : Called(less[q], name) = {}
      /\ \A q \in Children(full, <<>>) : ShouldKeep(full[q]) => q \in DOMAIN less
  BY <1>4, Filtered
<1> HIDE DEF less
<1>7. ASSUME source # NoNode => \A q \in Named(source, <<>>, "chosen") : ShouldKeep(source[q])
      PROVE  /\ c \in Named(less, <<>>, "chosen")
             /\ SaysOnce(less[c], "dram-base", RamBase) /\ SaysOnce(less[c], "dram-size", RamSize)
             /\ cmdline.cells # 0 => SaysOnce(less[c], "boot-args", cmdline.text)
  <2>1. ShouldKeep(full[c])
    BY <1>2, <1>5, <1>7
  <2>2. c \in Children(full, <<>>) /\ full[c].name = "chosen" /\ IsNode(full[c])
        /\ c # <<>> /\ Front(c) = <<>>
    BY <1>4, <1>5 DEF Named, Children, IsTree
  <2>3. c \in DOMAIN less /\ less[c] = RemoveUnsupported(full[c])
    BY <1>6, <2>1, <2>2
  <2>4. {"dram-base", "dram-size", "boot-args"} \cap RemoveProps = {}
    BY DEF RemoveProps
  <2>5. /\ less[c].name = "chosen"
        /\ SameUnder(full[c], less[c], "dram-base") /\ SameUnder(full[c], less[c], "dram-size")
        /\ SameUnder(full[c], less[c], "boot-args")
    BY <2>2, <2>3, <2>4, Unsupported
  <2>6. c \in Named(less, <<>>, "chosen")
    BY <2>2, <2>3, <2>5 DEF Named, Children
  <2> QED
    BY <1>5, <2>5, <2>6, SameSays
<1>8. ASSUME source # NoNode, NEW q \in Children(source, <<>>), ShouldKeep(source[q])
      PROVE  HasChild(less, <<>>, source[q].name)
  <2>1. /\ q \in DOMAIN tree /\ q # <<>> /\ Front(q) = <<>> /\ tree[q] = source[q]
        /\ ShouldKeep(tree[q])
    BY <1>3, <1>8 DEF Children
  <2>2. q \in Children(full, <<>>) /\ ShouldKeep(full[q]) /\ full[q].name = source[q].name
    BY <1>4, <2>1 DEF Children
  <2>3. q \in DOMAIN less /\ less[q] = RemoveUnsupported(full[q]) /\ IsNode(full[q])
    BY <1>4, <1>6, <2>2 DEF Children, IsTree
  <2>4. less[q].name = source[q].name
    BY <2>2, <2>3, Unsupported
  <2> QED
    BY <2>1, <2>3, <2>4 DEF HasChild, Named, Children
<1> QED
  BY <1>6, <1>7, <1>8, SaidOnce DEF Describes, less, full, tree

-----------------------------------------------------------------------------
(* The parser.                                                             *)

(* A token behind another the parser has a tree.                           *)
ParseState(state) ==
  /\ state = [tree |-> state.tree, path |-> state.path, ended |-> state.ended]
  /\ IsTree(state.tree) /\ state.path \in Seq(Nat)

LEMMA TokenParsed ==
  ASSUME NEW state, ParseState(state), NEW cell
  PROVE  ParseState(ParseToken(state, cell))
<1> DEFINE tree == state.tree
           path == state.path
           next == ParseToken(state, cell)
<1>1. /\ state = [tree |-> tree, path |-> path, ended |-> state.ended]
      /\ IsTree(tree) /\ path \in Seq(Nat)
  BY DEF ParseState
<1>2. CASE ~state.ended /\ cell.token = "prop"
  <2> DEFINE node == SetProp(tree[path], cell.prop)
  <2>1. next = [tree |-> [tree EXCEPT ![path] = node], path |-> path, ended |-> state.ended]
    BY <1>1, <1>2 DEF ParseToken
  <2>2. IsTree([tree EXCEPT ![path] = node])
    <3>1. CASE path \in DOMAIN tree
      <4>1. IsNode(tree[path])
        BY <1>1, <3>1 DEF IsTree
      <4>2. IsNode(node)
        BY <4>1, SetPropSets
      <4> QED
        BY <1>1, <4>2, NodeReplaced
    <3>2. CASE path \notin DOMAIN tree
      <4>1. /\ DOMAIN [tree EXCEPT ![path] = node] = DOMAIN tree
            /\ \A q \in DOMAIN tree : [tree EXCEPT ![path] = node][q] = tree[q]
        BY <3>2
      <4> QED
        BY <1>1, <4>1 DEF IsTree
    <3> QED
      BY <3>1, <3>2
  <2> HIDE DEF next
  <2> QED
    BY <1>1, <2>1, <2>2 DEF ParseState, next
<1>3. CASE ~state.ended /\ cell.token = "begin"
  <2> DEFINE node == NodeNew(cell.name)
             more == AddChild(tree, path, node)
             new == NewPath(tree, path)
  <2>1. next = [tree |-> more, path |-> new, ended |-> state.ended]
    BY <1>1, <1>3 DEF ParseToken
  <2>2. Adds(more, tree, new, node)
    BY <1>1, NewNodes, AddChildAdds
  <2>3. new \in Seq(Nat)
    BY <1>1, NewPathIsNew
  <2> HIDE DEF next, more, new
  <2> QED
    BY <2>1, <2>2, <2>3 DEF ParseState, Adds, next
<1>4. CASE ~state.ended /\ cell.token = "end" /\ path # <<>>
  <2>1. next = [tree |-> tree, path |-> Front(path), ended |-> state.ended]
    BY <1>1, <1>4 DEF ParseToken
  <2>2. Front(path) \in Seq(Nat)
    BY <1>1, <1>4, PathEnds
  <2> HIDE DEF next
  <2> QED
    BY <1>1, <2>1, <2>2 DEF ParseState, next
<1>5. CASE \/ state.ended
           \/ cell.token \notin {"prop", "begin"} /\ ~(cell.token = "end" /\ path # <<>>)
  <2>1. next \in {state, [tree |-> tree, path |-> path, ended |-> TRUE]}
    BY <1>1, <1>5 DEF ParseToken
  <2> HIDE DEF next
  <2> QED
    BY <1>1, <2>1 DEF ParseState, next
<1> QED
  BY <1>2, <1>3, <1>4, <1>5

(* Whatever the cells of a blob and wherever they break off, what is       *)
(* parsed of them is a tree.  By the least cell behind which it is not.    *)
LEMMA BlobParsed ==
  ASSUME NEW S, NEW cells \in Seq(S), cells # <<>>
  PROVE  IsTree(ParseNode(cells))
<1> DEFINE parsed == Parsed(cells)
           first == ParseRoot(cells[1])
           wrong == {k \in DOMAIN cells : ~ParseState(parsed[k])}
<1>1. parsed = [k \in DOMAIN cells |->
                  IF k = 1 THEN first ELSE ParseToken(parsed[k - 1], cells[k])]
  BY DEF Parsed
<1>2. ParseState(first)
  <2>1. IsTree(first.tree)
    BY NewNodes, RootIsTree DEF ParseRoot
  <2> QED
    BY <2>1 DEF ParseState, ParseRoot
<1> HIDE DEF parsed, first
<1>3. DOMAIN cells = 1..Len(cells) /\ Len(cells) \in Nat \ {0}
  OBVIOUS
<1>4. wrong = {}
  <2> SUFFICES ASSUME wrong # {}
               PROVE  FALSE
    OBVIOUS
  <2> DEFINE k == Min(wrong)
  <2>1. wrong \in SUBSET Nat
    BY <1>3
  <2>2. k \in wrong /\ \A y \in wrong : k <= y
    BY <2>1, MinIsLeast
  <2> HIDE DEF k
  <2>3. k \in 1..Len(cells) /\ ~ParseState(parsed[k])
    BY <1>3, <2>2
  <2>4. k # 1
    BY <1>1, <1>2, <1>3, <2>3
  <2>5. k - 1 \in DOMAIN cells /\ ~(k <= k - 1)
    BY <1>3, <2>3, <2>4
  <2>6. ParseState(parsed[k - 1])
    BY <2>2, <2>5
  <2>7. parsed[k] = ParseToken(parsed[k - 1], cells[k])
    BY <1>1, <1>3, <2>3, <2>4
  <2> QED
    BY <2>3, <2>6, <2>7, TokenParsed
<1>5. ParseState(parsed[Len(cells)])
  BY <1>3, <1>4
<1> QED
  BY <1>5 DEF ParseNode, ParseState, parsed

LEMMA TreeLoaded ==
  ASSUME NEW blob, blob.kind = "blob", IsData(blob)
  PROVE  LoadTree(blob) = NoNode \/ IsTree(LoadTree(blob))
<1>1. blob.cells \in Seq(Range(blob.cells))
  BY DEF IsData
<1>2. CASE blob.magic /\ blob.inside /\ blob.cells # <<>> /\ blob.cells[1].token = "begin"
  <2>1. IsTree(ParseNode(blob.cells))
    BY <1>1, <1>2, BlobParsed
  <2> QED
    BY <1>2, <2>1 DEF LoadTree
<1>3. CASE ~(blob.magic /\ blob.inside /\ blob.cells # <<>> /\ blob.cells[1].token = "begin")
  BY <1>3 DEF LoadTree
<1> QED
  BY <1>2, <1>3

-----------------------------------------------------------------------------
(* The tree that is handed to the serializer.                              *)

(* One set-up: the tree is there when it fits, and says what it has to.    *)
LEMMA SetupDescribes ==
  ASSUME NEW b, NEW mem, IsData(b.tree.data),
         b = [config |-> b.config, kernel |-> b.kernel, tree |-> b.tree, info |-> NoInfo],
         XnuSetup(b, RamBase, RamSize, mem).boot.info.edited # NoNode
  PROVE  Describes(XnuSetup(b, RamBase, RamSize, mem).boot.info.edited, SuppliedTree(b),
                   b.config.cmdline)
<1> DEFINE done == XnuSetup(b, RamBase, RamSize, mem)
<1>1. done.boot.info.edited \in {NoNode, EditedTree(b, RamBase, RamSize)}
  <2> DEFINE entry == MachoEntry(b.kernel.data, SlideOf(b.config), RamBase, RamSize)
  <2>1. CASE ~MachoValid(b.kernel.data) \/ entry = 0
    <3>1. done.boot = b
      BY <2>1 DEF XnuSetup
    <3> QED
      BY <3>1 DEF NoInfo
  <2>2. CASE MachoValid(b.kernel.data) /\ entry # 0
    <3> DEFINE tree == EditedTree(b, RamBase, RamSize)
               placed == Serializes(tree) /\ TreeCells < TreeRoom
    <3>1. done.boot.info.edited = IF placed THEN tree ELSE NoNode
      BY <2>2 DEF XnuSetup
    <3> HIDE DEF done, placed
    <3> QED
      BY <3>1
  <2> QED
    BY <2>1, <2>2
<1>2. SuppliedTree(b) = NoNode \/ IsTree(SuppliedTree(b))
  BY TreeLoaded DEF SuppliedTree
<1>3. Describes(EditedTree(b, RamBase, RamSize), SuppliedTree(b), b.config.cmdline)
  BY <1>2, EditedTreeKept DEF EditedTree
<1> QED
  BY <1>1, <1>3

(* The inductive invariant behind EditedTreeDescribes: a tree is edited in *)
(* a set-up alone, for the command line's guest one made from nothing.     *)
TreeGiven ==
  /\ BootState /\ task \in DOMAIN Setups
  /\ IsData(boot.tree.data)
  /\ boot.info.edited # NoNode =>
       Describes(boot.info.edited, IF at = "set up" THEN SuppliedTree(boot) ELSE NoNode,
                 setup.boot.cmdline)

(* What the command line's kernel is set up with.                          *)
LEMMA KernelDescribes ==
  ASSUME NEW t \in DOMAIN Setups, NEW mem
  PROVE  LET b == [BootInit(Setups[t].boot) EXCEPT !.kernel = KernelData(Setups[t].kernel)]
             done == XnuSetup(b, RamBase, RamSize, mem)
         IN  /\ IsData(b.tree.data) /\ b.info = NoInfo
             /\ IsData(done.boot.tree.data)
             /\ done.boot.info.edited # NoNode =>
                  Describes(done.boot.info.edited, NoNode, Setups[t].boot.cmdline)
<1> DEFINE b == [BootInit(Setups[t].boot) EXCEPT !.kernel = KernelData(Setups[t].kernel)]
           done == XnuSetup(b, RamBase, RamSize, mem)
<1>1. /\ b = [config |-> Setups[t].boot, kernel |-> b.kernel, tree |-> b.tree, info |-> NoInfo]
      /\ b.tree = NoData
  BY KernelTaken
<1> HIDE DEF b
<1>2. b = [config |-> b.config, kernel |-> b.kernel, tree |-> b.tree, info |-> b.info]
      /\ b.info = NoInfo /\ b.config = Setups[t].boot
  BY <1>1
<1>3. IsData(b.tree.data) /\ SuppliedTree(b) = NoNode
  BY <1>1 DEF NoData, Nothing, IsData, SuppliedTree
<1>4. done.boot = [config |-> b.config, kernel |-> b.kernel, tree |-> b.tree,
                   info |-> done.boot.info]
  BY ONLY <1>2, SetupKeeps
<1>5. done.boot.info.edited # NoNode =>
        Describes(done.boot.info.edited, NoNode, Setups[t].boot.cmdline)
  BY <1>2, <1>3, SetupDescribes
<1> HIDE DEF done
<1> QED
  BY <1>2, <1>3, <1>4, <1>5 DEF b, done

LEMMA TreeGivenInit == MachineInit => TreeGiven
<1> SUFFICES ASSUME MachineInit
             PROVE  TreeGiven
  OBVIOUS
<1>1. BootState /\ task \in DOMAIN Setups /\ at # "set up" /\ setup = Setups[task]
  BY BootStateInit DEF MachineInit, setup
<1>2. CASE setup.client = "guest"
  <2> DEFINE b == [BootInit(Setups[task].boot) EXCEPT !.kernel = KernelData(Setups[task].kernel)]
             done == XnuSetup(b, RamBase, RamSize, EmptyRam)
  <2>1. boot = done.boot
    BY <1>2 DEF MachineInit, Booted, setup
  <2>2. /\ IsData(done.boot.tree.data)
        /\ done.boot.info.edited # NoNode =>
             Describes(done.boot.info.edited, NoNode, Setups[task].boot.cmdline)
    BY <1>1, KernelDescribes
  <2> HIDE DEF done
  <2> QED
    BY <1>1, <2>1, <2>2 DEF TreeGiven
<1>3. CASE setup.client # "guest"
  <2>1. boot = BootInit(setup.boot)
    BY <1>3 DEF MachineInit
  <2> QED
    BY <1>1, <2>1 DEF TreeGiven, BootInit, NoData, NoInfo, Nothing, IsData
<1> QED
  BY <1>2, <1>3

LEMMA TreeGivenNext == TreeGiven /\ [MachineNext]_machineVars => TreeGiven'
<1> SUFFICES ASSUME TreeGiven, [MachineNext]_machineVars
             PROVE  TreeGiven'
  OBVIOUS
<1>a. /\ task' = task /\ setup' = setup /\ setup = Setups[task]
      /\ BootState' /\ task \in DOMAIN Setups /\ BootState
  BY OtherSteps, BootStateNext DEF TreeGiven, setup
<1>b. setup.tree # Nothing => IsData(TreeData(setup.tree).data)
  BY <1>a, FileYields, MachineAssumption
<1>1. CASE ~Chain
  <2>1. boot' = boot /\ (at' = "set up" <=> at = "set up")
    BY <1>1, OtherSteps
  <2> QED
    BY <1>a, <2>1 DEF TreeGiven, SuppliedTree
<1>2. CASE LoadKernel
  <2> DEFINE b == [BootInit(Setups[task].boot) EXCEPT !.kernel = KernelData(Setups[task].kernel)]
             done == XnuSetup(b, RamBase, RamSize, held)
  <2>1. boot' \in {done.boot, b} /\ at' # "set up"
    BY <1>2, <1>a DEF LoadKernel, Go
  <2>2. /\ IsData(b.tree.data) /\ b.info = NoInfo
        /\ IsData(done.boot.tree.data)
        /\ done.boot.info.edited # NoNode =>
             Describes(done.boot.info.edited, NoNode, Setups[task].boot.cmdline)
    BY <1>a, KernelDescribes
  <2> HIDE DEF done, b
  <2>3. b.info.edited = NoNode
    BY <2>2 DEF NoInfo
  <2> QED
    BY <1>a, <2>1, <2>2, <2>3 DEF TreeGiven
<1>3. CASE LoadDtb
  <2>1. /\ at' # "set up" /\ at # "set up" /\ boot'.info = boot.info
        /\ boot'.tree = boot.tree \/ (setup.tree # Nothing /\ boot'.tree = TreeData(setup.tree))
    BY <1>3, <1>a DEF LoadDtb, Go, BootState
  <2> QED
    BY <1>a, <1>b, <2>1 DEF TreeGiven
<1>4. CASE Destroy
  <2>1. boot' = BootInit(setup.boot)
    BY <1>4 DEF Destroy
  <2> QED
    BY <1>a, <2>1 DEF TreeGiven, BootInit, NoData, NoInfo, Nothing, IsData
<1>5. CASE LoaderKernel \/ LoaderTree
  <2>1. /\ boot'.info = NoInfo
        /\ boot'.tree = boot.tree \/ (setup.tree # Nothing /\ boot'.tree = TreeData(setup.tree))
    BY <1>5, <1>a DEF LoaderKernel, LoaderTree, BootState
  <2>2. IsData(boot'.tree.data)
    BY <1>b, <2>1 DEF TreeGiven
  <2>3. boot'.info.edited = NoNode
    BY <2>1 DEF NoInfo
  <2> QED
    BY <1>a, <2>2, <2>3 DEF TreeGiven
<1>6. CASE LoaderSetup
  <2> DEFINE done == XnuSetup(boot, RamBase, RamSize, held)
  <2>1. /\ boot' = done.boot /\ at = "loader"
        /\ at' = IF done.ok THEN "set up" ELSE "exited"
    BY <1>6 DEF LoaderSetup, Go
  <2>2. boot = [config |-> boot.config, kernel |-> boot.kernel, tree |-> boot.tree, info |-> boot.info]
        /\ boot.info = NoInfo /\ boot.config = setup.boot
    <3>1. boot = [config |-> setup.boot, kernel |-> boot.kernel, tree |-> boot.tree,
                  info |-> boot.info]
      BY <1>a DEF BootState
    <3>2. boot.config = setup.boot
      BY <3>1
    <3> QED
      BY <1>a, <2>1, <3>1, <3>2 DEF BootState
  <2>3. /\ done.boot = [config |-> boot.config, kernel |-> boot.kernel, tree |-> boot.tree,
                        info |-> done.boot.info]
        /\ ~done.ok => done.boot = boot
    BY ONLY <2>2, SetupKeeps
  <2>4. done.boot.info.edited # NoNode =>
          Describes(done.boot.info.edited, SuppliedTree(boot), setup.boot.cmdline)
    BY <2>2, SetupDescribes DEF TreeGiven
  <2> HIDE DEF done
  <2>5. boot'.tree = boot.tree /\ SuppliedTree(boot') = SuppliedTree(boot)
    <3>1. boot' = [config |-> boot.config, kernel |-> boot.kernel, tree |-> boot.tree,
                   info |-> done.boot.info]
      BY <2>1, <2>3
    <3>2. boot'.tree = boot.tree
      BY <3>1
    <3> QED
      BY <3>2 DEF SuppliedTree
  <2>6. CASE done.ok
    BY <1>a, <2>1, <2>4, <2>5, <2>6 DEF TreeGiven
  <2>7. CASE ~done.ok
    BY <1>a, <2>1, <2>2, <2>3, <2>7 DEF TreeGiven, NoInfo
  <2> QED
    BY <2>6, <2>7
<1> QED
  BY <1>1, <1>2, <1>3, <1>4, <1>5, <1>6 DEF Chain

(* For every tree supplied, whatever its shape and wherever its blob       *)
(* breaks off, and for none: the tree that is handed to the serializer     *)
(* describes this machine and nothing else, and of a supplied tree it has  *)
(* all that the machine implements (dtre.c:257-292, 472-514).  It says     *)
(* nothing of the blob that is made of it.                                 *)
THEOREM EditedTreeIsRight == MachineSpec => []EditedTreeDescribes
<1>1. TreeGiven => EditedTreeDescribes
  BY DEF TreeGiven, EditedTreeDescribes, Describes
<1> QED
  BY <1>1, TreeGivenInit, TreeGivenNext, PTL DEF MachineSpec

-----------------------------------------------------------------------------
(* Words and the integers they stand for.                                  *)

(* A set of naturals with zero and the successors of its elements has them *)
(* all: otherwise the least one missing would be neither.                  *)
LEMMA Induction ==
  ASSUME NEW S \in SUBSET Nat, 0 \in S, \A k \in S : k + 1 \in S
  PROVE  S = Nat
<1> SUFFICES ASSUME Nat \ S # {}
             PROVE  FALSE
  OBVIOUS
<1> DEFINE k == Min(Nat \ S)
<1>1. k \in Nat \ S /\ \A y \in Nat \ S : k <= y
  BY MinIsLeast
<1> HIDE DEF k
<1>2. k # 0 /\ k - 1 \in Nat
  BY <1>1
<1>3. k - 1 \in S
  BY <1>1, <1>2
<1>4. (k - 1) + 1 = k
  BY <1>1
<1> QED
  BY <1>1, <1>3, <1>4

(* A quotient and a remainder are the only ones.                           *)
LEMMA Division ==
  ASSUME NEW m \in Nat \ {0}, NEW q \in Int, NEW r \in 0..(m - 1)
  PROVE  (m * q + r) \div m = q /\ (m * q + r) % m = r
<1> DEFINE n == m * q + r
           p == n \div m
           s == n % m
<1>1. /\ n \in Int /\ p \in Int /\ s \in 0..(m - 1) /\ n = m * p + s
  <2>1. n \in Int
    OBVIOUS
  <2> HIDE DEF n
  <2> QED
    BY <2>1
<1>2. m * q + r = m * p + s
  BY <1>1 DEF n
<1> HIDE DEF n, p, s
<1>3. p = q
  <2>1. CASE q >= p + 1
    <3>1. m * q >= m * (p + 1)
      BY <1>1, <2>1
    <3>2. m * (p + 1) = m * p + m
      BY <1>1
    <3> DEFINE a == m * p
               b == m * q
               c == m * (p + 1)
    <3>3. a \in Int /\ b \in Int /\ c \in Int
      BY <1>1
    <3> HIDE DEF a, b, c
    <3> QED
      BY <1>1, <1>2, <3>1, <3>2, <3>3 DEF a, b, c
  <2>2. CASE p >= q + 1
    <3>1. m * p >= m * (q + 1)
      BY <1>1, <2>2
    <3>2. m * (q + 1) = m * q + m
      BY <1>1
    <3> QED
      BY <1>1, <1>2, <3>1, <3>2
  <2> QED
    BY <1>1, <2>1, <2>2
<1>4. s = r
  BY <1>1, <1>2, <1>3
<1> QED
  BY <1>3, <1>4 DEF n, p, s

(* The powers of two.                                                      *)
LEMMA Powers ==
  /\ Pow2[0] = 1
  /\ \A n \in Nat : Pow2[n] \in Nat \ {0} /\ Pow2[n + 1] = 2 * Pow2[n]
<1>1. Pow2 = [n \in Nat |-> IF n = 0 THEN 1 ELSE 2 * Pow2[n - 1]]
  BY DEF Pow2
<1>2. Pow2[0] = 1
  BY <1>1
<1>3. \A n \in Nat : Pow2[n + 1] = 2 * Pow2[n]
  <2> TAKE n \in Nat
  <2>1. n + 1 \in Nat /\ n + 1 # 0 /\ (n + 1) - 1 = n
    OBVIOUS
  <2>2. Pow2[n + 1] = 2 * Pow2[(n + 1) - 1]
    BY <1>1, <2>1
  <2> QED
    BY <2>1, <2>2
<1> DEFINE S == {n \in Nat : Pow2[n] \in Nat \ {0}}
<1>4. S = Nat
  <2>1. 0 \in S
    BY <1>2
  <2>2. \A k \in S : k + 1 \in S
    BY <1>3
  <2> HIDE DEF S
  <2>3. S \in SUBSET Nat
    BY DEF S
  <2> QED
    BY <2>1, <2>2, <2>3, Induction
<1> QED
  BY <1>2, <1>3, <1>4
(* The digits of a word, its halves and the lanes of a move.               *)
LEMMA Widths ==
  /\ Width \in Nat \ {0} /\ Lane \in Nat \ {0} /\ Width = 4 * Lane
  /\ Width \div 2 = 2 * Lane /\ Digits(TRUE) = Width /\ Digits(FALSE) = 2 * Lane
  BY A64Assumption DEF Lane, Digits

LEMMA PowersOfWidth ==
  /\ Pow2[Width - 1] \in Nat \ {0} /\ Modulus = 2 * Pow2[Width - 1] /\ Pow2[Width] = Modulus
<1>1. Width - 1 \in Nat /\ (Width - 1) + 1 = Width
  BY Widths
<1> QED
  BY <1>1, Powers DEF Modulus

(* What the digits below a place add up to.                                *)
LEMMA BelowAdds ==
  ASSUME NEW w
  PROVE  /\ Below(w)[0] = 0
         /\ \A k \in Nat : /\ Below(w)[k + 1] = Below(w)[k] + (IF k \in w THEN Pow2[k] ELSE 0)
                           /\ Below(w)[k] \in 0..(Pow2[k] - 1)
<1> DEFINE below == Below(w)
<1>1. below = [k \in Nat |->
                 IF k = 0 THEN 0 ELSE below[k - 1] + (IF k - 1 \in w THEN Pow2[k - 1] ELSE 0)]
  BY DEF Below
<1> HIDE DEF below
<1>2. below[0] = 0
  BY <1>1
<1>3. \A k \in Nat : below[k + 1] = below[k] + (IF k \in w THEN Pow2[k] ELSE 0)
  <2> TAKE k \in Nat
  <2>1. k + 1 \in Nat /\ k + 1 # 0 /\ (k + 1) - 1 = k
    OBVIOUS
  <2>2. below[k + 1] = below[(k + 1) - 1]
                          + (IF (k + 1) - 1 \in w THEN Pow2[(k + 1) - 1] ELSE 0)
    BY <1>1, <2>1
  <2> QED
    BY <2>1, <2>2
<1> DEFINE S == {k \in Nat : below[k] \in 0..(Pow2[k] - 1)}
<1>4. S = Nat
  <2>1. 0 \in S
    BY <1>2, Powers
  <2>2. \A k \in S : k + 1 \in S
    BY <1>3, Powers
  <2> HIDE DEF S
  <2>3. S \in SUBSET Nat
    BY DEF S
  <2> QED
    BY <2>1, <2>2, <2>3, Induction
<1> QED
  BY <1>2, <1>3, <1>4 DEF below

LEMMA NextDigit ==
  ASSUME NEW p \in Nat \ {0}, NEW n \in Int
  PROVE  n % (2 * p) = (n % p) + (IF (n \div p) % 2 = 1 THEN p ELSE 0)
<1> DEFINE q == n \div p
           r == n % p
           h == q \div 2
           d == q % 2
<1>1. q \in Int /\ r \in 0..(p - 1) /\ n = p * q + r
  OBVIOUS
<1>2. h \in Int /\ d \in 0..1 /\ q = 2 * h + d
  <2> HIDE DEF q
  <2> QED
    BY <1>1
<1> HIDE DEF q, r, h, d
<1>3. n = (2 * p) * h + (p * d + r)
  <2>1. p * (2 * h + d) = (2 * p) * h + p * d
    BY <1>2
  <2> QED
    BY <1>1, <1>2, <2>1
<1>4. p * d = (IF d = 1 THEN p ELSE 0)
  BY <1>2
<1>5. p * d + r \in 0..(2 * p - 1)
  BY <1>1, <1>2, <1>4
<1>6. n % (2 * p) = p * d + r
  <2> DEFINE m == 2 * p
             t == p * d + r
  <2>1. m \in Nat \ {0} /\ t \in 0..(m - 1) /\ n = m * h + t
    BY <1>3, <1>5
  <2> HIDE DEF m, t
  <2>2. n % m = t
    BY <1>2, <2>1, Division
  <2> QED
    BY <2>2 DEF m, t
<1> QED
  BY <1>4, <1>6, <1>1, <1>2 DEF q, r, d

(* The digits of n below a place are those of its remainder there.         *)
LEMMA Remainders ==
  ASSUME NEW n \in Int
  PROVE  \A k \in 0..Width : Below(WordOf(n))[k] = n % Pow2[k]
<1> DEFINE w == WordOf(n)
           S == {k \in Nat : k <= Width => Below(w)[k] = n % Pow2[k]}
<1>1. 0 \in S
  <2>1. n % 1 = 0
    OBVIOUS
  <2> QED
    BY <2>1, BelowAdds, Powers, Widths
<1>2. \A k \in S : k + 1 \in S
  <2> SUFFICES ASSUME NEW k \in Nat, k + 1 <= Width, Below(w)[k] = n % Pow2[k]
               PROVE  Below(w)[k + 1] = n % Pow2[k + 1]
    BY Widths
  <2>1. k \in Bit
    BY Widths DEF Bit
  <2>2. k \in w <=> (n \div Pow2[k]) % 2 = 1
    BY <2>1 DEF WordOf
  <2>3. Pow2[k + 1] = 2 * Pow2[k] /\ Pow2[k] \in Nat \ {0}
    BY Powers
  <2>4. n % (2 * Pow2[k]) = (n % Pow2[k]) + (IF (n \div Pow2[k]) % 2 = 1 THEN Pow2[k] ELSE 0)
    BY <2>3, NextDigit
  <2>5. Below(w)[k + 1] = Below(w)[k] + (IF k \in w THEN Pow2[k] ELSE 0)
    BY BelowAdds
  <2> QED
    BY <2>2, <2>3, <2>4, <2>5
<1>3. S = Nat
  <2> HIDE DEF S
  <2>1. S \in SUBSET Nat
    BY DEF S
  <2> QED
    BY <1>1, <1>2, <2>1, Induction
<1>4. \A k \in 0..Width : k \in S
  BY <1>3, Widths
<1> QED
  BY <1>4, Widths

(* Words with the same sum below a place have the same digits there.       *)
LEMMA SameBelow ==
  ASSUME NEW v, NEW w, NEW n \in Nat, Below(v)[n] = Below(w)[n]
  PROVE  \A j \in 0..(n - 1) : j \in v <=> j \in w
<1> DEFINE S == {k \in Nat : Below(v)[k] = Below(w)[k]
                               => \A j \in 0..(k - 1) : j \in v <=> j \in w}
<1>1. 0 \in S
  OBVIOUS
<1>2. \A k \in S : k + 1 \in S
  <2> SUFFICES ASSUME NEW k \in S, Below(v)[k + 1] = Below(w)[k + 1]
               PROVE  \A j \in 0..k : j \in v <=> j \in w
    OBVIOUS
  <2>1. /\ Below(v)[k + 1] = Below(v)[k] + (IF k \in v THEN Pow2[k] ELSE 0)
        /\ Below(w)[k + 1] = Below(w)[k] + (IF k \in w THEN Pow2[k] ELSE 0)
        /\ Below(v)[k] \in 0..(Pow2[k] - 1) /\ Below(w)[k] \in 0..(Pow2[k] - 1)
        /\ Pow2[k] \in Nat \ {0}
    BY BelowAdds, Powers
  <2>2. (k \in v <=> k \in w) /\ Below(v)[k] = Below(w)[k]
    <3> DEFINE a == Below(v)[k]
               b == Below(w)[k]
               p == Pow2[k]
    <3>1. /\ a \in 0..(p - 1) /\ b \in 0..(p - 1) /\ p \in Nat \ {0}
          /\ a + (IF k \in v THEN p ELSE 0) = b + (IF k \in w THEN p ELSE 0)
      BY <2>1
    <3> HIDE DEF a, b, p
    <3>2. (k \in v <=> k \in w) /\ a = b
      BY ONLY <3>1
    <3> QED
      BY <3>2 DEF a, b
  <2>3. \A j \in 0..(k - 1) : j \in v <=> j \in w
    BY <2>2
  <2> QED
    BY <2>2, <2>3
<1>3. S = Nat
  <2> HIDE DEF S
  <2>1. S \in SUBSET Nat
    BY DEF S
  <2> QED
    BY <1>1, <1>2, <2>1, Induction
<1> QED
  BY <1>3

LEMMA ValueOf ==
  ASSUME NEW n \in Int
  PROVE  WordOf(n) \in Word /\ Val[WordOf(n)] = n % Modulus
<1>1. WordOf(n) \in Word
  BY DEF WordOf, Word
<1>2. Below(WordOf(n))[Width] = n % Pow2[Width]
  BY Remainders, Widths
<1> QED
  BY <1>1, <1>2, PowersOfWidth DEF Val

LEMMA SameValue ==
  ASSUME NEW v \in Word, NEW w \in Word, Val[v] = Val[w]
  PROVE  v = w
<1>1. Below(v)[Width] = Below(w)[Width]
  BY DEF Val
<1>2. \A j \in Bit : j \in v <=> j \in w
  BY <1>1, SameBelow, Widths DEF Bit
<1> QED
  BY <1>2 DEF Word

(* A word stands for one integer, and its top digit halves the range.      *)
LEMMA Values ==
  ASSUME NEW w \in Word
  PROVE  /\ Val[w] \in 0..(Modulus - 1)
         /\ WordOf(Val[w]) = w
         /\ Width - 1 \in w <=> Val[w] >= Pow2[Width - 1]
         /\ w = {} <=> Val[w] = 0
         /\ w = {Width - 1} <=> Val[w] = Pow2[Width - 1]
<1> DEFINE h == Pow2[Width - 1]
           top == Width - 1
<1>a. h \in Nat \ {0} /\ Modulus = 2 * h /\ top \in Nat /\ top + 1 = Width /\ Pow2[top + 1] = Modulus
  BY Widths, PowersOfWidth
<1>1. \A v \in Word : /\ Val[v] \in 0..(Modulus - 1)
                      /\ Val[v] = Below(v)[top] + (IF top \in v THEN h ELSE 0)
                      /\ Below(v)[top] \in 0..(h - 1)
  <2> TAKE v \in Word
  <2>1. Val[v] = Below(v)[Width]
    BY DEF Val
  <2>2. /\ Below(v)[top + 1] = Below(v)[top] + (IF top \in v THEN h ELSE 0)
        /\ Below(v)[top] \in 0..(h - 1)
        /\ Below(v)[top + 1] \in 0..(Pow2[top + 1] - 1)
    BY <1>a, BelowAdds
  <2> HIDE DEF top, h
  <2> QED
    BY <1>a, <2>1, <2>2
<1>2. WordOf(Val[w]) = w
  <2>1. Val[w] \in 0..(Modulus - 1)
    BY <1>1
  <2>2. Val[w] % Modulus = Val[w]
    <3> DEFINE m == Modulus
               n == Val[w]
    <3>1. m \in Nat \ {0} /\ n \in 0..(m - 1)
      BY <1>a, <2>1
    <3> HIDE DEF m, n
    <3>2. n % m = n
      BY <3>1
    <3> QED
      BY <3>2 DEF m, n
  <2>3. Val[w] \in Int
    BY <1>a, <2>1
  <2>4. WordOf(Val[w]) \in Word /\ Val[WordOf(Val[w])] = Val[w]
    BY <2>2, <2>3, ValueOf
  <2> QED
    BY <2>4, SameValue
<1>3. {} \in Word /\ Val[{}] = 0 /\ Below({})[top] = 0
  <2>1. {} \in Word
    BY DEF Word
  <2>2. WordOf(0) = {}
    <3>1. \A b \in Bit : 0 \div Pow2[b] = 0
      <4> TAKE b \in Bit
      <4> DEFINE p == Pow2[b]
      <4>1. p \in Nat \ {0}
        BY Powers, Widths DEF Bit
      <4> HIDE DEF p
      <4>2. 0 \div p = 0
        BY <4>1
      <4> QED
        BY <4>2 DEF p
    <3>2. \A b \in Bit : (0 \div Pow2[b]) % 2 # 1
      BY <3>1
    <3> QED
      BY <3>2 DEF WordOf
  <2>3. \A p \in Nat \ {0} : 0 % p = 0
    OBVIOUS
  <2>4. 0 % Modulus = 0 /\ 0 % Pow2[top] = 0
    BY <1>a, <2>3
  <2>5. top \in 0..Width
    BY <1>a, Widths
  <2>6. Val[WordOf(0)] = 0 % Modulus
    BY ValueOf
  <2>7. Below(WordOf(0))[top] = 0 % Pow2[top]
    BY <2>5, Remainders
  <2> HIDE DEF top
  <2> QED
    BY <2>1, <2>2, <2>4, <2>6, <2>7
<1>4. w = {} <=> Val[w] = 0
  BY <1>3, SameValue
<1>5. top \in w <=> Val[w] >= h
  <2>1. /\ Val[w] = Below(w)[top] + (IF top \in w THEN h ELSE 0)
        /\ Below(w)[top] \in 0..(h - 1)
    BY <1>1
  <2> DEFINE n == Below(w)[top]
  <2> HIDE DEF n, h, top
  <2> QED
    BY <1>a, <2>1 DEF n
<1>6. ASSUME Val[w] = h
      PROVE  w = {top}
  <2>1. top \in w /\ Below(w)[top] = 0
    <3>1. top \in w
      BY <1>5, <1>6, <1>a
    <3>2. Val[w] = Below(w)[top] + h /\ Below(w)[top] \in 0..(h - 1)
      BY <1>1, <3>1
    <3> DEFINE n == Below(w)[top]
    <3>3. n \in 0..(h - 1) /\ h = n + h /\ h \in Nat
      BY <1>6, <1>a, <3>2
    <3> HIDE DEF n, h, top
    <3> QED
      BY <3>1, <3>3 DEF n
  <2>2. \A j \in 0..(top - 1) : j \notin w
    <3> HIDE DEF top
    <3>1. Below(w)[top] = Below({})[top]
      BY <1>3, <2>1
    <3> QED
      BY <1>a, <3>1, SameBelow
  <2>3. \A j \in Bit : j \in w => j = top
    BY <1>a, <2>2, Widths DEF Bit
  <2> QED
    BY <2>1, <2>3 DEF Word
<1>7. ASSUME w = {top}
      PROVE  Val[w] = h
  <2>1. Below(w)[top] = Below({})[top]
    <3> DEFINE S == {k \in Nat : k <= top => Below(w)[k] = 0}
    <3>1. 0 \in S
      BY BelowAdds
    <3>2. \A k \in S : k + 1 \in S
      <4> SUFFICES ASSUME NEW k \in Nat, k + 1 <= top, Below(w)[k] = 0
                   PROVE  Below(w)[k + 1] = 0
        BY <1>a
      <4>1. k # top
        BY <1>a
      <4>2. k \notin w
        BY <1>7, <4>1
      <4> QED
        BY <4>2, BelowAdds
    <3>3. S = Nat
      <4> HIDE DEF S
      <4>1. S \in SUBSET Nat
        BY DEF S
      <4> QED
        BY <3>1, <3>2, <4>1, Induction
    <3> QED
      BY <1>3, <1>a, <3>3
  <2>2. Val[w] = 0 + h
    BY <1>1, <1>3, <1>7, <2>1
  <2> QED
    BY <1>a, <2>2
<1> QED
  BY <1>1, <1>2, <1>4, <1>5, <1>6, <1>7

(* What is wrapped does not change the word.                               *)
LEMMA WordWraps ==
  ASSUME NEW n \in Int
  PROVE  WordOf(n % Modulus) = WordOf(n)
<1>1. WordOf(n) \in Word /\ Val[WordOf(n)] = n % Modulus
  BY ValueOf
<1> QED
  BY <1>1, Values

(* The lower half.                                                         *)
LEMMA LowHalf ==
  ASSUME NEW n \in Int
  PROVE  /\ Low(WordOf(n)) \in Word
         /\ Low(WordOf(n)) = WordOf(n % Pow2[2 * Lane])
         /\ Val[Low(WordOf(n))] = n % Pow2[2 * Lane]
<1> DEFINE w == WordOf(n)
           h == 2 * Lane
           S == {k \in Nat : Below(Low(w))[k] = Below(w)[IF k <= h THEN k ELSE h]}
<1>a. h \in Nat /\ h <= Width /\ h = Width \div 2
  BY Widths
<1>1. Low(w) = {b \in w : b < h} /\ w \in Word
  BY <1>a, ValueOf DEF Low
<1> HIDE DEF w, h
<1>2. 0 \in S
  <2>1. (IF 0 <= h THEN 0 ELSE h) = 0
    BY <1>a
  <2> QED
    BY <2>1, BelowAdds
<1>3. \A k \in S : k + 1 \in S
  <2> SUFFICES ASSUME NEW k \in Nat, Below(Low(w))[k] = Below(w)[IF k <= h THEN k ELSE h]
               PROVE  Below(Low(w))[k + 1] = Below(w)[IF k + 1 <= h THEN k + 1 ELSE h]
    OBVIOUS
  <2>1. /\ Below(Low(w))[k + 1] = Below(Low(w))[k] + (IF k \in Low(w) THEN Pow2[k] ELSE 0)
        /\ Below(w)[k + 1] = Below(w)[k] + (IF k \in w THEN Pow2[k] ELSE 0)
    BY BelowAdds
  <2>2. CASE k + 1 <= h
    <3>1. k <= h /\ k < h
      BY <1>a, <2>2
    <3>2. k \in Low(w) <=> k \in w
      BY <1>1, <3>1
    <3> QED
      BY <2>1, <2>2, <3>1, <3>2
  <2>3. CASE ~(k + 1 <= h)
    <3>1. ~(k < h) /\ (IF k <= h THEN k ELSE h) = h
      BY <1>a, <2>3
    <3>2. k \notin Low(w)
      BY <1>1, <3>1
    <3>3. Below(w)[h] \in Nat
      BY <1>a, BelowAdds, Powers
    <3> QED
      BY <2>1, <2>3, <3>1, <3>2, <3>3
  <2> QED
    BY <2>2, <2>3
<1>4. S = Nat
  <2> HIDE DEF S
  <2>1. S \in SUBSET Nat
    BY DEF S
  <2> QED
    BY <1>2, <1>3, <2>1, Induction
<1>5. Low(w) \in Word
  BY <1>1 DEF Word
<1>6. Val[Low(w)] = n % Pow2[h]
  <2>1. (IF Width <= h THEN Width ELSE h) = h /\ Width \in S /\ h \in 0..Width
    BY <1>4, <1>a, Widths
  <2>2. Below(Low(w))[Width] = Below(w)[h]
    BY <2>1
  <2>3. Below(w)[h] = n % Pow2[h]
    BY <2>1, Remainders DEF w
  <2> QED
    BY <1>5, <2>2, <2>3 DEF Val
<1>7. WordOf(Val[Low(w)]) = Low(w)
  BY <1>5, Values
<1> QED
  BY <1>5, <1>6, <1>7 DEF w, h

-----------------------------------------------------------------------------
(* The interpreter's arithmetic, shifts and masks against the              *)
(* architecture's.                                                         *)

(* The wrapped sum or difference of two integers below m.                  *)
LEMMA WrappedSum ==
  ASSUME NEW m \in Nat \ {0}, NEW a \in 0..(m - 1), NEW b \in 0..(m - 1)
  PROVE  /\ (a + b) % m = IF a + b < m THEN a + b ELSE a + b - m
         /\ (a - b) % m = IF a >= b THEN a - b ELSE a - b + m
         /\ (-b) % m = IF b = 0 THEN 0 ELSE m - b
<1>1. \A q \in Int, r \in 0..(m - 1) : (m * q + r) % m = r
  BY Division
<1>2. /\ \A r \in 0..(m - 1) : (m * 0 + r) % m = r
      /\ \A r \in 0..(m - 1) : (m * 1 + r) % m = r
      /\ \A r \in 0..(m - 1) : (m * (-1) + r) % m = r
  BY <1>1
<1>3. \A r \in 0..(m - 1) : m * 0 + r = r /\ m * 1 + r = r + m /\ m * (-1) + r = r - m
  OBVIOUS
<1>4. \A r \in 0..(m - 1) : r % m = r /\ (r + m) % m = r /\ (r - m) % m = r
  BY <1>2, <1>3
<1>5. (a + b) % m = IF a + b < m THEN a + b ELSE a + b - m
  <2>1. CASE a + b < m
    <3>1. a + b \in 0..(m - 1)
      BY <2>1
    <3> QED
      BY <1>4, <2>1, <3>1
  <2>2. CASE ~(a + b < m)
    <3>1. a + b - m \in 0..(m - 1) /\ (a + b - m) + m = a + b
      BY <2>2
    <3> QED
      BY <1>4, <2>2, <3>1
  <2> QED
    BY <2>1, <2>2
<1>6. (a - b) % m = IF a >= b THEN a - b ELSE a - b + m
  <2>1. CASE a >= b
    <3>1. a - b \in 0..(m - 1)
      BY <2>1
    <3> QED
      BY <1>4, <2>1, <3>1
  <2>2. CASE ~(a >= b)
    <3>1. a - b + m \in 0..(m - 1) /\ (a - b + m) - m = a - b
      BY <2>2
    <3> QED
      BY <1>4, <2>2, <3>1
  <2> QED
    BY <2>1, <2>2
<1>7. (-b) % m = IF b = 0 THEN 0 ELSE m - b
  <2> DEFINE n == -b
  <2>1. n \in Int /\ n = 0 - b
    OBVIOUS
  <2> HIDE DEF n
  <2>2. n % m = IF b = 0 THEN 0 ELSE m - b
    <3>1. CASE b = 0
      <4>1. n = 0 /\ 0 \in 0..(m - 1)
        BY <2>1, <3>1
      <4> QED
        BY <1>4, <3>1, <4>1
    <3>2. CASE b # 0
      <4>1. m - b \in 0..(m - 1) /\ (m - b) - m = n
        BY <2>1, <3>2
      <4> QED
        BY <1>4, <3>2, <4>1
    <3> QED
      BY <3>1, <3>2
  <2> QED
    BY <2>2 DEF n
<1> QED
  BY <1>5, <1>6, <1>7

LEMMA SumAgrees ==
  ASSUME NEW a \in Word, NEW b \in Word, NEW sub \in BOOLEAN
  PROVE  LET n == IF sub THEN Val[a] - Val[b] ELSE Val[a] + Val[b]
         IN  /\ n \in Int /\ WordOf(n) = ArmSum(Val[a], Val[b], sub, TRUE)
             /\ WordOf(n) \in Word /\ Val[WordOf(n)] = n % Modulus
<1> DEFINE n == IF sub THEN Val[a] - Val[b] ELSE Val[a] + Val[b]
<1>1. n \in Int
  BY Values, PowersOfWidth
<1>2. ArmSum(Val[a], Val[b], sub, TRUE) = WordOf(n % Modulus)
  BY Widths, PowersOfWidth DEF ArmSum
<1> HIDE DEF n
<1>3. WordOf(n) = WordOf(n % Modulus) /\ WordOf(n) \in Word /\ Val[WordOf(n)] = n % Modulus
  BY <1>1, WordWraps, ValueOf
<1> QED
  BY <1>1, <1>2, <1>3 DEF n

(* The carry, as the interpreter finds it, and the sign bits for overflow. *)
AsSigned(n, m) == IF 2 * n >= m THEN n - m ELSE n
SumSigned(h, m, a, b, sum) ==
    /\ sum < a <=> a + b >= m
    /\ AsSigned(sum, m) < 0 <=> sum >= h
    /\ AsSigned(sum, m) # AsSigned(a, m) + AsSigned(b, m)
         <=> ~((a >= h) <=> (sum >= h)) /\ ~((b >= h) <=> (sum >= h))
RestSigned(h, m, a, b, rest, minus) ==
    /\ rest < a <=> a >= b
    /\ AsSigned(rest, m) < 0 <=> rest >= h
    /\ AsSigned(rest, m) # AsSigned(a, m) - AsSigned(b, m)
         <=> ~((a >= h) <=> (rest >= h)) /\ ~((minus >= h) <=> (rest >= h))

LEMMA SumSigns ==
  ASSUME NEW h \in Nat \ {0}, NEW m, m = 2 * h, NEW a \in 0..(m - 1), NEW b \in 0..(m - 1),
         NEW sum, sum = (a + b) % m
  PROVE  SumSigned(h, m, a, b, sum)
<1>1. m \in Nat \ {0}
  OBVIOUS
<1>2. sum = IF a + b < m THEN a + b ELSE a + b - m
  BY <1>1, WrappedSum
<1> QED
  BY <1>2 DEF AsSigned, SumSigned, RestSigned

LEMMA RestSigns ==
  ASSUME NEW h \in Nat \ {0}, NEW m, m = 2 * h, NEW a \in 0..(m - 1), NEW b \in 0..(m - 1),
         b \notin {0, h}, NEW rest, rest = (a - b) % m, NEW minus, minus = (-b) % m
  PROVE  RestSigned(h, m, a, b, rest, minus)
<1>1. m \in Nat \ {0}
  OBVIOUS
<1>2. /\ rest = IF a >= b THEN a - b ELSE a - b + m
      /\ minus = IF b = 0 THEN 0 ELSE m - b
  BY <1>1, WrappedSum
<1> QED
  BY <1>2 DEF AsSigned, SumSigned, RestSigned

(* The four flags of a sum, and of a difference whose subtrahend is        *)
(* neither zero nor the least number.                                      *)
LEMMA FlagsAgree ==
  ASSUME NEW a \in Word, NEW b \in Word, NEW sub \in BOOLEAN,
         sub => b \notin {{}, {Width - 1}}
  PROVE  LET r == WordOf(IF sub THEN Val[a] - Val[b] ELSE Val[a] + Val[b])
             b1 == IF sub THEN WordOf(-Val[b]) ELSE b
         IN  {f \in Flag : \/ f = "N" /\ Width - 1 \in r
                           \/ f = "Z" /\ r = {}
                           \/ f = "C" /\ Val[r] < Val[a]
                           \/ f = "V" /\ Width - 1 \in Xor(a, r) \cap Xor(b1, r)}
             = ArmFlags(Val[a], Val[b], sub, TRUE)
<1> DEFINE h == Pow2[Width - 1]
           m == Modulus
           A == Val[a]
           B == Val[b]
           n == IF sub THEN A - B ELSE A + B
           r == WordOf(n)
           b1 == IF sub THEN WordOf(-B) ELSE b
           R == Val[r]
           top == Width - 1
<1>1. /\ h \in Nat \ {0} /\ m = 2 * h /\ m \in Nat \ {0}
      /\ A \in 0..(m - 1) /\ B \in 0..(m - 1)
  BY PowersOfWidth, Values
<1>2. r \in Word /\ R = n % m /\ R \in 0..(m - 1) /\ ArmSum(A, B, sub, TRUE) = r
  <2>1. r \in Word /\ R = n % m /\ ArmSum(A, B, sub, TRUE) = r
    BY SumAgrees
  <2> HIDE DEF r
  <2>2. R \in 0..(m - 1)
    BY <2>1, Values
  <2> QED
    BY <2>1, <2>2
<1>3. b1 \in Word /\ Val[b1] = IF sub THEN (-B) % m ELSE B
  <2>1. -B \in Int
    BY <1>1
  <2> QED
    BY <2>1, ValueOf
<1>4. /\ top \in a <=> A >= h
      /\ top \in r <=> R >= h
      /\ top \in b1 <=> Val[b1] >= h
      /\ r = {} <=> R = 0
      /\ b \notin {{}, {top}} => B \notin {0, h}
  BY <1>2, <1>3, Values
<1>5. \A k : Signed(k, TRUE) = AsSigned(k, m)
  BY Widths, PowersOfWidth DEF Signed, AsSigned
<1>6. ArmFlags(A, B, sub, TRUE) =
        {f \in Flag : \/ f = "N" /\ Signed(R, TRUE) < 0
                      \/ f = "Z" /\ R = 0
                      \/ f = "C" /\ IF sub THEN A >= B ELSE A + B >= m
                      \/ f = "V" /\ Signed(R, TRUE) # IF sub THEN Signed(A, TRUE) - Signed(B, TRUE)
                                                       ELSE Signed(A, TRUE) + Signed(B, TRUE)}
  <2>1. Pow2[Digits(TRUE)] = m
    BY Widths, PowersOfWidth
  <2>2. Val[ArmSum(A, B, sub, TRUE)] = R
    BY <1>2
  <2> HIDE DEF A, B, m, R
  <2> QED
    BY <2>1, <2>2 DEF ArmFlags
<1>7. top \in Xor(a, r) \cap Xor(b1, r)
        <=> ~((top \in a) <=> (top \in r)) /\ ~((top \in b1) <=> (top \in r))
  <2> HIDE DEF top, r, b1
  <2> QED
    BY DEF Xor
<1> HIDE DEF h, m, A, B, n, r, b1, R, top
<1>8. /\ Signed(R, TRUE) < 0 <=> top \in r
      /\ R < A <=> IF sub THEN A >= B ELSE A + B >= m
      /\ (Signed(R, TRUE) # IF sub THEN Signed(A, TRUE) - Signed(B, TRUE)
                                   ELSE Signed(A, TRUE) + Signed(B, TRUE))
           <=> ~((top \in a) <=> (top \in r)) /\ ~((top \in b1) <=> (top \in r))
  <2>1. CASE sub
    <3>1. B \notin {0, h}
      BY <1>4, <2>1 DEF top
    <3>2. R = (A - B) % m /\ Val[b1] = (-B) % m
      BY <1>2, <1>3, <2>1 DEF n
    <3>3. /\ R < A <=> A >= B
          /\ AsSigned(R, m) < 0 <=> R >= h
          /\ AsSigned(R, m) # AsSigned(A, m) - AsSigned(B, m)
               <=> ~((A >= h) <=> (R >= h)) /\ ~((Val[b1] >= h) <=> (R >= h))
      <4> DEFINE minus == Val[b1]
      <4>1. minus = (-B) % m
        BY <3>2
      <4> HIDE DEF minus
      <4>2. RestSigned(h, m, A, B, R, minus)
        BY ONLY <1>1, <3>1, <3>2, <4>1, RestSigns
      <4> QED
        BY <4>2 DEF minus, RestSigned
    <3>4. /\ Signed(R, TRUE) < 0 <=> R >= h
          /\ Signed(R, TRUE) # Signed(A, TRUE) - Signed(B, TRUE)
               <=> ~((A >= h) <=> (R >= h)) /\ ~((Val[b1] >= h) <=> (R >= h))
      <4>1. /\ Signed(R, TRUE) = AsSigned(R, m)
            /\ Signed(A, TRUE) = AsSigned(A, m) /\ Signed(B, TRUE) = AsSigned(B, m)
        BY <1>5
      <4> QED
        BY ONLY <3>3, <4>1
    <3> QED
      <4>1. /\ top \in a <=> A >= h
            /\ top \in r <=> R >= h
            /\ top \in b1 <=> Val[b1] >= h
        BY <1>4
      <4>2. (Signed(R, TRUE) # Signed(A, TRUE) - Signed(B, TRUE))
              <=> ~((top \in a) <=> (top \in r)) /\ ~((top \in b1) <=> (top \in r))
        BY ONLY <3>4, <4>1
      <4>3. Signed(R, TRUE) < 0 <=> top \in r
        BY ONLY <3>4, <4>1
      <4> QED
        BY ONLY <2>1, <3>3, <4>2, <4>3
  <2>2. CASE ~sub
    <3>2. R = (A + B) % m /\ Val[b1] = B
      BY <1>2, <1>3, <2>2 DEF n
    <3>3. /\ R < A <=> A + B >= m
          /\ AsSigned(R, m) < 0 <=> R >= h
          /\ AsSigned(R, m) # AsSigned(A, m) + AsSigned(B, m)
               <=> ~((A >= h) <=> (R >= h)) /\ ~((B >= h) <=> (R >= h))
      <4>1. SumSigned(h, m, A, B, R)
        BY ONLY <1>1, <3>2, SumSigns
      <4> QED
        BY <4>1 DEF SumSigned
    <3>4. /\ Signed(R, TRUE) < 0 <=> R >= h
          /\ Signed(R, TRUE) # Signed(A, TRUE) + Signed(B, TRUE)
               <=> ~((A >= h) <=> (R >= h)) /\ ~((B >= h) <=> (R >= h))
      <4>1. /\ Signed(R, TRUE) = AsSigned(R, m)
            /\ Signed(A, TRUE) = AsSigned(A, m) /\ Signed(B, TRUE) = AsSigned(B, m)
        BY <1>5
      <4> QED
        BY ONLY <3>3, <4>1
    <3> QED
      <4>1. /\ top \in a <=> A >= h
            /\ top \in r <=> R >= h
            /\ top \in b1 <=> B >= h
        BY <1>4, <3>2
      <4>2. (Signed(R, TRUE) # Signed(A, TRUE) + Signed(B, TRUE))
              <=> ~((top \in a) <=> (top \in r)) /\ ~((top \in b1) <=> (top \in r))
        BY ONLY <3>4, <4>1
      <4>3. Signed(R, TRUE) < 0 <=> top \in r
        BY ONLY <3>4, <4>1
      <4> QED
        BY ONLY <2>2, <3>3, <4>2, <4>3
  <2> QED
    BY <2>1, <2>2
<1>9. {f \in Flag : \/ f = "N" /\ top \in r
                    \/ f = "Z" /\ r = {}
                    \/ f = "C" /\ R < A
                    \/ f = "V" /\ top \in Xor(a, r) \cap Xor(b1, r)}
      = ArmFlags(A, B, sub, TRUE)
  BY <1>4, <1>6, <1>7, <1>8
<1> QED
  BY <1>9 DEF A, B, n, r, b1, R, top

(* All 64-bit additions and subtractions.                                  *)
Subtracts(i, b) == i.s /\ i.sub => b \notin {{}, {Width - 1}}
ArmAddSub(c, i, a, b) ==
    LET r == ArmSum(Val[a], Val[b], i.sub, TRUE)
    IN  IF i.s THEN [WriteZr(c, i.rd, r) EXCEPT
                        !.nzcv = ArmFlags(Val[a], Val[b], i.sub, TRUE)]
               ELSE WriteSp(c, i.rd, r)
LEMMA AddSubAgrees ==
  ASSUME NEW c, NEW i, i.sub \in BOOLEAN, i.sf, NEW a \in Word, NEW b \in Word,
         Subtracts(i, b)
  PROVE  AddSub(c, i, a, b) = ArmAddSub(c, i, a, b)
<1>1. WordOf(IF i.sub THEN Val[a] - Val[b] ELSE Val[a] + Val[b])
        = ArmSum(Val[a], Val[b], i.sub, TRUE)
  BY SumAgrees
<1>2. CASE i.s
  BY <1>1, <1>2, FlagsAgree, Zenon DEF AddSub, ArmAddSub, Subtracts
<1>3. CASE ~i.s
  BY <1>1, <1>3 DEF AddSub, ArmAddSub
<1> QED
  BY <1>2, <1>3

(* The shifts of both sides.                                               *)
LEMMA ShiftAgrees ==
  ASSUME NEW w \in Word, NEW k \in Bit, NEW type \in Shift
  PROVE  /\ Shifted(w, type, k) = ArmShift(w, type, k, TRUE)
         /\ Shifted(w, type, k) \in Word
         /\ type = "lsl" => Low(Shifted(w, type, k)) = ArmShift(w, type, k, FALSE)
<1> DEFINE d == Width
<1>1. d \in Nat \ {0} /\ k \in 0..(d - 1) /\ Bit = 0..(d - 1) /\ Digits(TRUE) = d
      /\ Digits(FALSE) = d \div 2 /\ d \div 2 \in Nat /\ d \div 2 <= d
  <2>1. Bit = 0..(d - 1) /\ k \in 0..(d - 1)
    BY DEF Bit
  <2>2. d \in Nat \ {0} /\ Digits(TRUE) = d /\ Digits(FALSE) = d \div 2
        /\ d \div 2 \in Nat /\ d \div 2 <= d
    <3> DEFINE half == Width \div 2
    <3>1. /\ Width \in Nat \ {0} /\ Lane \in Nat /\ Width = 4 * Lane
          /\ half = 2 * Lane /\ Digits(TRUE) = Width /\ Digits(FALSE) = 2 * Lane
      BY Widths
    <3> HIDE DEF half
    <3>2. half \in Nat /\ half <= Width
      BY <3>1
    <3> QED
      BY <3>1, <3>2 DEF half
  <2> QED
    BY <2>1, <2>2
<1>2. \A b \in Bit : b \in Shl(w, k) <=> b - k \in w
  BY <1>1 DEF Shl, Word
<1>3. \A b \in Bit : b \in Shr(w, k) <=> b + k \in w
  BY <1>1 DEF Shr, Word
<1>4. Shl(w, k) \subseteq Bit /\ Shr(w, k) \subseteq Bit
  BY <1>1 DEF Shl, Shr, Word
<1>5. \A b \in Bit : b + k \in w => b + k < d
  BY <1>1 DEF Word
<1> DEFINE A(sf, b) == \/ type = "lsl" /\ b - k \in w
                       \/ type = "lsr" /\ b + k \in w /\ b + k < Digits(sf)
                       \/ type = "asr" /\ (IF b + k < Digits(sf) THEN b + k ELSE Digits(sf) - 1) \in w
                       \/ type = "ror" /\ (b + k) % Digits(sf) \in w
<1>6. \A sf \in BOOLEAN : ArmShift(w, type, k, sf) = {b \in 0..(Digits(sf) - 1) : A(sf, b)}
  BY DEF ArmShift
<1>7. CASE type = "lsl"
  <2>1. Shifted(w, type, k) = Shl(w, k)
    BY <1>7 DEF Shifted
  <2>2. \A sf \in BOOLEAN : \A b : A(sf, b) <=> b - k \in w
    BY <1>7
  <2>3. /\ ArmShift(w, type, k, TRUE) = {b \in Bit : b - k \in w}
        /\ ArmShift(w, type, k, FALSE) = {b \in 0..(d \div 2 - 1) : b - k \in w}
    BY <1>1, <1>6, <2>2
  <2>4. Low(Shl(w, k)) = {b \in Bit : b - k \in w /\ b < d \div 2}
    BY <1>2, <1>4 DEF Low
  <2>5. {b \in Bit : b - k \in w /\ b < d \div 2} = {b \in 0..(d \div 2 - 1) : b - k \in w}
    BY <1>1
  <2>6. Shl(w, k) = {b \in Bit : b - k \in w}
    BY <1>2, <1>4
  <2> QED
    BY <1>4, <2>1, <2>3, <2>4, <2>5, <2>6 DEF Word
<1>8. CASE type = "lsr"
  <2>1. Shifted(w, type, k) = Shr(w, k)
    BY <1>8 DEF Shifted
  <2>2. \A b \in Bit : A(TRUE, b) <=> b + k \in w
    BY <1>1, <1>5, <1>8
  <2>3. ArmShift(w, type, k, TRUE) = {b \in Bit : b + k \in w}
    BY <1>1, <1>6, <2>2
  <2> QED
    BY <1>3, <1>4, <1>8, <2>1, <2>3 DEF Word
<1>9. CASE type = "asr"
  <2> DEFINE top == IF d - 1 \in w THEN (d - k)..(d - 1) ELSE {}
  <2>1. Shifted(w, type, k) = Shr(w, k) \cup top
    BY <1>9 DEF Shifted
  <2>2. \A b \in Bit : A(TRUE, b) <=> (IF b + k < d THEN b + k ELSE d - 1) \in w
    BY <1>1, <1>9
  <2>3. \A b \in Bit : b \in top <=> (~(b + k < d) /\ d - 1 \in w)
    BY <1>1
  <2>4. top \subseteq Bit
    BY <1>1
  <2> HIDE DEF top
  <2>5. \A b \in Bit : (b \in Shr(w, k) \cup top) <=> A(TRUE, b)
    BY <1>3, <1>5, <2>2, <2>3
  <2>6. ArmShift(w, type, k, TRUE) = {b \in Bit : A(TRUE, b)}
    BY <1>1, <1>6
  <2> QED
    BY <1>4, <1>9, <2>1, <2>4, <2>5, <2>6 DEF Word
<1>10. CASE type = "ror"
  <2>1. Shifted(w, type, k) = Shr(w, k) \cup Shl(w, d - k)
    BY <1>10 DEF Shifted
  <2>2. \A b \in Bit : A(TRUE, b) <=> (b + k) % d \in w
    BY <1>1, <1>10
  <2>3. \A b \in Bit : (b + k) % d = IF b + k < d THEN b + k ELSE b + k - d
    BY <1>1, WrappedSum
  <2>4. \A b \in Bit : b \in Shl(w, d - k) <=> (~(b + k < d) /\ b + k - d \in w)
    BY <1>1 DEF Shl, Word
  <2>5. Shl(w, d - k) \subseteq Bit
    BY <1>1 DEF Shl, Word
  <2>6. \A b \in Bit : (b \in Shr(w, k) \cup Shl(w, d - k)) <=> A(TRUE, b)
    BY <1>3, <1>5, <2>2, <2>3, <2>4
  <2>7. ArmShift(w, type, k, TRUE) = {b \in Bit : A(TRUE, b)}
    BY <1>1, <1>6
  <2> QED
    BY <1>4, <1>10, <2>1, <2>5, <2>6, <2>7 DEF Word
<1> QED
  BY <1>7, <1>8, <1>9, <1>10 DEF Shift


(* A sum or a difference has the remainder of that of the remainders.      *)
LEMMA ModularSum ==
  ASSUME NEW m \in Nat \ {0}, NEW x \in Int, NEW y \in Int
  PROVE  /\ (x + y) % m = ((x % m) + (y % m)) % m
         /\ (x - y) % m = ((x % m) - (y % m)) % m
<1> DEFINE p == x \div m
           q == y \div m
           r == x % m
           s == y % m
<1>1. /\ p \in Int /\ r \in 0..(m - 1) /\ x = m * p + r
      /\ q \in Int /\ s \in 0..(m - 1) /\ y = m * q + s
  OBVIOUS
<1> HIDE DEF p, q, r, s
<1>2. /\ (r + s) % m = IF r + s < m THEN r + s ELSE r + s - m
      /\ (r - s) % m = IF r >= s THEN r - s ELSE r - s + m
  BY <1>1, WrappedSum
<1>3. \A k \in Int, t \in 0..(m - 1) : (m * k + t) % m = t
  BY Division
<1>4. /\ m * (p + q) = m * p + m * q /\ m * (p + q + 1) = m * p + m * q + m
      /\ m * (p - q) = m * p - m * q /\ m * (p - q - 1) = m * p - m * q - m
  BY <1>1
<1>5. (x + y) % m = (r + s) % m
  <2> DEFINE t == (r + s) % m
             k == IF r + s < m THEN p + q ELSE p + q + 1
  <2>1. t \in 0..(m - 1) /\ k \in Int
    BY <1>1, <1>2
  <2>2. x + y = m * k + t
    <3>1. CASE r + s < m
      BY <1>1, <1>2, <1>4, <3>1
    <3>2. CASE ~(r + s < m)
      BY <1>1, <1>2, <1>4, <3>2
    <3> QED
      BY <3>1, <3>2
  <2> HIDE DEF t, k
  <2>3. (m * k + t) % m = t
    BY <1>3, <2>1
  <2> QED
    BY <2>2, <2>3 DEF t
<1>6. (x - y) % m = (r - s) % m
  <2> DEFINE t == (r - s) % m
             k == IF r >= s THEN p - q ELSE p - q - 1
  <2>1. t \in 0..(m - 1) /\ k \in Int
    BY <1>1, <1>2
  <2>2. x - y = m * k + t
    <3>1. CASE r >= s
      BY <1>1, <1>2, <1>4, <3>1
    <3>2. CASE ~(r >= s)
      BY <1>1, <1>2, <1>4, <3>2
    <3> QED
      BY <3>1, <3>2
  <2> HIDE DEF t, k
  <2>3. (m * k + t) % m = t
    BY <1>3, <2>1
  <2> QED
    BY <2>2, <2>3 DEF t
<1> QED
  BY <1>5, <1>6 DEF r, s

(* The lower half of the 64-bit result is that of the 32-bit operation.    *)
LEMMA HalfSumAgrees ==
  ASSUME NEW a \in Word, NEW b \in Word, NEW sub \in BOOLEAN
  PROVE  Low(WordOf(IF sub THEN Val[a] - Val[b] ELSE Val[a] + Val[b]))
           = ArmSum(Val[Low(a)], Val[Low(b)], sub, FALSE)
<1> DEFINE A == Val[a]
           B == Val[b]
           p == Pow2[2 * Lane]
           n == IF sub THEN A - B ELSE A + B
<1>1. A \in Int /\ B \in Int /\ WordOf(A) = a /\ WordOf(B) = b
  BY Values, PowersOfWidth
<1>2. p \in Nat \ {0} /\ Pow2[Digits(FALSE)] = p
  <2>1. 2 * Lane \in Nat
    BY Widths
  <2> QED
    BY <2>1, Powers, Widths
<1>3. Val[Low(a)] = A % p /\ Val[Low(b)] = B % p
  BY <1>1, LowHalf
<1>4. n \in Int
  BY <1>1
<1> HIDE DEF A, B, p
<1>5. n % p = (IF sub THEN (A % p) - (B % p) ELSE (A % p) + (B % p)) % p
  BY <1>1, <1>2, ModularSum
<1>6. ArmSum(A % p, B % p, sub, FALSE)
        = WordOf((IF sub THEN (A % p) - (B % p) ELSE (A % p) + (B % p)) % p)
  BY <1>2 DEF ArmSum
<1> HIDE DEF n
<1>7. Low(WordOf(n)) = WordOf(n % p)
  BY <1>4, LowHalf DEF p
<1> QED
  BY <1>3, <1>5, <1>6, <1>7 DEF n, A, B

(* The masks of the logical immediates.                                    *)
LEMMA MaxIs ==
  ASSUME NEW S \in SUBSET Int, NEW j \in S, \A y \in S : y <= j
  PROVE  Max(S) = j
<1>1. \A y \in S : j >= y
  OBVIOUS
<1>2. Max(S) \in S /\ \A y \in S : Max(S) >= y
  BY <1>1 DEF Max
<1>3. Max(S) \in Int /\ Max(S) >= j /\ j >= Max(S) /\ j \in Int
  BY <1>1, <1>2
<1> QED
  BY ONLY <1>3


LEMMA SmallPowers ==
  /\ Pow2[0] = 1 /\ Pow2[1] = 2 /\ Pow2[2] = 4 /\ Pow2[3] = 8
  /\ Pow2[4] = 16 /\ Pow2[5] = 32 /\ Pow2[6] = 64
<1>1. Pow2[0] = 1 /\ \A n \in Nat : Pow2[n + 1] = 2 * Pow2[n]
  BY Powers
<1>2. /\ Pow2[0 + 1] = 2 * Pow2[0] /\ Pow2[1 + 1] = 2 * Pow2[1]
      /\ Pow2[2 + 1] = 2 * Pow2[2] /\ Pow2[3 + 1] = 2 * Pow2[3]
      /\ Pow2[4 + 1] = 2 * Pow2[4] /\ Pow2[5 + 1] = 2 * Pow2[5]
  BY <1>1
<1> QED
  BY <1>1, <1>2

LEMMA WidthIsPower == \E k \in 2..6 : Width = Pow2[k]
<1>1. Width \in {Pow2[2], Pow2[3], Pow2[4], Pow2[5], Pow2[6]}
  BY SmallPowers, A64Assumption
<1> QED
  BY <1>1

(* Of the powers up to 64 the greater has the greater exponent.            *)
LEMMA PowersGrow ==
  ASSUME NEW j \in 0..6, NEW k \in 0..6
  PROVE  Pow2[j] <= Pow2[k] <=> j <= k
<1>1. \A i \in 0..6 : i = 0 \/ i = 1 \/ i = 2 \/ i = 3 \/ i = 4 \/ i = 5 \/ i = 6
  OBVIOUS
<1> QED
  BY <1>1, SmallPowers

(* The element of an allocated mask, as both sides find it.                *)
LEMMA ElementsAgree ==
  ASSUME NEW n \in 0..1, NEW imms \in Bit, ArmMaskAllocated(n, imms)
  PROVE  \E j \in 1..6 : /\ LeadingBit(n, imms) = j
                         /\ ElementSize(n, imms) = Pow2[j] /\ Pow2[j] <= Width
<1> DEFINE E == {2, 4, 8, 16, 32, 64}
           ni == Width - 1 - imms
           S == {e \in E : e <= Width /\ \/ e = Width /\ n = 1
                                         \/ e < Width /\ n = 0 /\ (ni \div e) % 2 = 1}
           T == {k \in 0..6 : ((n * Width + ni) \div Pow2[k]) % 2 = 1}
           e == ElementSize(n, imms)
<1>1. e = Max(S \cup {0}) /\ LeadingBit(n, imms) = Max(T \cup {-1})
  BY DEF ElementSize, LeadingBit
<1>2. Width \in Nat \ {0} /\ ni \in 0..(Width - 1)
  BY Widths DEF Bit
<1>3. e > 0 /\ (imms % e) + 1 < e
  BY DEF ArmMaskAllocated
<1>4. e \in S /\ \A y \in S : y <= e
  <2> DEFINE Z == S \cup {0}
  <2>1. Z \in SUBSET Nat /\ Z # {} /\ 64 \in Nat /\ \A y \in Z : y <= 64
    OBVIOUS
  <2> HIDE DEF S
  <2>2. Max(Z) \in Z /\ \A y \in Z : y <= Max(Z)
    <3> HIDE DEF Z
    <3> QED
      BY <2>1, MaxIsGreatest
  <2>3. e = Max(Z) /\ e > 0
    BY <1>1, <1>3
  <2>4. e \in Z /\ \A y \in Z : y <= e
    BY <2>2, <2>3
  <2>5. e # 0
    BY <2>3
  <2> QED
    BY <2>4, <2>5
<1>5. PICK j \in 1..6 : e = Pow2[j]
  BY <1>4, SmallPowers
<1>6. PICK d \in 2..6 : Width = Pow2[d]
  BY WidthIsPower
<1>7. e <= Width
  BY <1>4
<1>8. \A k \in 0..6 : Pow2[k] \in Nat \ {0} /\ (k >= 1 => Pow2[k] \in E)
  BY SmallPowers
<1>9. j \in T /\ \A k \in T : k <= j
  <2>1. CASE n = 1
    <3>1. e = Width /\ j = d
      <4>1. e = Width
        BY <1>4, <2>1
      <4>2. Pow2[j] = Pow2[d] /\ Pow2[j] \in Nat /\ j \in 0..6 /\ d \in 0..6
        BY <1>5, <1>6, <4>1, Powers
      <4>3. j <= d /\ d <= j
        BY <4>2, PowersGrow
      <4> QED
        BY <4>1, <4>2, <4>3
    <3>2. n * Width + ni = Width * 1 + ni /\ (Width * 1 + ni) \div Width = 1
      BY <1>2, <2>1, Division
    <3>3. j \in T
      BY <1>6, <3>1, <3>2
    <3>4. ASSUME NEW k \in T, ~(k <= j)
          PROVE  FALSE
      <4> DEFINE p == Pow2[k]
                 N == n * Width + ni
      <4>1. p >= 2 * Width /\ p \in Nat \ {0}
        <5>1. d + 1 \in 0..6 /\ d + 1 <= k /\ d \in Nat
          BY <3>1, <3>4
        <5>2. Pow2[d + 1] <= Pow2[k] /\ Pow2[d + 1] = 2 * Pow2[d]
          BY <5>1, PowersGrow, Powers
        <5> QED
          BY <1>6, <1>8, <5>2
      <4>2. N \in 0..(p - 1)
        BY <1>2, <3>2, <4>1
      <4>3. (N \div p) % 2 = 1
        BY <3>4
      <4> HIDE DEF p, N
      <4>4. p * 0 + N = N /\ (p * 0 + N) \div p = 0
        BY <4>1, <4>2, Division
      <4> QED
        BY <4>3, <4>4
    <3> QED
      BY <3>3, <3>4
  <2>2. CASE n = 0
    <3>1. n * Width + ni = ni
      BY <1>2, <2>2
    <3>2. j \in T
      BY <1>4, <1>5, <2>2, <3>1
    <3>3. ASSUME NEW k \in T, ~(k <= j)
          PROVE  FALSE
      <4> DEFINE p == Pow2[k]
      <4>1. (ni \div p) % 2 = 1 /\ p \in E /\ p \in Nat \ {0}
        BY <1>8, <3>1, <3>3
      <4>2. p < Width
        <5> SUFFICES ASSUME ~(p < Width)
                     PROVE  FALSE
          OBVIOUS
        <5>1. ni \in 0..(p - 1)
          BY <1>2, <4>1
        <5> HIDE DEF p, ni
        <5>2. p * 0 + ni = ni /\ (p * 0 + ni) \div p = 0
          BY <4>1, <5>1, Division
        <5> QED
          BY <4>1, <5>2
      <4>3. p \in S
        <5> HIDE DEF p, ni
        <5>1. p <= Width
          BY <4>1, <4>2, <1>2
        <5> QED
          BY <2>2, <4>1, <4>2, <5>1
      <4>4. Pow2[k] <= Pow2[j]
        BY <1>4, <1>5, <4>3
      <4> QED
        BY <3>3, <4>4, PowersGrow
    <3> QED
      BY <3>2, <3>3
  <2> QED
    BY <2>1, <2>2
<1>10. Max(T \cup {-1}) = j
  <2> HIDE DEF T
  <2>1. T \subseteq 0..6
    BY DEF T
  <2> QED
    BY <1>9, <2>1, MaxIs
<1> QED
  BY <1>1, <1>5, <1>7, <1>10


LEMMA MasksAgree ==
  ASSUME NEW n \in 0..1, NEW immr \in Bit, NEW imms \in Bit, ArmMaskAllocated(n, imms)
  PROVE  /\ LogicalImmValid(n, imms)
         /\ LogicalImm(n, immr, imms) = ArmMask(n, immr, imms)
<1>1. PICK j \in 1..6 : /\ LeadingBit(n, imms) = j
                        /\ ElementSize(n, imms) = Pow2[j] /\ Pow2[j] <= Width
  BY ElementsAgree
<1> DEFINE e == Pow2[j]
           r == immr % e
           s == imms % e
           o == Ones(s + 1)
           element == Rotated(o, r, e)
<1>2. e \in Nat \ {0} /\ e > 1 /\ e <= Width /\ s + 1 < e
  BY <1>1, SmallPowers DEF ArmMaskAllocated
<1>3. immr \in Int /\ imms \in Int /\ r \in 0..(e - 1) /\ s \in 0..(e - 1)
  <2>1. immr \in Int /\ imms \in Int
    BY Widths DEF Bit
  <2>2. e \in Nat \ {0}
    BY <1>2
  <2> HIDE DEF e
  <2> QED
    BY <2>1, <2>2
<1>4. LogicalImmValid(n, imms)
  <2>1. LeadingBit(n, imms) = j /\ j >= 0 /\ Pow2[LeadingBit(n, imms)] = e
    BY <1>1
  <2>2. s # e - 1
    BY <1>2, <1>3
  <2>3. LogicalImmValid(n, imms) <=> LeadingBit(n, imms) >= 0 /\ s # e - 1
    BY <2>1 DEF LogicalImmValid
  <2> QED
    BY <2>1, <2>2, <2>3
<1>5. LogicalImm(n, immr, imms) = {b \in Bit : b % e \in element}
  BY <1>1 DEF LogicalImm
<1>6. ArmMask(n, immr, imms) = {b \in Bit : (b + immr) % e <= s}
  BY <1>1 DEF ArmMask
<1> HIDE DEF e, r, s, element
<1>7. \A c \in 0..(e - 1) : c \in element <=> (c + r) % e <= s
  <2> TAKE c \in 0..(e - 1)
  <2>1. (c + r) % e = IF c + r < e THEN c + r ELSE c + r - e
    BY <1>2, <1>3, WrappedSum
  <2>2. CASE r = 0
    <3>1. element = 0..s
      BY <1>2, <1>3, <2>2 DEF element, Rotated, Ones
    <3> QED
      BY <1>2, <1>3, <2>1, <2>2, <3>1
  <2>3. CASE r # 0
    <3>1. element = (Shr(o, r) \cup Shl(o, e - r)) \cap Ones(e) /\ o = 0..s
      BY <1>2, <1>3, <2>3 DEF element, Rotated, Ones
    <3> HIDE DEF o
    <3>2. c \in Shr(o, r) <=> c + r <= s
      BY <1>2, <1>3, <3>1 DEF Shr
    <3>3. c \in Shl(o, e - r) <=> c + r - e \in 0..s
      BY <1>2, <1>3, <3>1, Widths DEF Shl
    <3>4. c \in Ones(e)
      BY <1>2 DEF Ones
    <3>5. c \in element <=> c + r <= s \/ c + r - e \in 0..s
      BY <3>1, <3>2, <3>3, <3>4
    <3> QED
      BY <1>2, <1>3, <2>1, <3>5
  <2> QED
    BY <2>2, <2>3
<1>8. ASSUME NEW b \in Bit
      PROVE  b % e \in element <=> (b + immr) % e <= s
  <2> DEFINE c == b % e
  <2>1. b \in Int
    BY Widths DEF Bit
  <2>2. c \in 0..(e - 1)
    BY <1>2, <2>1
  <2>3. (b + immr) % e = (c + r) % e
    BY <1>2, <1>3, <2>1, ModularSum DEF r
  <2> HIDE DEF c
  <2>4. c \in element <=> (c + r) % e <= s
    BY <1>7, <2>2
  <2> QED
    BY <2>3, <2>4 DEF c
<1> QED
  BY <1>4, <1>5, <1>6, <1>8

(* The logical operations, on words and digit by digit.                    *)
LEMMA LogicAgrees ==
  ASSUME NEW opc \in 0..3, NEW a \in Word, NEW b \in Word
  PROVE  /\ Combine(opc, a, b) = ArmLogic(opc, a, b)
         /\ Combine(opc, a, b) \in Word
<1>1. opc = 0 \/ opc = 1 \/ opc = 2 \/ opc = 3
  OBVIOUS
<1>2. CASE opc \in {0, 3}
  <2>1. Combine(opc, a, b) = a \cap b
    BY <1>2 DEF Combine
  <2>2. ArmLogic(opc, a, b) = {d \in Bit : d \in a /\ d \in b}
    BY <1>2 DEF ArmLogic
  <2> QED
    BY <2>1, <2>2 DEF Word
<1>3. CASE opc = 1
  <2>1. Combine(opc, a, b) = a \cup b
    BY <1>3 DEF Combine
  <2>2. ArmLogic(opc, a, b) = {d \in Bit : d \in a \/ d \in b}
    BY <1>3 DEF ArmLogic
  <2> QED
    BY <2>1, <2>2 DEF Word
<1>4. CASE opc = 2
  <2>1. Combine(opc, a, b) = Xor(a, b)
    BY <1>4 DEF Combine
  <2>2. ArmLogic(opc, a, b) = {d \in Bit : (d \in a) # (d \in b)}
    BY <1>4 DEF ArmLogic
  <2>3. \A d : ((d \in a) # (d \in b)) <=> d \in Xor(a, b)
    BY DEF Xor
  <2>4. Xor(a, b) \subseteq Bit
    BY DEF Xor, Word
  <2> HIDE DEF Xor
  <2> QED
    BY <2>1, <2>2, <2>3, <2>4 DEF Word
<1> QED
  BY <1>1, <1>2, <1>3, <1>4


(* The lane of a move and what it puts there.                              *)
LEMMA LanesAgree ==
  ASSUME NEW hw \in 0..3, NEW imm \in SUBSET Ones(Lane)
  PROVE  LET lane == {k \in Bit : k \div Lane = hw}
         IN  /\ Shl(Ones(Lane), Lane * hw) = lane
             /\ Shl(imm, Lane * hw) = {k \in lane : k % Lane \in imm}
             /\ Shl(imm, Lane * hw) \in Word
<1> DEFINE e == Lane
           start == e * hw
           lane == {k \in Bit : k \div e = hw}
<1>1. e \in Nat \ {0} /\ Width = 4 * e /\ Width \in Nat \ {0} /\ Bit = 0..(Width - 1)
      /\ Ones(Lane) = 0..(e - 1)
  BY Widths DEF Bit, Ones
<1>2. start \in Nat /\ start + e <= Width
  <2>1. hw = 0 \/ hw = 1 \/ hw = 2 \/ hw = 3
    OBVIOUS
  <2> HIDE DEF e
  <2>2. e * 0 = 0 /\ e * 1 = e /\ e * 2 = 2 * e /\ e * 3 = 3 * e
    BY <1>1
  <2> QED
    BY <1>1, <2>1, <2>2
<1>3. \A r \in 0..(e - 1) : (start + r) \div e = hw /\ (start + r) % e = r /\ start + r \in Bit
  <2> TAKE r \in 0..(e - 1)
  <2> HIDE DEF e
  <2>1. hw \in Int
    OBVIOUS
  <2>2. (e * hw + r) \div e = hw /\ (e * hw + r) % e = r
    BY <1>1, <2>1, Division
  <2>3. start + r \in Bit
    <3> HIDE DEF start
    <3> QED
      BY <1>1, <1>2
  <2> QED
    BY <2>2, <2>3
<1>4. \A k \in lane : k % e \in 0..(e - 1) /\ k = start + (k % e) /\ k \in Bit
  <2> TAKE k \in lane
  <2>1. k \in Int /\ k \div e = hw /\ k \in Bit
    BY <1>1
  <2> HIDE DEF e
  <2>2. k % e \in 0..(e - 1) /\ k = e * (k \div e) + (k % e)
    BY <1>1, <2>1
  <2> QED
    BY <2>1, <2>2
<1> HIDE DEF e, start
<1>5. \A w \in SUBSET (0..(e - 1)) : Shl(w, start) = {k \in lane : k % e \in w}
  <2> TAKE w \in SUBSET (0..(e - 1))
  <2>1. \A d \in w : d + start < Width /\ d + start = start + d
    BY <1>1, <1>2
  <2>2. Shl(w, start) = {start + d : d \in w}
    BY <2>1 DEF Shl
  <2>3. \A d \in w : start + d \in lane /\ (start + d) % e = d
    BY <1>3
  <2> HIDE DEF lane
  <2>4. \A k \in lane : k % e \in w => \E d \in w : k = start + d
    BY <1>4
  <2> QED
    BY <2>2, <2>3, <2>4
<1>6. Shl(imm, start) = {k \in lane : k % e \in imm}
  BY <1>1, <1>5
<1>7. Shl(0..(e - 1), start) = lane
  <2>1. Shl(0..(e - 1), start) = {k \in lane : k % e \in 0..(e - 1)}
    BY <1>5
  <2> QED
    BY <1>4, <2>1
<1>8. lane \subseteq Bit
  OBVIOUS
<1> HIDE DEF lane
<1>9. Shl(imm, start) \in Word
  BY <1>6, <1>8 DEF Word
<1> QED
  BY <1>1, <1>6, <1>7, <1>9 DEF lane, e, start


-----------------------------------------------------------------------------
(* The vCPU and its instructions.                                          *)

Cpu == [x : [Gpr -> Word], sp : [0..1 -> Word], nzcv : SUBSET Flag, daif : SUBSET (0..3),
        el : 0..1, pc : Int, sys : [Settable \cup Constant -> Word]]

(* What the fields of the operations hold.                                 *)
LEMMA Fields ==
  ASSUME NEW i \in Insn
  PROVE  /\ i.op \in {"adr", "adrp"} => i.rd \in Reg /\ i.imm \in Int
         /\ i.op = "addImm" => /\ i.sub \in BOOLEAN /\ i.rd \in Reg /\ i.rn \in Reg
                               /\ i.imm \in 0..(Page - 1)
         /\ i.op = "addReg" => /\ i.sf \in BOOLEAN /\ i.sub \in BOOLEAN
                               /\ i.rd \in Reg /\ i.rn \in Reg /\ i.rm \in Reg
                               /\ i.type \in Shift /\ i.amt \in Bit
         /\ i.op = "logicReg" => /\ i.sf \in BOOLEAN /\ i.opc \in 0..3 /\ i.invert \in BOOLEAN
                                 /\ i.rd \in Reg /\ i.rn \in Reg /\ i.rm \in Reg
                                 /\ i.type \in Shift /\ i.amt \in Bit
         /\ i.op \in {"logicImm", "bitfield"} =>
              /\ i.opc \in 0..3 /\ i.n \in 0..1 /\ i.immr \in Bit /\ i.imms \in Bit
              /\ i.rd \in Reg /\ i.rn \in Reg
         /\ i.op \in {"moveWide", "extract"} =>
              /\ i.opc \in 0..3 /\ i.hw \in 0..3 /\ i.imm \in SUBSET Ones(Lane) /\ i.rd \in Reg
         /\ i.op = "ldst" => /\ i.opc \in 0..3 /\ i.size \in 1..Width
                             /\ i.rn \in Reg /\ i.rt \in Reg /\ i.imm \in Nat
         /\ i.op = "pair" => /\ i.sf \in BOOLEAN /\ i.load \in BOOLEAN /\ i.imm \in Int
                             /\ i.rn \in Reg /\ i.rt \in Reg /\ i.rt2 \in Reg
         /\ i.op = "bcond" => i.cond \in 0..15 /\ i.imm \in Int
         /\ i.op = "b" => i.link \in BOOLEAN /\ i.imm \in Int
         /\ i.op = "cbz" => /\ i.sf \in BOOLEAN /\ i.nz \in BOOLEAN /\ i.rt \in Reg
                            /\ i.imm \in Int
         /\ i.op = "tbz" => /\ i.bit \in Bit /\ i.nz \in BOOLEAN /\ i.rt \in Reg
                            /\ i.imm \in Int
         /\ i.op = "br" => i.rn \in Reg
         /\ i.op \in {"mrs", "msr"} => i.rt \in Reg
         /\ i.op # "none"
  BY DEF Insn

LEMMA Registers ==
  ASSUME NEW c \in Cpu, NEW r \in Reg
  PROVE  /\ ReadZr(c, r) \in Word /\ ReadSp(c, r) \in Word
         /\ r # ZrSp => ReadZr(c, r) = c.x[r] /\ ReadSp(c, r) = c.x[r] /\ r \in Gpr
         /\ \A w : r # ZrSp => /\ WriteZr(c, r, w) = [c EXCEPT !.x[r] = w]
                               /\ WriteSp(c, r, w) = [c EXCEPT !.x[r] = w]
                               /\ WriteX(c, r, w) = [c EXCEPT !.x[r] = w]
         /\ \A w \in Word : WriteZr(c, r, w) \in Cpu /\ WriteSp(c, r, w) \in Cpu
<1>1. {} \in Word
  BY DEF Word
<1>2. r # ZrSp => r \in Gpr
  BY DEF Reg
<1>3. c.x \in [Gpr -> Word] /\ c.sp \in [0..1 -> Word] /\ c.el \in 0..1
  BY DEF Cpu
<1>4. ReadZr(c, r) \in Word /\ ReadSp(c, r) \in Word
  BY <1>1, <1>2, <1>3 DEF ReadZr, ReadSp
<1>5. \A w : r # ZrSp => /\ WriteZr(c, r, w) = [c EXCEPT !.x[r] = w]
                         /\ WriteSp(c, r, w) = [c EXCEPT !.x[r] = w]
                         /\ WriteX(c, r, w) = [c EXCEPT !.x[r] = w]
  BY DEF WriteZr, WriteSp, WriteX
<1>6. ASSUME NEW w \in Word
      PROVE  [c EXCEPT !.sp[c.el] = w] \in Cpu
  BY <1>3 DEF Cpu
<1>7. ASSUME NEW w \in Word, r # ZrSp
      PROVE  [c EXCEPT !.x[r] = w] \in Cpu
  BY <1>2, <1>3, <1>7 DEF Cpu
<1>8. \A w \in Word : WriteZr(c, r, w) \in Cpu /\ WriteSp(c, r, w) \in Cpu
  BY <1>6, <1>7 DEF WriteZr, WriteSp
<1> QED
  BY <1>2, <1>4, <1>5, <1>8 DEF ReadZr, ReadSp

LEMMA JumpTyped ==
  ASSUME NEW c \in Cpu, NEW n \in Int
  PROVE  Jump(c, n) \in Cpu
<1>1. Wrap(n) \in Int
  BY LayoutFacts, PowersOfWidth DEF Wrap
<1> QED
  BY <1>1 DEF Jump, Cpu


-----------------------------------------------------------------------------
(* The instructions, class by class.                                       *)

Agrees(c, mem, i) ==
    Exec(c, mem, i) = Then(Arch(c, mem, i).cpu, Arch(c, mem, i).mem, "next")

LEMMA AddressesAgree ==
  ASSUME NEW c \in Cpu, NEW mem, NEW i \in Insn, i.op \in {"adr", "adrp"}, i.rd # ZrSp,
         i.op = "adr" => i.imm % 4 \in {0, 1}
  PROVE  Agrees(c, mem, i)
<1>1. i.imm \in Int /\ i.rd \in Reg /\ c.pc \in Int
  BY Fields DEF Cpu
<1>2. \A w : WriteX(c, i.rd, w) = WriteZr(c, i.rd, w)
  BY DEF WriteX, WriteZr
<1>3. CASE i.op = "adr"
  <2>1. Exec(c, mem, i) = Then(WriteX(c, i.rd, WordOf(c.pc - 4 + i.imm)), mem, "next")
    BY <1>3 DEF Exec
  <2>2. Arch(c, mem, i) = [cpu |-> WriteZr(c, i.rd, WordOf(c.pc - 4 + i.imm)), mem |-> mem]
    BY <1>3 DEF Arch
  <2> QED
    BY <1>2, <2>1, <2>2 DEF Agrees, Then
<1>4. CASE i.op = "adrp"
  <2> DEFINE q == (c.pc - 4) \div Page
  <2>1. Exec(c, mem, i) = Then(WriteX(c, i.rd, WordOf(q * Page + i.imm * Page)), mem, "next")
    BY <1>4 DEF Exec
  <2>2. Arch(c, mem, i) = [cpu |-> WriteZr(c, i.rd, WordOf((q + i.imm) * Page)), mem |-> mem]
    BY <1>4 DEF Arch
  <2>3. q \in Int /\ Page \in Int
    BY <1>1, A64Assumption
  <2> HIDE DEF q
  <2>4. (q + i.imm) * Page = q * Page + i.imm * Page
    BY <1>1, <2>3
  <2> QED
    BY <1>2, <2>1, <2>2, <2>4 DEF Agrees, Then
<1> QED
  BY <1>3, <1>4

(* An immediate of twelve bits, shifted by twelve or not, is a word.       *)
LEMMA PageFits == Page \in Nat \ {0} /\ Page <= Modulus
<1>1. Page \in Nat \ {0} /\ Modulus \in Nat /\ Page * Page <= Modulus
  BY A64Assumption, TcgAssumption
<1> DEFINE m == Modulus
           p == Page
<1>2. p \in Nat \ {0} /\ m \in Nat /\ p * p <= m
  BY <1>1
<1> HIDE DEF m, p
<1>3. p <= p * p
  BY <1>2
<1> QED
  BY <1>2, <1>3 DEF m, p

LEMMA AddImmAgrees ==
  ASSUME NEW c \in Cpu, NEW mem, NEW i \in Insn, i.op = "addImm", i.sf, ~i.tag, ~i.sh,
         Subtracts(i, WordOf(Immediate(i)))
  PROVE  Agrees(c, mem, i)
<1> DEFINE a == ReadSp(c, i.rn)
           b == WordOf(Immediate(i))
           r == ArmSum(Val[a], Val[b], i.sub, TRUE)
           out == IF i.s THEN [WriteZr(c, i.rd, r) EXCEPT
                                 !.nzcv = ArmFlags(Val[a], Val[b], i.sub, TRUE)]
                         ELSE WriteSp(c, i.rd, r)
<1>0. Immediate(i) = i.imm
  BY DEF Immediate
<1>1. /\ i.sub \in BOOLEAN /\ i.imm \in Int /\ i.imm \in 0..(Modulus - 1)
      /\ i.rd \in Reg /\ i.rn \in Reg
  <2>1. i.imm \in 0..(Page - 1)
    BY Fields
  <2> QED
    BY <2>1, Fields, LayoutFacts, PageFits
<1>2. a \in Word
  BY <1>1, Registers
<1>3. b \in Word /\ Val[b] = i.imm
  <2>1. b \in Word /\ Val[b] = i.imm % Modulus
    BY <1>0, <1>1, ValueOf
  <2>2. i.imm % Modulus = i.imm
    <3> DEFINE n == i.imm
               m == Modulus
    <3>1. n \in 0..(m - 1) /\ m \in Nat \ {0}
      BY <1>1, PowersOfWidth
    <3> HIDE DEF n, m
    <3>2. n % m = n
      BY <3>1
    <3> QED
      BY <3>2 DEF n, m
  <2> QED
    BY <2>1, <2>2
<1>4. Exec(c, mem, i) = Then(AddSub(c, i, a, b), mem, "next")
  BY DEF Exec
<1>5. Arch(c, mem, i) = [cpu |-> out, mem |-> mem]
  <2>1. Arch(c, mem, i) =
          [cpu |-> IF i.s THEN [WriteZr(c, i.rd, ArmSum(Val[a], i.imm, i.sub, TRUE)) EXCEPT
                                  !.nzcv = ArmFlags(Val[a], i.imm, i.sub, TRUE)]
                          ELSE WriteSp(c, i.rd, ArmSum(Val[a], i.imm, i.sub, TRUE)),
           mem |-> mem]
    BY DEF Arch
  <2> QED
    BY <1>3, <2>1
<1> HIDE DEF a, b
<1>b. Subtracts(i, b)
  BY DEF b
<1>6. AddSub(c, i, a, b) = out
  <2>1. AddSub(c, i, a, b) = ArmAddSub(c, i, a, b)
    BY <1>1, <1>2, <1>3, <1>b, AddSubAgrees
  <2> QED
    BY <2>1 DEF ArmAddSub
<1> HIDE DEF out
<1> QED
  BY <1>4, <1>5, <1>6 DEF Agrees, Then

LEMMA AddRegAgrees ==
  ASSUME NEW c \in Cpu, NEW mem, NEW i \in Insn, i.op = "addReg", ~i.ext, i.rd # ZrSp, i.rn # ZrSp,
         i.sf \/ (i.type = "lsl" /\ ~i.s),
         Subtracts(i, Shifted(ReadZr(c, i.rm), i.type, i.amt))
  PROVE  Agrees(c, mem, i)
<1> DEFINE a == ReadSp(c, i.rn)
           w == ReadZr(c, i.rm)
           b == Shifted(w, i.type, i.amt)
           A == Val[Narrow(ReadZr(c, i.rn), i.sf)]
           B == Val[ArmShift(w, i.type, i.amt, i.sf)]
           r == ArmSum(A, B, i.sub, i.sf)
           out == IF i.s THEN [WriteZr(c, i.rd, r) EXCEPT !.nzcv = ArmFlags(A, B, i.sub, i.sf)]
                         ELSE WriteZr(c, i.rd, r)
<1>1. /\ i.sf \in BOOLEAN /\ i.sub \in BOOLEAN /\ i.type \in Shift /\ i.amt \in Bit
      /\ i.rd \in Reg /\ i.rn \in Reg /\ i.rm \in Reg
  BY Fields
<1>2. /\ a \in Word /\ w \in Word /\ ReadZr(c, i.rn) = a
      /\ \A v : WriteSp(c, i.rd, v) = WriteZr(c, i.rd, v)
  <2>1. a \in Word /\ w \in Word
    BY <1>1, Registers
  <2>2. ReadZr(c, i.rn) = a
    BY DEF ReadZr, ReadSp
  <2>3. \A v : WriteSp(c, i.rd, v) = WriteZr(c, i.rd, v)
    BY DEF WriteZr, WriteSp
  <2> QED
    BY <2>1, <2>2, <2>3
<1>3. /\ b \in Word /\ b = ArmShift(w, i.type, i.amt, TRUE)
      /\ i.type = "lsl" => Low(b) = ArmShift(w, i.type, i.amt, FALSE)
  BY <1>1, <1>2, ShiftAgrees
<1>4. Exec(c, mem, i) = Then(AddSub(c, i, a, b), mem, "next")
  BY DEF Exec
<1>5. Arch(c, mem, i) = [cpu |-> out, mem |-> mem]
  BY DEF Arch
<1>b. Subtracts(i, b)
  OBVIOUS
<1> HIDE DEF a, w, b
<1>6. AddSub(c, i, a, b) = out
  <2>1. CASE i.sf
    <3>1. A = Val[a] /\ B = Val[b]
      BY <1>2, <1>3, <2>1 DEF Narrow
    <3>2. AddSub(c, i, a, b) = ArmAddSub(c, i, a, b)
      <4>1. i.sub \in BOOLEAN /\ i.sf /\ a \in Word /\ b \in Word
        BY <1>1, <1>2, <1>3, <2>1
      <4> QED
        BY ONLY <4>1, <1>b, AddSubAgrees
    <3>3. i.sf = TRUE
      BY <1>1, <2>1
    <3> HIDE DEF A, B
    <3> QED
      BY <1>2, <3>1, <3>2, <3>3 DEF ArmAddSub
  <2>2. CASE ~i.sf
    <3>1. ~i.s /\ i.type = "lsl" /\ i.sf = FALSE
      BY <1>1, <2>2
    <3>2. A = Val[Low(a)] /\ B = Val[Low(b)]
      BY <1>2, <1>3, <3>1 DEF Narrow
    <3>3. AddSub(c, i, a, b) =
            WriteSp(c, i.rd, Low(WordOf(IF i.sub THEN Val[a] - Val[b] ELSE Val[a] + Val[b])))
      BY <2>2, <3>1 DEF AddSub
    <3>4. Low(WordOf(IF i.sub THEN Val[a] - Val[b] ELSE Val[a] + Val[b]))
            = ArmSum(Val[Low(a)], Val[Low(b)], i.sub, FALSE)
      BY <1>1, <1>2, <1>3, HalfSumAgrees
    <3> HIDE DEF A, B
    <3>5. r = ArmSum(Val[Low(a)], Val[Low(b)], i.sub, FALSE)
      BY <3>1, <3>2
    <3>6. out = WriteSp(c, i.rd, r)
      BY <1>2, <3>1
    <3> QED
      BY <3>3, <3>4, <3>5, <3>6
  <2> QED
    BY <2>1, <2>2
<1> HIDE DEF out
<1> QED
  BY <1>4, <1>5, <1>6 DEF Agrees, Then


LEMMA LogicRegAgrees ==
  ASSUME NEW c \in Cpu, NEW mem, NEW i \in Insn, i.op = "logicReg", i.rd # ZrSp, i.opc # 3,
         i.sf \/ i.type = "lsl"
  PROVE  Agrees(c, mem, i)
<1> DEFINE a == ReadZr(c, i.rn)
           w == ReadZr(c, i.rm)
           b == Shifted(w, i.type, i.amt)
           b1 == IF i.invert THEN Bit \ b ELSE b
           d == ArmShift(w, i.type, i.amt, i.sf)
           d1 == IF i.invert THEN Bit \ d ELSE d
           r == Combine(i.opc, a, b1)
           out == IF i.sf THEN r ELSE Low(r)
           arch == Narrow(ArmLogic(i.opc, a, d1), i.sf)
<1>1. /\ i.sf \in BOOLEAN /\ i.invert \in BOOLEAN /\ i.type \in Shift /\ i.amt \in Bit
      /\ i.opc \in 0..3 /\ i.rd \in Reg /\ i.rn \in Reg /\ i.rm \in Reg
  BY Fields
<1>2. a \in Word /\ w \in Word
  BY <1>1, Registers
<1>3. /\ b \in Word /\ b = ArmShift(w, i.type, i.amt, TRUE)
      /\ i.type = "lsl" => Low(b) = ArmShift(w, i.type, i.amt, FALSE)
  BY <1>1, <1>2, ShiftAgrees
<1>4. Exec(c, mem, i) = Then(LogicResult(c, i, out), mem, "next")
  BY DEF Exec
<1>5. Arch(c, mem, i) = [cpu |-> WriteZr(c, i.rd, arch), mem |-> mem]
  BY DEF Arch
<1>6. LogicResult(c, i, out) = WriteZr(c, i.rd, out)
  BY DEF LogicResult, WriteSp, WriteZr
<1> HIDE DEF a, w, b, d
<1>7. out = arch
  <2>1. CASE i.sf
    <3>1. d = b /\ i.sf = TRUE
      BY <1>1, <1>3, <2>1 DEF d
    <3>2. b1 \in Word
      BY <1>3 DEF Word
    <3>3. r = ArmLogic(i.opc, a, b1)
      BY <1>1, <1>2, <3>2, LogicAgrees
    <3> QED
      BY <3>1, <3>3 DEF Narrow
  <2>2. CASE ~i.sf
    <3>1. d = Low(b) /\ i.sf = FALSE
      BY <1>1, <1>3, <2>2 DEF d
    <3>2. b1 \in Word /\ d1 \in Word
      BY <1>3, <3>1 DEF Word, Low
    <3>3. r = ArmLogic(i.opc, a, b1)
      BY <1>1, <1>2, <3>2, LogicAgrees
    <3>4. \A k \in Bit : k < Width \div 2 => (k \in b1 <=> k \in d1)
      BY <3>1 DEF Low
    <3> HIDE DEF b1, d1
    <3>5. \A k \in Bit : k < Width \div 2 =>
                           (k \in ArmLogic(i.opc, a, b1) <=> k \in ArmLogic(i.opc, a, d1))
      <4> DEFINE H(k, v) == \/ i.opc \in {0, 3} /\ k \in a /\ k \in v
                            \/ i.opc = 1 /\ (k \in a \/ k \in v)
                            \/ i.opc = 2 /\ ((k \in a) # (k \in v))
      <4>1. ArmLogic(i.opc, a, b1) = {k \in Bit : H(k, b1)}
            /\ ArmLogic(i.opc, a, d1) = {k \in Bit : H(k, d1)}
        BY DEF ArmLogic
      <4>2. \A k \in Bit : k < Width \div 2 => (H(k, b1) <=> H(k, d1))
        BY <3>4
      <4> HIDE DEF H
      <4> QED
        BY <4>1, <4>2
    <3>6. ArmLogic(i.opc, a, b1) \subseteq Bit /\ ArmLogic(i.opc, a, d1) \subseteq Bit
      BY DEF ArmLogic
    <3>7. Low(ArmLogic(i.opc, a, b1)) = Low(ArmLogic(i.opc, a, d1))
      BY <3>5, <3>6 DEF Low
    <3> QED
      BY <3>1, <3>3, <3>7 DEF Narrow
  <2> QED
    BY <2>1, <2>2
<1> HIDE DEF out, arch
<1> QED
  BY <1>4, <1>5, <1>6, <1>7 DEF Agrees, Then

LEMMA LogicImmAgrees ==
  ASSUME NEW c \in Cpu, NEW mem, NEW i \in Insn, i.op = "logicImm",
         ArmMaskAllocated(i.n, i.imms), i.opc # 3, i.immr < Width \div 2
  PROVE  Agrees(c, mem, i)
<1> DEFINE a == ReadZr(c, i.rn)
           mask == LogicalImm(i.n, i.immr, i.imms)
           arch == ArmMask(i.n, i.immr, i.imms)
<1>1. /\ i.opc \in 0..3 /\ i.n \in 0..1 /\ i.immr \in Bit /\ i.imms \in Bit
      /\ i.rd \in Reg /\ i.rn \in Reg
  BY Fields
<1>2. a \in Word
  BY <1>1, Registers
<1>3. LogicalImmValid(i.n, i.imms) /\ mask = arch
  BY <1>1, MasksAgree
<1>4. arch \in Word
  BY DEF ArmMask, Word
<1>5. ~(i.immr >= Width \div 2)
  <2> DEFINE h == Width \div 2
  <2>1. h \in Int /\ i.immr \in Int /\ i.immr < h
    BY <1>1, Widths DEF Bit
  <2> HIDE DEF h
  <2>2. ~(i.immr >= h)
    BY <2>1
  <2> QED
    BY <2>2 DEF h
<1>6. Exec(c, mem, i) = Then(LogicResult(c, i, Combine(i.opc, a, mask)), mem, "next")
  <2>1. Exec(c, mem, i) = LogicalOrBitfield(c, mem, i)
    BY DEF Exec
  <2> QED
    BY <1>3, <1>5, <2>1 DEF LogicalOrBitfield
<1>7. Arch(c, mem, i) = [cpu |-> WriteSp(c, i.rd, ArmLogic(i.opc, a, arch)), mem |-> mem]
  BY DEF Arch
<1> HIDE DEF a, mask, arch
<1>8. LogicResult(c, i, Combine(i.opc, a, mask)) = WriteSp(c, i.rd, Combine(i.opc, a, mask))
  BY DEF LogicResult
<1>9. Combine(i.opc, a, mask) = ArmLogic(i.opc, a, arch)
  BY <1>1, <1>2, <1>3, <1>4, LogicAgrees
<1> QED
  BY <1>6, <1>7, <1>8, <1>9 DEF Agrees, Then

LEMMA MoveWideAgrees ==
  ASSUME NEW c \in Cpu, NEW mem, NEW i \in Insn, i.op = "moveWide", i.rd # ZrSp, i.opc # 1
  PROVE  Agrees(c, mem, i)
<1> DEFINE lane == {k \in Bit : k \div Lane = i.hw}
           imm == {k \in lane : k % Lane \in i.imm}
           w == CASE i.opc = 0 -> Bit \ imm
                  [] i.opc = 2 -> imm
                  [] i.opc = 3 -> (ReadZr(c, i.rd) \ lane) \cup imm
<1>1. i.opc \in 0..3 /\ i.hw \in 0..3 /\ i.imm \in SUBSET Ones(Lane) /\ i.rd \in Reg
  BY Fields
<1>2. i.opc \in {0, 2, 3}
  BY <1>1
<1>3. Shl(Ones(Lane), Lane * i.hw) = lane /\ Shl(i.imm, Lane * i.hw) = imm
  BY <1>1, LanesAgree
<1>4. Arch(c, mem, i) = [cpu |-> WriteZr(c, i.rd, w), mem |-> mem]
  BY DEF Arch
<1> HIDE DEF lane, imm
<1>5. Exec(c, mem, i) = MoveWide(c, mem, i)
  BY DEF Exec
<1>6. ReadSp(c, i.rd) = ReadZr(c, i.rd) /\ \A v : WriteSp(c, i.rd, v) = WriteZr(c, i.rd, v)
  BY DEF ReadSp, ReadZr, WriteSp, WriteZr
<1>7. MoveWide(c, mem, i) = Then(WriteZr(c, i.rd, w), mem, "next")
  BY <1>2, <1>3, <1>6 DEF MoveWide
<1> HIDE DEF w
<1> QED
  BY <1>4, <1>5, <1>7 DEF Agrees, Then


(* An address in RAM is neither wrapped nor translated.                    *)
LEMMA RamAddresses ==
  ASSUME NEW c \in Cpu, NEW addr \in Int, NEW size \in Nat \ {0}, InRam(addr, size)
  PROVE  Wrap(addr) = addr /\ Phys(c, addr) = addr /\ ~IsMmio(addr, size)
<1>1. addr >= RamBase /\ addr + size <= RamBase + RamSize
  BY DEF InRam
<1>2. addr < KernelSpace /\ addr \in 0..(Modulus - 1) /\ addr + size \in 0..(Modulus - 1)
      /\ Modulus \in Nat \ {0}
  BY <1>1, LayoutFacts
<1>3. \A n \in 0..(Modulus - 1) : Wrap(n) = n
  <2> DEFINE m == Modulus
  <2>1. m \in Nat \ {0}
    BY <1>2
  <2> HIDE DEF m
  <2>2. \A n \in 0..(m - 1) : n % m = n
    BY <2>1
  <2> QED
    BY <2>2 DEF m, Wrap
<1>4. Phys(c, addr) = addr
  <2>1. ~(addr >= KernelSpace)
    BY <1>2, LayoutFacts
  <2>2. TranslateIdentity(addr) = addr
    BY <2>1 DEF TranslateIdentity
  <2> QED
    BY <2>2 DEF Phys
<1>5. ~IsMmio(addr, size)
  BY <1>1, <1>2, <1>3, LayoutFacts DEF IsMmio
<1> QED
  BY <1>2, <1>3, <1>4, <1>5

LEMMA LoadStoreAgrees ==
  ASSUME NEW c \in Cpu, NEW mem, NEW i \in Insn, i.op = "ldst", i.opc \in 0..1,
         InRam(Val[ReadSp(c, i.rn)] + i.imm * i.size, i.size)
  PROVE  Agrees(c, mem, i)
<1> DEFINE base == Val[ReadSp(c, i.rn)]
           addr == base + i.imm * i.size
<1>1. i.size \in Nat \ {0} /\ i.imm \in Nat /\ i.rn \in Reg /\ i.rt \in Reg
  <2>1. i.size \in 1..Width /\ i.imm \in Nat /\ i.rn \in Reg /\ i.rt \in Reg
    BY Fields
  <2> QED
    BY <2>1, Widths
<1>2. base \in Int
  <2>1. ReadSp(c, i.rn) \in Word
    BY <1>1, Registers
  <2> QED
    BY <2>1, Values, PowersOfWidth
<1>3. addr \in Int
  <2> HIDE DEF base
  <2> QED
    BY <1>1, <1>2
<1>4. InRam(addr, i.size)
  OBVIOUS
<1>5. Arch(c, mem, i) =
        IF i.opc = 1 THEN [cpu |-> WriteZr(c, i.rt, Bytes(mem, addr, i.size)), mem |-> mem]
        ELSE [cpu |-> c, mem |-> Stored(mem, addr, i.size, ReadZr(c, i.rt))]
  BY DEF Arch
<1>a. Exec(c, mem, i) = LoadStore(c, mem, i)
  BY DEF Exec
<1> DEFINE phys == Phys(c, Wrap(addr))
<1>6. LoadStore(c, mem, i) =
        CASE IsMmio(phys, i.size) -> Then(c, mem, IF i.opc \in {1, 3} THEN "read" ELSE "write")
          [] ~InRam(phys, i.size) -> Then(c, mem, "wild")
          [] i.opc \in {1, 3} -> Then(WriteZr(c, i.rt, Bytes(mem, phys, i.size)), mem, "next")
          [] OTHER -> Then(c, Stored(mem, phys, i.size, ReadZr(c, i.rt)), "next")
  BY DEF LoadStore
<1> HIDE DEF addr, phys
<1>7. phys = addr /\ ~IsMmio(addr, i.size)
  BY <1>1, <1>3, <1>4, RamAddresses DEF phys
<1>8. i.opc = 0 \/ i.opc = 1
  OBVIOUS
<1>9. LoadStore(c, mem, i) =
        IF i.opc = 1 THEN Then(WriteZr(c, i.rt, Bytes(mem, addr, i.size)), mem, "next")
                     ELSE Then(c, Stored(mem, addr, i.size, ReadZr(c, i.rt)), "next")
  BY <1>4, <1>6, <1>7, <1>8
<1> QED
  BY <1>5, <1>a, <1>9 DEF Agrees, Then

LEMMA PairAgrees ==
  ASSUME NEW c \in Cpu, NEW mem, NEW i \in Insn, i.op = "pair", i.rt # ZrSp, i.rt2 # ZrSp,
         InRam(Val[ReadSp(c, i.rn)] + i.imm * Digits(i.sf), 2 * Digits(i.sf))
  PROVE  Agrees(c, mem, i)
<1> DEFINE e == Digits(i.sf)
           base == Val[ReadSp(c, i.rn)]
           addr == base + i.imm * e
<1>1. i.sf \in BOOLEAN /\ i.load \in BOOLEAN /\ i.imm \in Int /\ i.rn \in Reg
  BY Fields
<1>2. base \in Int
  <2>1. ReadSp(c, i.rn) \in Word
    BY <1>1, Registers
  <2> QED
    BY <2>1, Values, PowersOfWidth
<1>3. e \in Nat \ {0} /\ 2 * e \in Nat \ {0}
  <2>1. e = Width \/ e = Width \div 2
    BY DEF Digits
  <2>2. e \in Nat \ {0}
    <3> HIDE DEF e
    <3> QED
      BY <2>1, Widths
  <2> HIDE DEF e
  <2> QED
    BY <2>2
<1>4. addr \in Int
  <2> HIDE DEF base, e
  <2> QED
    BY <1>1, <1>2, <1>3
<1>5. InRam(addr, 2 * e)
  OBVIOUS
<1>6. Arch(c, mem, i) =
        IF i.load THEN [cpu |-> WriteZr(WriteZr(c, i.rt, Bytes(mem, addr, e)),
                                        i.rt2, Bytes(mem, addr + e, e)), mem |-> mem]
        ELSE [cpu |-> c, mem |-> Stored(Stored(mem, addr, e, ReadZr(c, i.rt)),
                                        addr + e, e, ReadZr(c, i.rt2))]
  BY DEF Arch
<1>7. Exec(c, mem, i) = LoadStorePair(c, mem, i)
  BY DEF Exec
<1> DEFINE wrapped == Wrap(addr)
<1>8. LoadStorePair(c, mem, i) =
        CASE i.load /\ wrapped >= PairLow /\ wrapped < PairHigh -> Then(c, mem, "pairRead")
          [] ~InRam(wrapped, 2 * e) -> Then(c, mem, "wild")
          [] i.load -> Then(WriteSp(WriteSp(c, i.rt, Bytes(mem, wrapped, e)),
                                    i.rt2, Bytes(mem, wrapped + e, e)), mem, "next")
          [] OTHER -> Then(c, Stored(Stored(mem, wrapped, e, ReadZr(c, i.rt)),
                                     wrapped + e, e, ReadZr(c, i.rt2)), "next")
  BY DEF LoadStorePair
<1>9. wrapped = addr
  <2> HIDE DEF addr, e
  <2> QED
    BY <1>3, <1>4, <1>5, RamAddresses
<1>10. ~(addr < PairHigh)
  <2>1. addr >= RamBase /\ PairHigh \in Nat /\ PairHigh <= RamBase /\ RamBase \in Nat
    BY <1>5, TcgAssumption DEF InRam
  <2> HIDE DEF addr
  <2> QED
    BY <1>4, <2>1
<1>11. \A d, w : /\ WriteSp(d, i.rt, w) = WriteZr(d, i.rt, w)
                 /\ WriteSp(d, i.rt2, w) = WriteZr(d, i.rt2, w)
  BY DEF WriteSp, WriteZr
<1> HIDE DEF addr, e, wrapped
<1>12. LoadStorePair(c, mem, i) =
         IF i.load THEN Then(WriteZr(WriteZr(c, i.rt, Bytes(mem, addr, e)),
                                     i.rt2, Bytes(mem, addr + e, e)), mem, "next")
         ELSE Then(c, Stored(Stored(mem, addr, e, ReadZr(c, i.rt)),
                             addr + e, e, ReadZr(c, i.rt2)), "next")
  BY <1>1, <1>5, <1>8, <1>9, <1>10, <1>11
<1> QED
  BY <1>6, <1>7, <1>12 DEF Agrees, Then

(* Branches jump where, and if, the architecture says so.                  *)
LEMMA BranchAgrees ==
  ASSUME NEW c \in Cpu, NEW mem, NEW i \in Insn, i.op \in {"b", "bcond", "cbz", "tbz", "br", "nop"},
         i.op = "bcond" => i.cond \div 2 = 7
  PROVE  Agrees(c, mem, i)
<1> DEFINE target == Target(c, i)
<1>1. target = c.pc - 4 + 4 * i.imm
  BY DEF Target
<1> HIDE DEF target
<1>2. CASE i.op = "b"
  <2>1. Exec(c, mem, i) = Then(Jump(IF i.link THEN Linked(c) ELSE c, target), mem, "next")
    BY <1>2 DEF Exec, target
  <2>2. Arch(c, mem, i) = [cpu |-> Jump(IF i.link THEN Linked(c) ELSE c, target), mem |-> mem]
    BY <1>1, <1>2 DEF Arch, Linked
  <2> QED
    BY <2>1, <2>2 DEF Agrees, Then
<1>3. CASE i.op = "bcond"
  <2>1. Taken(c, i.cond)
    <3> DEFINE k == i.cond \div 2
    <3>1. k = 7
      BY <1>3
    <3> HIDE DEF k
    <3>2. k # 0 /\ k # 1 /\ k # 2 /\ k # 3 /\ k # 4 /\ k # 5 /\ k # 6
      BY <3>1
    <3> QED
      BY <3>1, <3>2, Zenon DEF Taken, k
  <2>2. Exec(c, mem, i) = Then(Jump(c, target), mem, "next")
    BY <1>3, <2>1 DEF Exec, CondBranch, target
  <2>3. Arch(c, mem, i) = [cpu |-> Jump(c, target), mem |-> mem]
    BY <1>1, <1>3 DEF Arch
  <2> QED
    BY <2>2, <2>3 DEF Agrees, Then
<1>4. CASE i.op = "cbz"
  <2> DEFINE w == Narrow(ReadZr(c, i.rt), i.sf)
  <2>1. Exec(c, mem, i) = Then(IF (w # {}) = i.nz THEN Jump(c, target) ELSE c, mem, "next")
    BY <1>4 DEF Exec, CompareBranch, Narrow, target
  <2>2. Arch(c, mem, i) = [cpu |-> IF (w = {}) # i.nz THEN Jump(c, target) ELSE c, mem |-> mem]
    BY <1>1, <1>4 DEF Arch
  <2> HIDE DEF w
  <2>3. i.nz \in BOOLEAN
    BY <1>4, Fields
  <2>4. ((w # {}) = i.nz) <=> ((w = {}) # i.nz)
    BY <2>3
  <2> QED
    BY <2>1, <2>2, <2>4 DEF Agrees, Then
<1>5. CASE i.op = "tbz"
  <2>1. Exec(c, mem, i) =
          Then(IF (i.bit \in ReadZr(c, i.rt)) = i.nz THEN Jump(c, target) ELSE c, mem, "next")
    BY <1>5 DEF Exec, TestBranch, target
  <2>2. Arch(c, mem, i) =
          [cpu |-> IF (i.bit \in ReadZr(c, i.rt)) = i.nz THEN Jump(c, target) ELSE c, mem |-> mem]
    BY <1>1, <1>5 DEF Arch
  <2> QED
    BY <2>1, <2>2 DEF Agrees, Then
<1>6. CASE i.op = "br"
  <2>1. Exec(c, mem, i) =
          Then(Jump(IF i.kind = "blr" THEN Linked(c) ELSE c, Val[ReadZr(c, i.rn)]), mem, "next")
    BY <1>6 DEF Exec, RegBranch
  <2>2. Arch(c, mem, i) =
          [cpu |-> Jump(IF i.kind = "blr" THEN Linked(c) ELSE c, Val[ReadZr(c, i.rn)]),
           mem |-> mem]
    BY <1>6 DEF Arch, Linked
  <2> QED
    BY <2>1, <2>2 DEF Agrees, Then
<1>7. CASE i.op = "nop"
  BY <1>7 DEF Exec, Arch, Agrees, Then
<1> QED
  BY <1>2, <1>3, <1>4, <1>5, <1>6, <1>7


(* The forms Faithful names are executed as the architecture says.         *)
LEMMA FaithfulAgrees ==
  ASSUME NEW c \in Cpu, NEW d \in Cpu, d = [c EXCEPT !.pc = Wrap(@ + 4)],
         NEW mem, NEW i \in Insn, Faithful(c, i)
  PROVE  Agrees(d, mem, i)
<1>1. d.x = c.x /\ d.sp = c.sp /\ d.el = c.el
  BY DEF Cpu
<1>2. \A r : ReadZr(d, r) = ReadZr(c, r) /\ ReadSp(d, r) = ReadSp(c, r)
  BY <1>1 DEF ReadZr, ReadSp
<1> DEFINE subtrahend == IF i.op = "addImm" THEN WordOf(Immediate(i))
                         ELSE Shifted(ReadZr(d, i.rm), i.type, i.amt)
           address == Val[ReadSp(d, i.rn)]
<1>3. \/ i.op \in {"cbz", "tbz", "b", "br", "nop"}
      \/ i.op = "adrp" /\ i.rd # ZrSp
      \/ i.op = "adr" /\ i.rd # ZrSp /\ i.imm % 4 \in {0, 1}
      \/ i.op = "addImm" /\ i.sf /\ ~i.tag /\ ~i.sh /\ (i.s /\ i.sub => subtrahend \notin {{}, {Width - 1}})
      \/ i.op = "addReg" /\ ~i.ext /\ i.rn # ZrSp /\ i.rd # ZrSp
            /\ (i.sf \/ (i.type = "lsl" /\ ~i.s))
            /\ (i.s /\ i.sub => subtrahend \notin {{}, {Width - 1}})
      \/ i.op = "logicReg" /\ i.rd # ZrSp /\ i.opc # 3 /\ (i.sf \/ i.type = "lsl")
      \/ i.op = "logicImm" /\ ArmMaskAllocated(i.n, i.imms)
            /\ i.opc # 3 /\ i.immr < Width \div 2
      \/ i.op = "moveWide" /\ i.rd # ZrSp /\ i.opc # 1
      \/ i.op = "bcond" /\ i.cond \div 2 = 7
      \/ i.op = "ldst" /\ i.opc \in 0..1 /\ InRam(address + i.imm * i.size, i.size)
      \/ i.op = "pair" /\ i.rt # ZrSp /\ i.rt2 # ZrSp
            /\ InRam(address + i.imm * Digits(i.sf), 2 * Digits(i.sf))
  <2> HIDE DEF subtrahend
  <2>1. subtrahend = IF i.op = "addImm" THEN WordOf(Immediate(i))
                     ELSE Shifted(ReadZr(c, i.rm), i.type, i.amt)
    BY <1>2 DEF subtrahend
  <2>2. address = Val[ReadSp(c, i.rn)]
    BY <1>2
  <2> HIDE DEF address
  <2> QED
    BY <2>1, <2>2 DEF Faithful
<1>4. CASE i.op \in {"cbz", "tbz", "b", "br", "nop"} \/ (i.op = "bcond" /\ i.cond \div 2 = 7)
  <2>1. i.op = "bcond" => i.cond \div 2 = 7
    BY <1>4
  <2> QED
    BY <1>4, <2>1, BranchAgrees
<1>5. CASE i.op \in {"adr", "adrp"} /\ i.rd # ZrSp /\ (i.op = "adr" => i.imm % 4 \in {0, 1})
  BY <1>5, AddressesAgree
<1>6. CASE i.op = "addImm" /\ i.sf /\ ~i.tag /\ ~i.sh /\ (i.s /\ i.sub => subtrahend \notin {{}, {Width - 1}})
  <2>1. Subtracts(i, WordOf(Immediate(i)))
    BY <1>6 DEF Subtracts
  <2> QED
    BY <1>6, <2>1, AddImmAgrees
<1>7. CASE i.op = "addReg" /\ ~i.ext /\ i.rn # ZrSp /\ i.rd # ZrSp
           /\ (i.sf \/ (i.type = "lsl" /\ ~i.s))
           /\ (i.s /\ i.sub => subtrahend \notin {{}, {Width - 1}})
  <2>1. Subtracts(i, Shifted(ReadZr(d, i.rm), i.type, i.amt))
    BY <1>7 DEF Subtracts
  <2> QED
    BY <1>7, <2>1, AddRegAgrees
<1>8. CASE i.op = "logicReg" /\ i.rd # ZrSp /\ i.opc # 3 /\ (i.sf \/ i.type = "lsl")
  BY <1>8, LogicRegAgrees
<1>9. CASE i.op = "logicImm" /\ ArmMaskAllocated(i.n, i.imms)
           /\ i.opc # 3 /\ i.immr < Width \div 2
  BY <1>9, LogicImmAgrees
<1>10. CASE i.op = "moveWide" /\ i.rd # ZrSp /\ i.opc # 1
  BY <1>10, MoveWideAgrees
<1>11. CASE i.op = "ldst" /\ i.opc \in 0..1 /\ InRam(address + i.imm * i.size, i.size)
  BY <1>11, LoadStoreAgrees
<1>12. CASE i.op = "pair" /\ i.rt # ZrSp /\ i.rt2 # ZrSp
            /\ InRam(address + i.imm * Digits(i.sf), 2 * Digits(i.sf))
  BY <1>12, PairAgrees
<1> HIDE DEF subtrahend, address
<1> QED
  BY <1>3, <1>4, <1>5, <1>6, <1>7, <1>8, <1>9, <1>10, <1>11, <1>12

-----------------------------------------------------------------------------
(* Every instruction leaves a vCPU.                                        *)

LEMMA AddSubTyped ==
  ASSUME NEW c \in Cpu, NEW i, i.rd \in Reg, NEW a \in Word, NEW b \in Word
  PROVE  AddSub(c, i, a, b) \in Cpu
<1> DEFINE n == IF i.sub THEN Val[a] - Val[b] ELSE Val[a] + Val[b]
           r == WordOf(n)
           b1 == IF i.sub THEN WordOf(-Val[b]) ELSE b
           flags == {f \in Flag : \/ f = "N" /\ Width - 1 \in r
                                  \/ f = "Z" /\ r = {}
                                  \/ f = "C" /\ Val[r] < Val[a]
                                  \/ f = "V" /\ Width - 1 \in Xor(a, r) \cap Xor(b1, r)}
           out == IF i.sf THEN r ELSE Low(r)
<1>1. n \in Int
  BY Values, PowersOfWidth
<1> HIDE DEF n
<1>2. r \in Word /\ Low(r) \in Word
  BY <1>1, ValueOf, LowHalf
<1>3. flags \in SUBSET Flag
  OBVIOUS
<1> HIDE DEF r, flags
<1>4. out \in Word
  BY <1>2
<1> HIDE DEF out
<1>5. WriteZr(c, i.rd, out) \in Cpu /\ WriteSp(c, i.rd, out) \in Cpu
  BY <1>4, Registers
<1>6. AddSub(c, i, a, b) = IF i.s THEN [WriteZr(c, i.rd, out) EXCEPT !.nzcv = flags]
                                  ELSE WriteSp(c, i.rd, out)
  BY DEF AddSub, n, r, flags, out
<1>7. [WriteZr(c, i.rd, out) EXCEPT !.nzcv = flags] \in Cpu
  BY <1>3, <1>5 DEF Cpu
<1> QED
  BY <1>5, <1>6, <1>7

LEMMA LogicTyped ==
  ASSUME NEW c \in Cpu, NEW i, i.rd \in Reg, NEW w \in Word
  PROVE  LogicResult(c, i, w) \in Cpu
<1> DEFINE nz == (WriteZr(c, i.rd, w).nzcv \cap {"C", "V"})
                   \cup (IF Width - 1 \in w THEN {"N"} ELSE {}) \cup (IF w = {} THEN {"Z"} ELSE {})
<1>1. WriteZr(c, i.rd, w) \in Cpu /\ WriteSp(c, i.rd, w) \in Cpu
  BY Registers
<1>2. nz \in SUBSET Flag
  BY DEF Flag
<1>3. SetNz(WriteZr(c, i.rd, w), w) = [WriteZr(c, i.rd, w) EXCEPT !.nzcv = nz]
  BY DEF SetNz
<1> HIDE DEF nz
<1>4. [WriteZr(c, i.rd, w) EXCEPT !.nzcv = nz] \in Cpu
  BY <1>1, <1>2 DEF Cpu
<1> QED
  BY <1>1, <1>3, <1>4 DEF LogicResult

LEMMA BitfieldTyped ==
  ASSUME NEW c \in Cpu, NEW i \in Insn, i.op \in {"logicImm", "bitfield"}
  PROVE  Bitfield(c, i) \in Cpu
<1> DEFINE src == ReadZr(c, i.rn)
           immr == i.immr % (Width \div 2)
           field == Shr(src, immr) \cap FieldMask(i.imms)
           w == CASE i.opc = 2 /\ immr = 0 /\ i.imms = Width - 1 -> src
                  [] i.opc = 0 -> field \cup (IF i.imms \in field
                                              THEN Bit \ FieldMask(i.imms) ELSE {})
                  [] i.opc = 1 -> (ReadZr(c, i.rd) \ FieldMask(i.imms)) \cup field
                  [] OTHER -> field
<1>1. i.opc \in 0..3 /\ i.immr \in Bit /\ i.imms \in Bit /\ i.rd \in Reg /\ i.rn \in Reg
  BY Fields
<1>2. src \in Word /\ ReadZr(c, i.rd) \in Word
  BY <1>1, Registers
<1>3. FieldMask(i.imms) \subseteq Bit
  BY <1>1, Widths DEF FieldMask, Ones, Bit
<1>4. Bitfield(c, i) = WriteZr(c, i.rd, w)
  BY DEF Bitfield
<1> HIDE DEF src, immr
<1>5. field \subseteq Bit
  BY <1>3
<1> HIDE DEF field
<1>6. w \in Word
  BY <1>2, <1>3, <1>5 DEF Word
<1> HIDE DEF w
<1>7. WriteZr(c, i.rd, w) \in Cpu
  BY <1>1, <1>6, Registers
<1> QED
  BY <1>4, <1>7


LEMMA ExecTyped ==
  ASSUME NEW c \in Cpu, NEW mem, NEW i \in Insn
  PROVE  Exec(c, mem, i).cpu \in Cpu
<1> DEFINE Typed == Exec(c, mem, i).cpu \in Cpu
<1>f. /\ c.x \in [Gpr -> Word] /\ c.sp \in [0..1 -> Word] /\ c.nzcv \in SUBSET Flag
      /\ c.daif \in SUBSET (0..3) /\ c.el \in 0..1 /\ c.pc \in Int
      /\ c.sys \in [Settable \cup Constant -> Word]
  BY DEF Cpu
<1>1. CASE i.op \in {"adr", "adrp"}
  <2>1. i.imm \in Int /\ i.rd \in Reg
    BY <1>1, Fields
  <2>2. ASSUME NEW w \in Word
        PROVE  WriteX(c, i.rd, w) \in Cpu
    <3>1. Val[w] \in Int
      BY Values, PowersOfWidth
    <3>2. [c EXCEPT !.pc = Val[w]] \in Cpu
      BY <3>1 DEF Cpu
    <3>3. CASE i.rd = ZrSp
      BY <3>2, <3>3 DEF WriteX
    <3>4. CASE i.rd # ZrSp
      <4>1. WriteX(c, i.rd, w) = WriteZr(c, i.rd, w)
        BY <3>4 DEF WriteX, WriteZr
      <4>2. WriteZr(c, i.rd, w) \in Cpu
        BY <2>1, Registers
      <4> QED
        BY <4>1, <4>2
    <3> QED
      BY <3>3, <3>4
  <2> DEFINE p == (c.pc - 4) \div Page
             u == WordOf(c.pc - 4 + i.imm)
             v == WordOf(p * Page + i.imm * Page)
  <2>3. u \in Word /\ v \in Word
    <3>1. Page \in Int /\ p \in Int
      BY <1>f, A64Assumption
    <3> HIDE DEF p
    <3>2. c.pc - 4 + i.imm \in Int /\ p * Page + i.imm * Page \in Int
      BY <1>f, <2>1, <3>1
    <3> QED
      BY <3>2, ValueOf
  <2>4. CASE i.op = "adr"
    <3>1. Exec(c, mem, i) = IF i.imm % 4 \in {0, 1} THEN Then(WriteX(c, i.rd, u), mem, "next")
                            ELSE Unimplemented(c, mem)
      BY <2>4 DEF Exec
    <3> HIDE DEF u
    <3> QED
      BY <2>2, <2>3, <3>1 DEF Then, Unimplemented
  <2>5. CASE i.op = "adrp"
    <3>1. Exec(c, mem, i) = Then(WriteX(c, i.rd, v), mem, "next")
      BY <2>5 DEF Exec
    <3> HIDE DEF v
    <3> QED
      BY <2>2, <2>3, <3>1 DEF Then
  <2> QED
    BY <1>1, <2>4, <2>5
<1>2. CASE i.op = "addImm"
  <2> DEFINE a == ReadSp(c, i.rn)
             b == WordOf(Immediate(i))
  <2>1. a \in Word /\ b \in Word /\ i.rd \in Reg
    <3>1. i.rn \in Reg /\ i.rd \in Reg /\ i.imm \in 0..(Page - 1)
      BY <1>2, Fields
    <3>2. Immediate(i) \in Int
      BY <3>1, PageFits DEF Immediate
    <3> QED
      BY <3>1, <3>2, Registers, ValueOf
  <2>2. Exec(c, mem, i) = IF i.sf THEN Then(AddSub(c, i, a, b), mem, "next")
                          ELSE Unimplemented(c, mem)
    BY <1>2 DEF Exec
  <2> HIDE DEF a, b
  <2>3. AddSub(c, i, a, b) \in Cpu
    BY <2>1, AddSubTyped
  <2> QED
    BY <2>2, <2>3 DEF Then, Unimplemented
<1>3. CASE i.op = "addReg"
  <2> DEFINE a == ReadSp(c, i.rn)
             b == Shifted(ReadZr(c, i.rm), i.type, i.amt)
  <2>1. a \in Word /\ b \in Word /\ i.rd \in Reg
    <3>1. i.rn \in Reg /\ i.rd \in Reg /\ i.rm \in Reg /\ i.type \in Shift /\ i.amt \in Bit
      BY <1>3, Fields
    <3>2. a \in Word /\ ReadZr(c, i.rm) \in Word
      BY <3>1, Registers
    <3> QED
      BY <3>1, <3>2, ShiftAgrees
  <2>2. Exec(c, mem, i) = Then(AddSub(c, i, a, b), mem, "next")
    BY <1>3 DEF Exec
  <2> HIDE DEF a, b
  <2>3. AddSub(c, i, a, b) \in Cpu
    BY <2>1, AddSubTyped
  <2> QED
    BY <2>2, <2>3 DEF Then
<1>4. CASE i.op = "logicReg"
  <2> DEFINE b == Shifted(ReadZr(c, i.rm), i.type, i.amt)
             a == ReadZr(c, i.rn)
             b1 == IF i.invert THEN Bit \ b ELSE b
             r == Combine(i.opc, a, b1)
             out == IF i.sf THEN r ELSE Low(r)
  <2>1. /\ i.opc \in 0..3 /\ i.rd \in Reg /\ i.rn \in Reg /\ i.rm \in Reg
        /\ i.type \in Shift /\ i.amt \in Bit
    BY <1>4, Fields
  <2>2. a \in Word /\ b \in Word
    <3>1. a \in Word /\ ReadZr(c, i.rm) \in Word
      BY <2>1, Registers
    <3> QED
      BY <2>1, <3>1, ShiftAgrees
  <2>3. Exec(c, mem, i) = Then(LogicResult(c, i, out), mem, "next")
    BY <1>4 DEF Exec
  <2> HIDE DEF a, b
  <2>4. b1 \in Word
    BY <2>2 DEF Word
  <2> HIDE DEF b1
  <2>5. r \in Word
    BY <2>1, <2>2, <2>4, LogicAgrees
  <2> HIDE DEF r
  <2>6. out \in Word
    BY <2>5 DEF Low, Word
  <2> HIDE DEF out
  <2>7. LogicResult(c, i, out) \in Cpu
    BY <2>1, <2>6, LogicTyped
  <2> QED
    BY <2>3, <2>7 DEF Then
<1>5. CASE i.op \in {"logicImm", "bitfield"}
  <2> DEFINE a == ReadZr(c, i.rn)
             b == LogicalImm(i.n, i.immr, i.imms)
             r == Combine(i.opc, a, b)
  <2>1. i.opc \in 0..3 /\ i.rd \in Reg /\ i.rn \in Reg
    BY <1>5, Fields
  <2>2. a \in Word /\ b \in Word
    <3>1. b \in Word
      BY DEF LogicalImm, Word
    <3> QED
      BY <2>1, <3>1, Registers
  <2>3. Exec(c, mem, i) = LogicalOrBitfield(c, mem, i)
    BY <1>5 DEF Exec
  <2>4. LogicalOrBitfield(c, mem, i).cpu \in {Bitfield(c, i), LogicResult(c, i, r), c}
    BY DEF LogicalOrBitfield, Then, Unimplemented
  <2> HIDE DEF a, b
  <2>5. r \in Word
    BY <2>1, <2>2, LogicAgrees
  <2> HIDE DEF r
  <2>6. LogicResult(c, i, r) \in Cpu /\ Bitfield(c, i) \in Cpu
    BY <1>5, <2>1, <2>5, LogicTyped, BitfieldTyped
  <2> QED
    BY <2>3, <2>4, <2>6
<1>6. CASE i.op \in {"moveWide", "extract"}
  <2> DEFINE imm == Shl(i.imm, Lane * i.hw)
             lane == Shl(Ones(Lane), Lane * i.hw)
  <2>1. i.opc \in 0..3 /\ i.hw \in 0..3 /\ i.imm \in SUBSET Ones(Lane) /\ i.rd \in Reg
    BY <1>6, Fields
  <2>2. imm \in Word /\ ReadSp(c, i.rd) \in Word
    BY <2>1, LanesAgree, Registers
  <2>3. Exec(c, mem, i) = MoveWide(c, mem, i)
    BY <1>6 DEF Exec
  <2>4. MoveWide(c, mem, i) =
          CASE i.opc = 1 -> Unimplemented(c, mem)
            [] i.opc = 0 -> Then(WriteSp(c, i.rd, Bit \ imm), mem, "next")
            [] i.opc = 2 -> Then(WriteSp(c, i.rd, imm), mem, "next")
            [] i.opc = 3 -> Then(WriteSp(c, i.rd, (ReadSp(c, i.rd) \ lane) \cup imm),
                                 mem, "next")
    BY DEF MoveWide
  <2> HIDE DEF imm, lane
  <2>5. MoveWide(c, mem, i).cpu \in
          {c, WriteSp(c, i.rd, Bit \ imm), WriteSp(c, i.rd, imm),
           WriteSp(c, i.rd, (ReadSp(c, i.rd) \ lane) \cup imm)}
    <3>1. i.opc = 0 \/ i.opc = 1 \/ i.opc = 2 \/ i.opc = 3
      BY <2>1
    <3> QED
      BY <2>4, <3>1 DEF Then, Unimplemented
  <2>6. Bit \ imm \in Word /\ (ReadSp(c, i.rd) \ lane) \cup imm \in Word
    BY <2>2 DEF Word
  <2>7. \A w \in Word : WriteSp(c, i.rd, w) \in Cpu
    BY <2>1, Registers
  <2> QED
    BY <2>2, <2>3, <2>5, <2>6, <2>7
<1>7. CASE i.op = "ldst"
  <2> DEFINE addr == Wrap(Val[ReadSp(c, i.rn)] + i.imm * i.size)
             phys == Phys(c, addr)
             w == Bytes(mem, phys, i.size)
  <2>1. i.size \in 1..Width /\ i.rt \in Reg
    BY <1>7, Fields
  <2>2. w \in Word
    BY <2>1, Widths DEF Bytes, Word, Bit
  <2>3. Exec(c, mem, i) = LoadStore(c, mem, i)
    BY <1>7 DEF Exec
  <2>4. LoadStore(c, mem, i).cpu \in {c, WriteZr(c, i.rt, w)}
    BY DEF LoadStore, Then
  <2> HIDE DEF w
  <2>5. WriteZr(c, i.rt, w) \in Cpu
    BY <2>1, <2>2, Registers
  <2> QED
    BY <2>3, <2>4, <2>5
<1>8. CASE i.op = "pair"
  <2> DEFINE e == Digits(i.sf)
             addr == Wrap(Val[ReadSp(c, i.rn)] + i.imm * e)
             u == Bytes(mem, addr, e)
             v == Bytes(mem, addr + e, e)
             first == WriteSp(c, i.rt, u)
             both == WriteSp(first, i.rt2, v)
  <2>1. i.rt \in Reg /\ i.rt2 \in Reg
    BY <1>8, Fields
  <2>2. e \in 0..Width
    <3>1. e = Width \/ e = Width \div 2
      BY DEF Digits
    <3> HIDE DEF e
    <3> QED
      BY <3>1, Widths
  <2>3. Exec(c, mem, i) = LoadStorePair(c, mem, i)
    BY <1>8 DEF Exec
  <2>4. LoadStorePair(c, mem, i).cpu \in {c, both}
    BY DEF LoadStorePair, Then
  <2> HIDE DEF e, addr
  <2>5. u \in Word /\ v \in Word
    BY <2>2, Widths DEF Bytes, Word, Bit
  <2> HIDE DEF u, v
  <2>6. first \in Cpu
    BY <2>1, <2>5, Registers
  <2> HIDE DEF first
  <2>7. both \in Cpu
    BY <2>1, <2>5, <2>6, Registers
  <2> QED
    BY <2>3, <2>4, <2>7
<1>l. Linked(c) \in Cpu
  <2>1. WordOf(c.pc) \in Word /\ Link \in Gpr
    BY <1>f, ValueOf, A64Assumption
  <2> QED
    BY <1>f, <2>1 DEF Linked, Cpu
<1>9. CASE i.op \in {"b", "bcond", "cbz", "tbz"}
  <2> DEFINE target == Target(c, i)
  <2>1. i.imm \in Int
    BY <1>9, Fields
  <2>2. target \in Int
    BY <1>f, <2>1 DEF Target
  <2>3. Exec(c, mem, i).cpu \in {c, Jump(c, target), Jump(Linked(c), target)}
    <3>1. CASE i.op = "b"
      BY <3>1 DEF Exec, Then
    <3>2. CASE i.op = "bcond"
      BY <3>2 DEF Exec, Then, CondBranch
    <3>3. CASE i.op = "cbz"
      BY <3>3 DEF Exec, Then, CompareBranch
    <3>4. CASE i.op = "tbz"
      BY <3>4 DEF Exec, Then, TestBranch
    <3> QED
      BY <1>9, <3>1, <3>2, <3>3, <3>4
  <2> HIDE DEF target
  <2>4. Jump(c, target) \in Cpu /\ Jump(Linked(c), target) \in Cpu
    BY <1>l, <2>2, JumpTyped
  <2> QED
    BY <2>3, <2>4
<1>10. CASE i.op = "br"
  <2> DEFINE target == Val[ReadZr(c, i.rn)]
  <2>1. ReadZr(c, i.rn) \in Word
    BY <1>10, Fields, Registers
  <2>2. target \in Int
    BY <2>1, Values, PowersOfWidth
  <2>3. Exec(c, mem, i).cpu \in {Jump(c, target), Jump(Linked(c), target)}
    BY <1>10 DEF Exec, Then, RegBranch
  <2> HIDE DEF target
  <2>4. Jump(c, target) \in Cpu /\ Jump(Linked(c), target) \in Cpu
    BY <1>l, <2>2, JumpTyped
  <2> QED
    BY <2>3, <2>4
<1>11. CASE i.op = "mrs"
  <2> DEFINE key == HandlerKey(SysregField(i.key))
             w == IF key = CurrentEl THEN WordOf(4 * c.el)
                  ELSE IF key = SpEl0 THEN c.sp[0] ELSE c.sys[key]
  <2>1. i.rt \in Reg
    BY <1>11, Fields
  <2>2. Exec(c, mem, i).cpu = Mrs(c, i)
    BY <1>11 DEF Exec, Then
  <2>3. Mrs(c, i) = IF i.rt # ZrSp /\ key \in DOMAIN c.sys \cup {CurrentEl}
                    THEN [c EXCEPT !.x[i.rt] = w] ELSE c
    BY DEF Mrs
  <2> HIDE DEF key
  <2>4. key \in DOMAIN c.sys \cup {CurrentEl} => w \in Word
    <3>1. 4 * c.el \in Int
      BY <1>f
    <3>2. WordOf(4 * c.el) \in Word
      BY <3>1, ValueOf
    <3> QED
      BY <1>f, <3>2
  <2> HIDE DEF w
  <2>5. ASSUME i.rt # ZrSp, w \in Word
        PROVE  [c EXCEPT !.x[i.rt] = w] \in Cpu
    BY <1>f, <2>1, <2>5 DEF Cpu, Reg
  <2> QED
    BY <2>2, <2>3, <2>4, <2>5
<1>12. CASE i.op = "msr"
  <2> DEFINE key == HandlerKey(SysregField(i.key))
             w == ReadZr(c, i.rt)
  <2>1. w \in Word
    BY <1>12, Fields, Registers
  <2>2. Exec(c, mem, i).cpu = Msr(c, i)
    BY <1>12 DEF Exec, Then
  <2>3. Msr(c, i) = CASE key = SpEl0 -> [c EXCEPT !.sp[0] = w]
                      [] key = SpEl1 -> [c EXCEPT !.sp[1] = w]
                      [] key \in Settable \ {SpEl0} -> [c EXCEPT !.sys[key] = w]
                      [] OTHER -> c
    BY DEF Msr
  <2> HIDE DEF key, w
  <2>4. [c EXCEPT !.sp[0] = w] \in Cpu /\ [c EXCEPT !.sp[1] = w] \in Cpu
    BY <1>f, <2>1 DEF Cpu
  <2>5. [c EXCEPT !.sys[key] = w] \in Cpu
    BY <1>f, <2>1 DEF Cpu
  <2> QED
    BY <2>2, <2>3, <2>4, <2>5
<1>13. CASE i.op = "msrImm"
  <2> DEFINE op == 2 * (i.crm % 2) + i.op2 \div 4
             mask == {b \in 0..3 : (i.op1 \div Pow2[b]) % 2 = 1}
  <2>1. Exec(c, mem, i).cpu = MsrImm(c, i)
    BY <1>13 DEF Exec, Then
  <2>2. MsrImm(c, i) = CASE op = 3 -> [c EXCEPT !.daif = @ \cup mask]
                         [] op = 2 -> [c EXCEPT !.daif = @ \ mask]
                         [] OTHER -> c
    BY DEF MsrImm
  <2>3. mask \subseteq 0..3
    OBVIOUS
  <2> HIDE DEF op, mask
  <2>4. [c EXCEPT !.daif = @ \cup mask] \in Cpu /\ [c EXCEPT !.daif = @ \ mask] \in Cpu
    BY <1>f, <2>3 DEF Cpu
  <2> QED
    BY <2>1, <2>2, <2>4
<1>14. CASE i.op = "eret"
  <2>1. c.sys[Elr] \in Word
    BY <1>f DEF Settable
  <2>2. Val[c.sys[Elr]] \in Int
    BY <2>1, Values, PowersOfWidth
  <2>3. Eret(c) \in Cpu
    <3> DEFINE n == Val[c.sys[Elr]]
               d == [c EXCEPT !.pc = n]
               e == [d EXCEPT !.el = 0]
               f == [e EXCEPT !.nzcv = {}]
    <3>1. Eret(c) = [f EXCEPT !.daif = {}]
      BY DEF Eret
    <3> HIDE DEF n
    <3>2. d \in Cpu
      BY <2>2 DEF Cpu, n
    <3> HIDE DEF d
    <3>3. e \in Cpu
      BY <3>2 DEF Cpu
    <3> HIDE DEF e
    <3>4. f \in Cpu
      BY <3>3 DEF Cpu
    <3> HIDE DEF f
    <3>5. [f EXCEPT !.daif = {}] \in Cpu
      BY <3>4 DEF Cpu
    <3> QED
      BY <3>1, <3>5
  <2> QED
    BY <1>14, <2>3 DEF Exec, Then
<1>15. CASE i.op \in {"svc", "wfi", "nop", "unallocated"}
  <2>1. Exec(c, mem, i).cpu = c
    <3>1. CASE i.op \in {"svc", "wfi"}
      BY <3>1 DEF Exec, Then
    <3>2. CASE i.op = "nop"
      BY <3>2 DEF Exec, Then
    <3>3. CASE i.op = "unallocated"
      BY <3>3 DEF Exec, Then, Unimplemented
    <3> QED
      BY <1>15, <3>1, <3>2, <3>3
  <2> QED
    BY <2>1
<1>16. i.op \in {"adr", "adrp", "addImm", "addReg", "logicReg", "logicImm", "bitfield",
                 "moveWide", "extract", "ldst", "pair", "bcond", "b", "cbz", "tbz", "br",
                 "mrs", "msr", "msrImm", "eret", "svc", "wfi", "nop", "unallocated"}
  BY DEF Insn
<1> QED
  BY <1>1, <1>2, <1>3, <1>4, <1>5, <1>6, <1>7, <1>8, <1>9, <1>10, <1>11, <1>12, <1>13,
     <1>14, <1>15, <1>16


-----------------------------------------------------------------------------
(* The machine's vCPU.                                                     *)

LEMMA VcpuAtTyped ==
  ASSUME NEW start, start.x \in [Gpr -> Word], start.sp \in Word, start.nzcv \in SUBSET Flag,
         start.pc \in Int
  PROVE  VcpuAt(start) \in Cpu
<1> DEFINE sp == [e \in 0..1 |-> IF e = 1 THEN start.sp ELSE {}]
           sys == [key \in Settable \cup Constant |->
                     IF key = Sctlr /\ start.mmu THEN {0, 2} ELSE {}]
<1>1. {} \in Word /\ {0, 2} \in Word
  BY A64Assumption DEF Word, Bit
<1>2. sp \in [0..1 -> Word] /\ sys \in [Settable \cup Constant -> Word]
  BY <1>1
<1>3. VcpuAt(start) = [x |-> start.x, sp |-> sp, nzcv |-> start.nzcv, daif |-> 0..3, el |-> 1,
                       pc |-> start.pc, sys |-> sys]
  BY DEF VcpuAt
<1> HIDE DEF sp, sys
<1> QED
  BY <1>2, <1>3 DEF Cpu

(* The inductive invariant behind ExecutesA64: the vCPU has its registers, *)
(* each a word, and what a guest is made of are instructions.              *)
VcpuTyped ==
  /\ BootImage /\ count \in Nat /\ cpu \in Cpu
  /\ at = "vcpus" => IsSetUp

LEMMA VcpuTypedInit == MachineInit => VcpuTyped
<1> SUFFICES ASSUME MachineInit
             PROVE  VcpuTyped
  OBVIOUS
<1>1. BootImage /\ count \in Nat /\ at # "vcpus"
  BY BootImageInit DEF MachineInit, TcgInit, NoVcpu
<1>2. cpu \in Cpu
  <2>1. CASE TcgInit
    <3>1. PICK start \in Starts : cpu = VcpuAt(start)
      BY <2>1 DEF TcgInit
    <3>2. /\ start.x \in [Gpr -> Word] /\ start.sp \in Word /\ start.nzcv \in SUBSET Flag
          /\ start.pc \in Int
      BY <3>1, TcgAssumption
    <3> QED
      BY <3>1, <3>2, VcpuAtTyped
  <2>2. CASE NoVcpu
    <3> DEFINE start == [x |-> [r \in Gpr |-> {}], sp |-> {}, nzcv |-> {}, mmu |-> FALSE, pc |-> 0]
    <3>1. cpu = VcpuAt(start)
      BY <2>2 DEF NoVcpu
    <3>2. /\ start.x \in [Gpr -> Word] /\ start.sp \in Word /\ start.nzcv \in SUBSET Flag
          /\ start.pc \in Int
      BY DEF Word
    <3> HIDE DEF start
    <3> QED
      BY <3>1, <3>2, VcpuAtTyped
  <2> QED
    BY <2>1, <2>2 DEF MachineInit
<1> QED
  BY <1>1, <1>2 DEF VcpuTyped

LEMMA BootCpuTyped ==
  ASSUME BootImage, IsSetUp
  PROVE  BootCpu \in Cpu
<1> DEFINE start == [x |-> [r \in Gpr |-> CASE r = 0 -> WordOf(boot.info.args)
                                            [] r = Link -> WordOf(boot.info.entry)
                                            [] OTHER -> {}],
                     sp |-> WordOf(RamBase + RamSize), nzcv |-> {}, mmu |-> TRUE,
                     pc |-> boot.info.virtEntry]
<1>1. \A n : WordOf(n) \in Word
  BY DEF WordOf, Word
<1>2. {} \in Word
  BY DEF Word
<1>3. boot.info.virtEntry \in Nat
  BY KernelTypes DEF BootImage, Described
<1>4. /\ start.x \in [Gpr -> Word] /\ start.sp \in Word /\ start.nzcv \in SUBSET Flag
      /\ start.pc \in Int
  BY <1>1, <1>2, <1>3
<1>5. BootCpu = VcpuAt(start)
  BY DEF BootCpu
<1> HIDE DEF start
<1> QED
  BY <1>4, <1>5, VcpuAtTyped

(* An instruction is taken with the pc behind it.                          *)
LEMMA FetchTyped ==
  ASSUME cpu \in Cpu
  PROVE  [cpu EXCEPT !.pc = Wrap(@ + 4)] \in Cpu
<1>1. cpu.pc \in Int
  BY DEF Cpu
<1>2. Wrap(cpu.pc + 4) \in Int
  BY <1>1, LayoutFacts, PowersOfWidth DEF Wrap
<1> QED
  BY <1>2 DEF Cpu

LEMMA VcpuTypedNext == VcpuTyped /\ [MachineNext]_machineVars => VcpuTyped'
<1> SUFFICES ASSUME VcpuTyped, [MachineNext]_machineVars
             PROVE  VcpuTyped'
  OBVIOUS
<1>a. BootImage' /\ count \in Nat /\ cpu \in Cpu
  BY BootImageNext DEF VcpuTyped
<1>1. CASE SetUpVcpu
  <2>1. /\ at = "vcpus" /\ UNCHANGED <<at, boot, count>>
        /\ cpu' = IF hvm.backend = "tcg" /\ hvm.ready = 0 THEN BootCpu ELSE cpu
    BY <1>1 DEF SetUpVcpu, bootVars
  <2>2. BootCpu \in Cpu
    BY <2>1, BootCpuTyped DEF VcpuTyped
  <2> QED
    BY <1>a, <2>1, <2>2 DEF VcpuTyped, IsSetUp
<1>2. CASE StepTcg /\ ~FetchError
  <2>1. PICK i \in Program[count + 1] : count < Len(Program) /\ Step(i)
    BY <1>2 DEF StepTcg
  <2> DEFINE d == [cpu EXCEPT !.pc = Wrap(@ + 4)]
  <2>2. i \in Insn /\ d \in Cpu
    BY <1>a, <2>1, InstructionsAreSome, FetchTyped
  <2>3. cpu' = Exec(d, ram, i).cpu /\ count' = count + 1
    BY <2>1 DEF Step
  <2>4. at = "loop" /\ at' = at
    BY <1>2 DEF StepTcg, AtLoop
  <2> HIDE DEF d
  <2>5. Exec(d, ram, i).cpu \in Cpu
    BY <2>2, ExecTyped
  <2> QED
    BY <1>a, <2>3, <2>4, <2>5 DEF VcpuTyped
<1>3. CASE CreateVm
  <2>1. UNCHANGED <<boot, cpu, count>> /\ IsSetUp
    BY <1>3 DEF CreateVm, OtherCpuVars, bootVars, IsSetUp
  <2> QED
    BY <1>a, <2>1 DEF VcpuTyped, IsSetUp
<1>4. CASE Sigint \/ UNCHANGED machineVars
  <2>1. UNCHANGED <<at, boot, cpu, count>>
    BY <1>4 DEF Sigint, machineVars, bootVars, cpuVars, vars
  <2> QED
    BY <1>a, <2>1 DEF VcpuTyped, IsSetUp
<1>5. CASE \/ RunFails \/ VcpuFails \/ EnterLoop \/ LeaveLoop \/ DestroyVm
           \/ RunTcg \/ HaltTcg \/ RunHardware \/ (StepTcg /\ FetchError)
  <2>1. UNCHANGED <<cpu, count>>
    BY <1>5 DEF RunFails, VcpuFails, EnterLoop, LeaveLoop, DestroyVm, RunTcg, HaltTcg,
       RunHardware, StepTcg, FetchError, Resume, OtherCpuVars, cpuVars, vars
  <2>2. at' # "vcpus"
    BY <1>5 DEF RunFails, VcpuFails, EnterLoop, LeaveLoop, DestroyVm, RunTcg, HaltTcg,
       RunHardware, StepTcg, Go, AtLoop
  <2> QED
    BY <1>a, <2>1, <2>2 DEF VcpuTyped
<1>6. CASE Loader
  <2>1. UNCHANGED <<cpu, count>> /\ at' # "vcpus"
    BY <1>6 DEF Loader, LoaderKernel, LoaderTree, LoaderSetup, Go, cpuVars, vars
  <2> QED
    BY <1>a, <2>1 DEF VcpuTyped
<1>7. CASE Cli /\ ~Sigint
  <2>1. UNCHANGED <<cpu, count>> /\ at' # "vcpus"
    BY <1>7 DEF Cli, InitializeFails, Initialize, ReadKernelFails, ReadKernel, LoadKernel,
       LoadDtb, AttachFails, Attach, FreeKernelFile, Destroy, Exit, Go, cpuVars, vars
  <2> QED
    BY <1>a, <2>1 DEF VcpuTyped
<1> QED
  BY <1>1, <1>2, <1>3, <1>4, <1>5, <1>6, <1>7 DEF MachineNext, Run

(* For words of every width, every register file and every instruction of *)
(* the forms Faithful names, in every program: the interpreter leaves the *)
(* registers, the flags, the pc and the memory the architecture says it   *)
(* leaves, and runs on (tcg_decode.c:429-963).                            *)
THEOREM ExecutesTheArchitecture == MachineSpec => ExecutesA64
<1> DEFINE arch == Arch([cpu EXCEPT !.pc = Wrap(@ + 4)], ram, insn')
           A == (count' # count /\ Faithful(cpu, insn')) =>
                  cpu' = arch.cpu /\ ram' = arch.mem /\ mode' = "running"
<1>1. VcpuTyped /\ [MachineNext]_machineVars => [A]_vars
  <2> SUFFICES ASSUME VcpuTyped, [MachineNext]_machineVars, count' # count, Faithful(cpu, insn')
               PROVE  cpu' = arch.cpu /\ ram' = arch.mem /\ mode' = "running"
    OBVIOUS
  <2>a. count \in Nat /\ cpu \in Cpu
    BY DEF VcpuTyped
  <2>1. StepTcg /\ ~FetchError
    BY DEF MachineNext, Cli, InitializeFails, Initialize, ReadKernelFails, ReadKernel, LoadKernel,
       LoadDtb, AttachFails, Attach, FreeKernelFile, Destroy, Exit, Sigint, Run, RunFails, CreateVm,
       VcpuFails, SetUpVcpu, EnterLoop, LeaveLoop, DestroyVm, RunTcg, HaltTcg, RunHardware, StepTcg,
       FetchError, Resume, Loader, LoaderKernel, LoaderTree, LoaderSetup, OtherCpuVars, cpuVars,
       machineVars, vars
  <2>2. PICK i \in Program[count + 1] : count < Len(Program) /\ Step(i)
    BY <2>1 DEF StepTcg
  <2> DEFINE d == [cpu EXCEPT !.pc = Wrap(@ + 4)]
             done == Exec(d, ram, i)
  <2>3. i \in Insn /\ d \in Cpu
    BY <2>a, <2>2, InstructionsAreSome, FetchTyped
  <2>4. /\ insn' = i /\ cpu' = done.cpu /\ ram' = done.mem
        /\ done.end = "next" => mode' = "running"
    BY <2>2 DEF Step
  <2>5. Faithful(cpu, i)
    BY <2>4
  <2>6. d = [cpu EXCEPT !.pc = Wrap(@ + 4)]
    OBVIOUS
  <2> HIDE DEF d
  <2>7. Agrees(d, ram, i)
    BY <2>a, <2>3, <2>5, <2>6, FaithfulAgrees
  <2>8. /\ done.cpu = Arch(d, ram, i).cpu /\ done.mem = Arch(d, ram, i).mem
        /\ done.end = "next"
    BY <2>7 DEF Agrees, Then
  <2> HIDE DEF done
  <2> QED
    BY <2>4, <2>8 DEF d
<1> QED
  BY <1>1, VcpuTypedInit, VcpuTypedNext, PTL DEF MachineSpec, ExecutesA64
=============================================================================
