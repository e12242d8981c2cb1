---------------------------- MODULE AppleMachine ----------------------------
(***************************************************************************)
(* The Apple machine from the command line to its end: run_apple of        *)
(* frontend/cli/main.c, core/vm/machine_apple.c, the boot chain and the    *)
(* back end whose vCPU 0 the machine runs.  With the software CPU every    *)
(* instruction is a step of TcgCpu, with a hardware back end every exit.   *)
(*                                                                         *)
(* A second client uses the boot chain alone, in the order xnu_boot.h      *)
(* gives: only there a device tree that was supplied reaches the set-up.   *)
(* A third workload starts in the main loop, behind a guest's prologue.    *)
(***************************************************************************)
EXTENDS TcgCpu, AppleBoot, Hypervisor

CONSTANTS Setups,        \* Setups[n]: what a client is asked to do
          BootPrograms   \* the programs of a kernel that is booted

\* A file's data is a kernel, a tree or anything else.
Command == [cmd : {"segment"}, vmaddr : Nat, vmsize : Nat, filesize : Nat]
           \cup [cmd : {"thread"}, arm64 : BOOLEAN, pc : Nat]
           \cup [cmd : {"entry"}, vmaddr : Nat] \cup [cmd : {"truncated"}]
IsData(data) == /\ data.kind = "macho" => data.cmds \in Seq(Command)
                /\ data.kind = "blob" => data.cells \in Seq(Range(data.cells))
IsFile(file) == /\ IsData(file.body)
                /\ file.chunks \in Seq(Range(file.chunks))
                /\ file.form = "im4p" \/ (file.form = "der" /\ file.wellFormed) => file.chunks # <<>>
                /\ \A chunk \in Range(file.chunks) : IsData(chunk.body)

\* The command line takes 64 MB of RAM or more and one vCPU or more.
ASSUME MachineAssumption ==
    /\ TreeRoom <= RamSize
    /\ BootPrograms \in Seq(SUBSET Insn)
    /\ \A t \in DOMAIN Setups :
         /\ Setups[t].client \in {"cli", "loader", "guest"}
         /\ Setups[t].cpus \in Nat \ {0}
         /\ Setups[t].boot.slide \in {"auto", "off"}
         /\ IsFile(Setups[t].kernel)
         /\ Setups[t].tree # Nothing => IsFile(Setups[t].tree)

VARIABLES task,       \* which set-up the client works on
          at,         \* how far it is
          machine,    \* sv_machine_apple_t: RAM allocated, running, devices attached
          boot,       \* its xnu_boot_state_t
          held,       \* what the boot chain put into RAM
          hvm,        \* the back end's VM
          live,       \* the buffers of files and payloads not yet freed
          signalled   \* SIGINT arrived

cpuVars == vars
bootVars == <<boot, held, live>>
machineVars == <<task, at, machine, boot, held, hvm, live, signalled, cpuVars>>

setup == Setups[task]
NoMachine == [allocated |-> FALSE, running |-> FALSE, devices |-> {}]
Backend == GetBest(setup.backends)
EmptyRam == [a \in RamBase..(RamBase + RamSize - 1) |-> <<"zero">>]

-----------------------------------------------------------------------------
(* run_apple.                                                              *)
Go(phase) == at' = phase /\ UNCHANGED <<task, signalled>>
Exit == Go("exited") /\ UNCHANGED <<machine, boot, held, hvm, live, cpuVars>>

InitializeFails == at = "start" /\ Exit
Initialize ==
    /\ at = "start" /\ Go("initialized")
    /\ machine' = [NoMachine EXCEPT !.allocated = TRUE]
    /\ UNCHANGED <<boot, held, hvm, live, cpuVars>>

\* No file, no memory, a short read: the program ends as it is.
ReadKernelFails == at = "initialized" /\ Exit
ReadKernel ==
    /\ at = "initialized" /\ Go("read")
    /\ live' = {"kernelFile"}
    /\ UNCHANGED <<machine, boot, held, hvm, cpuVars>>

\* sv_machine_apple_load_kernel: the kernel is taken and set up in one call.
LoadKernel ==
    LET kernel == KernelData(setup.kernel)
        loaded == [BootInit(setup.boot) EXCEPT !.kernel = kernel]
        done == XnuSetup(loaded, RamBase, RamSize, held)
    IN  /\ at = "read"
        /\ IF MachoValid(kernel.data) /\ done.ok
           THEN /\ Go("loaded")
                /\ boot' = done.boot /\ held' = done.held
                /\ live' = live \cup {kernel.buffer}
                /\ UNCHANGED machine
           ELSE /\ Go("exited")
                /\ boot' = loaded /\ held' = EmptyRam
                /\ live' = (live \cup {kernel.buffer}) \ {"kernelFile"}
                /\ machine' = NoMachine
        /\ UNCHANGED <<hvm, cpuVars>>

\* The file of a device tree is freed as soon as the call is back, what its
\* container decompressed before that.
Freed == {"treeFile", "treePayload"}
LoadDtb ==
    /\ at = "loaded"
    /\ \/ Go("treed") /\ UNCHANGED <<boot, live>>
       \/ /\ setup.tree # Nothing
          /\ Go(IF FreesPayload(setup.tree) THEN "treed" ELSE "exited")
          /\ boot' = [boot EXCEPT !.tree = TreeData(setup.tree)]
          /\ live' = live \cup ({boot'.tree.buffer} \ Freed)
    /\ UNCHANGED <<machine, held, hvm, cpuVars>>

\* Without its root file system the machine does not start, without the
\* network and the console it does.
AttachFails ==
    /\ at = "treed" /\ setup.rootfs /\ Go("exited")
    /\ machine' = NoMachine
    /\ UNCHANGED <<boot, held, hvm, live, cpuVars>>
Attach ==
    /\ at = "treed" /\ Go("attached")
    /\ \E optional \in SUBSET {"net", "console"} :
         machine' = [machine EXCEPT !.devices =
                        optional \cup (IF setup.rootfs THEN {"blk"} ELSE {})]
    /\ UNCHANGED <<boot, held, hvm, live, cpuVars>>

FreeKernelFile ==
    /\ at = "attached" /\ Go(IF setup.dry THEN "ran" ELSE "prologue")
    /\ live' = live \ {"kernelFile"}
    /\ UNCHANGED <<machine, boot, held, hvm, cpuVars>>

\* sv_machine_apple_destroy.
Destroy ==
    /\ at = "ran" /\ Go("exited")
    /\ machine' = NoMachine /\ boot' = BootInit(setup.boot) /\ held' = EmptyRam
    /\ UNCHANGED <<hvm, live, cpuVars>>

-----------------------------------------------------------------------------
(* sv_machine_apple_run.                                                   *)

\* The mapping is set whatever the back end.  A kernel taken to lie at the
\* start of RAM:
MapKernelUnslid == linear' = [virt |-> boot.info.virtBase, phys |-> RamBase]
MapKernel == linear' = [virt |-> boot.info.virtBase, phys |-> RamBase + boot.info.slide]
OtherCpuVars == <<cpu, ram, mode, answer, insn, count>>

\* No kernel, no back end, or one that does not create the VM.
RunFails ==
    /\ at = "prologue" /\ Go("ran")
    /\ IF boot.info.entry = 0 THEN UNCHANGED <<linear, machine>>
       ELSE MapKernel /\ machine' = IF Backend = NoBackend
                                    THEN [machine EXCEPT !.running = FALSE] ELSE machine
    /\ UNCHANGED <<bootVars, hvm, OtherCpuVars>>
CreateVm ==
    /\ at = "prologue" /\ boot.info.entry # 0 /\ Backend # NoBackend
    /\ Go("vcpus")
    /\ MapKernel
    /\ hvm' = NewVm(hvm, Backend)
    /\ UNCHANGED <<machine, bootVars, OtherCpuVars>>

\* apple_setup_vcpu: boot arguments in x0, the stack at the end of RAM, the
\* physical entry in the link register.  It gives no program counter: that
\* is left to tcg_vcpu_enable_mmu.
RegWrites == <<<<0, boot.info.args>>, <<1, 0>>, <<2, 0>>, <<31, RamBase + RamSize>>,
               <<30, boot.info.entry>>, <<33, 0>>>>
BootCpu ==
    VcpuAt([x |-> [r \in Gpr |-> CASE r = 0 -> WordOf(boot.info.args)
                                   [] r = Link -> WordOf(boot.info.entry)
                                   [] OTHER -> {}],
            sp |-> WordOf(RamBase + RamSize), nzcv |-> {}, mmu |-> TRUE,
            pc |-> boot.info.virtEntry])

\* The way out of a failed set-up without vm_destroy:
VcpuFailsKeepingVm ==
    /\ at = "vcpus" /\ hvm.ready < setup.cpus /\ Go("ran")
    /\ UNCHANGED <<machine, bootVars, hvm, cpuVars>>
\* A vCPU is not created, or is but does not take its registers.
VcpuFails ==
    /\ at = "vcpus" /\ hvm.ready < setup.cpus /\ Go("ran")
    /\ \E vcpus \in {hvm.ready, hvm.ready + 1} : hvm' = VmDestroy(hvm, vcpus)
    /\ UNCHANGED <<machine, bootVars, cpuVars>>
SetUpVcpu ==
    /\ at = "vcpus" /\ hvm.ready < setup.cpus
    /\ Accepts(hvm.backend, RegWrites)
    /\ hvm' = NewVcpu(hvm)
    /\ cpu' = IF hvm.backend = "tcg" /\ hvm.ready = 0 THEN BootCpu ELSE cpu
    /\ UNCHANGED <<task, at, signalled, machine, bootVars, linear, ram, mode, answer, insn, count>>

\* running is set here: a SIGINT before it is lost.
EnterLoop ==
    /\ at = "vcpus" /\ hvm.ready = setup.cpus /\ Go("loop")
    /\ machine' = [machine EXCEPT !.running = TRUE]
    /\ UNCHANGED <<bootVars, hvm, cpuVars>>

(* vcpu_run of the software CPU, and what the loop makes of its exits.     *)
Program == IF setup.client = "guest" THEN Programs ELSE BootPrograms
AtLoop(backends) == at = "loop" /\ hvm.backend \in backends
RunTcg ==
    /\ AtLoop({"tcg"}) /\ machine.running /\ Resume
    /\ UNCHANGED <<task, at, signalled, machine, bootVars, hvm>>
StepTcg ==
    /\ AtLoop({"tcg"})
    /\ \/ count < Len(Program) /\ \E i \in Program[count + 1] : Step(i)
       \/ FetchError
    /\ UNCHANGED <<task, at, signalled, machine, bootVars, hvm>>
HaltTcg ==
    /\ AtLoop({"tcg"}) /\ mode = "halt" /\ mode' = "off"
    /\ machine' = [machine EXCEPT !.running = FALSE]
    /\ UNCHANGED <<task, at, signalled, bootVars, hvm, cpu, linear, ram, answer, insn, count>>

\* The hardware's: a failed run, KVM's when a signal interrupts it, ends the
\* loop whatever running says.
RunHardware ==
    /\ AtLoop(Hardware) /\ machine.running
    /\ \E exit \in Exits(hvm.backend) :
         /\ machine' = [machine EXCEPT !.running = @ /\ exit \notin {"HLT", "SHUTDOWN"}]
         /\ at' = IF exit = "error" THEN "left" ELSE at
    /\ UNCHANGED <<task, signalled, bootVars, hvm, cpuVars>>

LeaveLoop ==
    /\ AtLoop({"tcg"} \cup Hardware) /\ Go("left")
    /\ \/ mode = "error"
       \/ ~machine.running /\ mode \in {"off", "mmio"}
    /\ UNCHANGED <<machine, bootVars, hvm, cpuVars>>
DestroyVm ==
    /\ at = "left" /\ Go("ran")
    /\ hvm' = VmDestroy(hvm, hvm.ready)
    /\ UNCHANGED <<machine, bootVars, cpuVars>>

\* sigint_handler, while the machine's life lasts.
Sigint ==
    /\ at \notin {"start", "exited"} /\ ~signalled
    /\ setup.client = "cli"
    /\ signalled' = TRUE
    /\ machine' = [machine EXCEPT !.running = FALSE]
    /\ UNCHANGED <<task, at, bootVars, hvm, cpuVars>>

-----------------------------------------------------------------------------
(* A program of its own on xnu_boot.h, which keeps the files it has read   *)
(* until the set-up is done.                                               *)
LoaderKernel ==
    LET kernel == KernelData(setup.kernel)
    IN  /\ at = "loader" /\ boot.kernel = NoData
        /\ boot' = [boot EXCEPT !.kernel = kernel]
        /\ live' = live \cup {kernel.buffer}
        /\ at' = IF MachoValid(kernel.data) THEN at ELSE "exited"
        /\ UNCHANGED <<task, signalled, machine, held, hvm, cpuVars>>
LoaderTree ==
    /\ at = "loader" /\ boot.tree = NoData /\ setup.tree # Nothing
    /\ boot' = [boot EXCEPT !.tree = TreeData(setup.tree)]
    /\ live' = live \cup ({boot'.tree.buffer} \ {"treePayload"})
    /\ at' = IF FreesPayload(setup.tree) THEN at ELSE "exited"
    /\ UNCHANGED <<task, signalled, machine, held, hvm, cpuVars>>
LoaderSetup ==
    LET done == XnuSetup(boot, RamBase, RamSize, held)
    IN  /\ at = "loader" /\ boot.kernel # NoData
        /\ setup.tree # Nothing => boot.tree # NoData
        /\ Go(IF done.ok THEN "set up" ELSE "exited")
        /\ boot' = done.boot /\ held' = done.held
        /\ UNCHANGED <<machine, hvm, live, cpuVars>>

-----------------------------------------------------------------------------
NoVcpu ==
    /\ cpu = VcpuAt([x |-> [r \in Gpr |-> {}], sp |-> {}, nzcv |-> {}, mmu |-> FALSE, pc |-> 0])
    /\ linear = [virt |-> 0, phys |-> 0]
    /\ ram = {} /\ mode = "off" /\ answer = {} /\ insn = [op |-> "none"] /\ count = 0

Booted == XnuSetup([BootInit(setup.boot) EXCEPT !.kernel = KernelData(setup.kernel)],
                   RamBase, RamSize, EmptyRam)
MachineInit ==
    /\ task \in DOMAIN Setups
    /\ signalled = FALSE
    /\ IF setup.client = "guest"
       THEN /\ TcgInit
            /\ at = "loop" /\ machine = [NoMachine EXCEPT !.allocated = TRUE, !.running = TRUE]
            /\ boot = Booted.boot /\ held = Booted.held
            /\ hvm = [NoVm EXCEPT !.backend = "tcg", !.ready = setup.cpus]
            /\ live = {}
       ELSE /\ NoVcpu
            /\ at = IF setup.client = "cli" THEN "start" ELSE "loader"
            /\ machine = NoMachine /\ boot = BootInit(setup.boot) /\ held = EmptyRam
            /\ hvm = NoVm /\ live = IF setup.client = "cli" THEN {} ELSE {"kernelFile", "treeFile"}

Cli == \/ InitializeFails \/ Initialize \/ ReadKernelFails \/ ReadKernel \/ LoadKernel
       \/ LoadDtb \/ AttachFails \/ Attach \/ FreeKernelFile \/ Destroy \/ Sigint
Run == \/ RunFails \/ CreateVm \/ VcpuFails \/ SetUpVcpu \/ EnterLoop
       \/ RunTcg \/ StepTcg \/ HaltTcg \/ RunHardware \/ LeaveLoop \/ DestroyVm
Loader == LoaderKernel \/ LoaderTree \/ LoaderSetup
MachineNext == Cli \/ Run \/ Loader
MachineSpec == MachineInit /\ [][MachineNext]_machineVars

-----------------------------------------------------------------------------
(* Properties.                                                             *)

KernelRam == RamBase..(RamBase + RamSize - TreeRoom - 1)
IsSetUp == boot.info.entry # 0

\* An address of a loaded segment's contents that no other segment fills: the
\* segments of a linked kernel do not overlap.
Contents(kernel, loaded) ==
    {addr \in UNION {kernel.cmds[k].vmaddr..(kernel.cmds[k].vmaddr + kernel.cmds[k].filesize - 1)
                       : k \in loaded} :
        \A j, k \in loaded : Fills(kernel.cmds[j], addr) /\ Fills(kernel.cmds[k], addr) => j = k}

\* The software CPU fetches its first instruction where the loader put the
\* kernel's entry: the loader's placement, the slide, the mapping of the MMU
\* and the program counter of the start-up agree (macho.c:216-222,
\* machine_apple.c:498-502, 582-585).  For a kernel linked into kernel space
\* whose entry lies in what was loaded, below the tree.
FetchesKernelEntry ==
    LET kernel == boot.kernel.data
        loaded == Loaded(kernel, boot.info.slide, RamSize)
    IN  (/\ at = "loop" /\ setup.client = "cli" /\ hvm.backend = "tcg" /\ insn.op = "none"
         /\ BaseAddr(kernel) >= KernelSpace
         /\ EntryPoint(kernel) \in Contents(kernel, loaded)
         /\ boot.info.entry \in KernelRam)
        => /\ Phys(cpu, cpu.pc) = boot.info.entry
           /\ held[Phys(cpu, cpu.pc)] = <<"kernel", EntryPoint(kernel)>>

\* What the set-up puts into RAM stays: the boot arguments and the tree they
\* name are whole, and below the tree every segment that was loaded has its
\* contents, whatever its BSS, its neighbours' and the order of the commands
\* (macho.c:197-214, xnu_boot.c:189-233).
GuestImageIntact ==
    LET info == boot.info
        kernel == boot.kernel.data
        loaded == Loaded(kernel, info.slide, RamSize)
        place(addr) == RamBase + Offset(kernel, info.slide, addr)
    IN  IsSetUp /\ insn.op = "none" =>
        /\ \A k \in 0..(ArgsCells - 1) : held[info.args + k] = <<"args", k>>
        /\ info.bootArgs.tree # 0 =>
             \A k \in 0..(TreeCells - 1) : held[info.bootArgs.tree + k] = <<"tree", k>>
        /\ \A addr \in Contents(kernel, loaded) :
             place(addr) \in KernelRam => held[place(addr)] = <<"kernel", addr>>

\* The tree that is handed to the serializer describes this machine: one
\* chosen node with one value each for the memory and the arguments; every
\* other device of it one the machine implements, by the first of its names;
\* and none of those is lost of a tree that was supplied (dtre.c:257-292,
\* 472-514).  Of a tree whose chosen node is not itself a device the machine
\* does not have.  What the guest reads of it is TreeIsReadable's question.
EditedTreeDescribes ==
    LET tree == boot.info.edited
        cmdline == setup.boot.cmdline
        source == IF at = "set up" THEN SuppliedTree(boot) ELSE NoNode
        Says(node, name, value) ==
            /\ Cardinality(Called(node, name)) = 1
            /\ PropValue(node, name) = value
    IN  tree # NoNode =>
        /\ (source # NoNode => \A q \in Named(source, <<>>, "chosen") : ShouldKeep(source[q])) =>
             \E q \in Named(tree, <<>>, "chosen") :
               /\ Says(tree[q], "dram-base", RamBase) /\ Says(tree[q], "dram-size", RamSize)
               /\ cmdline.cells # 0 => Says(tree[q], "boot-args", cmdline.text)
        /\ \A q \in DOMAIN tree \ {<<>>} : ShouldKeep(tree[q])
        /\ \A q \in DOMAIN tree, name \in RemoveProps : Called(tree[q], name) = {}
        /\ source # NoNode =>
             \A q \in Children(source, <<>>) :
               ShouldKeep(source[q]) => HasChild(tree, <<>>, source[q].name)

\* dtre.h:83: "Serialize the tree into FDT-compatible binary format": the
\* blob the set-up leaves for the guest is one apple_dt_load reads.
TreeIsReadable ==
    at \in {"loaded", "set up"} /\ boot.info.tree # 0 =>
        LoadTree(Serialized(boot.info.edited)) # NoNode

\* What a set-up is going to read has not been freed: the state of the boot
\* chain owns none of its data (xnu_boot.c:78-96, 265-269).
SetupReadsLiveData ==
    at = "loader" => {boot.kernel.buffer, boot.tree.buffer} \subseteq live \cup {"none"}

\* However the run ends, vm_destroy is called for its VM before the RAM the
\* VM maps is freed (machine_apple.c:569, 577, 622).  It is the machine's
\* handle that is gone then: the vCPUs stay, and with them what the back
\* end keeps for them.
HandleReleased ==
    /\ hvm.backend # NoBackend => machine.allocated
    /\ at \in {"ran", "exited"} => hvm.backend = NoBackend
=============================================================================
