----------------------------- MODULE Hypervisor -----------------------------
(***************************************************************************)
(* The back ends behind hypervisor/abstraction/hv.h: which one a machine   *)
(* gets, and what its calls may answer.  KVM and Hypervisor.framework are  *)
(* the host's; their calls may fail.  The three number the registers       *)
(* beyond x30 differently.                                                 *)
(***************************************************************************)
EXTENDS Integers, Sequences

\* sv_hv_get_best: the first registered of the best type.
Priority == <<"kvm", "hvf", "whpx", "tcg">>
NoBackend == "none"
Registered == {"kvm", "hvf", "tcg"}   \* the back ends there is code for
GetBest(backends) ==
    LET Has(rank) == \E k \in DOMAIN backends : backends[k] = Priority[rank]
    IN  IF \E rank \in DOMAIN Priority : Has(rank)
        THEN Priority[CHOOSE rank \in DOMAIN Priority :
                        Has(rank) /\ \A r \in 1..(rank - 1) : ~Has(r)]
        ELSE NoBackend

Hardware == {"kvm", "hvf"}

\* What a machine has of its back end: a VM, with the vCPUs that are created
\* and have their registers, and the back ends of which a VM or its vCPUs
\* remain in the process though its handle is gone.
NoVm == [backend |-> NoBackend, ready |-> 0, remains |-> {}]
NewVm(vm, backend) == [vm EXCEPT !.backend = backend]
NewVcpu(vm) == [vm EXCEPT !.ready = @ + 1]

\* Hypervisor.framework gives a process one VM at a time.
MayCreate(vm, backend) == backend = "hvf" => "hvf" \notin vm.remains

\* vm_destroy frees the handle.  No back end has a call that destroys a vCPU:
\* once one is created, KVM's VM lives on by the vCPU's descriptor,
\* Hypervisor.framework refuses hv_vm_destroy, whose answer is not read, and
\* the software's vCPU is left naming the VM that was freed.
VmDestroy(vm, vcpus) ==
    [NoVm EXCEPT !.remains = vm.remains \cup (IF vcpus > 0 THEN {vm.backend} ELSE {})]

\* vcpu_set_reg: the registers behind x30, by number; others are refused.
KvmRegs == <<"sp", "pc", "pstate">>
HvfRegs == <<"pc", "pstate">>
TcgRegs == <<"sp", "pc", "pstate">>
SpecialRegs(backend) ==
    CASE backend = "kvm" -> KvmRegs [] backend = "hvf" -> HvfRegs [] backend = "tcg" -> TcgRegs
NumberOf(backend, name) ==
    30 + (CHOOSE k \in DOMAIN SpecialRegs(backend) : SpecialRegs(backend)[k] = name)
IsReg(backend, r) == r <= 30 \/ r - 30 \in DOMAIN SpecialRegs(backend)

\* A list of numbers and values is written in order, up to the first refused.
Accepts(backend, writes) == \A k \in DOMAIN writes : IsReg(backend, writes[k][1])

\* vcpu_run: what an exit means to the machine.  Every exit but a halt, a
\* shutdown and a failed run is followed by another run of the same vCPU,
\* also those the back end could not handle.
KvmExits == {"MMIO_READ", "MMIO_WRITE", "HLT", "SHUTDOWN", "UNKNOWN", "error"}
HvfExits == {"MMIO_READ", "MMIO_WRITE", "HLT", "UNKNOWN", "error"}
Exits(backend) == CASE backend = "kvm" -> KvmExits [] backend = "hvf" -> HvfExits
=============================================================================
