--------------------------- MODULE AndroidMachine ---------------------------
(***************************************************************************)
(* core/vm/machine.c: what sv_machine_init, _load_kernel, _load_dtb and    *)
(* _generate_dtb do to the machine and its RAM, and the registers          *)
(* sv_machine_run gives a vCPU.  The distances in RAM are scaled down;     *)
(* DtbOffset is 2 MB, KernelOffset 32 MB and RamdiskAlign 2 MB there.      *)
(***************************************************************************)
EXTENDS BootImage, Hypervisor, FiniteSets

CONSTANTS RamBase, DtbOffset, KernelOffset, RamdiskAlign,
          TreeCells   \* the cells of a tree dtb_generate writes

ASSUME AndroidConstants ==
    /\ {RamBase, DtbOffset, RamdiskAlign, TreeCells} \subseteq Nat \ {0}
    /\ KernelOffset \in Nat /\ DtbOffset + TreeCells <= KernelOffset

\* sv_machine_t; memset leaves NoMachine.
NoMachine ==
    [ram |-> <<>>, kernel_entry |-> 0, dtb_addr |-> 0, cmdline |-> "", cpus |-> 0, devices |-> {}]
NewMachine(cpus, ramSize) ==
    [NoMachine EXCEPT !.ram = [k \in 0..(ramSize - 1) |-> <<"zero">>],
                      !.cmdline = "default", !.cpus = cpus]

\* Memory at an offset, as far as the data reaches.
Copy(ram, at, data) ==
    [k \in DOMAIN ram |-> IF k - at \in DOMAIN data THEN data[k - at] ELSE ram[k]]

-----------------------------------------------------------------------------
(* sv_machine_load_kernel.                                                 *)

\* The ramdisk at the boundary before the kernel's end:
RamdiskOffsetDown(image) ==
    KernelOffset + (image.kernel \div RamdiskAlign) * RamdiskAlign
RamdiskOffset(image) == KernelOffset + AlignUp(image.kernel, RamdiskAlign)

\* What is copied where: a part that is absent has no size.
Part(image, at, from, size) == [at |-> at, size |-> size, data |-> Cut(image, from, size)]
KernelPart(image) ==
    Part(image, KernelOffset, IF image.magic THEN KernelAt(image) ELSE 0, image.kernel)
RamdiskPart(image) ==
    Part(image, RamdiskOffset(image), RamdiskAt(image), IF image.magic THEN image.ramdisk ELSE 0)
TreePart(image) ==
    Part(image, DtbOffset, DtbAt(image), IF image.magic /\ HasDtb(image) THEN image.dtb ELSE 0)

\* The first part that does not fit ends it, what was copied stays.
RamSizeOf(vm) == Cardinality(DOMAIN vm.ram)
Place(load, part, ramSize) ==
    IF load.ok /\ part.at + part.size <= ramSize
    THEN [ok |-> TRUE, ram |-> Copy(load.ram, part.at, part.data)]
    ELSE [load EXCEPT !.ok = FALSE]
PlaceIfPresent(load, part, ramSize) ==
    IF part.size = 0 THEN load ELSE Place(load, part, ramSize)

LoadKernel(vm, image) ==
    LET size == RamSizeOf(vm)
        kernel == Place([ok |-> TRUE, ram |-> vm.ram], KernelPart(image), size)
        ramdisk == PlaceIfPresent(kernel, RamdiskPart(image), size)
        load == PlaceIfPresent(ramdisk, TreePart(image), size)
        embedded == load.ok /\ image.magic /\ HasDtb(image)
    IN  [ok |-> load.ok,
         vm |-> [vm EXCEPT
             !.ram = load.ram,
             !.kernel_entry = IF kernel.ok THEN RamBase + KernelOffset ELSE 0,
             !.dtb_addr = IF embedded THEN RamBase + DtbOffset ELSE @,
             !.cmdline = IF load.ok /\ image.magic /\ image.cmdline # "" THEN image.cmdline ELSE @]]

-----------------------------------------------------------------------------
(* The device tree: of a file, or generated from the configuration.        *)
TreeFile(size) == [k \in 0..(size - 1) |-> <<"treeFile", k>>]
Generated(vm) == [k \in 0..(TreeCells - 1) |-> <<"tree", vm.cmdline, vm.cpus, k>>]

\* sv_machine_load_dtb: no file, too large, a short read, or all of it.
LoadDtbResults(vm, size) ==
    {vm} \cup
    (IF DtbOffset + size > RamSizeOf(vm) THEN {}
     ELSE {[vm EXCEPT !.ram = Copy(@, DtbOffset, TreeFile(n))] : n \in 0..(size - 1)}
          \cup {[vm EXCEPT !.ram = Copy(@, DtbOffset, TreeFile(size)),
                           !.dtb_addr = RamBase + DtbOffset]})

\* sv_machine_generate_dtb: 16384 bytes are enough for every tree.
GenerateDtb(vm) ==
    [vm EXCEPT !.ram = Copy(@, DtbOffset, Generated(vm)), !.dtb_addr = RamBase + DtbOffset]

\* setup_vcpu, by KVM's numbers of the registers.
EL1hMasked == 965
RegWrites(vm, id) ==
    <<<<0, vm.dtb_addr>>, <<1, id>>, <<32, vm.kernel_entry>>, <<33, EL1hMasked>>>>

\* x0 and the program counter of a vCPU after its writes, of which each names
\* another register.
NoRegs == [x0 |-> 0, pc |-> 0]
ValueOf(writes, r) ==
    IF \E k \in DOMAIN writes : writes[k][1] = r
    THEN writes[CHOOSE k \in DOMAIN writes : writes[k][1] = r][2] ELSE 0
Written(backend, writes) ==
    [x0 |-> ValueOf(writes, 0), pc |-> ValueOf(writes, NumberOf(backend, "pc"))]
=============================================================================
