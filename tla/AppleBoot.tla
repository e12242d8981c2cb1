------------------------------ MODULE AppleBoot ------------------------------
(***************************************************************************)
(* The Apple boot chain, core/boot/apple: what img4_load takes from a file,*)
(* what macho_parse and macho_load make of a kernel, and how xnu_boot puts *)
(* kernel, device tree and boot arguments into the guest's RAM.            *)
(*                                                                         *)
(* A file has a form and contents.  Of a Mach-O the load commands matter,  *)
(* of a tree blob what DeviceTree reads; the guest's RAM is a function     *)
(* from its cells to what lies there, a kernel cell by the address it was  *)
(* linked at.                                                              *)
(***************************************************************************)
EXTENDS DeviceTree

CONSTANTS DefaultSlide,        \* 0x1000
          Rev3Ram,             \* 8 GB
          TreeRoom, ArgsRoom,  \* how far below the top tree and arguments go
          TreeCells, ArgsCells \* what they take

\* The arguments lie behind the tree.
ASSUME BootAssumption == /\ DefaultSlide \in Nat
                         /\ {TreeRoom, ArgsRoom, TreeCells, ArgsCells} \subseteq Nat
                         /\ TreeCells + ArgsRoom <= TreeRoom /\ ArgsCells <= ArgsRoom

-----------------------------------------------------------------------------
(* img4_load.  What a payload names is [data, packed, own]: the contents,  *)
(* whether they were decompressed, and whether the container takes them to *)
(* be its own, which it does from the first chunk it decompresses on.      *)
Nothing == [kind |-> "nothing"]
Payload(type, data, packed, own) ==
    [ok |-> TRUE, type |-> type, data |-> data, packed |-> packed, own |-> own]
Failed == [ok |-> FALSE]

TypeOf(str) ==
    CASE str = "krnl" -> "KRNL" [] str = "dtre" -> "DTRE" [] str = "rdsk" -> "RDSK"
      [] str \in {"trst", "rtsc"} -> "TRST" [] str = "sepf" -> "SEPF" [] OTHER -> "UNKNOWN"

\* The IM4Ps of a file, in order: the type is the last one's, the data those
\* of the last whose payload lies inside its chunk; one that is compressed and
\* cannot be decompressed fails the load.
Im4ps(chunks) ==
    LET inside == {k \in DOMAIN chunks : chunks[k].inside}
        last == chunks[Max(inside)]
        type == IF chunks = <<>> THEN "UNKNOWN" ELSE TypeOf(chunks[Len(chunks)].type)
        own == \E k \in inside : chunks[k].packed = "bvx2"
    IN  CASE \E k \in inside : chunks[k].packed = "damaged" -> Failed
          [] inside = {} -> Payload(type, Nothing, FALSE, FALSE)
          [] OTHER -> Payload(type, last.body, last.packed = "bvx2", own)

\* A DER envelope that is not well formed is taken for raw data.
Img4Load(file) ==
    CASE file.form = "im4p" \/ (file.form = "der" /\ file.wellFormed) -> Im4ps(<<file.chunks[1]>>)
      [] file.form = "img4" ->
           LET found == Im4ps(file.chunks)
           IN  IF found.ok /\ found.data # Nothing THEN found ELSE Failed
      [] OTHER -> Payload("RAW", file.body, FALSE, FALSE)

\* img4_free gives back what the container owns: of a chunk that was not
\* decompressed that lies inside the caller's buffer, and ends the program.
FreesPayload(file) == LET img4 == Img4Load(file) IN img4.ok /\ img4.own => img4.packed

-----------------------------------------------------------------------------
(* The kernel.  A load command is named by its place in the file.          *)
Segments(kernel) == {k \in DOMAIN kernel.cmds : kernel.cmds[k].cmd = "segment"}
Threads(kernel) == {k \in DOMAIN kernel.cmds : kernel.cmds[k].cmd = "thread" /\ kernel.cmds[k].arm64}

\* macho_parse: every load command inside the file.  The base is the lowest
\* address with contents, the entry that of the last thread command.
MachoValid(data) ==
    data.kind = "macho" /\ \A k \in DOMAIN data.cmds : data.cmds[k].cmd # "truncated"
LinkedAt(kernel) ==
    {c.vmaddr : c \in {d \in Range(kernel.cmds) :
                         d.cmd = "entry" \/ (d.cmd = "segment" /\ d.filesize > 0)}}
BaseAddr(kernel) == IF LinkedAt(kernel) = {} THEN 0 ELSE Min(LinkedAt(kernel))
HasEntry(kernel) == Threads(kernel) # {}
EntryPoint(kernel) == IF HasEntry(kernel) THEN kernel.cmds[Max(Threads(kernel))].pc ELSE 0

Offset(kernel, slide, addr) == addr - BaseAddr(kernel) + slide

\* macho_load.  Segments of nothing, below the base or beyond RAM are left out.
Loadable(kernel, slide, ramSize, s) ==
    /\ s.filesize > 0 \/ s.vmsize > 0
    /\ s.vmaddr >= BaseAddr(kernel)
    /\ Offset(kernel, slide, s.vmaddr) + s.vmsize <= ramSize
Loaded(kernel, slide, ramSize) ==
    {k \in Segments(kernel) : Loadable(kernel, slide, ramSize, kernel.cmds[k])}
Covers(s, addr) == s.vmaddr <= addr /\ addr < s.vmaddr + s.vmsize

\* A segment that has contents fills its memory with them and zeros behind
\* them, here from their last byte on.
LoadSegmentCleared(s, addr) ==
    IF addr < s.vmaddr + s.filesize - 1 THEN <<"kernel", addr>> ELSE <<"zero">>
LoadSegment(s, addr) ==
    IF addr < s.vmaddr + s.filesize THEN <<"kernel", addr>> ELSE <<"zero">>
Fills(s, addr) ==
    s.filesize > 0 /\ addr \in s.vmaddr..(s.vmaddr + Max({s.vmsize, s.filesize}) - 1)

\* The segments are loaded in order: a cell has what the last one put there.
MachoHeld(kernel, slide, base, ramSize, held) ==
    LET linked(a) == a - base - slide + BaseAddr(kernel)
        filling(a) == {k \in Loaded(kernel, slide, ramSize) : Fills(kernel.cmds[k], linked(a))}
    IN  [a \in DOMAIN held |->
            IF kernel.fileset \/ filling(a) = {} THEN held[a]
            ELSE LoadSegment(kernel.cmds[Max(filling(a))], linked(a))]

\* The entry becomes physical only when a loaded segment covers it.  Of a
\* fileset nothing is loaded: nothing selects its kernel_core.
MachoEntry(kernel, slide, base, ramSize) ==
    LET entry == EntryPoint(kernel)
        inside == \E k \in Loaded(kernel, slide, ramSize) : Covers(kernel.cmds[k], entry)
    IN  CASE kernel.fileset -> 0
          [] ~kernel.fileset /\ HasEntry(kernel) /\ inside ->
               base + Offset(kernel, slide, entry)
          [] OTHER -> entry

-----------------------------------------------------------------------------
(* xnu_boot_state_t: the configuration, the kernel's and the tree's data,  *)
(* each with the buffer that holds it, and what the boot information says. *)
NoData == [data |-> Nothing, buffer |-> "none"]
NoInfo == [entry |-> 0, virtEntry |-> 0, virtBase |-> 0, slide |-> 0, tree |-> 0, args |-> 0,
           edited |-> NoNode, bootArgs |-> Nothing]
BootInit(config) ==
    [config |-> config, kernel |-> NoData, tree |-> NoData, info |-> NoInfo]

\* xnu_boot_load_kernel: a payload of another type leaves the container's own
\* bytes, which are no Mach-O.
KernelData(file) ==
    LET img4 == Img4Load(file)
    IN  IF img4.ok /\ img4.type \in {"KRNL", "RAW"}
        THEN [data |-> img4.data, buffer |-> IF img4.packed THEN "payload" ELSE "kernelFile"]
        ELSE [data |-> file.body, buffer |-> "kernelFile"]

\* xnu_boot_load_dtb: the payload is copied before the container is freed,
\* otherwise the caller's buffer is kept.
TreeDataShared(file) ==
    LET img4 == Img4Load(file)
    IN  IF img4.ok /\ img4.type \in {"DTRE", "RAW"}
        THEN [data |-> img4.data, buffer |-> IF img4.packed THEN "treePayload" ELSE "treeFile"]
        ELSE [data |-> file.body, buffer |-> "treeFile"]
TreeData(file) ==
    LET img4 == Img4Load(file)
    IN  IF img4.ok /\ img4.type \in {"DTRE", "RAW"}
        THEN [data |-> img4.data, buffer |-> "treeCopy"]
        ELSE [data |-> file.body, buffer |-> "treeFile"]

SlideOf(config) ==
    CASE config.slide = "auto" -> DefaultSlide [] config.slide = "off" -> 0

\* The tree that is serialized for the guest: the one supplied or a minimal
\* one, with what this machine is, without what it does not have.
MinimalTree ==
    LET root == SetProp(SetProp(NodeNew("/"), Prop("compatible", <<{}>>, 6)), Prop("model", 0, 8))
    IN  AddChild([p \in {<<>>} |-> root], <<>>, NodeNew("chosen"))
SuppliedTree(boot) ==
    IF boot.tree.data.kind = "blob" THEN LoadTree(boot.tree.data) ELSE NoNode
EditedTree(boot, base, ramSize) ==
    LET supplied == SuppliedTree(boot)
        tree == IF supplied = NoNode THEN MinimalTree ELSE supplied
    IN  FilterNodes(PopulateRuntime(tree, base, ramSize, boot.config.cmdline))

Put(held, from, size, what) ==
    [a \in DOMAIN held |-> IF a \in from..(from + size - 1) THEN <<what, a - from>> ELSE held[a]]

\* bootargs_setup_rev2 cuts a command line that does not fit, rev3 leaves it
\* out; the revision follows from the size of RAM unless it is configured.
BootArgsRev2(cmdline, tree) ==
    [rev |-> 2, tree |-> tree, cmdline |-> IF cmdline.fits THEN cmdline.text ELSE "cut"]
BootArgsRev3(cmdline, tree) ==
    [rev |-> 3, tree |-> tree, cmdline |-> IF cmdline.fits THEN cmdline.text ELSE "none"]

\* xnu_boot_setup: kernel, tree, boot arguments.
XnuSetup(boot, base, ramSize, held) ==
    LET kernel == boot.kernel.data
        slide == SlideOf(boot.config)
        entry == MachoEntry(kernel, slide, base, ramSize)
        tree == EditedTree(boot, base, ramSize)
        treeAt == base + ramSize - TreeRoom
        placed == Serializes(tree) /\ TreeCells < TreeRoom
        argsAt == base + ramSize - ArgsRoom
        rev3 == IF boot.config.rev # 0 THEN boot.config.rev = 3 ELSE ramSize >= Rev3Ram
        named == IF placed THEN treeAt ELSE 0
        args == IF rev3 THEN BootArgsRev3(boot.config.cmdline, named)
                        ELSE BootArgsRev2(boot.config.cmdline, named)
        withKernel == MachoHeld(kernel, slide, base, ramSize, held)
        withTree == IF placed THEN Put(withKernel, treeAt, TreeCells, "tree")
                    ELSE withKernel
    IN  CASE ~MachoValid(kernel) -> [ok |-> FALSE, held |-> held, boot |-> boot]
          [] MachoValid(kernel) /\ entry = 0 ->
               [ok |-> FALSE, held |-> withKernel, boot |-> boot]
          [] OTHER ->
             [ok |-> TRUE,
              held |-> Put(withTree, argsAt, ArgsCells, "args"),
              boot |-> [boot EXCEPT !.info =
                  [entry |-> entry, virtBase |-> BaseAddr(kernel), slide |-> slide,
                   virtEntry |-> IF HasEntry(kernel) THEN EntryPoint(kernel)
                                 ELSE BaseAddr(kernel),
                   tree |-> args.tree, args |-> argsAt,
                   edited |-> IF placed THEN tree ELSE NoNode, bootArgs |-> args]]]
=============================================================================
