--------------------------- MODULE MCAppleMachine ---------------------------
(* The machine of MCTcg started from its files: kernels, trees, back ends.    *)
EXTENDS AppleMachine, MCTcg

Segment(addr, size, contents) ==
    [cmd |-> "segment", vmaddr |-> addr, vmsize |-> size, filesize |-> contents]
Thread(pc) == [cmd |-> "thread", arm64 |-> TRUE, pc |-> pc]
Macho(cmds) == [kind |-> "macho", fileset |-> FALSE, cmds |-> cmds]

\* Data before text, BSS, a thread of another machine, too large a segment.
Kernel == Macho(<<Segment(216, 8, 4), Segment(208, 8, 8), [Thread(0) EXCEPT !.arm64 = FALSE],
                  Thread(212), Segment(224, 96, 4), Segment(0, 0, 0), Segment(200, 8, 0)>>)
Kernels ==
    <<Kernel,
     Macho(<<Segment(208, 8, 8), Thread(228), Segment(224, 20, 16)>>),  \* into the tree
     Macho(<<Segment(40, 8, 8), Thread(44)>>),                          \* not in kernel space
     Macho(<<Segment(208, 8, 8)>>),
     Macho(<<Segment(208, 8, 8), [cmd |-> "truncated"]>>),
     [Macho(<<[cmd |-> "entry", vmaddr |-> 208], Thread(212)>>) EXCEPT !.fileset = TRUE]>>

Container == [kind |-> "container"]
Chunk(type, body) == [type |-> type, inside |-> TRUE, packed |-> "no", body |-> body]
File(form, body, chunks) ==
    [form |-> form, wellFormed |-> TRUE, body |-> body, chunks |-> chunks]
Raw(body) == File("raw", body, <<>>)
Packed(chunk) == [chunk EXCEPT !.packed = "bvx2"]
KernelFiles ==
    [k \in DOMAIN Kernels |-> Raw(Kernels[k])]
    \o <<File("im4p", Container, <<Packed(Chunk("krnl", Kernel))>>),
          File("im4p", Container, <<[Chunk("krnl", Kernel) EXCEPT !.packed = "damaged"]>>),
          File("img4", Container, <<Chunk("krnl", Kernel), [Chunk("krnl", Kernel) EXCEPT !.inside = FALSE]>>),
          File("img4", Container, <<Chunk("krnl", Kernel), Chunk("dtre", Kernel)>>),
          File("der", Container, <<Chunk("krnl", Kernel)>>),
          [File("der", Container, <<>>) EXCEPT !.wellFormed = FALSE]>>

Begin(name) == [token |-> "begin", name |-> name]
Has(name, value) == [token |-> "prop", prop |-> Prop(name, value, 1)]
End == [token |-> "end"]
Blob(cells) == [kind |-> "blob", magic |-> TRUE, inside |-> TRUE, cells |-> cells]
Tree == Blob(<<Begin("/"), Has("pmp", 1),
               Begin("chosen"), Has("dram-base", 7), Has("dram-base", 9), End,
               Begin("arm-io"),
                 Begin("aic"), Has("compatible", <<{"aic,1"}>>), Has("encryptable", 1), End,
                 Begin("gpu"), Has("compatible", <<{"agx"}>>), End, [token |-> "nop"], End,
               Begin("isp"), Has("compatible", <<{"isp"}, {"dart"}>>), End,
               Begin("wdt"), Has("compatible", <<{"wdt", "other"}, {}>>), End, End>>)
NoRoot == Blob(<<End>>)
Large == Blob(<<Begin("/")>> \o [k \in 1..30 |-> Has(ToString(k), 0)] \o <<End>>)
Unfinished == Blob(<<Begin("/"), Begin("wdt"), Has("reg", 1), [token |-> "junk"], End, End>>)
Trees == <<Tree, NoRoot, Large, Unfinished, [Tree EXCEPT !.magic = FALSE]>>
TreeFiles ==
    [k \in DOMAIN Trees |-> Raw(Trees[k])]
    \o <<File("im4p", Container, <<Packed(Chunk("dtre", Tree))>>),
         File("der", Container, <<Chunk("dtre", Tree)>>),
         File("im4p", Container, <<Chunk("krnl", Kernel)>>),
         File("img4", Container, <<Packed(Chunk("dtre", Tree)), Chunk("dtre", Tree)>>)>>

CmdLine == [text |-> "-v", cells |-> 8, fits |-> TRUE]
Default == [cmdline |-> CmdLine, slide |-> "auto", rev |-> 0]
Base == [client |-> "cli", kernel |-> Raw(Kernel), tree |-> Nothing, boot |-> Default,
         cpus |-> 2, dry |-> FALSE, rootfs |-> FALSE, backends |-> <<"tcg">>]
BootProgram ==
    {[op |-> o] : o \in {"wfi", "nop", "unallocated"}}
    \cup {[op |-> "ldst", opc |-> o, size |-> 8, rn |-> 1, rt |-> 1, imm |-> 2] : o \in 0..1}
MCBootPrograms == <<BootProgram, BootProgram>>
Backends == <<<<>>, <<"tcg", "kvm">>, <<"hvf", "tcg">>>>
MCTasks ==
    {<<"guest">>}
    \cup {<<"kernel", k>> : k \in DOMAIN KernelFiles} \cup {<<"tree", 9>>}
    \cup {<<"backend", b, dry>> : b \in DOMAIN Backends, dry \in BOOLEAN}
    \cup {<<"loader", k, tree, slide, rev, fits>> :
            k \in {1, 7}, tree \in DOMAIN TreeFiles, slide \in {"auto", "off"},
            rev \in {0, 2, 3}, fits \in BOOLEAN}
MCSetups ==
    [t \in MCTasks |->
        CASE t[1] = "guest" -> [Base EXCEPT !.client = "guest"]
          [] t[1] = "kernel" -> [Base EXCEPT !.kernel = KernelFiles[t[2]]]
          [] t[1] = "tree" -> [Base EXCEPT !.tree = TreeFiles[t[2]]]
          [] t[1] = "backend" ->
               [Base EXCEPT !.backends = Backends[t[2]], !.dry = t[3],
                            !.tree = Raw(Tree), !.rootfs = TRUE]
          [] t[1] = "loader" ->
               [Base EXCEPT !.client = "loader", !.kernel = KernelFiles[t[2]],
                            !.tree = TreeFiles[t[3]],
                            !.boot = [cmdline |-> [CmdLine EXCEPT !.fits = t[6]],
                                      slide |-> t[4], rev |-> t[5]]]]
=============================================================================
