------------------------------- MODULE MCTcg -------------------------------
(* Words of eight digits, RAM at 64..111, the kernel linked at 208 and loaded *)
(* at 72, devices at 16..31.                                                  *)
EXTENDS TcgCpu

MCGpr == {0, 1, 30}
MCDeviceValues == {{0, 3}}
Values == {0, 1, 127, 128, 255, 72, 216, 20}
Start(a, b, flags, mmu) ==
    [x |-> [r \in MCGpr |-> WordOf(IF r = 0 THEN a ELSE IF r = 1 THEN b ELSE 88)],
     sp |-> WordOf(96), nzcv |-> flags, mmu |-> mmu, pc |-> IF mmu THEN 216 ELSE 80]
MCStarts ==
    {Start(a, b, {}, TRUE) : a \in Values, b \in {0, 1, 128, 255}}
    \cup {Start(a, b, {"C", "V"}, TRUE) : a \in {0, 255}, b \in {1, 128}}
    \cup {Start(72, 72, {"N"}, FALSE)}

Regs == {<<0, 1>>, <<1, ZrSp>>, <<ZrSp, 0>>}
Arithmetic ==
    {[op |-> "addImm", sf |-> sf, sub |-> m, s |-> s, rd |-> r[1], rn |-> r[2],
      tag |-> h[1], sh |-> h[2], imm |-> h[3]] :
        sf \in BOOLEAN, m \in BOOLEAN, s \in BOOLEAN, r \in Regs,
        h \in {<<FALSE, FALSE, 0>>, <<FALSE, FALSE, 1>>, <<FALSE, FALSE, 8>>,
               <<FALSE, TRUE, 1>>, <<TRUE, FALSE, 8>>}}
    \cup
    {[op |-> "addReg", sf |-> sf, sub |-> m, s |-> s, rd |-> r[1], rn |-> r[2], rm |-> 1,
      ext |-> h[3], type |-> h[1], amt |-> h[2]] :
        sf \in BOOLEAN, m \in BOOLEAN, s \in BOOLEAN, r \in Regs,
        h \in {<<"lsl", 0, FALSE>>, <<"lsl", 1, FALSE>>, <<"lsr", 1, FALSE>>,
               <<"asr", 2, FALSE>>, <<"lsl", 2, TRUE>>}}
Logic ==
    {[op |-> "logicReg", sf |-> sf, opc |-> o, invert |-> v, rd |-> 1, rn |-> 0, rm |-> 1,
      type |-> h[1], amt |-> h[2]] :
        sf \in BOOLEAN, o \in 0..3, v \in BOOLEAN, h \in {<<"lsl", 0>>, <<"ror", 3>>, <<"asr", 1>>}}
    \cup
    {[op |-> "moveWide", opc |-> o, hw |-> h, imm |-> {0}, rd |-> d] :
        o \in 0..3, h \in {0, 3}, d \in {0, ZrSp}}
    \cup {[op |-> "extract", opc |-> 0, hw |-> 2, imm |-> {1}, rd |-> 0]}
    \cup
    {[op |-> "bitfield", opc |-> o, n |-> 1, immr |-> r, imms |-> s, rd |-> 0, rn |-> 1] :
        o \in 0..2, r \in {1, 4, 6}, s \in {0, 3, 7}}
Masks ==
    {[op |-> "logicImm", opc |-> 0, n |-> n, immr |-> r, imms |-> s, rd |-> 0, rn |-> 0] :
        n \in 0..1, r \in 0..7, s \in 0..7}
    \cup
    {[op |-> "logicImm", opc |-> o, n |-> 0, immr |-> 1, imms |-> 5, rd |-> d, rn |-> 1] :
        o \in 0..3, d \in {0, ZrSp}}
Memory ==
    {[op |-> "ldst", opc |-> o, size |-> z, rn |-> n, rt |-> 1, imm |-> 0] :
        o \in 0..3, z \in {1, 8}, n \in {0, ZrSp}}
    \cup
    {[op |-> "pair", sf |-> sf, load |-> l, indexed |-> x, rn |-> n, rt |-> 0, rt2 |-> 1,
      imm |-> -1] :
        sf \in BOOLEAN, l \in BOOLEAN, x \in BOOLEAN, n \in {0, ZrSp}}
Branches ==
    {[op |-> "bcond", cond |-> k, imm |-> 2] : k \in 0..15}
    \cup {[op |-> "b", link |-> l, imm |-> k] : l \in BOOLEAN, k \in {-1, 2}}
    \cup {[op |-> "cbz", sf |-> sf, nz |-> z, rt |-> t, imm |-> 2] :
            sf \in BOOLEAN, z \in BOOLEAN, t \in {0, ZrSp}}
    \cup {[op |-> "tbz", bit |-> b, nz |-> z, rt |-> 0, imm |-> -1] :
            b \in {0, 7}, z \in BOOLEAN}
    \cup {[op |-> "br", kind |-> k, rn |-> n] : k \in {"br", "blr", "ret"}, n \in {0, 30}}
System ==
    {[op |-> "mrs", rt |-> 0, key |-> k] : k \in {CurrentEl, Sctlr, SpEl0}}
    \cup {[op |-> "msr", rt |-> 0, key |-> k] : k \in {Sctlr, Elr, SpEl1}}
    \cup {[op |-> "msrImm", op1 |-> k, crm |-> c, op2 |-> o] :
            k \in {3, 7}, c \in {1, 2}, o \in 6..7}
    \cup {[op |-> o] : o \in {"eret", "svc", "wfi", "nop", "unallocated"}}
    \cup {[op |-> o, imm |-> k, rd |-> d] : o \in {"adr", "adrp"}, k \in {-2, 1}, d \in {0, ZrSp}}
    \cup {[op |-> "adrp", imm |-> 1, rd |-> 1]}

First == Arithmetic \cup Logic \cup Masks \cup Memory \cup Branches \cup System
Second ==
    Memory \cup Branches
    \cup {i \in Arithmetic : i.op = "addReg" /\ i.sf /\ i.rn # ZrSp /\ i.amt = 0}
    \cup {[op |-> "eret"]}
MCPrograms == <<First, Second>>
=============================================================================
