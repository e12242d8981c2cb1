------------------------------- MODULE TcgCpu -------------------------------
(***************************************************************************)
(* The software CPU: one vCPU of the interpreter in hypervisor/tcg under   *)
(* the loop of sv_machine_apple_run.                                       *)
(*                                                                         *)
(* tcg_step fetches at pc, advances pc by 4 and gives the instruction to   *)
(* tcg_decode_exec, one operator below per branch of that function.  The   *)
(* branches overlap where the decoder takes two instruction classes for    *)
(* one: a record's op is the class an assembler means and Exec the branch  *)
(* the decoder sends it to.  tcg_vcpu_run repeats tcg_step until an exit;  *)
(* the machine's loop comes back after every exit but HLT and an error.    *)
(*                                                                         *)
(* The #if 0 of tcg_decode.c:433 has no #endif.  The module reads it as    *)
(* closed behind the trace block it opens (line 438).                      *)
(***************************************************************************)
EXTENDS A64, Sequences

CONSTANTS RamBase, RamSize,          \* the machine's RAM
          KernelSpace,               \* lowest address of TTBR1 space
          VirtBase, PhysBase,        \* the linear mapping of a running guest
          PairLow, PairHigh,         \* the device window LDP looks for
          Programs,                  \* Programs[k]: what instruction k of a guest may be
          DeviceValues,              \* what a device register may answer
          Starts                     \* register files a program starts from

\* The fields of an instruction, with the values the encoding has room for.
\* Of an immediate that is added sh, bit 22, is the shift and tag, bit 23, the
\* mark of another class; of a register that is added ext, bit 21, says that
\* it is extended, by what lies in the place of a shift and its amount.
Reg == Gpr \cup {ZrSp}
Shift == {"lsl", "lsr", "asr", "ror"}
SysKey == (2..3) \X (0..7) \X (0..15) \X (0..15) \X (0..7)
Insn ==
    [op : {"adr", "adrp"}, rd : Reg, imm : Int]
    \cup [op : {"addImm"}, sf : BOOLEAN, sub : BOOLEAN, s : BOOLEAN, rd : Reg, rn : Reg,
          tag : BOOLEAN, sh : BOOLEAN, imm : 0..(Page - 1)]
    \cup [op : {"addReg"}, sf : BOOLEAN, sub : BOOLEAN, s : BOOLEAN, rd : Reg, rn : Reg,
          rm : Reg, ext : BOOLEAN, type : Shift, amt : Bit]
    \cup [op : {"logicReg"}, sf : BOOLEAN, opc : 0..3, invert : BOOLEAN, rd : Reg, rn : Reg,
          rm : Reg, type : Shift, amt : Bit]
    \cup [op : {"logicImm", "bitfield"}, opc : 0..3, n : 0..1, immr : Bit, imms : Bit,
          rd : Reg, rn : Reg]
    \cup [op : {"moveWide", "extract"}, opc : 0..3, hw : 0..3, imm : SUBSET Ones(Lane), rd : Reg]
    \cup [op : {"ldst"}, opc : 0..3, size : 1..Width, rn : Reg, rt : Reg, imm : Nat]
    \cup [op : {"pair"}, sf : BOOLEAN, load : BOOLEAN, indexed : BOOLEAN, rn : Reg, rt : Reg,
          rt2 : Reg, imm : Int]
    \cup [op : {"bcond"}, cond : 0..15, imm : Int]
    \cup [op : {"b"}, link : BOOLEAN, imm : Int]
    \cup [op : {"cbz"}, sf : BOOLEAN, nz : BOOLEAN, rt : Reg, imm : Int]
    \cup [op : {"tbz"}, bit : Bit, nz : BOOLEAN, rt : Reg, imm : Int]
    \cup [op : {"br"}, kind : {"br", "blr", "ret"}, rn : Reg]
    \cup [op : {"mrs", "msr"}, rt : Reg, key : SysKey]
    \cup [op : {"msrImm"}, op1 : 0..7, crm : 0..15, op2 : 0..7]
    \cup [op : {"eret", "svc", "wfi", "nop", "unallocated"}]

\* RAM lies below kernel space, the device window below RAM.
ASSUME TcgAssumption ==
    /\ RamBase \in Nat /\ RamSize \in Nat
    /\ KernelSpace \in Nat /\ Modulus \in Nat /\ Page * Page <= Modulus
    /\ RamBase + RamSize < KernelSpace /\ KernelSpace <= Modulus
    /\ PairHigh \in Nat /\ PairHigh <= RamBase
    /\ Programs \in Seq(SUBSET Insn)
    /\ Starts \subseteq [x : [Gpr -> Word], sp : Word, nzcv : SUBSET Flag, mmu : BOOLEAN, pc : Nat]

VARIABLES cpu,     \* tcg_vcpu_t
          linear,  \* tcg_mmu_set_identity_map: where the kernel was linked and lies
          ram,     \* addresses of the bytes that are not zero
          mode,    \* where the run loops are
          answer,  \* what the last device read returned
          insn,    \* the last instruction
          count    \* instructions executed

vars == <<cpu, linear, ram, mode, answer, insn, count>>

MaxInsns == Len(Programs)  \* bound: instructions executed

(* System registers, as <<op0, op1, CRn, CRm, op2>>. *)
CurrentEl == <<3, 0, 4, 2, 2>>
Sctlr == <<3, 0, 1, 0, 0>>
Elr == <<3, 0, 4, 0, 1>>
Spsr == <<3, 0, 4, 0, 0>>
SpEl0 == <<3, 0, 4, 1, 0>>
SpEl1 == <<3, 4, 4, 1, 0>>
Settable == {Sctlr, Elr, Spsr, SpEl0}
    \cup {<<3, 0, 2, 0, 0>>, <<3, 0, 2, 0, 1>>, <<3, 0, 2, 0, 2>>,      \* TTBR0, TTBR1, TCR
          <<3, 0, 10, 2, 0>>, <<3, 0, 12, 0, 0>>,                       \* MAIR, VBAR
          <<3, 3, 14, 0, 0>>, <<3, 3, 14, 3, 1>>, <<3, 3, 14, 3, 2>>}   \* CNTFRQ, CNTV_*
Constant ==
    {<<3, 0, 5, 2, 0>>, <<3, 0, 6, 0, 0>>, <<3, 0, 0, 0, 0>>,           \* ESR, FAR, MIDR
     <<3, 0, 0, 7, 0>>, <<3, 0, 0, 4, 0>>, <<3, 0, 0, 6, 0>>,           \* ID_AA64*
     <<3, 0, 0, 0, 5>>, <<3, 3, 14, 0, 2>>}                             \* MPIDR, CNTVCT

\* tcg_decode_exec takes bits 19..5 of the instruction, fifteen bits; the
\* handlers look for op0 two bits above them.
SysregField(key) ==
    (key[1] % 2) * 2^14 + key[2] * 2^11 + key[3] * 2^7 + key[4] * 2^3 + key[5]
HandlerKey(sysreg) ==
    <<(sysreg \div 2^17) % 4, (sysreg \div 2^14) % 8, (sysreg \div 2^10) % 16,
      (sysreg \div 2^6) % 16, (sysreg \div 2^3) % 8>>

(* Translation and memory. *)
TranslateIdentity(addr) ==
    IF addr >= KernelSpace /\ addr >= linear.virt
    THEN Wrap(linear.phys + (addr - linear.virt))
    ELSE addr
Phys(c, addr) ==
    IF 0 \in c.sys[Sctlr] /\ linear.virt # 0 THEN TranslateIdentity(addr) ELSE addr
InRam(addr, size) == addr >= RamBase /\ addr + size <= RamBase + RamSize
IsMmio(phys, size) == phys < RamBase \/ Wrap(phys + size) > RamBase + RamSize

FetchFails(c) ==
    LET phys == Phys(c, c.pc)
    IN  \/ 0 \in c.sys[Sctlr] /\ (phys < RamBase \/ phys >= RamBase + RamSize)
        \/ Wrap(Wrap(phys - RamBase) + 4) > RamSize

(* What one instruction leaves: the vCPU, the RAM and how tcg_step ends. *)
Then(c, mem, end) == [cpu |-> c, mem |-> mem, end |-> end]
Unimplemented(c, mem) == Then(c, mem, "error")

\* Behind the last of the registers lies pc.
WriteX(c, r, w) == IF r = ZrSp THEN [c EXCEPT !.pc = Val[w]] ELSE [c EXCEPT !.x[r] = w]

\* The decoder shifts by a page's twelve places when bit 23 is set, not 22.
Immediate(i) == IF i.tag THEN i.imm * Page ELSE i.imm

AddSub(c, i, a, b) ==
    LET r == WordOf(IF i.sub THEN Val[a] - Val[b] ELSE Val[a] + Val[b])
        b1 == IF i.sub THEN WordOf(-Val[b]) ELSE b
        flags == {f \in Flag : \/ f = "N" /\ Width - 1 \in r
                               \/ f = "Z" /\ r = {}
                               \/ f = "C" /\ Val[r] < Val[a]
                               \/ f = "V" /\ Width - 1 \in Xor(a, r) \cap Xor(b1, r)}
        out == IF i.sf THEN r ELSE Low(r)
    IN  IF i.s THEN [WriteZr(c, i.rd, out) EXCEPT !.nzcv = flags]
               ELSE WriteSp(c, i.rd, out)

\* The logical shift's mask left on an arithmetic one.
ShiftedUnsigned(w, type, k) ==
    CASE type = "lsl" -> Shl(w, k)
      [] type \in {"lsr", "asr"} -> Shr(w, k)
      [] type = "ror" -> Shr(w, k) \cup Shl(w, Width - k)
Shifted(w, type, k) ==
    CASE type = "lsl" -> Shl(w, k)
      [] type = "lsr" -> Shr(w, k)
      [] type = "asr" -> Shr(w, k) \cup
                         (IF Width - 1 \in w THEN (Width - k)..(Width - 1) ELSE {})
      [] type = "ror" -> Shr(w, k) \cup Shl(w, Width - k)

Combine(opc, a, b) ==
    CASE opc \in {0, 3} -> a \cap b [] opc = 1 -> a \cup b [] opc = 2 -> Xor(a, b)
SetNz(c, r) ==
    [c EXCEPT !.nzcv = (@ \cap {"C", "V"})
        \cup (IF Width - 1 \in r THEN {"N"} ELSE {}) \cup (IF r = {} THEN {"Z"} ELSE {})]
LogicResult(c, i, r) ==
    IF i.opc = 3 THEN SetNz(WriteZr(c, i.rd, r), r) ELSE WriteSp(c, i.rd, r)

\* logical_imm_valid, logical_imm_decode.
LeadingBit(n, imms) ==
    Max({k \in 0..6 : ((n * Width + (Width - 1 - imms)) \div Pow2[k]) % 2 = 1} \cup {-1})
LogicalImmValid(n, imms) ==
    LET size == Pow2[LeadingBit(n, imms)]
    IN  LeadingBit(n, imms) >= 0 /\ (imms % size) # size - 1
Rotated(w, k, size) ==
    IF k = 0 \/ size <= 1 THEN w ELSE (Shr(w, k) \cup Shl(w, size - k)) \cap Ones(size)
LogicalImm(n, immr, imms) ==
    LET size == Pow2[LeadingBit(n, imms)]
        element == Rotated(Ones((imms % size) + 1), immr % size, size)
    IN  {b \in Bit : b % size \in element}

\* Bit 21 of the instruction, the top bit of immr, chooses the bitfield.  The
\* mask of Width ones is 1 << Width, undefined; the hosts the interpreter is
\* written for shift by zero.
FieldMask(imms) == IF imms + 1 = Width THEN {} ELSE Ones(imms + 1)
Bitfield(c, i) ==
    LET src == ReadZr(c, i.rn)
        immr == i.immr % (Width \div 2)
        field == Shr(src, immr) \cap FieldMask(i.imms)
    IN  WriteZr(c, i.rd,
          CASE i.opc = 2 /\ immr = 0 /\ i.imms = Width - 1 -> src
            [] i.opc = 0 -> field \cup (IF i.imms \in field
                                        THEN Bit \ FieldMask(i.imms) ELSE {})
            [] i.opc = 1 -> (ReadZr(c, i.rd) \ FieldMask(i.imms)) \cup field
            [] OTHER -> field)
LogicalOrBitfield(c, mem, i) ==
    IF i.immr >= Width \div 2 /\ i.opc # 3 THEN Then(Bitfield(c, i), mem, "next")
    ELSE IF LogicalImmValid(i.n, i.imms)
    THEN Then(LogicResult(c, i, Combine(i.opc, ReadZr(c, i.rn),
                                        LogicalImm(i.n, i.immr, i.imms))), mem, "next")
    ELSE Unimplemented(c, mem)

MoveWide(c, mem, i) ==
    LET imm == Shl(i.imm, Lane * i.hw)
        lane == Shl(Ones(Lane), Lane * i.hw)
    IN  CASE i.opc = 1 -> Unimplemented(c, mem)
          [] i.opc = 0 -> Then(WriteSp(c, i.rd, Bit \ imm), mem, "next")
          [] i.opc = 2 -> Then(WriteSp(c, i.rd, imm), mem, "next")
          [] i.opc = 3 -> Then(WriteSp(c, i.rd, (ReadSp(c, i.rd) \ lane) \cup imm),
                               mem, "next")

\* tcg_mmu_resolve: a device access calls the machine and ends in an exit;
\* the value a device read returned stays in a local of the decoder.
LoadStore(c, mem, i) ==
    LET addr == Wrap(Val[ReadSp(c, i.rn)] + i.imm * i.size)
        phys == Phys(c, addr)
        isLoad == i.opc \in {1, 3}
    IN  CASE IsMmio(phys, i.size) -> Then(c, mem, IF isLoad THEN "read" ELSE "write")
          [] ~InRam(phys, i.size) -> Then(c, mem, "wild")
          [] isLoad -> Then(WriteZr(c, i.rt, Bytes(mem, phys, i.size)), mem, "next")
          [] OTHER -> Then(c, Stored(mem, phys, i.size, ReadZr(c, i.rt)), "next")

\* Neither translated nor checked against the size of RAM, and without the
\* write back of the indexed forms.
LoadStorePair(c, mem, i) ==
    LET e == Digits(i.sf)
        addr == Wrap(Val[ReadSp(c, i.rn)] + i.imm * e)
    IN  CASE i.load /\ addr >= PairLow /\ addr < PairHigh -> Then(c, mem, "pairRead")
          [] ~InRam(addr, 2 * e) -> Then(c, mem, "wild")
          [] i.load -> Then(WriteSp(WriteSp(c, i.rt, Bytes(mem, addr, e)),
                                    i.rt2, Bytes(mem, addr + e, e)), mem, "next")
          [] OTHER -> Then(c, Stored(Stored(mem, addr, e, ReadZr(c, i.rt)),
                                     addr + e, e, ReadZr(c, i.rt2)), "next")

(* Branches.  pc is already past the instruction. *)
Target(c, i) == c.pc - 4 + 4 * i.imm
Linked(c) == [c EXCEPT !.x[Link] = WordOf(c.pc)]

\* The N and V bits are compared in place: they are equal only when both are 0.
Taken(c, cond) ==
    LET same == {"N", "V"} \cap c.nzcv = {}
        hi == "C" \in c.nzcv /\ "Z" \notin c.nzcv
        odd == cond % 2 = 1
    IN  CASE cond \div 2 = 0 -> odd = ("Z" \in c.nzcv)
          [] cond \div 2 = 1 -> odd = ("C" \in c.nzcv)
          [] cond \div 2 = 2 -> odd = ("N" \in c.nzcv)
          [] cond \div 2 = 3 -> odd = ("V" \in c.nzcv)
          [] cond \div 2 = 4 -> odd = hi
          [] cond \div 2 = 5 -> odd = same
          [] cond \div 2 = 6 -> odd = (same /\ "Z" \notin c.nzcv)
          [] cond \div 2 = 7 -> TRUE
CondBranch(c, i) == IF Taken(c, i.cond) THEN Jump(c, Target(c, i)) ELSE c
CompareBranch(c, i) ==
    LET w == ReadZr(c, i.rt)
    IN  IF ((IF i.sf THEN w ELSE Low(w)) # {}) = i.nz THEN Jump(c, Target(c, i)) ELSE c
TestBranch(c, i) ==
    IF (i.bit \in ReadZr(c, i.rt)) = i.nz THEN Jump(c, Target(c, i)) ELSE c
RegBranch(c, i) ==
    LET target == Val[ReadZr(c, i.rn)]
    IN  Jump(IF i.kind = "blr" THEN Linked(c) ELSE c, target)

(* System instructions. *)
Mrs(c, i) ==
    LET key == HandlerKey(SysregField(i.key))
    IN  IF i.rt # ZrSp /\ key \in DOMAIN c.sys \cup {CurrentEl}
        THEN [c EXCEPT !.x[i.rt] = IF key = CurrentEl THEN WordOf(4 * c.el)
                                   ELSE IF key = SpEl0 THEN c.sp[0] ELSE c.sys[key]]
        ELSE c
Msr(c, i) ==
    LET key == HandlerKey(SysregField(i.key))
    IN  CASE key = SpEl0 -> [c EXCEPT !.sp[0] = ReadZr(c, i.rt)]
          [] key = SpEl1 -> [c EXCEPT !.sp[1] = ReadZr(c, i.rt)]
          [] key \in Settable \ {SpEl0} -> [c EXCEPT !.sys[key] = ReadZr(c, i.rt)]
          [] OTHER -> c
\* Bits 8..7 are taken for the operation and bits 18..16, op1, for the mask.
MsrImm(c, i) ==
    LET op == 2 * (i.crm % 2) + i.op2 \div 4
        mask == {b \in 0..3 : (i.op1 \div Pow2[b]) % 2 = 1}
    IN  CASE op = 3 -> [c EXCEPT !.daif = @ \cup mask]
          [] op = 2 -> [c EXCEPT !.daif = @ \ mask]
          [] OTHER -> c
\* spsr_el1 becomes the whole of pstate; its word is kept zero (see Msr).
Eret(c) ==
    [c EXCEPT !.pc = Val[c.sys[Elr]], !.el = 0, !.nzcv = {}, !.daif = {}]

Exec(c, mem, i) ==
    CASE i.op = "adr" ->
           IF i.imm % 4 \in {0, 1}
           THEN Then(WriteX(c, i.rd, WordOf(c.pc - 4 + i.imm)), mem, "next")
           ELSE Unimplemented(c, mem)
      [] i.op = "adrp" ->
           Then(WriteX(c, i.rd, WordOf(((c.pc - 4) \div Page) * Page + i.imm * Page)),
                mem, "next")
      [] i.op = "addImm" ->
           IF i.sf THEN Then(AddSub(c, i, ReadSp(c, i.rn), WordOf(Immediate(i))), mem, "next")
                   ELSE Unimplemented(c, mem)
      [] i.op \in {"logicImm", "bitfield"} -> LogicalOrBitfield(c, mem, i)
      [] i.op \in {"moveWide", "extract"} -> MoveWide(c, mem, i)
      [] i.op = "addReg" ->   \* whatever ext
           Then(AddSub(c, i, ReadSp(c, i.rn), Shifted(ReadZr(c, i.rm), i.type, i.amt)),
                mem, "next")
      [] i.op = "logicReg" ->
           LET b == Shifted(ReadZr(c, i.rm), i.type, i.amt)
               r == Combine(i.opc, ReadZr(c, i.rn), IF i.invert THEN Bit \ b ELSE b)
           IN  Then(LogicResult(c, i, IF i.sf THEN r ELSE Low(r)), mem, "next")
      [] i.op = "ldst" -> LoadStore(c, mem, i)
      [] i.op = "pair" -> LoadStorePair(c, mem, i)
      [] i.op = "b" ->
           Then(Jump(IF i.link THEN Linked(c) ELSE c, Target(c, i)), mem, "next")
      [] i.op = "bcond" -> Then(CondBranch(c, i), mem, "next")
      [] i.op = "cbz" -> Then(CompareBranch(c, i), mem, "next")
      [] i.op = "tbz" -> Then(TestBranch(c, i), mem, "next")
      [] i.op = "br" -> Then(RegBranch(c, i), mem, "next")
      [] i.op = "mrs" -> Then(Mrs(c, i), mem, "next")
      [] i.op = "msr" -> Then(Msr(c, i), mem, "next")
      [] i.op = "msrImm" -> Then(MsrImm(c, i), mem, "next")
      [] i.op = "eret" -> Then(Eret(c), mem, "next")
      [] i.op \in {"svc", "wfi"} -> Then(c, mem, "halt")
      [] i.op = "nop" -> Then(c, mem, "next")
      [] OTHER -> Unimplemented(c, mem)

-----------------------------------------------------------------------------
\* tcg_vcpu_create, the registers the machine sets and, with mmu,
\* tcg_vcpu_enable_mmu: EL1, interrupts masked.
VcpuAt(start) ==
    [x |-> start.x, sp |-> [e \in 0..1 |-> IF e = 1 THEN start.sp ELSE {}],
     nzcv |-> start.nzcv, daif |-> 0..3, el |-> 1, pc |-> start.pc,
     sys |-> [key \in Settable \cup Constant |->
                 IF key = Sctlr /\ start.mmu THEN {0, 2} ELSE {}]]

TcgInit ==
    /\ \E start \in Starts : cpu = VcpuAt(start)
    /\ linear = [virt |-> VirtBase, phys |-> PhysBase]
    /\ ram = {}
    /\ mode = "running"
    /\ answer = {}
    /\ insn = [op |-> "none"]
    /\ count = 0

(* One turn of tcg_vcpu_run's loop. *)
Step(i) ==
    LET done == Exec([cpu EXCEPT !.pc = Wrap(@ + 4)], ram, i)
    IN  /\ mode = "running" /\ ~FetchFails(cpu)
        /\ cpu' = done.cpu /\ ram' = done.mem
        /\ mode' = CASE done.end = "next" -> "running"
                     [] done.end \in {"read", "write", "pairRead"} -> "mmio"
                     [] OTHER -> done.end
        /\ IF done.end = "read" THEN answer' \in DeviceValues ELSE UNCHANGED answer
        /\ insn' = i
        /\ count' = count + 1
        /\ UNCHANGED linear

FetchError ==
    /\ mode = "running" /\ FetchFails(cpu)
    /\ mode' = "error"
    /\ UNCHANGED <<cpu, linear, ram, answer, insn, count>>

(* The next tcg_vcpu_run: the machine needs nothing more of a device exit. *)
Resume ==
    /\ mode \in {"off", "mmio"}
    /\ mode' = "running"
    /\ UNCHANGED <<cpu, linear, ram, answer, insn, count>>

Next == \/ count < MaxInsns /\ \E i \in Programs[count + 1] : Step(i)
        \/ FetchError
        \/ Resume

Spec == TcgInit /\ [][Next]_vars

-----------------------------------------------------------------------------
(* Properties. *)

Ends == {"off", "running", "mmio", "halt", "error", "wild"}

\* The forms the interpreter executes like the architecture: the condition AL
\* only, no word form whose result depends on the upper half, no shifted
\* immediate and no extended register in a sum, no zero or least subtrahend
\* under S, register 31 only where it is the stack pointer of both, memory in
\* RAM, pairs without an index, EL1.
Faithful(c, i) ==
    LET plain(r) == r # ZrSp
        address == Val[ReadSp(c, i.rn)]
        subtrahend == IF i.op = "addImm" THEN WordOf(Immediate(i))
                      ELSE Shifted(ReadZr(c, i.rm), i.type, i.amt)
    IN  \/ i.op \in {"cbz", "tbz", "b", "br", "nop"}
        \/ i.op = "adrp" /\ plain(i.rd)
        \/ i.op = "adr" /\ plain(i.rd) /\ i.imm % 4 \in {0, 1}
        \/ i.op = "addImm" /\ i.sf /\ ~i.tag /\ ~i.sh /\ (i.s /\ i.sub => subtrahend \notin {{}, {Width - 1}})
        \/ i.op = "addReg" /\ ~i.ext /\ plain(i.rn) /\ plain(i.rd)
              /\ (i.sf \/ (i.type = "lsl" /\ ~i.s))
              /\ (i.s /\ i.sub => subtrahend \notin {{}, {Width - 1}})
        \/ i.op = "logicReg" /\ plain(i.rd) /\ i.opc # 3 /\ (i.sf \/ i.type = "lsl")
        \/ i.op = "logicImm" /\ ArmMaskAllocated(i.n, i.imms)
              /\ i.opc # 3 /\ i.immr < Width \div 2
        \/ i.op = "moveWide" /\ plain(i.rd) /\ i.opc # 1
        \/ i.op = "bcond" /\ i.cond \div 2 = 7
        \/ i.op = "ldst" /\ i.opc \in 0..1 /\ InRam(address + i.imm * i.size, i.size)
        \/ i.op = "pair" /\ plain(i.rt) /\ plain(i.rt2) /\ ~i.indexed
              /\ InRam(address + i.imm * Digits(i.sf), 2 * Digits(i.sf))

\* An instruction of those forms leaves the registers, the flags, pc and the
\* memory the architecture says it leaves, and the interpreter runs on.
ExecutesA64 ==
    [][(count' # count /\ Faithful(cpu, insn')) =>
         LET arch == Arch([cpu EXCEPT !.pc = Wrap(@ + 4)], ram, insn')
         IN  cpu' = arch.cpu /\ ram' = arch.mem /\ mode' = "running"]_vars

\* hypervisor/tcg/README.md:131: after a load from a device the result of
\* the machine's read is returned and execution continues.
DeviceReadReturns ==
    [][(mode = "running" /\ mode' = "mmio" /\ insn'.op = "ldst" /\ insn'.rt # ZrSp)
         => (insn'.opc = 1 => cpu'.x[insn'.rt] = answer')]_vars
=============================================================================
