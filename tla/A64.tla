-------------------------------- MODULE A64 --------------------------------
(***************************************************************************)
(* Machine words and the part of the A64 instruction set the interpreter   *)
(* is compared with, written from the architecture's definitions: signed   *)
(* and unsigned integers for the flags, bit positions for the masks.       *)
(*                                                                         *)
(* A word is the set of the positions of its one bits.  A byte is one      *)
(* digit of a word: an X register of Width bytes has Width digits, its W   *)
(* half Width \div 2, and memory is the set of the addresses whose byte is *)
(* not zero.                                                               *)
(***************************************************************************)
EXTENDS Integers, FiniteSets, FiniteSetsExt

CONSTANTS Width,    \* digits of an X register
          Page,     \* bytes of a page, ADRP's unit
          Gpr       \* the general registers a program uses, out of 0..30

ZrSp == 31          \* register number 31: zero or the stack pointer
Link == 30

ASSUME A64Assumption == /\ Width \in {4, 8, 16, 32, 64}
                        /\ Page \in Nat \ {0}
                        /\ Gpr \subseteq 0..30
                        /\ Link \in Gpr

Bit == 0..(Width - 1)
Word == SUBSET Bit
Pow2[n \in Nat] == IF n = 0 THEN 1 ELSE 2 * Pow2[n - 1]
Modulus == Pow2[Width]
Flag == {"N", "Z", "C", "V"}

\* The digits of an integer, and the integer of the digits.
WordOf(n) == {b \in Bit : (n \div Pow2[b]) % 2 = 1}
Below(w) ==   \* what the digits below each place add up to
    LET below[k \in Nat] ==
            IF k = 0 THEN 0 ELSE below[k - 1] + (IF k - 1 \in w THEN Pow2[k - 1] ELSE 0)
    IN  below
Val == [w \in Word |-> Below(w)[Width]]
Low(w) == {b \in w : b < Width \div 2}
Digits(sf) == IF sf THEN Width ELSE Width \div 2
Xor(v, w) == (v \ w) \cup (w \ v)
Ones(n) == 0..(n - 1)
Lane == Width \div 4   \* what a move instruction writes

Shl(w, k) == {b + k : b \in {d \in w : d + k < Width}}
Shr(w, k) == {b - k : b \in {d \in w : d >= k}}

Wrap(n) == n % Modulus

(***************************************************************************)
(* The architecture.  A processor state is the interpreter's: registers x, *)
(* the stack pointers sp of the exception levels, flags nzcv, pc (already  *)
(* past the instruction) and the rest, which these instructions leave.     *)
(***************************************************************************)
Signed(n, sf) == LET m == Pow2[Digits(sf)] IN IF 2 * n >= m THEN n - m ELSE n

ReadZr(c, r) == IF r = ZrSp THEN {} ELSE c.x[r]
ReadSp(c, r) == IF r = ZrSp THEN c.sp[c.el] ELSE c.x[r]
WriteZr(c, r, w) == IF r = ZrSp THEN c ELSE [c EXCEPT !.x[r] = w]
WriteSp(c, r, w) == IF r = ZrSp THEN [c EXCEPT !.sp[c.el] = w]
                                ELSE [c EXCEPT !.x[r] = w]
Jump(c, n) == [c EXCEPT !.pc = Wrap(n)]

Narrow(w, sf) == IF sf THEN w ELSE Low(w)

\* The sum or difference of two integers of the operand width, with flags.
ArmSum(a, b, sub, sf) ==
    WordOf((IF sub THEN a - b ELSE a + b) % Pow2[Digits(sf)])
ArmFlags(a, b, sub, sf) ==
    LET r == Val[ArmSum(a, b, sub, sf)]
        exact == IF sub THEN Signed(a, sf) - Signed(b, sf)
                        ELSE Signed(a, sf) + Signed(b, sf)
    IN  {f \in Flag : \/ f = "N" /\ Signed(r, sf) < 0
                      \/ f = "Z" /\ r = 0
                      \/ f = "C" /\ IF sub THEN a >= b ELSE a + b >= Pow2[Digits(sf)]
                      \/ f = "V" /\ Signed(r, sf) # exact}

\* DecodeBitMasks: digit b of the mask of element size e, rotation r, length s.
ElementSize(n, imms) ==
    Max({e \in {2, 4, 8, 16, 32, 64} :
            e <= Width /\ \/ e = Width /\ n = 1
                          \/ e < Width /\ n = 0 /\ ((Width - 1 - imms) \div e) % 2 = 1}
        \cup {0})
ArmMaskAllocated(n, imms) ==
    LET e == ElementSize(n, imms) IN e > 0 /\ (imms % e) + 1 < e
ArmMask(n, immr, imms) ==
    LET e == ElementSize(n, imms)
    IN  {b \in Bit : (b + immr) % e <= imms % e}

ArmShift(w, type, k, sf) ==
    LET d == Digits(sf)
    IN  {b \in 0..(d - 1) :
            \/ type = "lsl" /\ b - k \in w
            \/ type = "lsr" /\ b + k \in w /\ b + k < d
            \/ type = "asr" /\ (IF b + k < d THEN b + k ELSE d - 1) \in w
            \/ type = "ror" /\ (b + k) % d \in w}
ArmLogic(opc, a, b) ==
    {d \in Bit : \/ opc \in {0, 3} /\ d \in a /\ d \in b
                 \/ opc = 1 /\ (d \in a \/ d \in b)
                 \/ opc = 2 /\ ((d \in a) # (d \in b))}

Bytes(mem, addr, size) == {k \in 0..(size - 1) : addr + k \in mem}
Stored(mem, addr, size, w) ==
    (mem \ (addr..(addr + size - 1)))
        \cup {addr + k : k \in {d \in w : d < size}}

\* The processor and the memory after instruction i.
Arch(c, mem, i) ==
    LET at == c.pc - 4
        Goes(new) == [cpu |-> new, mem |-> mem]
        base == Val[ReadSp(c, IF i.op \in {"ldst", "pair"} THEN i.rn ELSE ZrSp)]
    IN  CASE i.op = "adr" -> Goes(WriteZr(c, i.rd, WordOf(at + i.imm)))
        [] i.op = "adrp" ->
             Goes(WriteZr(c, i.rd, WordOf((at \div Page + i.imm) * Page)))
        [] i.op = "addImm" ->
             LET a == Val[ReadSp(c, i.rn)]
                 b == IF i.sh THEN i.imm * Page ELSE i.imm
                 r == ArmSum(a, b, i.sub, TRUE)
             IN  Goes(IF i.s THEN [WriteZr(c, i.rd, r) EXCEPT
                                     !.nzcv = ArmFlags(a, b, i.sub, TRUE)]
                             ELSE WriteSp(c, i.rd, r))
        [] i.op = "logicImm" ->
             LET r == ArmLogic(i.opc, ReadZr(c, i.rn), ArmMask(i.n, i.immr, i.imms))
             IN  Goes(IF i.opc = 3 THEN WriteZr(c, i.rd, r) ELSE WriteSp(c, i.rd, r))
        [] i.op = "moveWide" ->
             LET lane == {k \in Bit : k \div Lane = i.hw}
                 imm == {k \in lane : k % Lane \in i.imm}
             IN  Goes(WriteZr(c, i.rd,
                        CASE i.opc = 0 -> Bit \ imm
                          [] i.opc = 2 -> imm
                          [] i.opc = 3 -> (ReadZr(c, i.rd) \ lane) \cup imm))
        [] i.op = "addReg" /\ ~i.ext ->
             LET a == Val[Narrow(ReadZr(c, i.rn), i.sf)]
                 b == Val[ArmShift(ReadZr(c, i.rm), i.type, i.amt, i.sf)]
                 r == WriteZr(c, i.rd, ArmSum(a, b, i.sub, i.sf))
             IN  Goes(IF i.s THEN [r EXCEPT !.nzcv = ArmFlags(a, b, i.sub, i.sf)]
                             ELSE r)
        [] i.op = "logicReg" ->
             LET b == ArmShift(ReadZr(c, i.rm), i.type, i.amt, i.sf)
             IN  Goes(WriteZr(c, i.rd,
                        Narrow(ArmLogic(i.opc, ReadZr(c, i.rn),
                                        IF i.invert THEN Bit \ b ELSE b), i.sf)))
        [] i.op = "ldst" ->
             IF i.opc = 1
             THEN Goes(WriteZr(c, i.rt, Bytes(mem, base + i.imm * i.size, i.size)))
             ELSE [cpu |-> c, mem |-> Stored(mem, base + i.imm * i.size, i.size,
                                             ReadZr(c, i.rt))]
        [] i.op = "pair" ->
             LET e == Digits(i.sf)
                 addr == base + i.imm * e
             IN  IF i.load
                 THEN Goes(WriteZr(WriteZr(c, i.rt, Bytes(mem, addr, e)),
                                   i.rt2, Bytes(mem, addr + e, e)))
                 ELSE [cpu |-> c,
                       mem |-> Stored(Stored(mem, addr, e, ReadZr(c, i.rt)),
                                      addr + e, e, ReadZr(c, i.rt2))]
        [] i.op = "b" ->
             Goes(Jump(IF i.link THEN [c EXCEPT !.x[Link] = WordOf(c.pc)] ELSE c,
                       at + 4 * i.imm))
        [] i.op = "bcond" -> Goes(Jump(c, at + 4 * i.imm))
        [] i.op = "cbz" ->
             Goes(IF (Narrow(ReadZr(c, i.rt), i.sf) = {}) # i.nz
                  THEN Jump(c, at + 4 * i.imm) ELSE c)
        [] i.op = "tbz" ->
             Goes(IF (i.bit \in ReadZr(c, i.rt)) = i.nz
                  THEN Jump(c, at + 4 * i.imm) ELSE c)
        [] i.op = "br" ->
             Goes(Jump(IF i.kind = "blr" THEN [c EXCEPT !.x[Link] = WordOf(c.pc)] ELSE c,
                       Val[ReadZr(c, i.rn)]))
        [] i.op = "nop" -> Goes(c)
=============================================================================
