-------------------------------- MODULE Gic --------------------------------
(***************************************************************************)
(* The GICv3 of the Android machine, core/irq/gic.c.                       *)
(*                                                                         *)
(* One action per public function and per register write that changes what *)
(* is delivered.  A write with several bits set is the sequence of the     *)
(* one-bit writes.  Registers the code stores and consults for nothing     *)
(* (groups, configuration, WAKER, GICR_CTLR, GICR priorities, STATUSR) are *)
(* left out.  ITARGETSR, ICFGR and SGIR lie inside the range tested first  *)
(* for IPRIORITYR, so writes to them reach no interrupt: the targets of    *)
(* gic_init never change and gic_raise_sgi is reached only as a function.  *)
(***************************************************************************)
EXTENDS Naturals, FiniteSetsExt

CONSTANTS
  NumCpus,         (* gic->num_cpus                                        *)
  SgiCount,        (* GIC_SGI_COUNT: 0 .. SgiCount - 1 are SGIs            *)
  SpiBase,         (* GIC_SPI_BASE: below it SGIs and PPIs                 *)
  NumIrq,          (* GIC_MAX_IRQ                                          *)
  LowestPriority,  (* 0xFF, which no acknowledge selects                   *)
  DefaultPriority, (* 0xA0                                                 *)
  PriorityWrites,  (* <<interrupt, priority>>: IPRIORITYR writes           *)
  RouteWrites,     (* <<interrupt, CPU>>: IROUTER writes, CPU = value & 7  *)
  Written,         (* interrupts the guest enables and disables            *)
  Forced           (* interrupts whose state the guest writes              *)

Cpu == 0 .. (NumCpus - 1)
Irq == 0 .. (NumIrq - 1)
Sgi == 0 .. (SgiCount - 1)
Private == 0 .. (SpiBase - 1)
Spi == SpiBase .. (NumIrq - 1)
Priority == 0 .. LowestPriority
IrqState == {"INACTIVE", "PENDING", "ACTIVE", "ACTIVE_PENDING"}

ASSUME GicConstants ==
  /\ NumCpus \in Nat \ {0}
  /\ SgiCount \in Nat /\ SpiBase \in Nat /\ NumIrq \in Nat
  /\ SgiCount <= SpiBase /\ SpiBase <= NumIrq
  /\ LowestPriority \in Nat /\ DefaultPriority \in Priority \ {LowestPriority}
  /\ PriorityWrites \subseteq Irq \X Priority
  /\ RouteWrites \subseteq Spi \X Nat
  /\ Written \subseteq Irq /\ Forced \subseteq Irq

VARIABLES
  irq,     (* gic->irq[]: state, enabled, priority, route                  *)
  are_ns,  (* GICD_CTLR_ARE_NS in gic->gicd_ctlr                           *)
  redist,  (* gic->redist[]: the sets isenabler0 and ispendr0              *)
  signal   (* ghost: per CPU, the interrupts irq_callback announced to it  *)
           (* that were neither taken nor withdrawn since                  *)

gicVars == <<irq, are_ns, redist, signal>>

GicInit ==
  /\ irq = [i \in Irq |-> [state    |-> "INACTIVE",
                           enabled  |-> i \in Sgi,
                           priority |-> DefaultPriority,
                           route    |-> 0]]
  /\ are_ns = FALSE
  /\ redist = [c \in Cpu |-> [isenabler0 |-> Private, ispendr0 |-> {}]]
  /\ signal = [c \in Cpu |-> {}]

-----------------------------------------------------------------------------
Asserted(q) == q.state \in {"PENDING", "ACTIVE_PENDING"}

(* The CPUs an SPI is delivered to: gic_init leaves targets 0.             *)
Targets(i) == IF are_ns THEN {irq[i].route} ELSE {}

(* Withdraw interrupt i from every CPU it was announced to.                *)
Withdraw(i) == [c \in Cpu |-> signal[c] \ {i}]

(* gic_raise_spi                                                           *)
RaisedSpi(q) == [q EXCEPT !.state = "PENDING"]

AnnounceIfIdle(i) ==
  [c \in Cpu |-> IF c \in Targets(i) /\ irq[i].state = "INACTIVE"
                 THEN signal[c] \cup {i} ELSE signal[c]]
Announce(i) == [c \in Cpu |-> IF c \in Targets(i) THEN signal[c] \cup {i} ELSE signal[c]]

RaiseSpi(i) ==
  /\ irq' = IF irq[i].enabled THEN [irq EXCEPT ![i] = RaisedSpi(@)] ELSE irq
  /\ signal' = IF irq[i].enabled THEN Announce(i) ELSE signal
  /\ UNCHANGED <<are_ns, redist>>

(* gic_lower_spi                                                           *)
LowerSpi(i) ==
  /\ irq' = [irq EXCEPT ![i].state = "INACTIVE"]
  /\ signal' = Withdraw(i)
  /\ UNCHANGED <<are_ns, redist>>

(* gic_raise_sgi                                                           *)
RaiseSgi(i, c) ==
  /\ irq' = [irq EXCEPT ![i].state = "PENDING"]
  /\ signal' = [signal EXCEPT ![c] = @ \cup {i}]
  /\ UNCHANGED <<are_ns, redist>>

-----------------------------------------------------------------------------
(* gic_acknowledge_irq: of the interrupts a CPU may take, the first of the *)
(* highest priority.  With none the call returns 1023 and changes nothing. *)

Eligible(c) ==
  {i \in Irq : /\ irq[i].state = "PENDING" /\ irq[i].enabled
               /\ irq[i].priority < LowestPriority
               /\ i \in Spi => c \in Targets(i)}

Urgent(c) ==
  {i \in Eligible(c) : \A j \in Eligible(c) : irq[i].priority <= irq[j].priority}

Selected(c) == Min(Urgent(c))

Acknowledge(c) ==
  /\ Eligible(c) # {}
  /\ irq' = [irq EXCEPT ![Selected(c)].state = "ACTIVE"]
  /\ signal' = [signal EXCEPT ![c] = @ \ {Selected(c)}]
  /\ UNCHANGED <<are_ns, redist>>

(* gic_eoi: no CPU has to have acknowledged what it ends.                  *)
RetiredStateAlways(s) == "INACTIVE"
RetiredState(s) == CASE s = "ACTIVE"         -> "INACTIVE"
                     [] s = "ACTIVE_PENDING" -> "PENDING"
                     [] OTHER                -> s

Eoi(i) ==
  /\ irq' = [irq EXCEPT ![i].state = RetiredState(@)]
  /\ UNCHANGED <<are_ns, redist, signal>>

-----------------------------------------------------------------------------
(* Writes to the distributor, gicd_mmio_write.                             *)

CtlrWrite(b) ==
  /\ are_ns' = b
  /\ UNCHANGED <<irq, redist, signal>>

EnableWrite(i, b) ==      (* GICD_ISENABLER, GICD_ICENABLER                *)
  /\ irq' = [irq EXCEPT ![i].enabled = b]
  /\ UNCHANGED <<are_ns, redist, signal>>

PriorityWriteWide(i, p) ==
  /\ irq' = [irq EXCEPT ![i].priority = p + LowestPriority + 1]
  /\ UNCHANGED <<are_ns, redist, signal>>

PriorityWrite(i, p) ==    (* GICD_IPRIORITYR                               *)
  /\ irq' = [irq EXCEPT ![i].priority = p]
  /\ UNCHANGED <<are_ns, redist, signal>>

RouteWrite(i, r) ==       (* GICD_IROUTER                                  *)
  /\ irq' = [irq EXCEPT ![i].route = r]
  /\ UNCHANGED <<are_ns, redist, signal>>

PendedState(s) == CASE s = "INACTIVE" -> "PENDING"
                    [] s = "ACTIVE"   -> "ACTIVE_PENDING"
                    [] OTHER          -> s
UnpendedState(s) == CASE s = "PENDING"        -> "INACTIVE"
                      [] s = "ACTIVE_PENDING" -> "ACTIVE"
                      [] OTHER                -> s
ActivatedStateDropped(s) == "ACTIVE"
ActivatedState(s) == CASE s = "INACTIVE" -> "ACTIVE"
                       [] s = "PENDING"  -> "ACTIVE_PENDING"
                       [] OTHER          -> s

SetPending(i) ==          (* GICD_ISPENDR                                  *)
  /\ irq' = [irq EXCEPT ![i].state = PendedState(@)]
  /\ UNCHANGED <<are_ns, redist, signal>>

ClearPending(i) ==        (* GICD_ICPENDR                                  *)
  /\ irq' = [irq EXCEPT ![i].state = UnpendedState(@)]
  /\ signal' = Withdraw(i)
  /\ UNCHANGED <<are_ns, redist>>

SetActive(i) ==           (* GICD_ISACTIVER                                *)
  /\ irq' = [irq EXCEPT ![i].state = ActivatedState(@)]
  /\ UNCHANGED <<are_ns, redist, signal>>

(* Writes to the redistributor of CPU c, gicr_mmio_write.                  *)

RedistEnable(c, i) ==     (* GICR_ISENABLER0                               *)
  /\ redist' = [redist EXCEPT ![c].isenabler0 = @ \cup {i}]
  /\ UNCHANGED <<irq, are_ns, signal>>

RedistDisable(c, i) ==    (* GICR_ICENABLER0                               *)
  /\ redist' = [redist EXCEPT ![c].isenabler0 = @ \ {i}]
  /\ UNCHANGED <<irq, are_ns, signal>>

RedistSetPending(c, i) == (* GICR_ISPENDR0                                 *)
  /\ redist' = [redist EXCEPT ![c].ispendr0 = @ \cup {i}]
  /\ irq' = [irq EXCEPT ![i].state = PendedState(@)]
  /\ UNCHANGED <<are_ns, signal>>

RedistClearPending(c, i) == (* GICR_ICPENDR0                               *)
  /\ redist' = [redist EXCEPT ![c].ispendr0 = @ \ {i}]
  /\ irq' = [irq EXCEPT ![i].state = UnpendedState(@)]
  /\ signal' = Withdraw(i)
  /\ UNCHANGED are_ns

-----------------------------------------------------------------------------
Devices == \E i \in Spi : RaiseSpi(i) \/ LowerSpi(i)

Processor ==
  \/ \E c \in Cpu : Acknowledge(c)
  \/ \E i \in Irq : Eoi(i)
  \/ \E i \in Sgi, c \in Cpu : RaiseSgi(i, c)

Distributor ==
  \/ \E b \in BOOLEAN : CtlrWrite(b)
  \/ \E i \in Written, b \in BOOLEAN : EnableWrite(i, b)
  \/ \E w \in PriorityWrites : PriorityWrite(w[1], w[2])
  \/ \E w \in RouteWrites : RouteWrite(w[1], w[2])
  \/ \E i \in Forced : SetPending(i) \/ ClearPending(i) \/ SetActive(i)

Redistributor ==
  \E c \in Cpu :
    \/ \E i \in Private \cap Written : RedistEnable(c, i) \/ RedistDisable(c, i)
    \/ \E i \in Private \cap Forced : RedistSetPending(c, i) \/ RedistClearPending(c, i)

GicNext == Devices \/ Processor \/ Distributor \/ Redistributor

GicSpec == GicInit /\ [][GicNext]_gicVars

-----------------------------------------------------------------------------
(* Every variable has its C type, and a route names a CPU number.          *)
GicTypeOK ==
  /\ irq \in [Irq -> [state : IrqState, enabled : BOOLEAN,
                      priority : Priority, route : Nat]]
  /\ are_ns \in BOOLEAN
  /\ redist \in [Cpu -> [isenabler0 : SUBSET Private, ispendr0 : SUBSET Private]]
  /\ signal \in [Cpu -> SUBSET Irq]

(* An SPI that is pending stays so until the device lowers it, the guest   *)
(* clears it or the CPU it is routed to takes it: neither an EOI, which    *)
(* any CPU may write for any interrupt, nor marking it active, nor another *)
(* CPU's acknowledge drops it.                                             *)
SpiPendingKept ==
  [][\A i \in Spi :
       Asserted(irq[i]) /\ ~Asserted(irq'[i])
         => \/ LowerSpi(i) \/ ClearPending(i)
            \/ \E c \in Targets(i) \cap Cpu : Acknowledge(c)]_gicVars

=============================================================================
