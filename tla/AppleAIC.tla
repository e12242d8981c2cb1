------------------------------ MODULE AppleAIC ------------------------------
(***************************************************************************)
(* The Apple Interrupt Controller, devices/apple-aic/apple_aic.c.          *)
(*                                                                         *)
(* Every public function and every register write that changes state is    *)
(* one action; the calls are made from one thread, so each is atomic.      *)
(* The mask registers are four groups: MASK_SET, MASK_CLR, SW_SET and      *)
(* SW_CLR.  A write numbers its interrupts from the start of the first     *)
(* group, so one to any other group numbers interrupts past the last: a    *)
(* MASK_CLR write only rescans, and SW_SET and SW_CLR writes do nothing.   *)
(* GLB_CFG is stored and consulted by nothing, so it is left out.          *)
(***************************************************************************)
EXTENDS Integers, FiniteSetsExt

CONSTANTS
  NumCpus,    (* aic->num_cpus, after the clamp of apple_aic_init          *)
  NumIrq,     (* APPLE_AIC_NUM_IRQ                                         *)
  IrqBase,    (* APPLE_AIC_IRQ_BASE, the first usable interrupt            *)
  NumIpi,     (* APPLE_AIC_NUM_IPI                                         *)
  None,       (* the -1 of pending_irq and active_irq                      *)
  CtrlValues, (* values the guest writes to CPU_CTRL                       *)
  IpiMasks,   (* values the guest writes to CPU_IPI_MASK                   *)
  GroupIrqs,  (* the interrupts of a group: 32 registers of 32 bits        *)
  MaskWrites  (* interrupts whose bits the guest writes in a MASK register *)

Cpu == 0 .. (NumCpus - 1)
Irq == 0 .. (NumIrq - 1)
Spi == IrqBase .. (NumIrq - 1)
Ipi == 0 .. (NumIpi - 1)
IrqState == {"INACTIVE", "PENDING", "ACTIVE", "ACTIVE_PENDING"}
Ctrl == [enabled : BOOLEAN, mask_all : BOOLEAN]

ASSUME AicConstants ==
  /\ NumCpus \in Nat \ {0}
  /\ NumIrq \in Nat /\ IrqBase \in Nat /\ NumIpi \in Nat
  /\ IrqBase + NumIpi <= NumIrq
  /\ None \notin Nat
  /\ CtrlValues \subseteq Ctrl
  /\ IpiMasks \subseteq SUBSET Ipi
  /\ MaskWrites \subseteq SUBSET Spi
  /\ GroupIrqs \in Nat /\ NumIrq <= IrqBase + GroupIrqs

VARIABLES
  irq,         (* aic->irq[]: state, enabled, masked                       *)
  cpu,         (* aic->cpu[]: enabled, mask_all, ipi_pending, ipi_mask     *)
  pending_irq, (* the interrupt latched for each CPU                       *)
  active_irq,  (* the interrupt each CPU acknowledged last                 *)
  callback,    (* aic->irq_callback # NULL                                 *)
  signal       (* ghost: per CPU, the interrupts the callback announced    *)
               (* and the CPU has not acknowledged since                   *)

vars == <<irq, cpu, pending_irq, active_irq, callback, signal>>

-----------------------------------------------------------------------------
(* apple_aic_init, then apple_aic_set_callback.                            *)

IdleIrq == [state |-> "INACTIVE", enabled |-> FALSE, masked |-> FALSE]
IdleCpu == [enabled |-> TRUE, mask_all |-> FALSE,
            ipi_pending |-> {}, ipi_mask |-> Ipi]

Init ==
  /\ irq = [i \in Irq |-> IdleIrq]
  /\ cpu = [c \in Cpu |-> IdleCpu]
  /\ pending_irq = [c \in Cpu |-> None]
  /\ active_irq = [c \in Cpu |-> None]
  /\ callback = TRUE
  /\ signal = [c \in Cpu |-> {}]

-----------------------------------------------------------------------------
(* The interrupt a pending source is routed to.  target_cpu is zeroed by   *)
(* apple_aic_init and stored to by nothing.                                *)

TargetCpu(i) == 0

Unmasked == {c \in Cpu : cpu[c].enabled /\ ~cpu[c].mask_all}

FindTargetCpu(i) ==
  IF TargetCpu(i) \in Cpu THEN TargetCpu(i)
  ELSE IF Unmasked # {} THEN Min(Unmasked) ELSE 0

Asserted(q) == q.state \in {"PENDING", "ACTIVE_PENDING"}

Deliverable(i) == Asserted(irq[i]) /\ irq[i].enabled /\ ~irq[i].masked

ReadyFor(c) ==
  {i \in Spi : /\ Deliverable(i)
               /\ FindTargetCpu(i) = c \/ TargetCpu(i) \notin Cpu}

(* aic_signal_cpu: announce interrupt i to CPU c.                          *)
SignalFirst(c, i) ==
  signal' = IF callback /\ signal[c] = {} THEN [signal EXCEPT ![c] = {i}]
                                          ELSE signal
Signal(c, i) ==
  signal' = IF callback THEN [signal EXCEPT ![c] = @ \cup {i}] ELSE signal

(* aic_update: the first CPU with a deliverable interrupt gets its lowest  *)
(* one latched and is signalled, and the scan stops there.  It runs on the *)
(* state the caller has just written, hence the primes.                    *)
Busy == {c \in Cpu : ReadyFor(c) # {}}
FirstBusy == Min(Busy)
FirstReady == Min(ReadyFor(FirstBusy))

AicUpdate ==
  \/ /\ Busy' = {}
     /\ pending_irq' = [c \in Cpu |-> None]
     /\ UNCHANGED signal
  \/ /\ Busy' # {}
     /\ pending_irq' = [c \in Cpu |-> IF c < FirstBusy' THEN None
                                     ELSE IF c = FirstBusy' THEN FirstReady'
                                     ELSE pending_irq[c]]
     /\ Signal(FirstBusy', FirstReady')

NoUpdate == UNCHANGED <<pending_irq, signal>>

-----------------------------------------------------------------------------
(* Devices: apple_aic_raise_irq and apple_aic_lower_irq.                   *)

RaisedState(s) == CASE s = "INACTIVE" -> "PENDING"
                    [] s = "ACTIVE"   -> "ACTIVE_PENDING"
                    [] OTHER          -> s

RaiseIrq(i) ==
  /\ irq' = [irq EXCEPT ![i].enabled = TRUE, ![i].state = RaisedState(@)]
  /\ UNCHANGED <<cpu, active_irq, callback>>
  /\ IF irq[i].state = "INACTIVE" THEN AicUpdate ELSE NoUpdate

(* The level flag is zeroed by apple_aic_init and set by nothing, so the   *)
(* call returns before it touches the interrupt.                           *)
Level(i) == FALSE

LoweredState(s) == CASE s = "PENDING"        -> "INACTIVE"
                     [] s = "ACTIVE_PENDING" -> "ACTIVE"
                     [] OTHER                -> s

LowerIrq(i) ==
  /\ irq' = IF Level(i) THEN [irq EXCEPT ![i].state = LoweredState(@)] ELSE irq
  /\ UNCHANGED <<cpu, active_irq, callback>>
  /\ IF Level(i) /\ irq[i].state = "PENDING" THEN AicUpdate ELSE NoUpdate

-----------------------------------------------------------------------------
(* CPUs: inter-processor interrupts, acknowledge, end of interrupt.        *)

(* apple_aic_send_ipi; a write to IPI_SET is the case n = 0.               *)
SendIpi(c, n) ==
  /\ cpu' = [cpu EXCEPT ![c].ipi_pending = @ \cup {n}]
  /\ Signal(c, IrqBase + n)
  /\ UNCHANGED <<irq, pending_irq, active_irq, callback>>

(* A write to IPI_CLR withdraws IPI 0.                                     *)
IpiClr(c) ==
  /\ cpu' = [cpu EXCEPT ![c].ipi_pending = @ \ {0}]
  /\ UNCHANGED <<irq, pending_irq, active_irq, callback, signal>>

IpiSelected(c) == Min(cpu[c].ipi_pending)

(* apple_aic_acknowledge, first half: an IPI is selected among those       *)
(* pending, once one of them is enabled by the mask.                       *)
AckIpi(c) ==
  LET n == IpiSelected(c)
      i == IrqBase + n
  IN  /\ cpu[c].ipi_pending \cap cpu[c].ipi_mask # {}
      /\ cpu' = [cpu EXCEPT ![c].ipi_pending = @ \ {n}]
      /\ active_irq' = [active_irq EXCEPT ![c] = i]
      /\ irq' = [irq EXCEPT ![i].state = "ACTIVE"]
      /\ signal' = [signal EXCEPT ![c] = @ \ {i}]
      /\ UNCHANGED <<pending_irq, callback>>

AckLatchPastEnd(c) == [pending_irq EXCEPT ![c] = NumIrq]
AckLatchKept(c) == pending_irq
AckLatch(c) == [pending_irq EXCEPT ![c] = None]

(* Second half: the latched interrupt becomes active.                      *)
AckDevice(c) ==
  LET i == pending_irq[c]
  IN  /\ cpu[c].ipi_pending \cap cpu[c].ipi_mask = {}
      /\ i # None
      /\ irq[i].state # "INACTIVE"
      /\ irq' = [irq EXCEPT ![i].state = "ACTIVE"]
      /\ active_irq' = [active_irq EXCEPT ![c] = i]
      /\ pending_irq' = AckLatch(c)
      /\ signal' = [signal EXCEPT ![c] = @ \ {i}]
      /\ UNCHANGED <<cpu, callback>>

Acknowledge(c) == AckIpi(c) \/ AckDevice(c)

RetiredStateStuck(s) == IF s = "ACTIVE_PENDING" THEN "PENDING" ELSE s
RetiredStateDropped(s) ==
  IF s \in {"ACTIVE", "ACTIVE_PENDING"} THEN "INACTIVE" ELSE s
RetiredState(s) == CASE s = "ACTIVE"         -> "INACTIVE"
                     [] s = "ACTIVE_PENDING" -> "PENDING"
                     [] OTHER                -> s

(* apple_aic_eoi: ignored unless i is what the CPU acknowledged last.      *)
EoiNoUpdate(c, i) ==
  /\ active_irq[c] = i
  /\ irq' = [irq EXCEPT ![i].state = RetiredState(@)]
  /\ active_irq' = [active_irq EXCEPT ![c] = None]
  /\ NoUpdate
  /\ UNCHANGED <<cpu, callback>>

Eoi(c, i) ==
  /\ active_irq[c] = i
  /\ irq' = [irq EXCEPT ![i].state = RetiredState(@)]
  /\ active_irq' = [active_irq EXCEPT ![c] = None]
  /\ UNCHANGED <<cpu, callback>>
  /\ AicUpdate

-----------------------------------------------------------------------------
(* Register writes of apple_aic_mmio_write.                                *)

CpuCtrlWrite(c, v) ==
  /\ cpu' = [cpu EXCEPT ![c].enabled = v.enabled, ![c].mask_all = v.mask_all]
  /\ UNCHANGED <<irq, active_irq, callback>>
  /\ AicUpdate

IpiMaskWrite(c, m) ==
  /\ cpu' = [cpu EXCEPT ![c].ipi_mask = m]
  /\ UNCHANGED <<irq, pending_irq, active_irq, callback, signal>>

(* The interrupts a write reaches that sets the bits of S in group g.      *)
Reached(g, S) == {i \in Irq : i - g * GroupIrqs \in S}

MaskSet(S) ==
  /\ irq' = [i \in Irq |-> IF i \in Reached(0, S)
                           THEN [irq[i] EXCEPT !.enabled = TRUE, !.masked = FALSE]
                           ELSE irq[i]]
  /\ UNCHANGED <<cpu, active_irq, callback>>
  /\ AicUpdate

MaskClr(S) ==
  /\ irq' = [i \in Irq |-> IF i \in Reached(1, S)
                           THEN [irq[i] EXCEPT !.masked = TRUE]
                           ELSE irq[i]]
  /\ UNCHANGED <<cpu, active_irq, callback>>
  /\ AicUpdate

(* A write to AIC_RST runs apple_aic_init, whose memset also clears        *)
(* irq_callback.                                                           *)
Reset ==
  /\ irq' = [i \in Irq |-> IdleIrq]
  /\ cpu' = [c \in Cpu |-> IdleCpu]
  /\ pending_irq' = [c \in Cpu |-> None]
  /\ active_irq' = [c \in Cpu |-> None]
  /\ callback' = FALSE
  /\ signal' = [c \in Cpu |-> {}]

Device == \E i \in Irq : RaiseIrq(i) \/ LowerIrq(i)

Processor ==
  \E c \in Cpu :
    \/ \E n \in Ipi : SendIpi(c, n)
    \/ IpiClr(c)
    \/ Acknowledge(c)
    \/ \E i \in Irq : Eoi(c, i)
    \/ \E v \in CtrlValues : CpuCtrlWrite(c, v)
    \/ \E m \in IpiMasks : IpiMaskWrite(c, m)

Registers == \E S \in MaskWrites : MaskSet(S) \/ MaskClr(S)

Next == Device \/ Processor \/ Registers \/ Reset

Spec == Init /\ [][Next]_vars

-----------------------------------------------------------------------------
(* Every variable has its C type.                                          *)
TypeOK ==
  /\ irq \in [Irq -> [state : IrqState, enabled : BOOLEAN, masked : BOOLEAN]]
  /\ cpu \in [Cpu -> [enabled : BOOLEAN, mask_all : BOOLEAN,
                      ipi_pending : SUBSET Ipi, ipi_mask : SUBSET Ipi]]
  /\ pending_irq \in [Cpu -> Spi \cup {None}]
  /\ active_irq \in [Cpu -> Spi \cup {None}]
  /\ callback \in BOOLEAN
  /\ signal \in [Cpu -> SUBSET Spi]

(* Interrupts whose number no IPI shares.                                  *)
OwnedSpi == (IrqBase + NumIpi) .. (NumIrq - 1)

(* No lost wake-up: whatever order devices raise, CPUs acknowledge, end    *)
(* and write their registers in, a pending, enabled interrupt leaves CPU   *)
(* 0, where all are routed, with a latched interrupt or with one in        *)
(* service whose EOI will rescan.                                          *)
PendingIsLatched ==
  (\E i \in Spi : /\ irq[i].state = "PENDING"
                  /\ irq[i].enabled /\ ~irq[i].masked)
    => pending_irq[0] # None \/ active_irq[0] # None

(* The latch is never stale: what a CPU will be given on its next          *)
(* acknowledge is still asserted, although any CPU may acknowledge, end    *)
(* or rescan between the latch and its use, so that no interrupt is taken  *)
(* twice for one raise.                                                    *)
LatchIsDeliverable ==
  \A c \in Cpu : pending_irq[c] \in OwnedSpi => Deliverable(pending_irq[c])

(* As long as the callback is installed, a latched interrupt has been      *)
(* announced to the CPU it is latched for.                                 *)
LatchWasSignalled ==
  callback => \A c \in Cpu : pending_irq[c] \in OwnedSpi =>
                               pending_irq[c] \in signal[c]

(* A pending interrupt stays pending until some CPU takes it: no raise,    *)
(* EOI, mask or IPI traffic may drop it, only a reset of the controller.   *)
Dropped(i) ==
  /\ Asserted(irq[i]) /\ ~Asserted(irq'[i])
  /\ ~ \E c \in Cpu : pending_irq[c] = i /\ active_irq'[c] = i

PendingOnlyTaken == [][\A i \in OwnedSpi : Dropped(i) => Reset]_vars

=============================================================================
