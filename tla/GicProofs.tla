------------------------------ MODULE GicProofs ------------------------------
(* Theorems about Gic and GicGuest, for every number of CPUs, SGIs, PPIs   *)
(* and SPIs, every range of priorities, every set of register writes and   *)
(* any number of raises by the devices.                                    *)
EXTENDS GicGuest, WellFoundedInduction, TLAPS

-----------------------------------------------------------------------------
(* A nonempty set of naturals has a least element, so Min is one of its    *)
(* members.  The GIC selects by Min.                                       *)
LessThanNat == {p \in Nat \X Nat : p[1] < p[2]}

(* The order on the naturals is well founded, in the form the next lemma   *)
(* needs it.                                                               *)
LEMMA LessThanWF == IsWellFoundedOn(LessThanNat, Nat)
  BY NatLessThanWellFounded DEF OpToRel, LessThanNat

(* Min of a nonempty set of naturals belongs to the set and bounds it.     *)
LEMMA MinIsLeast ==
  ASSUME NEW S \in SUBSET Nat, S # {}
  PROVE  Min(S) \in S /\ \A y \in S : Min(S) <= y
<1>1. PICK x \in S : \A y \in S : <<y, x>> \notin LessThanNat
  BY LessThanWF, WFMin
<1>2. \A y \in S : x <= y
  <2>1. \A y \in S : ~ (y < x)
    BY <1>1 DEF LessThanNat
  <2> QED
    BY <2>1
<1> QED
  BY <1>2 DEF Min

(* The fields of one interrupt.                                            *)
IrqType == [state : IrqState, enabled : BOOLEAN, priority : Priority, route : Nat]

LEMMA InitHasType == GicInit => GicTypeOK
<1> SUFFICES ASSUME GicInit PROVE GicTypeOK
  OBVIOUS
<1>1. irq \in [Irq -> IrqType]
  <2> DEFINE enabled(i) == i \in Sgi
  <2>1. \A i \in Irq : enabled(i) \in BOOLEAN
    OBVIOUS
  <2>2. "INACTIVE" \in IrqState /\ 0 \in Nat /\ DefaultPriority \in Priority
    BY GicConstants DEF IrqState
  <2>3. irq = [i \in Irq |-> [state |-> "INACTIVE", enabled |-> enabled(i),
                             priority |-> DefaultPriority, route |-> 0]]
    BY DEF GicInit
  <2> HIDE DEF enabled
  <2> QED
    BY <2>1, <2>2, <2>3 DEF IrqType
<1> QED
  BY <1>1 DEF GicInit, GicTypeOK, IrqType

LEMMA DevicesKeepType ==
  ASSUME GicTypeOK, Devices
  PROVE  GicTypeOK'
<1>1. ASSUME NEW i \in Spi, RaiseSpi(i)
      PROVE  GicTypeOK'
  <2>1. irq' \in [Irq -> IrqType]
    BY <1>1 DEF RaiseSpi, RaisedSpi, GicTypeOK, IrqType, IrqState
  <2>2. signal' \in [Cpu -> SUBSET Irq]
    BY <1>1, GicConstants DEF RaiseSpi, Announce, GicTypeOK, Spi, Irq
  <2> QED
    BY <1>1, <2>1, <2>2 DEF RaiseSpi, GicTypeOK, IrqType
<1>2. ASSUME NEW i \in Spi, LowerSpi(i)
      PROVE  GicTypeOK'
  BY <1>2 DEF LowerSpi, Withdraw, GicTypeOK, IrqState
<1> QED
  BY <1>1, <1>2 DEF Devices

LEMMA ProcessorKeepsType ==
  ASSUME GicTypeOK, Processor
  PROVE  GicTypeOK'
<1>1. ASSUME NEW c \in Cpu, Acknowledge(c)
      PROVE  GicTypeOK'
  BY <1>1 DEF Acknowledge, GicTypeOK, IrqState
<1>2. ASSUME NEW i \in Irq, Eoi(i)
      PROVE  GicTypeOK'
  <2>1. RetiredState(irq[i].state) \in IrqState
    BY DEF GicTypeOK, RetiredState, IrqState
  <2> QED
    BY <1>2, <2>1 DEF Eoi, GicTypeOK
<1>3. ASSUME NEW i \in Sgi, NEW c \in Cpu, RaiseSgi(i, c)
      PROVE  GicTypeOK'
  <2>1. i \in Irq
    BY GicConstants DEF Sgi, Irq
  <2>2. irq' \in [Irq -> IrqType]
    BY <1>3, <2>1 DEF RaiseSgi, GicTypeOK, IrqType, IrqState
  <2>3. signal' \in [Cpu -> SUBSET Irq]
    BY <1>3, <2>1 DEF RaiseSgi, GicTypeOK
  <2> QED
    BY <1>3, <2>2, <2>3 DEF RaiseSgi, GicTypeOK, IrqType
<1> QED
  BY <1>1, <1>2, <1>3 DEF Processor

LEMMA StateWritten ==
  ASSUME GicTypeOK, NEW i \in Irq
  PROVE  /\ PendedState(irq[i].state) \in IrqState
         /\ UnpendedState(irq[i].state) \in IrqState
         /\ ActivatedState(irq[i].state) \in IrqState
  BY DEF GicTypeOK, PendedState, UnpendedState, ActivatedState, IrqState

LEMMA DistributorKeepsType ==
  ASSUME GicTypeOK, Distributor
  PROVE  GicTypeOK'
<1>1. ASSUME NEW b \in BOOLEAN, CtlrWrite(b)
      PROVE  GicTypeOK'
  BY <1>1 DEF CtlrWrite, GicTypeOK
<1>2. ASSUME NEW i \in Written, NEW b \in BOOLEAN, EnableWrite(i, b)
      PROVE  GicTypeOK'
  BY <1>2 DEF EnableWrite, GicTypeOK
<1>3. ASSUME NEW w \in PriorityWrites, PriorityWrite(w[1], w[2])
      PROVE  GicTypeOK'
  <2>1. w[2] \in Priority
    BY GicConstants
  <2> QED
    BY <1>3, <2>1 DEF PriorityWrite, GicTypeOK
<1>4. ASSUME NEW w \in RouteWrites, RouteWrite(w[1], w[2])
      PROVE  GicTypeOK'
  <2>1. w[2] \in Nat
    BY GicConstants
  <2> QED
    BY <1>4, <2>1 DEF RouteWrite, GicTypeOK
<1>5. ASSUME NEW i \in Forced, SetPending(i) \/ ClearPending(i) \/ SetActive(i)
      PROVE  GicTypeOK'
  <2>1. i \in Irq
    BY GicConstants
  <2>2. CASE SetPending(i)
    BY <2>1, <2>2, StateWritten DEF SetPending, GicTypeOK
  <2>3. CASE ClearPending(i)
    BY <2>1, <2>3, StateWritten DEF ClearPending, Withdraw, GicTypeOK
  <2>4. CASE SetActive(i)
    BY <2>1, <2>4, StateWritten DEF SetActive, GicTypeOK
  <2> QED
    BY <1>5, <2>2, <2>3, <2>4
<1> QED
  BY <1>1, <1>2, <1>3, <1>4, <1>5 DEF Distributor

LEMMA RedistributorKeepsType ==
  ASSUME GicTypeOK, Redistributor
  PROVE  GicTypeOK'
<1>1. ASSUME NEW c \in Cpu, NEW i \in Private \cap Written,
             RedistEnable(c, i) \/ RedistDisable(c, i)
      PROVE  GicTypeOK'
  BY <1>1 DEF RedistEnable, RedistDisable, GicTypeOK
<1>2. ASSUME NEW c \in Cpu, NEW i \in Private \cap Forced,
             RedistSetPending(c, i) \/ RedistClearPending(c, i)
      PROVE  GicTypeOK'
  <2>1. i \in Irq /\ i \in Private
    BY GicConstants
  <2>2. CASE RedistSetPending(c, i)
    BY <2>1, <2>2, StateWritten DEF RedistSetPending, GicTypeOK
  <2>3. CASE RedistClearPending(c, i)
    BY <2>1, <2>3, StateWritten DEF RedistClearPending, Withdraw, GicTypeOK
  <2> QED
    BY <1>2, <2>2, <2>3
<1> QED
  BY <1>1, <1>2 DEF Redistributor

LEMMA NextKeepsType ==
  ASSUME GicTypeOK, [GicNext]_gicVars
  PROVE  GicTypeOK'
<1>1. CASE GicNext
  BY <1>1, DevicesKeepType, ProcessorKeepsType, DistributorKeepsType,
     RedistributorKeepsType DEF GicNext
<1>2. CASE UNCHANGED gicVars
  BY <1>2 DEF gicVars, GicTypeOK
<1> QED
  BY <1>1, <1>2

(* Every register and state field keeps its C type: in particular no       *)
(* priority leaves the byte it is written to (gicd_mmio_write).            *)
THEOREM GicTypeCorrect == GicSpec => []GicTypeOK
  BY InitHasType, NextKeepsType, PTL DEF GicSpec

-----------------------------------------------------------------------------
(* The scan of gic_acknowledge_irq: if a CPU may take an interrupt at all, *)
(* the one selected is one it may take.                                    *)
LEMMA SelectedIsEligible ==
  ASSUME GicTypeOK, NEW c \in Cpu, Eligible(c) # {}
  PROVE  Selected(c) \in Eligible(c)
<1> DEFINE P == {irq[j].priority : j \in Eligible(c)}
<1>1. Eligible(c) \subseteq Irq /\ Irq \subseteq Nat /\ Priority \subseteq Nat
  BY GicConstants DEF Eligible, Irq, Priority
<1>2. \A j \in Irq : irq[j].priority \in Priority
  BY DEF GicTypeOK
<1>3. P \in SUBSET Nat /\ P # {}
  BY <1>1, <1>2
<1>4. Min(P) \in P /\ \A p \in P : Min(P) <= p
  BY <1>3, MinIsLeast
<1>5. PICK i \in Eligible(c) : irq[i].priority = Min(P)
  BY <1>4
<1>6. \A j \in Eligible(c) : irq[i].priority <= irq[j].priority
  BY <1>4, <1>5
<1>7. Urgent(c) # {} /\ Urgent(c) \in SUBSET Nat
  BY <1>1, <1>5, <1>6 DEF Urgent
<1>8. Selected(c) \in Urgent(c)
  BY <1>7, MinIsLeast DEF Selected
<1> QED
  BY <1>8 DEF Urgent

(* SpiPendingKept for one interrupt and one step.                          *)
KeptOrTaken(i) ==
  Asserted(irq[i]) /\ ~Asserted(irq'[i])
    => \/ LowerSpi(i) \/ ClearPending(i)
       \/ \E c \in Targets(i) \cap Cpu : Acknowledge(c)

LEMMA StepKeepsPending ==
  ASSUME GicTypeOK, GicNext, NEW i \in Spi
  PROVE  KeptOrTaken(i)
<1> SUFFICES ASSUME Asserted(irq[i]), ~Asserted(irq'[i])
             PROVE  \/ LowerSpi(i) \/ ClearPending(i)
                    \/ \E c \in Targets(i) \cap Cpu : Acknowledge(c)
  BY DEF KeptOrTaken
<1>0. i \in Irq /\ i \notin Private /\ irq \in [Irq -> IrqType]
  BY GicConstants DEF Spi, Irq, Private, GicTypeOK, IrqType
<1>1. CASE Devices
  <2>1. ASSUME NEW j \in Spi, RaiseSpi(j) PROVE FALSE
    BY <1>0, <2>1 DEF RaiseSpi, RaisedSpi, Asserted, IrqType
  <2>2. ASSUME NEW j \in Spi, LowerSpi(j) PROVE LowerSpi(i)
    <3>1. i = j
      BY <1>0, <2>2 DEF LowerSpi, Asserted, IrqType
    <3> QED
      BY <2>2, <3>1
  <2> QED
    BY <1>1, <2>1, <2>2 DEF Devices
<1>2. CASE Processor
  <2>1. ASSUME NEW c \in Cpu, Acknowledge(c)
        PROVE  c \in Targets(i)
    <3>1. Selected(c) \in Eligible(c)
      BY <2>1, SelectedIsEligible DEF Acknowledge
    <3>2. i = Selected(c)
      BY <1>0, <2>1 DEF Acknowledge, Asserted, IrqType
    <3> QED
      BY <3>1, <3>2 DEF Eligible
  <2>2. ASSUME NEW j \in Irq, Eoi(j) PROVE FALSE
    BY <1>0, <2>2 DEF Eoi, RetiredState, Asserted, IrqType
  <2>3. ASSUME NEW j \in Sgi, NEW c \in Cpu, RaiseSgi(j, c) PROVE FALSE
    BY <1>0, <2>3 DEF RaiseSgi, Asserted, IrqType
  <2> QED
    BY <1>2, <2>1, <2>2, <2>3 DEF Processor
<1>3. CASE Distributor
  <2>1. ASSUME NEW b \in BOOLEAN, CtlrWrite(b) PROVE FALSE
    BY <2>1 DEF CtlrWrite
  <2>2. ASSUME NEW j \in Written, NEW b \in BOOLEAN, EnableWrite(j, b) PROVE FALSE
    BY <1>0, <2>2 DEF EnableWrite, Asserted, IrqType
  <2>3. ASSUME NEW w \in PriorityWrites, PriorityWrite(w[1], w[2]) PROVE FALSE
    BY <1>0, <2>3 DEF PriorityWrite, Asserted, IrqType
  <2>4. ASSUME NEW w \in RouteWrites, RouteWrite(w[1], w[2]) PROVE FALSE
    BY <1>0, <2>4 DEF RouteWrite, Asserted, IrqType
  <2>5. ASSUME NEW j \in Forced, SetPending(j) PROVE FALSE
    BY <1>0, <2>5 DEF SetPending, PendedState, Asserted, IrqType
  <2>6. ASSUME NEW j \in Forced, ClearPending(j) PROVE ClearPending(i)
    <3>1. i = j
      BY <1>0, <2>6 DEF ClearPending, Asserted, IrqType
    <3> QED
      BY <2>6, <3>1
  <2>7. ASSUME NEW j \in Forced, SetActive(j) PROVE FALSE
    BY <1>0, <2>7 DEF SetActive, ActivatedState, Asserted, IrqType
  <2> QED
    BY <1>3, <2>1, <2>2, <2>3, <2>4, <2>5, <2>6, <2>7 DEF Distributor
<1>4. CASE Redistributor
  <2>1. ASSUME NEW c \in Cpu, NEW j \in Private,
               RedistEnable(c, j) \/ RedistDisable(c, j)
        PROVE  FALSE
    BY <2>1 DEF RedistEnable, RedistDisable
  <2>2. ASSUME NEW c \in Cpu, NEW j \in Private,
               RedistSetPending(c, j) \/ RedistClearPending(c, j)
        PROVE  FALSE
    <3>1. i # j
      BY <1>0
    <3> QED
      BY <1>0, <2>2, <3>1 DEF RedistSetPending, RedistClearPending, Asserted, IrqType
  <2> QED
    BY <1>4, <2>1, <2>2 DEF Redistributor
<1> QED
  BY <1>1, <1>2, <1>3, <1>4 DEF GicNext

(* A pending SPI is dropped by nothing but its device, a clear by the      *)
(* guest, or the acknowledge of the CPU it is routed to (gic.c).           *)
THEOREM GicSpiPendingKept == GicSpec => SpiPendingKept
<1>1. GicTypeOK /\ [GicNext]_gicVars => [\A i \in Spi : KeptOrTaken(i)]_gicVars
  BY StepKeepsPending
<1>2. [\A i \in Spi : KeptOrTaken(i)]_gicVars
      => [\A i \in Spi :
            Asserted(irq[i]) /\ ~Asserted(irq'[i])
              => \/ LowerSpi(i) \/ ClearPending(i)
                 \/ \E c \in Targets(i) \cap Cpu : Acknowledge(c)]_gicVars
  BY DEF KeptOrTaken
<1> QED
  BY <1>1, <1>2, GicTypeCorrect, PTL DEF GicSpec, SpiPendingKept

-----------------------------------------------------------------------------
(* A kernel's calls.  It may enable an SPI that is not in Written, so its  *)
(* steps are not all steps of GicNext.                                     *)

KernelSetup ==
  \/ ~are_ns /\ CtlrWrite(TRUE)
  \/ are_ns /\ \E i \in Spi, b \in BOOLEAN : EnableWrite(i, b)
  \/ \E w \in PriorityWrites : PriorityWrite(w[1], w[2])
  \/ \E w \in RouteWrites : /\ irq[w[1]].state = "INACTIVE"
                            /\ ~irq[w[1]].enabled
                            /\ RouteWrite(w[1], w[2])

(* A CPU ends only what it has acknowledged.                               *)
ServiceType == in_service \in [Cpu -> Irq \cup {None}]

(* Why no announcement is lost: SPIs are enabled only once affinity        *)
(* routing is on, so one that became pending was announced where it is     *)
(* routed, and no route changes while it is pending.  Nothing a kernel     *)
(* does makes a private interrupt pending or an interrupt active and       *)
(* pending at once.                                                        *)
RoutedBeforeEnabled == ~are_ns => \A i \in Spi : ~irq[i].enabled
PendingAnnounced ==
  \A i \in Irq :
    /\ irq[i].state # "ACTIVE_PENDING"
    /\ irq[i].state = "PENDING" => i \in Spi /\ are_ns
    /\ irq[i].state = "PENDING" /\ irq[i].route \in Cpu => i \in signal[irq[i].route]
KernelInv == kernel => RoutedBeforeEnabled /\ PendingAnnounced

GuestInv == GicTypeOK /\ ServiceType /\ KernelInv

LEMMA RangesAreIrqs ==
  /\ Spi \subseteq Irq
  /\ Spi \cap Private = {}
  /\ \A w \in PriorityWrites : w[1] \in Irq /\ w[2] \in Priority
  /\ \A w \in RouteWrites : w[1] \in Spi /\ w[2] \in Nat
<1>1. Spi \subseteq Irq /\ Spi \cap Private = {}
  BY GicConstants DEF Spi, Irq, Private
<1>2. \A w \in PriorityWrites : w[1] \in Irq /\ w[2] \in Priority
  BY GicConstants
<1>3. \A w \in RouteWrites : w[1] \in Spi /\ w[2] \in Nat
  BY GicConstants
<1> QED
  BY <1>1, <1>2, <1>3

(* What a kernel writes keeps every type.                                  *)
LEMMA EnableKeepsType ==
  ASSUME GicTypeOK, NEW i \in Spi, NEW b \in BOOLEAN, EnableWrite(i, b)
  PROVE  GicTypeOK'
  BY RangesAreIrqs DEF EnableWrite, GicTypeOK

LEMMA GuestKeepsType ==
  ASSUME GicTypeOK, ServiceType, [GuestNext]_guestVars
  PROVE  GicTypeOK' /\ ServiceType'
<1>1. CASE AnyCall
  BY <1>1, NextKeepsType DEF AnyCall, kernelVars, ServiceType
<1>2. ASSUME NEW i \in Spi, GuestRaise(i) \/ GuestLower(i)
      PROVE  GicTypeOK' /\ ServiceType'
  <2>1. Devices
    BY <1>2 DEF GuestRaise, GuestLower, Devices
  <2> QED
    BY <1>2, <2>1, DevicesKeepType DEF GuestRaise, GuestLower, kernelVars, ServiceType
<1>3. CASE GuestSetup
  <2>1. ASSUME NEW i \in Spi, NEW b \in BOOLEAN, EnableWrite(i, b)
        PROVE  GicTypeOK'
    BY <2>1, EnableKeepsType
  <2>2. ASSUME \/ CtlrWrite(TRUE)
               \/ \E w \in PriorityWrites : PriorityWrite(w[1], w[2])
               \/ \E w \in RouteWrites : RouteWrite(w[1], w[2])
        PROVE  GicTypeOK'
    BY <2>2, DistributorKeepsType DEF Distributor
  <2> QED
    BY <1>3, <2>1, <2>2 DEF GuestSetup, kernelVars, ServiceType
<1>4. ASSUME NEW c \in Cpu, Take(c)
      PROVE  GicTypeOK' /\ ServiceType'
  <2>1. Processor
    BY <1>4 DEF Take, Processor
  <2>2. Selected(c) \in Irq
    BY <1>4, SelectedIsEligible DEF Take, Acknowledge, Eligible
  <2> QED
    BY <1>4, <2>1, <2>2, ProcessorKeepsType DEF Take, ServiceType
<1>5. ASSUME NEW c \in Cpu, Finish(c)
      PROVE  GicTypeOK' /\ ServiceType'
  <2>1. in_service[c] \in Irq
    BY <1>5 DEF Finish, ServiceType
  <2>2. Processor
    BY <1>5, <2>1 DEF Finish, Processor
  <2> QED
    BY <1>5, <2>2, ProcessorKeepsType DEF Finish, ServiceType
<1>6. CASE UNCHANGED guestVars
  BY <1>6 DEF guestVars, gicVars, kernelVars, GicTypeOK, ServiceType
<1> QED
  BY <1>1, <1>2, <1>3, <1>4, <1>5, <1>6 DEF GuestNext

LEMMA GuestInitHolds == GuestInit => GuestInv
<1> SUFFICES ASSUME GuestInit PROVE GuestInv
  OBVIOUS
<1>1. GicTypeOK /\ ServiceType
  BY InitHasType DEF GuestInit, ServiceType
<1>2. \A i \in Irq : irq[i].state = "INACTIVE" /\ (irq[i].enabled <=> i \in Sgi)
  BY DEF GuestInit, GicInit
<1>3. RoutedBeforeEnabled
  <2>1. \A i \in Spi : i \in Irq /\ i \notin Sgi
    BY GicConstants DEF Spi, Irq, Sgi
  <2> QED
    BY <1>2, <2>1 DEF RoutedBeforeEnabled
<1>4. PendingAnnounced
  BY <1>2 DEF PendingAnnounced
<1> QED
  BY <1>1, <1>3, <1>4 DEF GuestInv, KernelInv

(* One call of a kernel keeps the two facts.                               *)
LEMMA RaiseIsAnnounced ==
  ASSUME GicTypeOK, RoutedBeforeEnabled, PendingAnnounced, NEW i \in Spi,
         RaiseSpi(i) \/ LowerSpi(i)
  PROVE  RoutedBeforeEnabled' /\ PendingAnnounced'
<1>0. irq \in [Irq -> IrqType] /\ signal \in [Cpu -> SUBSET Irq] /\ i \in Irq
  BY RangesAreIrqs DEF GicTypeOK, IrqType
<1>1. CASE RaiseSpi(i) /\ irq[i].enabled
  <2>1. are_ns
    BY <1>1 DEF RoutedBeforeEnabled
  <2>2. irq' = [irq EXCEPT ![i].state = "PENDING"] /\ are_ns' = are_ns
    BY <1>0, <1>1 DEF RaiseSpi, RaisedSpi
  <2>3. \A c \in Cpu : signal[c] \subseteq signal'[c]
    BY <1>0, <1>1 DEF RaiseSpi, Announce
  <2>4. irq[i].route \in Cpu => i \in signal'[irq[i].route]
    BY <1>0, <1>1, <2>1 DEF RaiseSpi, Announce, Targets
  <2>5. PendingAnnounced'
    <3> SUFFICES ASSUME NEW j \in Irq
                 PROVE  /\ irq'[j].state # "ACTIVE_PENDING"
                        /\ irq'[j].state = "PENDING" => j \in Spi /\ are_ns'
                        /\ irq'[j].state = "PENDING" /\ irq'[j].route \in Cpu
                             => j \in signal'[irq'[j].route]
      BY DEF PendingAnnounced
    <3>1. CASE j = i
      BY <1>0, <2>1, <2>2, <2>4, <3>1 DEF IrqType
    <3>2. CASE j # i
      <4>1. irq'[j] = irq[j]
        BY <1>0, <2>2, <3>2
      <4> QED
        BY <2>2, <2>3, <4>1 DEF PendingAnnounced
    <3> QED
      BY <3>1, <3>2
  <2> QED
    BY <2>1, <2>2, <2>5 DEF RoutedBeforeEnabled
<1>2. CASE RaiseSpi(i) /\ ~irq[i].enabled
  BY <1>2 DEF RaiseSpi, RoutedBeforeEnabled, PendingAnnounced
<1>3. CASE LowerSpi(i)
  <2>1. irq' = [irq EXCEPT ![i].state = "INACTIVE"] /\ are_ns' = are_ns
    BY <1>3 DEF LowerSpi
  <2>2. \A j \in Irq : /\ irq'[j].enabled = irq[j].enabled
                       /\ irq'[j].route = irq[j].route
                       /\ j # i => irq'[j] = irq[j]
    BY <1>0, <2>1 DEF IrqType
  <2>3. irq'[i].state = "INACTIVE"
    BY <1>0, <2>1 DEF IrqType
  <2>4. \A c \in Cpu, j \in Irq : j # i /\ j \in signal[c] => j \in signal'[c]
    BY <1>3 DEF LowerSpi, Withdraw
  <2>5. RoutedBeforeEnabled'
    BY <2>1, <2>2, RangesAreIrqs DEF RoutedBeforeEnabled
  <2>6. PendingAnnounced'
    BY <2>1, <2>2, <2>3, <2>4 DEF PendingAnnounced
  <2> QED
    BY <2>5, <2>6
<1> QED
  BY <1>1, <1>2, <1>3

LEMMA SetupKeepsAnnounced ==
  ASSUME GicTypeOK, RoutedBeforeEnabled, PendingAnnounced, KernelSetup
  PROVE  RoutedBeforeEnabled' /\ PendingAnnounced'
<1>0. irq \in [Irq -> IrqType]
  BY DEF GicTypeOK, IrqType
<1>1. CASE ~are_ns /\ CtlrWrite(TRUE)
  BY <1>1 DEF CtlrWrite, RoutedBeforeEnabled, PendingAnnounced
<1>2. ASSUME are_ns, NEW i \in Spi, NEW b \in BOOLEAN, EnableWrite(i, b)
      PROVE  RoutedBeforeEnabled' /\ PendingAnnounced'
  <2>1. \A j \in Irq : /\ irq'[j].state = irq[j].state
                       /\ irq'[j].route = irq[j].route
    BY <1>0, <1>2 DEF EnableWrite, IrqType
  <2> QED
    BY <1>2, <2>1 DEF EnableWrite, RoutedBeforeEnabled, PendingAnnounced
<1>3. ASSUME NEW w \in PriorityWrites, PriorityWrite(w[1], w[2])
      PROVE  RoutedBeforeEnabled' /\ PendingAnnounced'
  <2>1. \A j \in Irq : /\ irq'[j].state = irq[j].state
                       /\ irq'[j].route = irq[j].route
                       /\ irq'[j].enabled = irq[j].enabled
    BY <1>0, <1>3 DEF PriorityWrite, IrqType
  <2> QED
    BY <1>3, <2>1, RangesAreIrqs
    DEF PriorityWrite, RoutedBeforeEnabled, PendingAnnounced
<1>4. ASSUME NEW w \in RouteWrites, irq[w[1]].state = "INACTIVE",
             RouteWrite(w[1], w[2])
      PROVE  RoutedBeforeEnabled' /\ PendingAnnounced'
  <2>1. \A j \in Irq : /\ irq'[j].state = irq[j].state
                       /\ irq'[j].enabled = irq[j].enabled
                       /\ j # w[1] => irq'[j].route = irq[j].route
    BY <1>0, <1>4 DEF RouteWrite, IrqType
  <2> QED
    BY <1>4, <2>1, RangesAreIrqs DEF RouteWrite, RoutedBeforeEnabled, PendingAnnounced
<1> QED
  BY <1>1, <1>2, <1>3, <1>4 DEF KernelSetup

LEMMA ServiceKeepsAnnounced ==
  ASSUME GicTypeOK, RoutedBeforeEnabled, PendingAnnounced,
         \/ \E c \in Cpu : Acknowledge(c)
         \/ \E i \in Irq : Eoi(i)
  PROVE  RoutedBeforeEnabled' /\ PendingAnnounced'
<1>0. irq \in [Irq -> IrqType] /\ signal \in [Cpu -> SUBSET Irq]
  BY DEF GicTypeOK, IrqType
<1>1. ASSUME NEW c \in Cpu, Acknowledge(c)
      PROVE  RoutedBeforeEnabled' /\ PendingAnnounced'
  <2> DEFINE i == Selected(c)
  <2>1. i \in Irq
    BY <1>1, SelectedIsEligible DEF Acknowledge, Eligible
  <2>2. irq' = [irq EXCEPT ![i].state = "ACTIVE"] /\ are_ns' = are_ns
    BY <1>1 DEF Acknowledge
  <2>3. signal' = [signal EXCEPT ![c] = @ \ {i}]
    BY <1>1 DEF Acknowledge
  <2> HIDE DEF i
  <2>4. \A j \in Irq : /\ irq'[j].enabled = irq[j].enabled
                       /\ irq'[j].route = irq[j].route
                       /\ j # i => irq'[j] = irq[j]
    BY <1>0, <2>1, <2>2 DEF IrqType
  <2>5. irq'[i].state = "ACTIVE"
    BY <1>0, <2>1, <2>2 DEF IrqType
  <2>6. \A d \in Cpu, j \in Irq : j # i /\ j \in signal[d] => j \in signal'[d]
    BY <1>0, <2>3
  <2>7. RoutedBeforeEnabled'
    BY <2>2, <2>4, RangesAreIrqs DEF RoutedBeforeEnabled
  <2>8. PendingAnnounced'
    BY <2>2, <2>4, <2>5, <2>6 DEF PendingAnnounced
  <2> QED
    BY <2>7, <2>8
<1>2. ASSUME NEW i \in Irq, Eoi(i)
      PROVE  RoutedBeforeEnabled' /\ PendingAnnounced'
  <2>1. \A j \in Irq : /\ irq'[j].enabled = irq[j].enabled
                       /\ irq'[j].route = irq[j].route
                       /\ irq'[j].state = IF j = i THEN RetiredState(irq[j].state)
                                                   ELSE irq[j].state
    BY <1>0, <1>2 DEF Eoi, IrqType
  <2>2. \A j \in Irq : /\ irq'[j].state = "PENDING" => irq[j].state = "PENDING"
                       /\ irq'[j].state # "ACTIVE_PENDING"
    BY <2>1 DEF RetiredState, PendingAnnounced
  <2> QED
    BY <1>2, <2>1, <2>2, RangesAreIrqs DEF Eoi, RoutedBeforeEnabled, PendingAnnounced
<1> QED
  BY <1>1, <1>2

LEMMA GuestKeepsInv ==
  ASSUME GuestInv, [GuestNext]_guestVars
  PROVE  GuestInv'
<1>0. GicTypeOK' /\ ServiceType'
  BY GuestKeepsType DEF GuestInv
<1>1. kernel' = kernel
  BY DEF GuestNext, AnyCall, GuestRaise, GuestLower, GuestSetup, Take, Finish,
         guestVars, kernelVars
<1>2. SUFFICES ASSUME kernel, RoutedBeforeEnabled, PendingAnnounced, GicTypeOK, ServiceType
               PROVE  RoutedBeforeEnabled' /\ PendingAnnounced'
  BY <1>0, <1>1 DEF GuestInv, KernelInv
<1>3. ASSUME NEW i \in Spi, GuestRaise(i) \/ GuestLower(i)
      PROVE  RoutedBeforeEnabled' /\ PendingAnnounced'
  BY <1>2, <1>3, RaiseIsAnnounced DEF GuestRaise, GuestLower
<1>4. CASE GuestSetup
  BY <1>2, <1>4, SetupKeepsAnnounced DEF GuestSetup, KernelSetup
<1>5. ASSUME NEW c \in Cpu, Take(c) \/ Finish(c)
      PROVE  RoutedBeforeEnabled' /\ PendingAnnounced'
  <2>1. Acknowledge(c) \/ \E i \in Irq : Eoi(i)
    BY <1>2, <1>5 DEF Take, Finish, ServiceType
  <2> QED
    BY <1>2, <2>1, ServiceKeepsAnnounced
<1>6. CASE UNCHANGED guestVars
  BY <1>2, <1>6 DEF guestVars, gicVars, RoutedBeforeEnabled, PendingAnnounced
<1> QED
  BY <1>2, <1>3, <1>4, <1>5, <1>6 DEF GuestNext, AnyCall

(* Under every guest, the one that keeps the rules and the one that does   *)
(* not, the fields keep their types; a CPU of a kernel ends only what it   *)
(* acknowledged, and its SPIs pend only where they are announced.          *)
THEOREM GuestCorrect == GuestSpec => []GuestInv
  BY GuestInitHolds, GuestKeepsInv, PTL DEF GuestSpec

(* No lost wake-up: whatever gic_acknowledge_irq would give a CPU of a     *)
(* kernel was announced to it by irq_callback and not withdrawn since.     *)
THEOREM GuestAnnounces == GuestSpec => []EligibleAnnounced
<1>1. GuestInv => EligibleAnnounced
  <2> SUFFICES ASSUME GuestInv, kernel, NEW c \in Cpu, NEW i \in Eligible(c)
               PROVE  i \in signal[c]
    BY DEF EligibleAnnounced
  <2>1. i \in Irq /\ irq[i].state = "PENDING" /\ (i \in Spi => c \in Targets(i))
    BY DEF Eligible
  <2>2. i \in Spi /\ are_ns
    BY <2>1 DEF GuestInv, KernelInv, PendingAnnounced
  <2>3. irq[i].route = c
    BY <2>1, <2>2 DEF Targets
  <2> QED
    BY <2>1, <2>3 DEF GuestInv, KernelInv, PendingAnnounced
<1> QED
  BY <1>1, GuestCorrect, PTL

LEMMA GuestStepKeepsPending ==
  ASSUME GicTypeOK, ServiceType, GuestNext, NEW i \in Spi
  PROVE  KeptOrTaken(i)
<1>1. CASE \E j \in Spi, b \in BOOLEAN : EnableWrite(j, b)
  BY <1>1, RangesAreIrqs DEF EnableWrite, KeptOrTaken, Asserted, GicTypeOK
<1>2. CASE GicNext
  BY <1>2, StepKeepsPending
<1>3. GicNext \/ \E j \in Spi, b \in BOOLEAN : EnableWrite(j, b)
  <2>1. CASE AnyCall
    BY <2>1 DEF AnyCall
  <2>2. ASSUME NEW j \in Spi, GuestRaise(j) \/ GuestLower(j)
        PROVE  GicNext
    BY <2>2 DEF GuestRaise, GuestLower, Devices, GicNext
  <2>3. CASE GuestSetup
    BY <2>3 DEF GuestSetup, Distributor, GicNext
  <2>4. ASSUME NEW c \in Cpu, Take(c) \/ Finish(c)
        PROVE  GicNext
    BY <2>4 DEF Take, Finish, ServiceType, Processor, GicNext
  <2> QED
    BY <2>1, <2>2, <2>3, <2>4 DEF GuestNext
<1> QED
  BY <1>1, <1>2, <1>3

(* The same of the guests of GicGuest, a kernel among them, which may      *)
(* enable SPIs that GicSpec leaves alone.                                  *)
THEOREM GuestPendingKept == GuestSpec => SpiPendingKept
<1>1. GuestInv /\ [GuestNext]_guestVars => [\A i \in Spi : KeptOrTaken(i)]_gicVars
  BY GuestStepKeepsPending DEF GuestInv, guestVars
<1>2. [\A i \in Spi : KeptOrTaken(i)]_gicVars
      => [\A i \in Spi :
            Asserted(irq[i]) /\ ~Asserted(irq'[i])
              => \/ LowerSpi(i) \/ ClearPending(i)
                 \/ \E c \in Targets(i) \cap Cpu : Acknowledge(c)]_gicVars
  BY DEF KeptOrTaken
<1> QED
  BY <1>1, <1>2, GuestCorrect, PTL DEF GuestSpec, SpiPendingKept

=============================================================================
