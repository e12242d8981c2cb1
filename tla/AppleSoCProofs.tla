--------------------------- MODULE AppleSoCProofs ---------------------------
(* Theorems about AppleAIC and AppleSoC, for every number of CPUs,         *)
(* interrupts and IPIs, every depth of the FIFO and every number of bytes  *)
(* and requests.  First the interrupt controller under arbitrary callers;  *)
(* then the machine around it, which drives the controller only as         *)
(* AppleAIC allows, so that all of the first part holds of it, a guest     *)
(* that ends what it takes and so strands nothing, and the clocks, which   *)
(* keep their rate.                                                        *)
EXTENDS AppleSoC, WellFoundedInduction, TLAPS

-----------------------------------------------------------------------------
(* A nonempty set of naturals has a least element, so Min is one of its    *)
(* members.  The AIC selects by Min.                                       *)
LessThanNat == {p \in Nat \X Nat : p[1] < p[2]}

(* The order on the naturals is well founded, in the form the next lemma   *)
(* needs it.                                                               *)
LEMMA LessThanWF == IsWellFoundedOn(LessThanNat, Nat)
  BY NatLessThanWellFounded DEF OpToRel, LessThanNat

(* Min of a nonempty set of naturals belongs to the set and bounds it.     *)
LEMMA MinIsLeast ==
  ASSUME NEW S \in SUBSET Nat, S # {}
  PROVE  Min(S) \in S /\ \A y \in S : Min(S) <= y
<1>1. PICK x \in S : \A y \in S : <<y, x>> \notin LessThanNat
  BY LessThanWF, WFMin
<1>2. \A y \in S : x <= y
  <2>1. \A y \in S : ~ (y < x)
    BY <1>1 DEF LessThanNat
  <2> QED
    BY <2>1
<1> QED
  BY <1>2 DEF Min

-----------------------------------------------------------------------------
(* The interrupt controller.                                               *)
(* Nothing is pending that has not been enabled: a raise enables what it   *)
(* makes pending, so a second raise, which runs no update, cannot uncover  *)
(* an interrupt the last update skipped.                                   *)
AssertedIsEnabled == \A i \in Irq : Asserted(irq[i]) => irq[i].enabled

(* Only CPU 0 ever has an interrupt latched.                               *)
OnlyCpu0Latched == \A c \in Cpu \ {0} : pending_irq[c] = None

(* The inductive invariant.                                                *)
AicInv ==
  /\ TypeOK
  /\ AssertedIsEnabled
  /\ OnlyCpu0Latched
  /\ PendingIsLatched
  /\ LatchIsDeliverable

-----------------------------------------------------------------------------
(* Routing: CPU 0 exists and is the target of every interrupt.             *)
LEMMA ReadyIsCpu0 ==
  /\ 0 \in Cpu
  /\ \A c \in Cpu : ReadyFor(c) = {i \in Spi : Deliverable(i) /\ c = 0}
<1>1. 0 \in Cpu
  BY AicConstants DEF Cpu
<1>2. \A i : FindTargetCpu(i) = 0 /\ TargetCpu(i) \in Cpu
  BY <1>1 DEF FindTargetCpu, TargetCpu
<1> QED
  BY <1>1, <1>2 DEF ReadyFor

(* The scan of aic_update: if anything is deliverable CPU 0 is the first   *)
(* busy CPU and what it gets is deliverable; otherwise nobody is busy.     *)
ScanFinds ==
  /\ Busy = {} => \A i \in Spi : ~Deliverable(i)
  /\ Busy # {} => FirstBusy = 0 /\ FirstReady \in Spi /\ Deliverable(FirstReady)

LEMMA ScanResult == ScanFinds
<1> USE DEF ScanFinds
<1>1. CASE Busy = {}
  BY <1>1, ReadyIsCpu0 DEF Busy
<1>2. CASE Busy # {}
  <2>1. Busy = {0}
    BY <1>2, ReadyIsCpu0 DEF Busy
  <2>2. FirstBusy = 0
    <3>1. {0} \in SUBSET Nat
      OBVIOUS
    <3>2. Min({0}) \in {0}
      BY <3>1, MinIsLeast
    <3> QED
      BY <2>1, <3>2 DEF FirstBusy
  <2>3. ReadyFor(0) # {} /\ ReadyFor(0) \in SUBSET Nat
    <3>1. Spi \in SUBSET Nat
      BY AicConstants DEF Spi
    <3> QED
      BY <2>1, <3>1, ReadyIsCpu0 DEF Busy
  <2>4. FirstReady \in ReadyFor(0)
    BY <2>2, <2>3, MinIsLeast DEF FirstReady
  <2>5. FirstReady \in Spi /\ Deliverable(FirstReady)
    BY <2>4, ReadyIsCpu0
  <2> QED
    BY <1>2, <2>2, <2>5
<1> QED
  BY <1>1, <1>2

(* aic_update establishes the three facts about the latch, and types, in   *)
(* whatever state its caller has written.                                  *)
LEMMA UpdateLatches ==
  ASSUME AicUpdate, pending_irq \in [Cpu -> Spi \cup {None}],
         OnlyCpu0Latched, callback \in BOOLEAN, signal \in [Cpu -> SUBSET Spi]
  PROVE  /\ pending_irq' \in [Cpu -> Spi \cup {None}]
         /\ signal' \in [Cpu -> SUBSET Spi]
         /\ OnlyCpu0Latched'
         /\ PendingIsLatched'
         /\ LatchIsDeliverable'
<1>1. ScanFinds'
  BY ScanResult, PTL
<1>2. CASE Busy' = {}
  <2>1. pending_irq' = [c \in Cpu |-> None] /\ signal' = signal
    BY <1>2 DEF AicUpdate
  <2>2. \A i \in Spi : ~Deliverable(i)'
    BY <1>1, <1>2 DEF ScanFinds
  <2>3. PendingIsLatched'
    BY <2>2 DEF PendingIsLatched, Deliverable, Asserted
  <2>4. LatchIsDeliverable'
    BY <2>1, AicConstants DEF LatchIsDeliverable, OwnedSpi
  <2> QED
    BY <2>1, <2>3, <2>4 DEF OnlyCpu0Latched
<1>3. CASE Busy' # {}
  <2>1. FirstBusy' = 0 /\ FirstReady' \in Spi /\ Deliverable(FirstReady)'
    BY <1>1, <1>3 DEF ScanFinds
  <2>2. /\ pending_irq' = [c \in Cpu |-> IF c < 0 THEN None
                                        ELSE IF c = 0 THEN FirstReady'
                                        ELSE pending_irq[c]]
        /\ Signal(0, FirstReady')
    BY <1>3, <2>1 DEF AicUpdate
  <2>3. pending_irq'[0] = FirstReady' /\ FirstReady' # None
    BY <2>1, <2>2, AicConstants DEF Cpu, Spi
  <2>4. \A c \in Cpu \ {0} : pending_irq'[c] = None
    BY <2>2, AicConstants DEF Cpu, OnlyCpu0Latched
  <2>5. pending_irq' \in [Cpu -> Spi \cup {None}]
    BY <2>1, <2>2
  <2>6. signal' \in [Cpu -> SUBSET Spi]
    BY <2>1, <2>2 DEF Signal
  <2>7. PendingIsLatched'
    BY <2>3 DEF PendingIsLatched
  <2>8. LatchIsDeliverable'
    BY <2>1, <2>3, <2>4, AicConstants DEF LatchIsDeliverable, OwnedSpi
  <2> QED
    BY <2>4, <2>5, <2>6, <2>7, <2>8 DEF OnlyCpu0Latched
<1> QED
  BY <1>2, <1>3

-----------------------------------------------------------------------------
(* The actions that end with aic_update keep the invariant as soon as they *)
(* keep the types of what they write and what is asserted enabled.         *)
LEMMA UpdateKeepsInv ==
  ASSUME AicInv, AicUpdate, AssertedIsEnabled',
         irq' \in [Irq -> [state : IrqState, enabled : BOOLEAN, masked : BOOLEAN]],
         cpu' \in [Cpu -> [enabled : BOOLEAN, mask_all : BOOLEAN,
                          ipi_pending : SUBSET Ipi, ipi_mask : SUBSET Ipi]],
         active_irq' \in [Cpu -> Spi \cup {None}],
         callback' \in BOOLEAN
  PROVE  AicInv'
<1>1. /\ pending_irq' \in [Cpu -> Spi \cup {None}]
      /\ signal' \in [Cpu -> SUBSET Spi]
      /\ OnlyCpu0Latched' /\ PendingIsLatched' /\ LatchIsDeliverable'
  BY UpdateLatches DEF AicInv, TypeOK
<1> QED
  BY <1>1 DEF AicInv, TypeOK

LEMMA RaiseKeepsInv ==
  ASSUME AicInv, NEW i \in Irq, RaiseIrq(i)
  PROVE  AicInv'
<1> USE DEF AicInv
<1> DEFINE s == RaisedState(irq[i].state)
<1>0. /\ irq' = [irq EXCEPT ![i].enabled = TRUE, ![i].state = s]
      /\ s \in IrqState
  BY DEF TypeOK, RaiseIrq, RaisedState, IrqState
<1>1. irq' \in [Irq -> [state : IrqState, enabled : BOOLEAN, masked : BOOLEAN]]
  <2> HIDE DEF s
  <2> QED
    BY <1>0 DEF TypeOK
<1>2. AssertedIsEnabled'
  BY <1>0 DEF TypeOK, AssertedIsEnabled, Asserted
<1>3. CASE irq[i].state = "INACTIVE"
  BY <1>1, <1>2, <1>3, UpdateKeepsInv DEF RaiseIrq, TypeOK
<1>4. CASE irq[i].state # "INACTIVE"
  <2>1. TypeOK'
    BY <1>1, <1>4 DEF RaiseIrq, NoUpdate, TypeOK
  <2>2. \A j \in Irq : /\ irq'[j].state = "PENDING" => irq[j].state = "PENDING"
                       /\ irq'[j].masked = irq[j].masked
                       /\ Asserted(irq[j]) => Asserted(irq'[j]) /\ irq'[j].enabled
    BY <1>4 DEF TypeOK, RaiseIrq, RaisedState, Asserted, AssertedIsEnabled
  <2>3. PendingIsLatched'
    BY <1>4, <2>2, AicConstants
       DEF PendingIsLatched, RaiseIrq, NoUpdate, AssertedIsEnabled, Asserted, Spi, Irq
  <2>4. LatchIsDeliverable'
    <3> SUFFICES ASSUME NEW c \in Cpu, pending_irq'[c] \in OwnedSpi
                 PROVE  Deliverable(pending_irq[c])'
      BY DEF LatchIsDeliverable
    <3>1. pending_irq'[c] = pending_irq[c]
      BY <1>4 DEF RaiseIrq, NoUpdate
    <3>2. pending_irq[c] \in Irq
      BY <3>1, AicConstants DEF OwnedSpi, Irq
    <3>3. Deliverable(pending_irq[c])
      BY <3>1 DEF LatchIsDeliverable
    <3> QED
      BY <2>2, <3>1, <3>2, <3>3 DEF Deliverable
  <2> QED
    BY <1>2, <1>4, <2>1, <2>3, <2>4 DEF RaiseIrq, NoUpdate, OnlyCpu0Latched
<1> QED
  BY <1>3, <1>4

(* The IPI a CPU selects is a pending one, and its number lies below the   *)
(* interrupts no IPI shares.                                               *)
LEMMA SelectedIpi ==
  ASSUME TypeOK, NEW c \in Cpu, cpu[c].ipi_pending # {}
  PROVE  /\ IpiSelected(c) \in Ipi
         /\ IrqBase + IpiSelected(c) \in Spi
         /\ IrqBase + IpiSelected(c) \in Irq
         /\ IrqBase + IpiSelected(c) \notin OwnedSpi
<1>1. cpu[c].ipi_pending \subseteq Ipi
  BY DEF TypeOK
<1>2. Ipi \subseteq Nat
  BY AicConstants DEF Ipi
<1>3. IpiSelected(c) \in Ipi
  BY <1>1, <1>2, MinIsLeast DEF IpiSelected
<1> QED
  BY <1>3, AicConstants DEF Ipi, Spi, Irq, OwnedSpi

LEMMA AckIpiKeepsInv ==
  ASSUME AicInv, NEW c \in Cpu, AckIpi(c)
  PROVE  AicInv'
<1> USE DEF AicInv
<1> DEFINE i == IrqBase + IpiSelected(c)
<1>1. i \in Spi /\ i \in Irq /\ i \notin OwnedSpi
  BY SelectedIpi DEF AckIpi
<1>2. /\ irq' = [irq EXCEPT ![i].state = "ACTIVE"]
      /\ active_irq' = [active_irq EXCEPT ![c] = i]
      /\ pending_irq' = pending_irq /\ callback' = callback
  BY DEF AckIpi
<1> HIDE DEF i
<1>3. TypeOK'
  <2>1. irq' \in [Irq -> [state : IrqState, enabled : BOOLEAN, masked : BOOLEAN]]
    BY <1>1, <1>2 DEF TypeOK, IrqState
  <2>2. cpu' \in [Cpu -> [enabled : BOOLEAN, mask_all : BOOLEAN,
                         ipi_pending : SUBSET Ipi, ipi_mask : SUBSET Ipi]]
    BY DEF TypeOK, AckIpi
  <2>3. signal' \in [Cpu -> SUBSET Spi]
    BY DEF TypeOK, AckIpi
  <2> QED
    BY <1>1, <1>2, <2>1, <2>2, <2>3 DEF TypeOK
<1>4. \A j \in Irq : \/ j = i /\ irq'[j].state = "ACTIVE"
                     \/ j # i /\ irq'[j] = irq[j]
  BY <1>1, <1>2 DEF TypeOK
<1>5. AssertedIsEnabled'
  BY <1>4 DEF AssertedIsEnabled, Asserted
<1>6. PendingIsLatched'
  <2>1. active_irq[0] # None => active_irq'[0] # None
    BY <1>1, <1>2, AicConstants DEF TypeOK, Spi
  <2> QED
    BY <1>2, <1>4, <2>1, AicConstants DEF PendingIsLatched, Spi, Irq
<1>7. LatchIsDeliverable'
  BY <1>1, <1>2, <1>4, AicConstants
     DEF LatchIsDeliverable, Deliverable, Asserted, OwnedSpi, Irq
<1> QED
  BY <1>2, <1>3, <1>5, <1>6, <1>7 DEF OnlyCpu0Latched

(* Only CPU 0 can acknowledge a device interrupt: it empties the latch and *)
(* takes the interrupt in service at once.                                 *)
LEMMA AckDeviceKeepsInv ==
  ASSUME AicInv, NEW c \in Cpu, AckDevice(c)
  PROVE  AicInv'
<1> USE DEF AicInv
<1> DEFINE i == pending_irq[c]
<1>1. c = 0 /\ i \in Spi /\ i \in Irq /\ i # None
  BY AicConstants DEF AckDevice, TypeOK, OnlyCpu0Latched, Spi, Irq
<1>2. /\ irq' = [irq EXCEPT ![i].state = "ACTIVE"]
      /\ active_irq' = [active_irq EXCEPT ![c] = i]
      /\ pending_irq' = [pending_irq EXCEPT ![c] = None]
      /\ cpu' = cpu /\ callback' = callback
  BY DEF AckDevice, AckLatch
<1> HIDE DEF i
<1>3. TypeOK'
  <2>1. irq' \in [Irq -> [state : IrqState, enabled : BOOLEAN, masked : BOOLEAN]]
    BY <1>1, <1>2 DEF TypeOK, IrqState
  <2>2. signal' \in [Cpu -> SUBSET Spi]
    BY DEF TypeOK, AckDevice
  <2> QED
    BY <1>1, <1>2, <2>1, <2>2 DEF TypeOK
<1>4. \A j \in Irq : \/ j = i /\ irq'[j].state = "ACTIVE"
                     \/ j # i /\ irq'[j] = irq[j]
  BY <1>1, <1>2 DEF TypeOK
<1>5. AssertedIsEnabled'
  BY <1>4 DEF AssertedIsEnabled, Asserted
<1>6. PendingIsLatched'
  BY <1>1, <1>2 DEF PendingIsLatched, TypeOK
<1>7. \A d \in Cpu : pending_irq'[d] = None
  BY <1>1, <1>2 DEF OnlyCpu0Latched, TypeOK
<1>8. LatchIsDeliverable' /\ OnlyCpu0Latched'
  BY <1>7, AicConstants DEF LatchIsDeliverable, OnlyCpu0Latched, OwnedSpi
<1> QED
  BY <1>3, <1>5, <1>6, <1>8

LEMMA EoiKeepsInv ==
  ASSUME AicInv, NEW c \in Cpu, NEW i \in Irq, Eoi(c, i)
  PROVE  AicInv'
<1> USE DEF AicInv
<1>1. irq' \in [Irq -> [state : IrqState, enabled : BOOLEAN, masked : BOOLEAN]]
  BY DEF TypeOK, Eoi, RetiredState, IrqState
<1>2. AssertedIsEnabled'
  BY DEF TypeOK, Eoi, RetiredState, AssertedIsEnabled, Asserted
<1>3. active_irq' \in [Cpu -> Spi \cup {None}]
  BY DEF TypeOK, Eoi
<1> QED
  BY <1>1, <1>2, <1>3, UpdateKeepsInv DEF Eoi, TypeOK

LEMMA RegistersKeepInv ==
  ASSUME AicInv, Registers
  PROVE  AicInv'
<1> USE DEF AicInv
<1>1. PICK S \in MaskWrites : MaskSet(S) \/ MaskClr(S)
  BY DEF Registers
<1>2. irq' \in [Irq -> [state : IrqState, enabled : BOOLEAN, masked : BOOLEAN]]
  <2> DEFINE Q == [state : IrqState, enabled : BOOLEAN, masked : BOOLEAN]
  <2>1. \A q \in Q : /\ [q EXCEPT !.enabled = TRUE, !.masked = FALSE] \in Q
                     /\ [q EXCEPT !.masked = TRUE] \in Q
    OBVIOUS
  <2>2. irq \in [Irq -> Q]
    BY DEF TypeOK
  <2> HIDE DEF Q
  <2>3. irq' \in [Irq -> Q]
    <3>1. CASE MaskSet(S)
      BY <2>1, <2>2, <3>1 DEF MaskSet
    <3>2. CASE MaskClr(S)
      BY <2>1, <2>2, <3>2 DEF MaskClr
    <3> QED
      BY <1>1, <3>1, <3>2
  <2> QED
    BY <2>3 DEF Q
<1>3. /\ AicUpdate /\ cpu' = cpu /\ active_irq' = active_irq /\ callback' = callback
  BY <1>1 DEF MaskSet, MaskClr
<1>4. AssertedIsEnabled'
  <2>1. CASE MaskSet(S)
    BY <2>1 DEF MaskSet, TypeOK, AssertedIsEnabled, Asserted
  <2>2. CASE MaskClr(S)
    BY <2>2 DEF MaskClr, TypeOK, AssertedIsEnabled, Asserted
  <2> QED
    BY <1>1, <2>1, <2>2
<1> QED
  BY <1>2, <1>3, <1>4, UpdateKeepsInv DEF TypeOK

LEMMA CpuCtrlKeepsInv ==
  ASSUME AicInv, NEW c \in Cpu, NEW v \in CtrlValues, CpuCtrlWrite(c, v)
  PROVE  AicInv'
<1> USE DEF AicInv
<1>1. v \in Ctrl
  BY AicConstants
<1>2. cpu' \in [Cpu -> [enabled : BOOLEAN, mask_all : BOOLEAN,
                       ipi_pending : SUBSET Ipi, ipi_mask : SUBSET Ipi]]
  <2> DEFINE en == v.enabled
             ma == v.mask_all
  <2>1. en \in BOOLEAN /\ ma \in BOOLEAN
    BY <1>1 DEF Ctrl
  <2>2. cpu' = [cpu EXCEPT ![c].enabled = en, ![c].mask_all = ma]
    BY DEF CpuCtrlWrite
  <2> HIDE DEF en, ma
  <2> QED
    BY <2>1, <2>2 DEF TypeOK
<1>3. AssertedIsEnabled'
  BY DEF CpuCtrlWrite, AssertedIsEnabled, Asserted
<1> QED
  BY <1>2, <1>3, UpdateKeepsInv DEF CpuCtrlWrite, TypeOK

-----------------------------------------------------------------------------
(* The invariant holds initially and every step keeps it.                  *)
LEMMA InitEstablishesInv == Init => AicInv
<1> SUFFICES ASSUME Init PROVE AicInv
  OBVIOUS
<1>1. TypeOK
  BY DEF Init, TypeOK, IdleIrq, IdleCpu, IrqState
<1> QED
  BY <1>1, AicConstants
     DEF Init, AicInv, AssertedIsEnabled, OnlyCpu0Latched, PendingIsLatched,
         LatchIsDeliverable, Asserted, IdleIrq, OwnedSpi, Spi, Irq

LEMMA NextKeepsInv == AicInv /\ [Next]_vars => AicInv'
<1> SUFFICES ASSUME AicInv, [Next]_vars PROVE AicInv'
  OBVIOUS
<1>1. ASSUME NEW i \in Irq, RaiseIrq(i) PROVE AicInv'
  BY <1>1, RaiseKeepsInv
<1>2. ASSUME NEW c \in Cpu, Acknowledge(c) PROVE AicInv'
  BY <1>2, AckIpiKeepsInv, AckDeviceKeepsInv DEF Acknowledge
<1>3. ASSUME NEW c \in Cpu, NEW i \in Irq, Eoi(c, i) PROVE AicInv'
  BY <1>3, EoiKeepsInv
<1>4. CASE Registers
  BY <1>4, RegistersKeepInv
<1>5. ASSUME NEW c \in Cpu, NEW v \in CtrlValues, CpuCtrlWrite(c, v) PROVE AicInv'
  BY <1>5, CpuCtrlKeepsInv
<1>6. CASE Reset
  <2>1. TypeOK'
    BY <1>6 DEF Reset, TypeOK, IdleIrq, IdleCpu, IrqState
  <2> QED
    BY <1>6, <2>1, AicConstants
       DEF Reset, AicInv, AssertedIsEnabled, OnlyCpu0Latched, PendingIsLatched,
           LatchIsDeliverable, Asserted, IdleIrq, OwnedSpi, Spi, Irq
<1>7. ASSUME TypeOK', UNCHANGED <<irq, pending_irq, active_irq>>
      PROVE  AicInv'
  BY <1>7 DEF AicInv, AssertedIsEnabled, OnlyCpu0Latched, PendingIsLatched,
              LatchIsDeliverable, Asserted, Deliverable
<1>8. ASSUME NEW i \in Irq, LowerIrq(i) PROVE AicInv'
  BY <1>7, <1>8 DEF LowerIrq, Level, NoUpdate, AicInv, TypeOK
<1>9. ASSUME NEW c \in Cpu, NEW n \in Ipi, SendIpi(c, n) PROVE AicInv'
  <2>1. IrqBase + n \in Spi
    BY AicConstants DEF Ipi, Spi
  <2>2. TypeOK'
    BY <1>9, <2>1 DEF SendIpi, Signal, AicInv, TypeOK
  <2> QED
    BY <1>7, <1>9, <2>2 DEF SendIpi
<1>10. ASSUME NEW c \in Cpu, IpiClr(c) PROVE AicInv'
  <2>1. TypeOK'
    BY <1>10 DEF IpiClr, AicInv, TypeOK
  <2> QED
    BY <1>7, <1>10, <2>1 DEF IpiClr
<1>11. ASSUME NEW c \in Cpu, NEW m \in IpiMasks, IpiMaskWrite(c, m) PROVE AicInv'
  <2>1. m \in SUBSET Ipi
    BY AicConstants
  <2>2. TypeOK'
    BY <1>11, <2>1 DEF IpiMaskWrite, AicInv, TypeOK
  <2> QED
    BY <1>7, <1>11, <2>2 DEF IpiMaskWrite
<1>12. CASE UNCHANGED vars
  BY <1>7, <1>12 DEF vars, AicInv, TypeOK
<1> QED
  BY <1>1, <1>2, <1>3, <1>4, <1>5, <1>6, <1>8, <1>9, <1>10, <1>11, <1>12
     DEF Next, Device, Processor

THEOREM AicInvariant == Spec => []AicInv
  BY InitEstablishesInv, NextKeepsInv, PTL DEF Spec

(* Every variable keeps its C type, whatever the calls.                    *)
THEOREM AicTypeCorrect == Spec => []TypeOK
<1>1. AicInv => TypeOK
  BY DEF AicInv
<1> QED
  BY <1>1, AicInvariant, PTL

(* No lost wake-up: a pending, enabled interrupt is backed by a latched    *)
(* one or by one in service on CPU 0.                                      *)
THEOREM AicNoLostWakeup == Spec => []PendingIsLatched
<1>1. AicInv => PendingIsLatched
  BY DEF AicInv
<1> QED
  BY <1>1, AicInvariant, PTL

(* The latch never holds an interrupt that was taken or ended since.       *)
THEOREM AicLatchNeverStale == Spec => []LatchIsDeliverable
<1>1. AicInv => LatchIsDeliverable
  BY DEF AicInv
<1> QED
  BY <1>1, AicInvariant, PTL

(* Only an acknowledge by the CPU it is latched for, or a reset, makes a   *)
(* pending device interrupt stop being pending.                            *)
THEOREM AicPendingOnlyTaken == Spec => PendingOnlyTaken
<1>1. ASSUME AicInv, [Next]_vars, NEW i \in OwnedSpi, Dropped(i)
      PROVE  Reset
  <2>1. i \in Irq
    BY AicConstants DEF OwnedSpi, Irq
  <2>2. ASSUME NEW j \in Irq, RaiseIrq(j) \/ LowerIrq(j) PROVE FALSE
    BY <1>1, <2>1, <2>2
       DEF RaiseIrq, LowerIrq, RaisedState, Level, Dropped, Asserted, AicInv, TypeOK
  <2>3. ASSUME NEW c \in Cpu, AckIpi(c) PROVE FALSE
    <3>1. IrqBase + IpiSelected(c) # i
      BY <1>1, <2>3, SelectedIpi DEF AckIpi, AicInv
    <3> QED
      BY <1>1, <2>1, <2>3, <3>1 DEF AckIpi, Dropped, Asserted, AicInv, TypeOK
  <2>4. ASSUME NEW c \in Cpu, AckDevice(c) PROVE FALSE
    BY <1>1, <2>1, <2>4 DEF AckDevice, Dropped, Asserted, AicInv, TypeOK
  <2>5. ASSUME NEW c \in Cpu, NEW j \in Irq, Eoi(c, j) PROVE FALSE
    BY <1>1, <2>1, <2>5 DEF Eoi, RetiredState, Dropped, Asserted, AicInv, TypeOK
  <2>6. CASE Registers
    <3>1. irq'[i].state = irq[i].state
      <4>1. PICK S \in MaskWrites : MaskSet(S) \/ MaskClr(S)
        BY <2>6 DEF Registers
      <4>2. CASE MaskSet(S)
        BY <1>1, <2>1, <4>2 DEF MaskSet, AicInv, TypeOK
      <4>3. CASE MaskClr(S)
        BY <1>1, <2>1, <4>3 DEF MaskClr, AicInv, TypeOK
      <4> QED
        BY <4>1, <4>2, <4>3
    <3> QED
      BY <1>1, <3>1 DEF Dropped, Asserted
  <2>7. CASE irq' = irq
    BY <1>1, <2>7 DEF Dropped
  <2> QED
    BY <1>1, <2>2, <2>3, <2>4, <2>5, <2>6, <2>7
       DEF Next, Device, Processor, Acknowledge, vars, SendIpi, IpiClr,
           CpuCtrlWrite, IpiMaskWrite
<1>2. AicInv /\ [Next]_vars => [\A i \in OwnedSpi : Dropped(i) => Reset]_vars
  BY <1>1
<1> QED
  BY <1>2, AicInvariant, PTL DEF Spec, PendingOnlyTaken

-----------------------------------------------------------------------------
(* Announcements.                                                          *)

(* aic_update announces what it latches, if there is somebody to tell.     *)
LEMMA UpdateSignals ==
  ASSUME AicInv, AicUpdate, callback' = callback
  PROVE  LatchWasSignalled'
<1>1. ScanFinds'
  BY ScanResult, PTL
<1>2. CASE Busy' = {}
  BY <1>2, AicConstants DEF AicUpdate, LatchWasSignalled, OwnedSpi
<1>3. CASE Busy' # {}
  <2>1. FirstBusy' = 0 /\ FirstReady' \in Spi
    BY <1>1, <1>3 DEF ScanFinds
  <2>2. /\ pending_irq' = [c \in Cpu |-> IF c < 0 THEN None
                                        ELSE IF c = 0 THEN FirstReady'
                                        ELSE pending_irq[c]]
        /\ Signal(0, FirstReady')
    BY <1>3, <2>1 DEF AicUpdate
  <2>3. \A c \in Cpu \ {0} : pending_irq'[c] = None
    BY <2>2, AicConstants DEF AicInv, Cpu, OnlyCpu0Latched
  <2>4. callback => pending_irq'[0] \in signal'[0]
    BY <2>2, AicConstants DEF Signal, AicInv, TypeOK, Cpu
  <2> QED
    BY <2>3, <2>4, AicConstants DEF LatchWasSignalled, OwnedSpi
<1> QED
  BY <1>2, <1>3

(* What a step does without aic_update leaves the latches and what was     *)
(* announced of them, or empties the latch.                                *)
LEMMA NextKeepsSignalled ==
  ASSUME AicInv, LatchWasSignalled, [Next]_vars
  PROVE  LatchWasSignalled'
<1>1. ASSUME UNCHANGED <<pending_irq, signal, callback>> PROVE LatchWasSignalled'
  BY <1>1 DEF LatchWasSignalled
<1>2. CASE Device
  BY <1>1, <1>2, UpdateSignals DEF Device, RaiseIrq, LowerIrq, NoUpdate
<1>3. ASSUME NEW c \in Cpu, NEW n \in Ipi, SendIpi(c, n) PROVE LatchWasSignalled'
  BY <1>3 DEF SendIpi, Signal, LatchWasSignalled, AicInv, TypeOK
<1>4. ASSUME NEW c \in Cpu, AckIpi(c) PROVE LatchWasSignalled'
  <2>1. IrqBase + IpiSelected(c) \notin OwnedSpi
    BY <1>4, SelectedIpi DEF AckIpi, AicInv
  <2> QED
    BY <1>4, <2>1 DEF AckIpi, LatchWasSignalled, AicInv, TypeOK
<1>5. ASSUME NEW c \in Cpu, AckDevice(c) PROVE LatchWasSignalled'
  BY <1>5, AicConstants DEF AckDevice, AckLatch, LatchWasSignalled, OwnedSpi, AicInv, TypeOK
<1>6. ASSUME NEW c \in Cpu,
             \/ IpiClr(c)
             \/ \E i \in Irq : Eoi(c, i)
             \/ \E v \in CtrlValues : CpuCtrlWrite(c, v)
             \/ \E m \in IpiMasks : IpiMaskWrite(c, m)
      PROVE  LatchWasSignalled'
  BY <1>1, <1>6, UpdateSignals DEF IpiClr, Eoi, CpuCtrlWrite, IpiMaskWrite
<1>7. CASE Registers
  BY <1>7, UpdateSignals DEF Registers, MaskSet, MaskClr
<1>8. CASE Reset
  BY <1>8 DEF Reset, LatchWasSignalled
<1>9. CASE UNCHANGED vars
  BY <1>1, <1>9 DEF vars
<1> QED
  BY <1>2, <1>3, <1>4, <1>5, <1>6, <1>7, <1>8, <1>9 DEF Next, Processor, Acknowledge

(* A latched interrupt was announced to its CPU as long as there is a      *)
(* callback, so a CPU that waits for announcements misses none.            *)
THEOREM AicLatchAnnounced == Spec => []LatchWasSignalled
<1>1. Init => LatchWasSignalled
  BY AicConstants DEF Init, LatchWasSignalled, OwnedSpi
<1> QED
  BY <1>1, NextKeepsSignalled, AicInvariant, PTL DEF Spec

-----------------------------------------------------------------------------
(* The wiring: what a device or the guest does to the controller is one of *)
(* the controller's steps or leaves it alone.                              *)

LEMMA DeviceIrqs == UartIrq \in Irq /\ SepIrq \in Irq
  BY SoCConstants, AicConstants DEF OwnedSpi, Irq

LEMMA UpdateIrqIsDevice == UpdateIrq => Device
  BY DeviceIrqs DEF UpdateIrq, Device

(* A step of the drivers or of a CPU, by what it does to the controller;   *)
(* where there are none, any of the controller's steps is possible.        *)
ControllerStep ==
  \/ Device
  \/ \E c \in Cpu : \/ \E n \in Ipi : SendIpi(c, n)
                    \/ active_irq[c] = None /\ Acknowledge(c)
                    \/ active_irq[c] # None /\ Eoi(c, active_irq[c])
  \/ Registers
  \/ UNCHANGED vars

LEMMA SoCStepsController ==
  ASSUME [SoCNext]_socVars
  PROVE  workload' = workload /\ (ControllerStep \/ (~Driven /\ Next))
<1>0. workload' = workload
  BY DEF SoCNext, Anyone, Drivers, Clocks, Handling, Take, Finish, UartHandler, SepHandler, socVars
<1>1. ASSUME Drivers PROVE ControllerStep
  <2>1. CASE \E c \in Cpu : Ipis(c)
    BY <2>1 DEF Ipis, ControllerStep
  <2>2. CASE Console
    BY <2>2, UpdateIrqIsDevice DEF Console, RxPut, ControllerStep
  <2>3. CASE Request
    BY <2>3, DeviceIrqs DEF Request, SendToSep, Device, ControllerStep
  <2>4. CASE Mask
    BY <2>4 DEF Mask, Registers, ControllerStep
  <2>5. CASE Setting
    BY <2>5, UpdateIrqIsDevice DEF Setting, MaskLines, EnableTxIrq, ControllerStep
  <2>6. CASE UartClear
    BY <2>6 DEF UartClear, ClearLines, ControllerStep
  <2> QED
    BY <1>1, <2>1, <2>2, <2>3, <2>4, <2>5, <2>6 DEF Drivers
<1>2. CASE Clocks
  BY <1>2 DEF Clocks, ControllerStep
<1>3. ASSUME NEW c \in Cpu, Handling(c) PROVE ControllerStep
  <2>1. CASE Take(c)
    BY <2>1 DEF Take, ControllerStep
  <2>2. CASE Finish(c)
    BY <2>2 DEF Finish, ControllerStep
  <2>3. CASE UartHandler
    BY <2>3, UpdateIrqIsDevice DEF UartHandler, ReadRx, ControllerStep
  <2>4. CASE SepHandler
    BY <2>4 DEF SepHandler, ReadMsgOut, ControllerStep
  <2> QED
    BY <1>3, <2>1, <2>2, <2>3, <2>4 DEF Handling
<1>4. CASE UNCHANGED socVars
  BY <1>4 DEF socVars, ControllerStep
<1>5. CASE Anyone
  BY <1>5 DEF Anyone, Driven
<1> QED
  BY <1>0, <1>1, <1>2, <1>3, <1>4, <1>5 DEF SoCNext

LEMMA ControllerStepIsNext ==
  ASSUME TypeOK, ControllerStep
  PROVE  [Next]_vars
<1>1. ASSUME NEW c \in Cpu, active_irq[c] # None PROVE active_irq[c] \in Irq
  BY <1>1, AicConstants DEF TypeOK, Spi, Irq
<1> QED
  BY <1>1 DEF ControllerStep, Next, Processor

(* What machine_apple.c wires to it uses the controller as AppleAIC says,  *)
(* so whatever is proved of AppleAIC is true of the machine.               *)
THEOREM SoCImplementsAic == SoCSpec => Spec
<1>1. SoCInit => Init
  BY DEF SoCInit
<1>2. Init => AicInv
  BY InitEstablishesInv
<1>3. AicInv /\ [SoCNext]_socVars => [Next]_vars
  BY SoCStepsController, ControllerStepIsNext DEF AicInv
<1>4. AicInv /\ [Next]_vars => AicInv'
  BY NextKeepsInv
<1> QED
  BY <1>1, <1>2, <1>3, <1>4, PTL DEF SoCSpec, Spec

-----------------------------------------------------------------------------
(* Interrupts in service.                                                  *)

(* A device interrupt in service is the one CPU 0 acknowledged last, and   *)
(* no other CPU has acknowledged one.                                      *)
HeldByCpu0 ==
  /\ \A i \in OwnedSpi :
       (irq[i].state \in {"ACTIVE", "ACTIVE_PENDING"}) <=> (active_irq[0] = i)
  /\ \A c \in Cpu \ {0} : active_irq[c] \notin OwnedSpi

LEMMA StepKeepsHeld ==
  ASSUME AicInv, HeldByCpu0, ControllerStep
  PROVE  HeldByCpu0'
<1>0. 0 \in Cpu /\ OwnedSpi \subseteq Irq /\ None \notin OwnedSpi
  BY AicConstants DEF Cpu, OwnedSpi, Irq
<1> USE DEF AicInv
<1>1. ASSUME NEW i \in Irq, RaiseIrq(i) PROVE HeldByCpu0'
  BY <1>0, <1>1 DEF RaiseIrq, RaisedState, HeldByCpu0, TypeOK, IrqState
<1>2. ASSUME UNCHANGED <<irq, active_irq>> PROVE HeldByCpu0'
  BY <1>2 DEF HeldByCpu0
<1>3. ASSUME NEW i \in Irq, LowerIrq(i) PROVE HeldByCpu0'
  BY <1>2, <1>3 DEF LowerIrq, Level
<1>4. ASSUME NEW c \in Cpu, NEW n \in Ipi, SendIpi(c, n) PROVE HeldByCpu0'
  BY <1>2, <1>4 DEF SendIpi
<1>5. ASSUME NEW c \in Cpu, active_irq[c] = None, AckIpi(c) PROVE HeldByCpu0'
  <2>1. IrqBase + IpiSelected(c) \notin OwnedSpi /\ IrqBase + IpiSelected(c) \in Irq
    BY <1>5, SelectedIpi DEF AckIpi
  <2> QED
    BY <1>0, <1>5, <2>1 DEF AckIpi, HeldByCpu0, TypeOK
<1>6. ASSUME NEW c \in Cpu, active_irq[c] = None, AckDevice(c) PROVE HeldByCpu0'
  <2>1. c = 0 /\ pending_irq[c] \in Irq
    BY <1>6, AicConstants DEF AckDevice, OnlyCpu0Latched, TypeOK, Spi, Irq
  <2> QED
    BY <1>0, <1>6, <2>1 DEF AckDevice, HeldByCpu0, TypeOK
<1>7. ASSUME NEW c \in Cpu, active_irq[c] # None, Eoi(c, active_irq[c]) PROVE HeldByCpu0'
  <2>1. active_irq[c] \in Irq
    BY <1>7, AicConstants DEF TypeOK, Spi, Irq
  <2> QED
    BY <1>0, <1>7, <2>1 DEF Eoi, RetiredState, HeldByCpu0, TypeOK, IrqState
<1>8. ASSUME NEW S \in MaskWrites, MaskSet(S) \/ MaskClr(S) PROVE HeldByCpu0'
  <2>1. active_irq' = active_irq /\ \A i \in Irq : irq'[i].state = irq[i].state
    <3>1. CASE MaskSet(S)
      BY <3>1 DEF MaskSet, TypeOK
    <3>2. CASE MaskClr(S)
      BY <3>2 DEF MaskClr, TypeOK
    <3> QED
      BY <1>8, <3>1, <3>2
  <2> QED
    BY <1>0, <2>1 DEF HeldByCpu0
<1> QED
  BY <1>1, <1>2, <1>3, <1>4, <1>5, <1>6, <1>7, <1>8
     DEF ControllerStep, Device, Registers, Acknowledge, vars

(* Under the guest's discipline a device interrupt is in service exactly   *)
(* while a CPU has still to end it: none is stranded.                      *)
THEOREM SoCActiveIsHeld == SoCSpec => []ActiveIsHeld
<1> DEFINE HeldInv == AicInv /\ (Driven => HeldByCpu0)
<1>1. SoCInit => HeldInv
  <2>1. Init => HeldByCpu0
    BY AicConstants DEF Init, IdleIrq, HeldByCpu0, Cpu, OwnedSpi, Irq
  <2> QED
    BY <2>1, InitEstablishesInv DEF SoCInit
<1>2. HeldInv /\ [SoCNext]_socVars => HeldInv'
  <2> SUFFICES ASSUME HeldInv, [SoCNext]_socVars PROVE HeldInv'
    OBVIOUS
  <2>1. workload' = workload /\ (ControllerStep \/ (~Driven /\ Next))
    BY SoCStepsController
  <2>2. AicInv'
    BY <2>1, ControllerStepIsNext, NextKeepsInv DEF AicInv
  <2>3. Driven' = Driven
    BY <2>1 DEF Driven
  <2>4. CASE ControllerStep
    BY <2>2, <2>3, <2>4, StepKeepsHeld
  <2>5. CASE ~Driven
    BY <2>2, <2>3, <2>5
  <2> QED
    BY <2>1, <2>4, <2>5
<1>3. HeldInv => ActiveIsHeld
  BY AicConstants DEF HeldByCpu0, ActiveIsHeld, Cpu
<1> QED
  BY <1>1, <1>2, <1>3, PTL DEF SoCSpec

-----------------------------------------------------------------------------
(* The clocks.                                                             *)

(* Time runs, and what was counted is not more than there was to count.    *)
Wdt == [enabled : BOOLEAN, load : Nat, current : Nat, timeout : BOOLEAN,
        last_tick : Nat, from : Nat, lead : Nat, total : Nat, late : BOOLEAN]
Timer == [enabled : BOOLEAN, counter : Nat, cmp : Nat \cup {Never}, match : BOOLEAN,
          last_update : Nat, from : Nat]
ClockTypes ==
  /\ now \in Nat /\ wdt \in Wdt /\ timer \in Timer
  /\ wdt.from <= wdt.last_tick + wdt.lead /\ wdt.last_tick <= now
  /\ wdt.last_tick = 0 => wdt.lead = wdt.from
  /\ wdt.current <= wdt.total
  /\ timer.from <= timer.last_update /\ timer.last_update <= now

(* What was counted since the last tick before the start of the count.     *)
CountsHold ==
  LET counted == wdt.total - wdt.current
      passed  == wdt.last_tick + wdt.lead - wdt.from
  IN  /\ NotFast(counted, Millisecond, passed)
      /\ wdt.current > 0 /\ ~wdt.late => NotSlow(counted, Millisecond, passed)
      /\ NotFast(timer.counter, Microsecond, timer.last_update - timer.from)
      /\ NotSlow(timer.counter, Microsecond, timer.last_update - timer.from)

ClockInv == ClockTypes /\ CountsHold

(* Whole units are at most what has passed, and at least half of it as     *)
(* soon as there is one.                                                   *)
LEMMA WholeUnits ==
  ASSUME NEW passed \in Nat, NEW unit \in Nat \ {0}
  PROVE  LET n == passed \div unit
         IN  n \in Nat /\ NotFast(n, unit, passed) /\ (n > 0 => NotSlow(n, unit, passed))
<1> DEFINE n == passed \div unit
           r == passed % unit
<1>1. n \in Nat /\ r \in 0..(unit - 1) /\ passed = unit * n + r
  OBVIOUS
<1> HIDE DEF n, r
<1>2. unit * n \in Nat /\ unit * n = n * unit
  BY <1>1
<1>3. ASSUME n > 0 PROVE unit <= n * unit
  <2>1. n - 1 \in Nat
    BY <1>1, <1>3
  <2>2. (n - 1) * unit \in Nat
    BY <2>1
  <2>3. n * unit = (n - 1) * unit + unit
    BY <1>1
  <2> QED
    BY <1>2, <2>2, <2>3
<1>4. 2 * n * unit = n * unit + n * unit
  BY <1>1
<1> QED
  BY <1>1, <1>2, <1>3, <1>4 DEF NotFast, NotSlow, n

(* Counts and times add up.                                                *)
LEMMA CountsAdd ==
  ASSUME NEW a \in Nat, NEW b \in Nat, NEW unit \in Nat, NEW p \in Nat, NEW q \in Nat
  PROVE  /\ NotFast(a, unit, p) /\ NotFast(b, unit, q) => NotFast(a + b, unit, p + q)
         /\ NotSlow(a, unit, p) /\ NotSlow(b, unit, q) => NotSlow(a + b, unit, p + q)
<1>1. a * unit \in Nat /\ b * unit \in Nat
  OBVIOUS
<1>2. (a + b) * unit = a * unit + b * unit
  OBVIOUS
<1>3. /\ 2 * (a + b) * unit = 2 * a * unit + 2 * b * unit
      /\ 2 * a * unit \in Nat /\ 2 * b * unit \in Nat
  OBVIOUS
<1> QED
  BY <1>1, <1>2, <1>3 DEF NotFast, NotSlow

LEMMA LessIsNotFast ==
  ASSUME NEW a \in Nat, NEW b \in Nat, b <= a, NEW unit \in Nat, NEW p \in Nat,
         NotFast(a, unit, p)
  PROVE  NotFast(b, unit, p)
<1>1. PICK d \in Nat : a = b + d
  <2>1. a - b \in Nat /\ a = b + (a - b)
    OBVIOUS
  <2> QED
    BY <2>1
<1>2. b * unit \in Nat /\ d * unit \in Nat /\ a * unit = b * unit + d * unit
  BY <1>1
<1> QED
  BY <1>2 DEF NotFast

(* What the watchdog counts of the time since its last tick: the whole     *)
(* units, unless they need more than 32 bits.                              *)
LEMMA WdtCounts ==
  ASSUME NEW passed \in Nat
  PROVE  LET n == WdtCounted(passed)
         IN  /\ n \in Nat /\ NotFast(n, Millisecond, passed)
             /\ passed >= Millisecond /\ passed < CountLimit * Millisecond
                  => NotSlow(n, Millisecond, passed)
<1> DEFINE units == passed \div Millisecond
           n == units % CountLimit
<1>1. Millisecond \in Nat \ {0} /\ CountLimit \in Nat \ {0}
  BY ClockConstants
<1>2. /\ units \in Nat /\ NotFast(units, Millisecond, passed)
      /\ units > 0 => NotSlow(units, Millisecond, passed)
  BY <1>1, WholeUnits
<1>3. n \in Nat /\ n <= units /\ (units < CountLimit => n = units)
  <2> HIDE DEF units
  <2> QED
    BY <1>1, <1>2
<1>4. passed >= Millisecond => units > 0
  <2>1. passed >= Millisecond => units # 0
    BY <1>1
  <2> HIDE DEF units
  <2> QED
    BY <1>2, <2>1
<1>5. ASSUME passed < CountLimit * Millisecond PROVE units < CountLimit
  <2> HIDE DEF units
  <2>1. units * Millisecond \in Nat /\ units * Millisecond <= passed
    BY <1>1, <1>2 DEF NotFast
  <2>2. ASSUME units >= CountLimit PROVE FALSE
    <3>1. PICK d \in Nat : units = CountLimit + d
      <4>1. units - CountLimit \in Nat /\ units = CountLimit + (units - CountLimit)
        BY <1>1, <1>2, <2>2
      <4> QED
        BY <4>1
    <3>2. /\ units * Millisecond = CountLimit * Millisecond + d * Millisecond
          /\ d * Millisecond \in Nat /\ CountLimit * Millisecond \in Nat
      BY <1>1, <3>1
    <3> QED
      BY <1>5, <2>1, <3>2
  <2> QED
    BY <1>1, <1>2, <2>2
<1> HIDE DEF units
<1>6. NotFast(n, Millisecond, passed)
  BY <1>1, <1>2, <1>3, LessIsNotFast
<1> HIDE DEF n
<1>7. passed >= Millisecond /\ passed < CountLimit * Millisecond
        => NotSlow(n, Millisecond, passed)
  BY <1>2, <1>3, <1>4, <1>5
<1>8. WdtCounted(passed) = n
  BY DEF WdtCounted, n, units
<1> QED
  BY <1>3, <1>6, <1>7, <1>8

LEMMA WdtTickKeepsInv ==
  ASSUME ClockInv, WdtTick
  PROVE  ClockInv'
<1> USE DEF ClockInv, ClockTypes, Wdt
<1> DEFINE passed == now - wdt.last_tick
           n == WdtCounted(passed)
           counted == wdt.total - wdt.current
           before == wdt.last_tick + wdt.lead - wdt.from
<1>1. now' = now /\ timer' = timer
  BY DEF WdtTick
<1>2. passed \in Nat /\ counted \in Nat /\ before \in Nat /\ Millisecond \in Nat \ {0}
  BY ClockConstants
<1>3. /\ n \in Nat /\ NotFast(n, Millisecond, passed)
      /\ passed >= Millisecond /\ passed < CountLimit * Millisecond
           => NotSlow(n, Millisecond, passed)
  BY <1>2, WdtCounts
<1>4. /\ NotFast(counted, Millisecond, before)
      /\ wdt.current > 0 /\ ~wdt.late => NotSlow(counted, Millisecond, before)
  BY DEF CountsHold
<1>5. CASE /\ wdt.last_tick = 0
           /\ wdt' = [wdt EXCEPT !.last_tick = now, !.from = now, !.lead = 0]
  <2>1. before = 0
    BY <1>5
  <2>2. now + 0 - now = 0
    OBVIOUS
  <2>3. 2 * counted * Millisecond \in Nat
    BY <1>2
  <2>4. NotFast(counted, Millisecond, 0) /\ NotSlow(counted, Millisecond, 0)
    BY <1>4, <2>1, <2>3 DEF NotSlow
  <2>5. /\ wdt'.total = wdt.total /\ wdt'.current = wdt.current
        /\ wdt'.last_tick = now /\ wdt'.from = now /\ wdt'.lead = 0
        /\ wdt'.late = wdt.late
    BY <1>5
  <2>6. ClockTypes'
    <3>1. wdt' \in Wdt
      BY <1>5
    <3> QED
      BY <1>1, <1>5, <2>5, <3>1
  <2> HIDE DEF ClockTypes
  <2> QED
    BY <1>1, <2>2, <2>4, <2>5, <2>6 DEF CountsHold
<1>6. CASE /\ wdt.last_tick # 0 /\ passed >= Millisecond
           /\ wdt' = [wdt EXCEPT !.last_tick = now,
                        !.current = IF n >= @ THEN 0 ELSE @ - n,
                        !.timeout = @ \/ n >= wdt.current,
                        !.late = @ \/ passed >= CountLimit * Millisecond]
  <2> DEFINE current == IF n >= wdt.current THEN 0 ELSE wdt.current - n
             timeout == wdt.timeout \/ n >= wdt.current
             late == wdt.late \/ passed >= CountLimit * Millisecond
  <2>1. wdt' = [wdt EXCEPT !.last_tick = now, !.current = current, !.timeout = timeout,
                           !.late = late]
    BY <1>6
  <2>2. /\ current \in Nat /\ current <= wdt.current /\ wdt.total - current <= counted + n
        /\ current > 0 => wdt.current > 0 /\ wdt.total - current = counted + n
        /\ timeout \in BOOLEAN
    BY <1>2, <1>3
  <2>0. late \in BOOLEAN /\ (~late => ~wdt.late /\ passed < CountLimit * Millisecond)
    <3>1. CountLimit * Millisecond \in Nat
      BY ClockConstants
    <3> QED
      BY <1>2, <3>1
  <2>3. now + wdt.lead - wdt.from = before + passed /\ wdt.total - current \in Nat
    BY <1>2, <2>2
  <2>4. /\ NotFast(counted + n, Millisecond, before + passed)
        /\ current > 0 /\ ~late => NotSlow(counted + n, Millisecond, before + passed)
    <3> HIDE DEF late, n, before, counted, passed
    <3> QED
      BY <1>2, <1>3, <1>4, <1>6, <2>0, <2>2, CountsAdd
  <2> HIDE DEF current, timeout, late
  <2>5. /\ wdt'.total = wdt.total /\ wdt'.current = current
        /\ wdt'.last_tick = now /\ wdt'.from = wdt.from
        /\ wdt'.lead = wdt.lead /\ wdt'.late = late
    BY <2>1
  <2>6. ClockTypes'
    <3>1. wdt' \in Wdt
      BY <2>0, <2>1, <2>2
    <3> QED
      BY <1>1, <1>6, <2>2, <2>5, <3>1
  <2> HIDE DEF ClockTypes, n, counted, before, passed
  <2>7. NotFast(wdt.total - current, Millisecond, before + passed)
    BY <1>2, <1>3, <2>2, <2>3, <2>4, LessIsNotFast
  <2>8. CountsHold'
    BY <1>1, <2>2, <2>3, <2>4, <2>5, <2>7 DEF CountsHold
  <2> QED
    BY <2>6, <2>8
<1> QED
  BY <1>5, <1>6 DEF WdtTick

LEMMA TimerTickKeepsInv ==
  ASSUME ClockInv, TimerTick
  PROVE  ClockInv'
<1> USE DEF ClockInv, ClockTypes, Timer
<1> DEFINE passed == now - timer.last_update
           n == passed \div Microsecond
           before == timer.last_update - timer.from
           reached == timer.cmp # Never /\ timer.counter + n >= timer.cmp
<1>1. now' = now /\ wdt' = wdt
  BY DEF TimerTick
<1>2. passed \in Nat /\ before \in Nat /\ Microsecond \in Nat \ {0} /\ timer.counter \in Nat
  BY ClockConstants
<1>3. n \in Nat /\ NotFast(n, Microsecond, passed) /\ (n > 0 => NotSlow(n, Microsecond, passed))
  BY <1>2, WholeUnits
<1>4. NotFast(timer.counter, Microsecond, before) /\ NotSlow(timer.counter, Microsecond, before)
  BY DEF CountsHold
<1>5. CASE timer.last_update = 0 /\ timer' = [timer EXCEPT !.last_update = now, !.from = now]
  <2>1. before = 0 /\ now - now = 0
    BY <1>5
  <2>2. NotFast(timer.counter, Microsecond, 0) /\ NotSlow(timer.counter, Microsecond, 0)
    BY <1>4, <2>1
  <2>3. timer'.counter = timer.counter /\ timer'.last_update = now /\ timer'.from = now
    BY <1>5
  <2>4. ClockTypes'
    <3>1. timer' \in Timer
      BY <1>5
    <3> QED
      BY <1>1, <2>3, <3>1
  <2> HIDE DEF ClockTypes
  <2> QED
    BY <1>1, <2>1, <2>2, <2>3, <2>4 DEF CountsHold
<1>6. CASE /\ passed >= Microsecond
           /\ timer' = [timer EXCEPT !.last_update = now, !.counter = timer.counter + n,
                          !.match = @ \/ reached, !.cmp = IF reached THEN Never ELSE @]
  <2> DEFINE match == timer.match \/ reached
             cmp == IF reached THEN Never ELSE timer.cmp
  <2>1. timer' = [timer EXCEPT !.last_update = now, !.counter = timer.counter + n,
                               !.match = match, !.cmp = cmp]
    BY <1>6
  <2>2. match \in BOOLEAN /\ cmp \in Nat \cup {Never}
    OBVIOUS
  <2>3. n > 0
    <3>1. n # 0
      BY <1>2, <1>6
    <3> QED
      BY <1>3, <3>1
  <2>4. now - timer.from = before + passed
    BY <1>2
  <2>5. /\ NotFast(timer.counter + n, Microsecond, before + passed)
        /\ NotSlow(timer.counter + n, Microsecond, before + passed)
    BY <1>2, <1>3, <1>4, <2>3, CountsAdd
  <2> HIDE DEF n, match, cmp
  <2>6. timer'.counter = timer.counter + n /\ timer'.last_update = now /\ timer'.from = timer.from
    BY <2>1
  <2>7. ClockTypes'
    <3>0. timer.counter + n \in Nat /\ timer \in Timer
      BY <1>2, <1>3
    <3>1. timer' \in Timer
      BY <2>1, <2>2, <3>0 DEF Timer
    <3> QED
      BY <1>1, <2>6, <3>1
  <2> HIDE DEF ClockTypes
  <2> QED
    BY <1>1, <2>4, <2>5, <2>6, <2>7 DEF CountsHold
<1> QED
  BY <1>5, <1>6 DEF TimerTick

(* A write of the guest to a register counts nothing; enabling the         *)
(* watchdog starts its count again.                                        *)
LEMMA RegisterWritesKeepInv ==
  ASSUME ClockInv,
         \/ WdtStatClear \/ TimerIntClear
         \/ \E on \in BOOLEAN : WdtCtrlWrite(on) \/ TimerCfgWrite(on)
         \/ \E l \in LoadValues : WdtLoadWrite(l)
         \/ \E d \in Deadlines : TimerArm(d)
  PROVE  ClockInv'
<1>1. ASSUME NEW on \in BOOLEAN, WdtCtrlWrite(on) PROVE ClockInv'
  <2>1. /\ now' = now /\ timer' = timer
        /\ wdt' = IF on THEN [wdt EXCEPT !.enabled = TRUE, !.current = wdt.load,
                                        !.from = now, !.lead = now - wdt.last_tick,
                                        !.total = wdt.load, !.late = FALSE]
                       ELSE [wdt EXCEPT !.enabled = FALSE]
    BY <1>1 DEF WdtCtrlWrite
  <2>2. wdt' \in Wdt /\ wdt'.last_tick = wdt.last_tick
    <3>1. now - wdt.last_tick \in Nat
      BY DEF ClockInv, ClockTypes, Wdt
    <3>2. CASE on
      BY <2>1, <3>1, <3>2 DEF ClockInv, ClockTypes, Wdt
    <3>3. CASE ~on
      BY <2>1, <3>3 DEF ClockInv, ClockTypes, Wdt
    <3> QED
      BY <3>2, <3>3
  <2>3. \/ /\ wdt'.from = wdt.from /\ wdt'.current = wdt.current
           /\ wdt'.lead = wdt.lead /\ wdt'.total = wdt.total /\ wdt'.late = wdt.late
        \/ /\ wdt'.from = now /\ wdt'.current = wdt.load
           /\ wdt'.lead = now - wdt.last_tick /\ wdt'.total = wdt.load
    BY <2>1 DEF ClockInv, ClockTypes, Wdt
  <2>4. now \in Nat /\ wdt.last_tick \in Nat /\ wdt.load \in Nat
    BY DEF ClockInv, ClockTypes, Wdt
  <2>5. \A unit : unit \in Nat => NotFast(0, unit, 0) /\ NotSlow(0, unit, 0)
    BY DEF NotFast, NotSlow
  <2>6. CountsHold'
    BY <2>1, <2>2, <2>3, <2>4, <2>5, ClockConstants DEF ClockInv, CountsHold
  <2> QED
    BY <2>1, <2>2, <2>3, <2>4, <2>6 DEF ClockInv, ClockTypes
<1>2. ASSUME NEW on \in BOOLEAN, TimerCfgWrite(on) PROVE ClockInv'
  BY <1>2 DEF TimerCfgWrite, ClockInv, ClockTypes, CountsHold, Timer
<1>3. ASSUME NEW l \in LoadValues, WdtLoadWrite(l) PROVE ClockInv'
  <2>1. l \in Nat
    BY ClockConstants
  <2> QED
    BY <1>3, <2>1 DEF WdtLoadWrite, ClockInv, ClockTypes, CountsHold, Wdt
<1>4. ASSUME NEW d \in Deadlines, TimerArm(d) PROVE ClockInv'
  <2>1. d \in Nat \cup {Never}
    BY ClockConstants
  <2> QED
    BY <1>4, <2>1 DEF TimerArm, ClockInv, ClockTypes, CountsHold, Timer
<1>5. CASE WdtStatClear
  BY <1>5 DEF WdtStatClear, ClockInv, ClockTypes, CountsHold, Wdt
<1>6. CASE TimerIntClear
  BY <1>6 DEF TimerIntClear, ClockInv, ClockTypes, CountsHold, Timer
<1> QED
  BY <1>1, <1>2, <1>3, <1>4, <1>5, <1>6

(* For every unit and whenever they tick, the forgotten remainders slow    *)
(* the timer and, unless a tick comes too late for 32 bits, the watchdog   *)
(* by less than half; the timer is never fast, and the watchdog by less    *)
(* than a millisecond when it starts within one of a tick.                 *)
THEOREM SoCClocksDrift == SoCSpec => []ClocksDrift
<1>1. SoCInit => ClockInv
  <2>1. SoCInit => ClockTypes
    BY ClockConstants DEF SoCInit, ClocksInit, DefaultLoad, ClockTypes, Wdt, Timer
  <2>2. SoCInit => /\ wdt.total - wdt.current = 0
                   /\ wdt.last_tick + wdt.lead - wdt.from = 0
                   /\ timer.counter = 0 /\ timer.last_update - timer.from = 0
    BY ClockConstants DEF SoCInit, ClocksInit, DefaultLoad
  <2>3. \A unit \in Nat : NotFast(0, unit, 0) /\ NotSlow(0, unit, 0)
    BY DEF NotFast, NotSlow
  <2> QED
    BY <2>1, <2>2, <2>3, ClockConstants DEF ClockInv, CountsHold
<1>2. ASSUME ClockInv, [SoCNext]_socVars PROVE ClockInv'
  <2>1. CASE UNCHANGED clockVars
    BY <1>2, <2>1 DEF clockVars, ClockInv, ClockTypes, CountsHold
  <2>2. CASE Pass
    BY <1>2, <2>2 DEF Pass, ClockInv, ClockTypes, CountsHold, Wdt, Timer
  <2>3. CASE WdtTick
    BY <1>2, <2>3, WdtTickKeepsInv
  <2>4. CASE TimerTick
    BY <1>2, <2>4, TimerTickKeepsInv
  <2>5. CASE WdtNext /\ ~WdtTick
    BY <1>2, <2>5, RegisterWritesKeepInv DEF WdtNext
  <2>6. CASE TimerNext /\ ~TimerTick
    BY <1>2, <2>6, RegisterWritesKeepInv DEF TimerNext
  <2>7. \/ UNCHANGED clockVars \/ Pass \/ WdtNext \/ TimerNext
    BY <1>2 DEF SoCNext, Anyone, Drivers, Clocks, Handling, Take, Finish, UartHandler, SepHandler,
                socVars, clockVars
  <2> QED
    BY <2>1, <2>2, <2>3, <2>4, <2>5, <2>6, <2>7
<1>3. ClockInv => ClocksDrift
  <2> SUFFICES ASSUME ClockInv PROVE ClocksDrift
    OBVIOUS
  <2> DEFINE counted == wdt.total - wdt.current
             passed == wdt.last_tick + wdt.lead - wdt.from
  <2>1. /\ counted \in Nat /\ Millisecond \in Nat \ {0}
        /\ wdt.last_tick \in Nat /\ wdt.lead \in Nat /\ wdt.from \in Nat
    BY ClockConstants DEF ClockInv, ClockTypes, Wdt
  <2>2. /\ NotFast(counted, Millisecond, passed)
        /\ wdt.current > 0 /\ ~wdt.late => NotSlow(counted, Millisecond, passed)
    BY DEF ClockInv, CountsHold
  <2>3. counted * Millisecond \in Nat /\ 2 * counted * Millisecond \in Nat
    BY <2>1
  <2> HIDE DEF counted
  <2>4. /\ wdt.lead < Millisecond =>
             NotFast(counted, Millisecond, wdt.last_tick - wdt.from + (Millisecond - 1))
        /\ wdt.current > 0 /\ ~wdt.late =>
             NotSlow(counted, Millisecond, wdt.last_tick - wdt.from)
    BY <2>1, <2>2, <2>3 DEF NotFast, NotSlow
  <2> QED
    BY <2>4 DEF ClockInv, CountsHold, ClocksDrift, counted
<1> QED
  BY <1>1, <1>2, <1>3, PTL DEF SoCSpec

=============================================================================
