----------------------------- MODULE Pl011Proofs -----------------------------
(* Theorems about the PL011, for every depth of its receive ring, whatever *)
(* order the user interface's thread and the vCPU's thread take their      *)
(* steps in.                                                               *)
EXTENDS Pl011Driver, SequenceTheorems, TLAPS

Putting == pc["host"] \in {"rx write", "rx load", "rx count"}
Reading == pc["vcpu"] \in {"dr load", "dr count"}

(* While a put is on its way there is room for its byte, and while a read  *)
(* is there is a byte to take away, in the counter as in what the thread   *)
(* loaded from it: the other thread's store can only make more of both.    *)
LoadedCountFits ==
  /\ Putting => tmp["host"] < Depth /\ rx_count < Depth
  /\ Reading => tmp["vcpu"] > 0 /\ rx_count > 0

(* The inductive invariant.                                                *)
RingInv == Pl011TypeOK /\ LoadedCountFits

Pc == {"idle", "rx write", "rx load", "rx count", "dr load", "dr count", "dr empty",
       "ris load", "ris store", "mis", "irq"}
Edit == [set : SUBSET Interrupt, clear : SUBSET Interrupt, seen : SUBSET Interrupt]

LEMMA InitEstablishesInv == DriverInit => RingInv
<1> SUFFICES ASSUME DriverInit PROVE RingInv
  OBVIOUS
<1>1. (CHOOSE b \in Byte : TRUE) \in Byte
  BY Pl011Constants
<1>2. rx_fifo \in [Slot -> Byte]
  BY <1>1 DEF DriverInit, Pl011Init
<1>3. 0 \in Slot /\ 0 \in 0 .. Depth
  BY Pl011Constants DEF Slot
<1>4. edit \in [Thread -> Edit] /\ pending \in Seq(Byte)
  BY EmptySeq DEF DriverInit, Pl011Init, NoEdit, Edit
<1> QED
  BY <1>2, <1>3, <1>4
     DEF DriverInit, Pl011Init, RingInv, Pl011TypeOK, LoadedCountFits, Putting, Reading,
         Thread, Edit

(* The numbers the arithmetic is about.                                    *)
LEMMA RingNumbers ==
  ASSUME Pl011TypeOK
  PROVE  /\ Depth \in Nat \ {0}
         /\ rx_head \in Nat /\ rx_count \in Nat /\ rx_count <= Depth
         /\ \A t \in Thread : tmp[t] \in Nat /\ tmp[t] <= Depth
<1>1. Depth \in Nat \ {0}
  BY Pl011Constants
<1>2. rx_head \in 0 .. (Depth - 1) /\ rx_count \in 0 .. Depth
  BY DEF Pl011TypeOK, Slot
<1>3. \A t \in Thread : tmp[t] \in 0 .. Depth
  BY DEF Pl011TypeOK
<1> QED
  BY <1>1, <1>2, <1>3

(* A thread's loaded count changes, the other's does not.                  *)
LEMMA TmpType ==
  ASSUME Pl011TypeOK, NEW t \in Thread, NEW n \in 0 .. Depth,
         tmp' = [tmp EXCEPT ![t] = n]
  PROVE  /\ tmp' \in [Thread -> 0 .. Depth] /\ tmp'[t] = n
         /\ \A u \in Thread \ {t} : tmp'[u] = tmp[u]
  BY DEF Pl011TypeOK

(* The slot of a put and the next head lie in the ring.                    *)
LEMMA IndexInRing ==
  ASSUME NEW n \in Nat
  PROVE  n % Depth \in Slot
<1>1. Depth \in Nat /\ Depth > 0
  BY Pl011Constants
<1>2. n % Depth \in 0 .. (Depth - 1)
  BY <1>1
<1> QED
  BY <1>2 DEF Slot

LEMMA GotoType ==
  ASSUME Pl011TypeOK, NEW t \in Thread, NEW label \in Pc, Goto(t, label)
  PROVE  /\ pc' \in [Thread -> Pc]
         /\ pc'[t] = label
         /\ \A u \in Thread \ {t} : pc'[u] = pc[u]
  BY DEF Pl011TypeOK, Goto, Pc

LEMMA EditRisType ==
  ASSUME Pl011TypeOK, NEW t \in Thread,
         NEW set \in SUBSET Interrupt, NEW clear \in SUBSET Interrupt,
         EditRis(t, set, clear)
  PROVE  /\ pc' \in [Thread -> Pc] /\ pc'[t] = "ris load"
         /\ \A u \in Thread \ {t} : pc'[u] = pc[u]
         /\ edit' \in [Thread -> Edit]
<1>1. Goto(t, "ris load") /\ "ris load" \in Pc
  BY DEF EditRis, Pc
<1>2. edit' \in [Thread -> Edit]
  BY DEF EditRis, Pl011TypeOK, Edit
<1> QED
  BY <1>1, <1>2, GotoType

-----------------------------------------------------------------------------
(* pl011_rx_put.                                                           *)
LEMMA PutKeepsInv ==
  ASSUME Pl011TypeOK, LoadedCountFits,
         RxPut \/ (\E b \in Byte : RxWrite(b)) \/ RxLoad \/ RxCount
  PROVE  Pl011TypeOK' /\ LoadedCountFits'
<1>0. "host" \in Thread /\ "vcpu" \in Thread \ {"host"}
  BY DEF Thread
<1>1. CASE RxPut
  <2>1. ~ (rx_count >= Depth) /\ tmp' = [tmp EXCEPT !["host"] = rx_count]
    BY <1>1 DEF RxPut, RxFull
  <2>2. rx_count \in 0 .. Depth /\ rx_count < Depth
    BY <2>1, RingNumbers
  <2>3. tmp' \in [Thread -> 0 .. Depth] /\ tmp'["host"] < Depth /\ tmp'["vcpu"] = tmp["vcpu"]
    BY <1>0, <2>1, <2>2, TmpType
  <2>4. Goto("host", "rx write") /\ "rx write" \in Pc /\ UNCHANGED <<ring, ris, imsc, edit>>
    BY <1>1 DEF RxPut, Pc
  <2>5. pc' \in [Thread -> Pc] /\ pc'["vcpu"] = pc["vcpu"]
    BY <1>0, <2>4, GotoType
  <2>6. LoadedCountFits'
    BY <2>2, <2>3, <2>4, <2>5 DEF ring, LoadedCountFits, Reading
  <2> QED
    BY <2>3, <2>4, <2>5, <2>6 DEF ring, Pl011TypeOK, Pc
<1>2. ASSUME NEW b \in Byte, RxWrite(b)
      PROVE  Pl011TypeOK' /\ LoadedCountFits'
  <2>1. Putting /\ Goto("host", "rx load") /\ "rx load" \in Pc
        /\ UNCHANGED <<rx_head, rx_count, ris, imsc, tmp, edit>>
    BY <1>2 DEF RxWrite, Putting, Pc
  <2>2. pc' \in [Thread -> Pc] /\ pc'["vcpu"] = pc["vcpu"]
    BY <1>0, <2>1, GotoType
  <2>3. rx_fifo' \in [Slot -> Byte]
    <3>1. PICK n \in Loads("host") : rx_fifo' = [rx_fifo EXCEPT ![RxSlot(n)] = b]
      BY <1>2 DEF RxWrite
    <3>2. n \in Nat
      BY <1>0, RingNumbers DEF Loads
    <3>3. rx_head + n \in Nat
      BY <3>2, RingNumbers
    <3>4. RxSlot(n) \in Slot
      BY <3>3, IndexInRing DEF RxSlot
    <3> QED
      BY <3>1, <3>4 DEF Pl011TypeOK
  <2>4. pending' \in Seq(Byte)
    <3>1. pending \in Seq(Byte)
      BY DEF Pl011TypeOK
    <3>2. Append(pending, b) \in Seq(Byte)
      BY <3>1, AppendProperties
    <3>3. pending' = Append(pending, b)
      BY <1>2 DEF RxWrite
    <3> QED
      BY <3>2, <3>3, Zenon
  <2>5. LoadedCountFits'
    BY <2>1, <2>2 DEF LoadedCountFits, Reading
  <2> QED
    BY <2>1, <2>2, <2>3, <2>4, <2>5 DEF Pl011TypeOK, Pc
<1>3. CASE RxLoad
  <2>1. Putting /\ Goto("host", "rx count") /\ "rx count" \in Pc
        /\ UNCHANGED <<ring, ris, imsc, edit>>
    BY <1>3 DEF RxLoad, CountLoad, Putting, Pc
  <2>2. pc' \in [Thread -> Pc] /\ pc'["vcpu"] = pc["vcpu"]
    BY <1>0, <2>1, GotoType
  <2>3. tmp' \in [Thread -> 0 .. Depth] /\ tmp'["host"] < Depth /\ tmp'["vcpu"] = tmp["vcpu"]
    <3>1. PICK n \in Loads("host") : tmp' = [tmp EXCEPT !["host"] = n]
      BY <1>3 DEF RxLoad, CountLoad
    <3>2. n < Depth
      BY <2>1, <3>1 DEF Loads, LoadedCountFits
    <3>3. n \in 0 .. Depth
      BY <1>0, <3>1, RingNumbers DEF Loads
    <3> QED
      BY <1>0, <3>1, <3>2, <3>3, TmpType
  <2>4. LoadedCountFits'
    BY <2>1, <2>2, <2>3 DEF ring, LoadedCountFits, Reading
  <2> QED
    BY <2>1, <2>2, <2>3, <2>4 DEF ring, Pl011TypeOK, Pc
<1>4. CASE RxCount
  <2>1. Putting /\ rx_count' = tmp["host"] + 1
        /\ UNCHANGED <<rx_fifo, rx_head, pending, ris, imsc, tmp>>
    BY <1>4 DEF RxCount, Putting
  <2>2. /\ pc' \in [Thread -> Pc] /\ pc'["host"] = "ris load"
        /\ pc'["vcpu"] = pc["vcpu"] /\ edit' \in [Thread -> Edit]
    BY <1>0, <1>4, EditRisType DEF RxCount, Interrupt
  <2>3. tmp["host"] < Depth
    BY <2>1 DEF LoadedCountFits
  <2>4. rx_count' \in 0 .. Depth /\ rx_count' > 0
    BY <1>0, <2>1, <2>3, RingNumbers
  <2>5. LoadedCountFits'
    BY <2>1, <2>2, <2>4 DEF LoadedCountFits, Putting, Reading
  <2> QED
    BY <2>1, <2>2, <2>4, <2>5 DEF Pl011TypeOK, Pc, Edit
<1> QED
  BY <1>1, <1>2, <1>3, <1>4

(* A read of DR.                                                           *)
LEMMA ReadKeepsInv ==
  ASSUME Pl011TypeOK, LoadedCountFits, DrRead \/ DrLoad \/ DrCount \/ DrEmpty
  PROVE  Pl011TypeOK' /\ LoadedCountFits'
<1>0. "vcpu" \in Thread /\ "host" \in Thread \ {"vcpu"}
  BY DEF Thread
<1>1. CASE DrRead
  <2>1. rx_count > 0 /\ tmp' = [tmp EXCEPT !["vcpu"] = rx_count]
        /\ UNCHANGED <<rx_fifo, rx_count, ris, imsc, edit>>
    BY <1>1 DEF DrRead
  <2>2. rx_count \in 0 .. Depth /\ rx_count > 0
    BY <2>1, RingNumbers
  <2>3. tmp' \in [Thread -> 0 .. Depth] /\ tmp'["vcpu"] > 0 /\ tmp'["host"] = tmp["host"]
    BY <1>0, <2>1, <2>2, TmpType
  <2>4. Goto("vcpu", "dr load") /\ "dr load" \in Pc
    BY <1>1 DEF DrRead, Pc
  <2>5. pc' \in [Thread -> Pc] /\ pc'["host"] = pc["host"]
    BY <1>0, <2>4, GotoType
  <2>6. rx_head' \in Slot
    <3>1. rx_head + 1 \in Nat
      BY RingNumbers
    <3> QED
      BY <1>1, <3>1, IndexInRing DEF DrRead
  <2>7. pending' \in Seq(Byte)
    <3>1. pending \in Seq(Byte)
      BY DEF Pl011TypeOK
    <3>2. pending # <<>> => Tail(pending) \in Seq(Byte)
      BY <3>1, HeadTailProperties
    <3>3. pending' = IF pending # <<>> THEN Tail(pending) ELSE pending
      BY <1>1 DEF DrRead
    <3> QED
      BY <3>1, <3>2, <3>3, Zenon
  <2>8. LoadedCountFits'
    BY <2>1, <2>2, <2>3, <2>5 DEF LoadedCountFits, Putting
  <2> QED
    BY <2>1, <2>3, <2>5, <2>6, <2>7, <2>8 DEF Pl011TypeOK, Pc
<1>2. CASE DrLoad
  <2>1. Reading /\ Goto("vcpu", "dr count") /\ "dr count" \in Pc
        /\ UNCHANGED <<ring, ris, imsc, edit>>
    BY <1>2 DEF DrLoad, CountLoad, Reading, Pc
  <2>2. pc' \in [Thread -> Pc] /\ pc'["host"] = pc["host"]
    BY <1>0, <2>1, GotoType
  <2>3. tmp' \in [Thread -> 0 .. Depth] /\ tmp'["vcpu"] > 0 /\ tmp'["host"] = tmp["host"]
    <3>1. PICK n \in Loads("vcpu") : tmp' = [tmp EXCEPT !["vcpu"] = n]
      BY <1>2 DEF DrLoad, CountLoad
    <3>2. n > 0
      BY <2>1, <3>1 DEF Loads, LoadedCountFits
    <3>3. n \in 0 .. Depth
      BY <1>0, <3>1, RingNumbers DEF Loads
    <3> QED
      BY <1>0, <3>1, <3>2, <3>3, TmpType
  <2>4. LoadedCountFits'
    BY <2>1, <2>2, <2>3 DEF ring, LoadedCountFits, Putting
  <2> QED
    BY <2>1, <2>2, <2>3, <2>4 DEF ring, Pl011TypeOK, Pc
<1>3. CASE DrCount
  <2>1. Reading /\ Goto("vcpu", "dr empty") /\ "dr empty" \in Pc
        /\ rx_count' = tmp["vcpu"] - 1
        /\ tmp' = [tmp EXCEPT !["vcpu"] = tmp["vcpu"] - 1]
        /\ UNCHANGED <<rx_fifo, rx_head, pending, ris, imsc, edit>>
    BY <1>3 DEF DrCount, Reading, Pc
  <2>2. pc' \in [Thread -> Pc] /\ pc'["vcpu"] = "dr empty" /\ pc'["host"] = pc["host"]
    BY <1>0, <2>1, GotoType
  <2>3. tmp["vcpu"] > 0
    BY <2>1 DEF LoadedCountFits
  <2>4. tmp["vcpu"] - 1 \in 0 .. Depth /\ tmp["vcpu"] - 1 < Depth
    BY <1>0, <2>3, RingNumbers
  <2>5. tmp' \in [Thread -> 0 .. Depth] /\ tmp'["host"] = tmp["host"]
    BY <1>0, <2>1, <2>4, TmpType
  <2>6. LoadedCountFits'
    BY <2>1, <2>2, <2>4, <2>5 DEF LoadedCountFits, Putting, Reading
  <2> QED
    BY <2>1, <2>2, <2>4, <2>5, <2>6 DEF Pl011TypeOK, Pc
<1>4. CASE DrEmpty
  <2>1. /\ pc' \in [Thread -> Pc] /\ pc'["vcpu"] \notin {"dr load", "dr count"}
        /\ pc'["host"] = pc["host"] /\ edit' \in [Thread -> Edit]
    <3>1. CASE EditRis("vcpu", {}, {"RX"})
      BY <1>0, <3>1, EditRisType DEF Interrupt
    <3>2. CASE Goto("vcpu", "mis") /\ UNCHANGED edit
      <4>1. "mis" \in Pc /\ edit' \in [Thread -> Edit]
        BY <3>2 DEF Pc, Pl011TypeOK, Edit
      <4> QED
        BY <1>0, <3>2, <4>1, GotoType
    <3> QED
      BY <1>4, <3>1, <3>2 DEF DrEmpty
  <2> QED
    BY <1>4, <2>1
       DEF DrEmpty, ring, Pl011TypeOK, LoadedCountFits, Putting, Reading, Pc, Edit
<1> QED
  BY <1>1, <1>2, <1>3, <1>4

(* The writes of the guest to DR, ICR and IMSC.                            *)
LEMMA WriteKeepsInv ==
  ASSUME Pl011TypeOK, LoadedCountFits, NEW S \in SUBSET Interrupt, DrWrite \/ IcrWrite(S) \/ ImscWrite(S)
  PROVE  Pl011TypeOK' /\ LoadedCountFits'
<1>0. "vcpu" \in Thread /\ "host" \in Thread \ {"vcpu"}
  BY DEF Thread
<1>1. /\ pc' \in [Thread -> Pc] /\ pc'["vcpu"] \notin {"dr load", "dr count"}
      /\ pc'["host"] = pc["host"] /\ edit' \in [Thread -> Edit]
  <2>1. CASE DrWrite
    BY <1>0, <2>1, EditRisType DEF DrWrite, Interrupt
  <2>2. CASE IcrWrite(S)
    BY <1>0, <2>2, EditRisType DEF IcrWrite
  <2>3. CASE ImscWrite(S)
    <3>1. Goto("vcpu", "mis") /\ "mis" \in Pc /\ edit' \in [Thread -> Edit]
      BY <2>3 DEF ImscWrite, Pc, Pl011TypeOK, Edit
    <3> QED
      BY <1>0, <3>1, GotoType
  <2> QED
    BY <2>1, <2>2, <2>3
<1>2. imsc' \subseteq Interrupt /\ UNCHANGED <<ring, ris, tmp>>
  BY DEF DrWrite, IcrWrite, ImscWrite, Pl011TypeOK
<1> QED
  BY <1>1, <1>2 DEF ring, Pl011TypeOK, LoadedCountFits, Putting, Reading, Pc, Edit

(* The tail of every call.                                                 *)
LEMMA UpdateKeepsInv ==
  ASSUME Pl011TypeOK, LoadedCountFits, NEW t \in Thread, UpdateStep(t)
  PROVE  Pl011TypeOK' /\ LoadedCountFits'
<1>1. /\ ris' \subseteq Interrupt
      /\ edit' \in [Thread -> Edit]
      /\ UNCHANGED <<ring, imsc>>
  <2>1. CASE RisLoad(t)
    BY <2>1 DEF RisLoad, Pl011TypeOK, Edit
  <2>2. CASE RisStore(t)
    BY <2>2 DEF RisStore, Pl011TypeOK, Edit
  <2>3. CASE MisLoad(t)
    BY <2>3 DEF MisLoad, NoEdit, Pl011TypeOK, Edit
  <2>4. CASE UpdateIrq(t)
    BY <2>4 DEF UpdateIrq, NoEdit, Pl011TypeOK, Edit
  <2> QED
    BY <2>1, <2>2, <2>3, <2>4 DEF UpdateStep
<1>2. /\ pc' \in [Thread -> Pc] /\ pc'[t] \notin {"rx write", "rx load", "rx count", "dr load", "dr count"}
      /\ \A u \in Thread \ {t} : pc'[u] = pc[u]
  <2>1. PICK label \in {"ris store", "mis", "irq", "idle"} : Goto(t, label)
    BY DEF UpdateStep, RisLoad, RisStore, MisLoad, UpdateIrq
  <2>2. label \in Pc
    BY DEF Pc
  <2> QED
    BY <2>1, <2>2, GotoType
<1>3. /\ tmp' \in [Thread -> 0 .. Depth]
      /\ \A u \in Thread \ {t} : tmp'[u] = tmp[u]
  <2>1. UNCHANGED tmp \/ tmp' = [tmp EXCEPT ![t] = 0]
    BY DEF UpdateStep, RisLoad, RisStore, MisLoad, UpdateIrq
  <2>2. 0 \in 0 .. Depth
    BY RingNumbers
  <2>3. CASE UNCHANGED tmp
    BY <2>3 DEF Pl011TypeOK
  <2> QED
    BY <2>1, <2>2, <2>3, TmpType
<1> QED
  BY <1>1, <1>2, <1>3 DEF ring, Pl011TypeOK, LoadedCountFits, Putting, Reading, Thread, Pc, Edit

-----------------------------------------------------------------------------
LEMMA NextKeepsInv ==
  ASSUME RingInv, [DriverNext]_driverVars
  PROVE  RingInv'
<1>0. ASSUME UNCHANGED uartVars PROVE RingInv'
  BY <1>0 DEF uartVars, ring, RingInv, Pl011TypeOK, LoadedCountFits, Putting, Reading
<1>1. CASE Inject
  BY <1>1, PutKeepsInv DEF Inject, RingInv
<1>2. CASE HostCall
  BY <1>2, PutKeepsInv, UpdateKeepsInv DEF HostCall, HostStep, Thread, RingInv
<1>3. CASE VcpuCall
  BY <1>3, ReadKeepsInv, UpdateKeepsInv DEF VcpuCall, VcpuStep, Thread, RingInv
<1>4. CASE Boot \/ Interrupted \/ Finish
  BY <1>0, <1>4 DEF Boot, Interrupted, Finish
<1>5. CASE Drain
  <2>1. DrRead \/ IcrWrite({"TX"}) \/ UNCHANGED uartVars
    BY <1>5 DEF Drain
  <2> QED
    BY <1>0, <2>1, ReadKeepsInv, WriteKeepsInv DEF Interrupt, RingInv
<1>6. CASE SendChar
  <2>1. \E S \in SUBSET Interrupt : DrWrite \/ ImscWrite(S)
    BY <1>6 DEF SendChar, Interrupt
  <2> QED
    BY <2>1, WriteKeepsInv DEF RingInv
<1>7. CASE UNCHANGED driverVars
  BY <1>0, <1>7 DEF driverVars
<1> QED
  BY <1>1, <1>2, <1>3, <1>4, <1>5, <1>6, <1>7 DEF DriverNext

(* The invariant of the receive ring.                                      *)
THEOREM RingInvariant == DriverSpec => []RingInv
  BY InitEstablishesInv, NextKeepsInv, PTL DEF DriverSpec

(* Although pl011_rx_put and a read of DR race for rx_count, neither it    *)
(* nor the head ever leaves the ring: a lost update of the count is off by *)
(* bytes, never out of bounds (pl011.c).                                   *)
THEOREM RingStaysInBounds == DriverSpec => []Pl011TypeOK
<1>1. RingInv => Pl011TypeOK
  BY DEF RingInv
<1> QED
  BY <1>1, RingInvariant, PTL

-----------------------------------------------------------------------------
(* As long as calls do not overlap: what the ring holds, and when its      *)
(* interrupt is up, at every step of the one call that is under way.       *)

OneCall == pc["host"] = "idle" \/ pc["vcpu"] = "idle"

(* A count that was loaded is the count.                                   *)
CountsCurrent ==
  /\ Putting => tmp["host"] = rx_count
  /\ Reading \/ pc["vcpu"] = "dr empty" => tmp["vcpu"] = rx_count

(* The byte is stored before it is counted, and the head moves on before   *)
(* the byte is discounted.                                                 *)
Stored == pc["host"] \in {"rx load", "rx count"}
Unread == IF Stored THEN rx_count + 1 ELSE IF Reading THEN rx_count - 1 ELSE rx_count
Oldest(k) == (rx_head + k - 1) % Depth
RingHolds ==
  /\ Len(pending) = Unread
  /\ \A k \in 1 .. Unread : pending[k] = rx_fifo[Oldest(k)]

(* What was loaded from ris is still what ris holds.                       *)
SeenCurrent ==
  \A t \in Thread : /\ pc[t] = "ris store" => edit[t].seen = ris
                    /\ pc[t] = "irq" => edit[t].seen = ris \ imsc

(* The receive interrupt is up exactly when there are bytes, except while  *)
(* a call that counted a byte in or the last one out is about to say so.   *)
Editing(t) == pc[t] \in {"ris load", "ris store"}
Clears == Editing("vcpu") /\ "RX" \in edit["vcpu"].clear
RxFollowsCount ==
  /\ Editing("host") => rx_count > 0 /\ edit["host"].set = {"RX"} /\ edit["host"].clear = {}
  /\ Editing("vcpu") => "RX" \notin edit["vcpu"].set
  /\ Clears => rx_count = 0
  /\ pc["vcpu"] = "dr empty" => "RX" \in ris
  /\ ~Editing("host") /\ pc["vcpu"] # "dr empty" /\ ~Clears
       => ("RX" \in ris <=> rx_count > 0)

CallInv == OneCall /\ CountsCurrent /\ RingHolds /\ SeenCurrent /\ RxFollowsCount
SerialInv == serial => CallInv

(* The ring wraps at most once.                                            *)
LEMMA Wraps ==
  ASSUME NEW h \in Slot, NEW n \in 0 .. Depth
  PROVE  (h + n) % Depth = IF h + n < Depth THEN h + n ELSE h + n - Depth
<1>1. Depth \in Nat /\ Depth > 0
  BY Pl011Constants
<1>2. h \in Nat /\ h < Depth /\ n \in Nat /\ n <= Depth
  BY <1>1 DEF Slot
<1>3. CASE h + n < Depth
  BY <1>1, <1>2, <1>3
<1>4. CASE h + n >= Depth
  BY <1>1, <1>2, <1>4
<1> QED
  BY <1>1, <1>2, <1>3, <1>4

LEMMA HeadInRing ==
  ASSUME Pl011TypeOK
  PROVE  Depth \in Nat /\ Depth > 0 /\ rx_head \in Slot /\ rx_head \in Nat /\ rx_head < Depth
<1>1. Depth \in Nat /\ Depth > 0
  BY Pl011Constants
<1>2. rx_head \in Slot
  BY DEF Pl011TypeOK
<1> QED
  BY <1>1, <1>2 DEF Slot

(* Bytes behind different places of the queue lie in different slots, and  *)
(* moving the head on moves every place up by one.                         *)
LEMMA PlacesDiffer ==
  ASSUME Pl011TypeOK, NEW n \in 0 .. (Depth - 1), NEW k \in 1 .. n
  PROVE  Oldest(k) # RxSlot(n) /\ Oldest(k) \in Slot
<1>1. Depth \in Nat /\ Depth > 0 /\ rx_head \in Slot /\ rx_head \in Nat /\ rx_head < Depth
  BY HeadInRing
<1>2. n \in 0 .. Depth /\ k - 1 \in 0 .. Depth /\ k - 1 < n /\ n < Depth
  BY <1>1
<1>3. rx_head + k - 1 = rx_head + (k - 1)
  BY <1>1
<1>4. Oldest(k) = IF rx_head + (k - 1) < Depth THEN rx_head + (k - 1)
                                              ELSE rx_head + (k - 1) - Depth
  BY <1>1, <1>2, <1>3, Wraps DEF Oldest
<1>5. RxSlot(n) = IF rx_head + n < Depth THEN rx_head + n ELSE rx_head + n - Depth
  BY <1>1, <1>2, Wraps DEF RxSlot
<1> QED
  BY <1>1, <1>2, <1>4, <1>5 DEF Slot

LEMMA HeadMoves ==
  ASSUME Pl011TypeOK, NEW k \in 1 .. (Depth - 1), rx_head' = (rx_head + 1) % Depth
  PROVE  Oldest(k)' = Oldest(k + 1)
<1>1. Depth \in Nat /\ Depth > 0 /\ rx_head \in Slot /\ rx_head \in Nat /\ rx_head < Depth
  BY HeadInRing
<1>2. k \in 0 .. Depth /\ k - 1 \in 0 .. Depth /\ 1 \in 0 .. Depth /\ k \in Nat /\ k < Depth
  BY <1>1
<1>3. rx_head' = IF rx_head + 1 < Depth THEN rx_head + 1 ELSE rx_head + 1 - Depth
  BY <1>1, <1>2, Wraps
<1>4. rx_head' \in Slot /\ rx_head' \in Nat
  BY <1>1, <1>3 DEF Slot
<1>5. Oldest(k)' = IF rx_head' + (k - 1) < Depth THEN rx_head' + (k - 1)
                                                ELSE rx_head' + (k - 1) - Depth
  <2>1. rx_head' + k - 1 = rx_head' + (k - 1)
    BY <1>2, <1>4
  <2> QED
    BY <1>2, <1>4, <2>1, Wraps DEF Oldest
<1>6. Oldest(k + 1) = IF rx_head + k < Depth THEN rx_head + k ELSE rx_head + k - Depth
  <2>1. rx_head + (k + 1) - 1 = rx_head + k
    BY <1>1, <1>2
  <2> QED
    BY <1>1, <1>2, <2>1, Wraps DEF Oldest
<1> QED
  BY <1>1, <1>2, <1>3, <1>5, <1>6

LEMMA PutKeepsSerialInv ==
  ASSUME Pl011TypeOK, LoadedCountFits, SerialInv,
         RxPut \/ (\E b \in Byte : RxWrite(b)) \/ RxLoad \/ RxCount
  PROVE  SerialInv'
<1> SUFFICES ASSUME serial' PROVE CallInv'
  BY DEF SerialInv
<1>0. /\ "host" \in Thread /\ "vcpu" \in Thread /\ Thread = {"host", "vcpu"}
      /\ pc \in [Thread -> Pc] /\ tmp \in [Thread -> 0 .. Depth] /\ edit \in [Thread -> Edit]
      /\ rx_count \in Nat
  BY RingNumbers DEF Thread, Pl011TypeOK, Pc, Edit
<1>1. serial /\ CallInv
  BY DEF RxPut, RxWrite, RxLoad, RxCount, CountLoad, Enter, SerialInv
<1>2. pc["vcpu"] = "idle"
  BY <1>1 DEF RxPut, RxWrite, RxLoad, RxCount, CountLoad, Enter, Quiet, Thread, CallInv, OneCall
<1>3. CASE RxPut
  <2>1. /\ pc["host"] = "idle" /\ pc' = [pc EXCEPT !["host"] = "rx write"]
        /\ tmp' = [tmp EXCEPT !["host"] = rx_count]
        /\ UNCHANGED <<rx_fifo, rx_head, rx_count, pending, ris, imsc, edit>>
    BY <1>3 DEF RxPut, Enter, Goto, ring
  <2>2. pc'["host"] = "rx write" /\ pc'["vcpu"] = "idle" /\ tmp'["host"] = rx_count
    BY <1>0, <1>2, <2>1
  <2>3. OneCall' /\ CountsCurrent'
    BY <2>1, <2>2 DEF OneCall, CountsCurrent, Putting, Reading
  <2>4. RingHolds'
    BY <1>1, <1>2, <2>1, <2>2 DEF CallInv, RingHolds, Unread, Stored, Reading, Oldest
  <2>5. SeenCurrent' /\ RxFollowsCount'
    BY <1>0, <1>1, <1>2, <2>1, <2>2 DEF CallInv, SeenCurrent, RxFollowsCount, Editing, Clears
  <2> QED
    BY <2>3, <2>4, <2>5 DEF CallInv
<1>4. ASSUME NEW b \in Byte, RxWrite(b)
      PROVE  CallInv'
  <2>1. /\ pc["host"] = "rx write" /\ pc' = [pc EXCEPT !["host"] = "rx load"]
        /\ pending' = Append(pending, b)
        /\ UNCHANGED <<rx_head, rx_count, ris, imsc, tmp, edit>>
    BY <1>4 DEF RxWrite, Goto
  <2>2. pc'["host"] = "rx load" /\ pc'["vcpu"] = "idle"
    BY <1>0, <1>2, <2>1
  <2>3. OneCall' /\ CountsCurrent'
    BY <1>1, <1>2, <2>1, <2>2 DEF CallInv, OneCall, CountsCurrent, Putting, Reading
  <2>4. RingHolds'
    <3>1. rx_count \in 0 .. (Depth - 1)
      <4>1. rx_count < Depth
        BY <2>1 DEF LoadedCountFits, Putting
      <4> QED
        BY <1>0, <4>1, HeadInRing
    <3>2. rx_fifo' = [rx_fifo EXCEPT ![RxSlot(rx_count)] = b]
      BY <1>1, <1>4, <2>1 DEF RxWrite, Loads, CallInv, CountsCurrent, Putting
    <3>3. Unread = rx_count /\ Unread' = rx_count + 1
      BY <1>2, <2>1, <2>2 DEF Unread, Stored, Reading
    <3>4. pending \in Seq(Byte) /\ Len(pending) = rx_count
      BY <1>1, <3>3 DEF Pl011TypeOK, CallInv, RingHolds
    <3>5. /\ Len(pending') = rx_count + 1 /\ pending'[rx_count + 1] = b
          /\ \A k \in 1 .. rx_count : pending'[k] = pending[k]
      <4>1. /\ Len(Append(pending, b)) = Len(pending) + 1
            /\ \A k \in 1 .. Len(pending) : Append(pending, b)[k] = pending[k]
            /\ Append(pending, b)[Len(pending) + 1] = b
        BY <3>4, AppendProperties
      <4> QED
        BY <2>1, <3>4, <4>1
    <3>6. rx_fifo \in [Slot -> Byte] /\ RxSlot(rx_count) \in Slot
      <4>1. rx_head + rx_count \in Nat
        BY <1>0, HeadInRing
      <4> QED
        BY <4>1, IndexInRing DEF RxSlot, Pl011TypeOK
    <3>7. Oldest(rx_count + 1) = RxSlot(rx_count)
      <4>1. rx_head + (rx_count + 1) - 1 = rx_head + rx_count
        BY <1>0, RingNumbers
      <4> QED
        BY <4>1 DEF Oldest, RxSlot
    <3>8. ASSUME NEW k \in 1 .. rx_count
          PROVE  rx_fifo'[Oldest(k)] = pending'[k]
      <4>1. Oldest(k) # RxSlot(rx_count) /\ Oldest(k) \in Slot
        BY <3>1, PlacesDiffer
      <4>2. pending[k] = rx_fifo[Oldest(k)]
        BY <1>1, <3>3 DEF CallInv, RingHolds
      <4> QED
        BY <3>2, <3>5, <3>6, <4>1, <4>2
    <3>9. rx_fifo'[Oldest(rx_count + 1)] = b
      BY <3>2, <3>6, <3>7
    <3>10. \A k \in 1 .. (rx_count + 1) : k = rx_count + 1 \/ k \in 1 .. rx_count
      BY <1>0
    <3>11. \A k : Oldest(k)' = Oldest(k)
      BY <2>1 DEF Oldest
    <3> QED
      BY <3>3, <3>5, <3>8, <3>9, <3>10, <3>11 DEF RingHolds
  <2>5. SeenCurrent' /\ RxFollowsCount'
    BY <1>0, <1>1, <1>2, <2>1, <2>2 DEF CallInv, SeenCurrent, RxFollowsCount, Editing, Clears
  <2> QED
    BY <2>3, <2>4, <2>5 DEF CallInv
<1>5. CASE RxLoad
  <2>1. /\ pc["host"] = "rx load" /\ pc' = [pc EXCEPT !["host"] = "rx count"]
        /\ UNCHANGED <<rx_fifo, rx_head, rx_count, pending, ris, imsc, edit>>
    BY <1>5 DEF RxLoad, CountLoad, Goto, ring
  <2>2. pc'["host"] = "rx count" /\ pc'["vcpu"] = "idle"
    BY <1>0, <1>2, <2>1
  <2>3. OneCall' /\ CountsCurrent'
    <3>1. tmp' = [tmp EXCEPT !["host"] = rx_count]
      BY <1>1, <1>5, <2>1 DEF RxLoad, CountLoad, Loads, CallInv, CountsCurrent, Putting
    <3> QED
      BY <1>0, <2>1, <2>2, <3>1 DEF OneCall, CountsCurrent, Putting, Reading
  <2>4. RingHolds'
    BY <1>1, <1>2, <2>1, <2>2 DEF CallInv, RingHolds, Unread, Stored, Reading, Oldest
  <2>5. SeenCurrent' /\ RxFollowsCount'
    BY <1>0, <1>1, <1>2, <2>1, <2>2 DEF CallInv, SeenCurrent, RxFollowsCount, Editing, Clears
  <2> QED
    BY <2>3, <2>4, <2>5 DEF CallInv
<1>6. CASE RxCount
  <2>1. /\ pc["host"] = "rx count" /\ pc' = [pc EXCEPT !["host"] = "ris load"]
        /\ edit' = [edit EXCEPT !["host"] = [set |-> {"RX"}, clear |-> {}, seen |-> {}]]
        /\ rx_count' = tmp["host"] + 1
        /\ UNCHANGED <<rx_fifo, rx_head, pending, ris, imsc, tmp>>
    BY <1>6 DEF RxCount, EditRis, Goto
  <2>2. /\ pc'["host"] = "ris load" /\ pc'["vcpu"] = "idle" /\ rx_count' = rx_count + 1
        /\ edit'["host"].set = {"RX"} /\ edit'["host"].clear = {}
    BY <1>0, <1>1, <1>2, <2>1 DEF CallInv, CountsCurrent, Putting
  <2>3. OneCall' /\ CountsCurrent'
    BY <2>2 DEF OneCall, CountsCurrent, Putting, Reading
  <2>4. RingHolds'
    <3>1. Unread' = Unread
      BY <2>1, <2>2 DEF Unread, Stored, Reading
    <3> QED
      BY <1>1, <2>1, <3>1 DEF CallInv, RingHolds, Oldest
  <2>5. SeenCurrent'
    BY <1>0, <2>2 DEF SeenCurrent
  <2>6. RxFollowsCount'
    <3>1. rx_count' > 0
      <4>1. rx_count \in Nat /\ rx_count' = rx_count + 1
        BY <1>0, <2>2
      <4> QED
        BY <4>1
    <3> QED
      BY <2>2, <3>1 DEF RxFollowsCount, Editing, Clears
  <2> QED
    BY <2>3, <2>4, <2>5, <2>6 DEF CallInv
<1> QED
  BY <1>3, <1>4, <1>5, <1>6

LEMMA ReadKeepsSerialInv ==
  ASSUME Pl011TypeOK, LoadedCountFits, SerialInv, DrRead \/ DrLoad \/ DrCount \/ DrEmpty
  PROVE  SerialInv'
<1> SUFFICES ASSUME serial' PROVE CallInv'
  BY DEF SerialInv
<1>0. /\ "host" \in Thread /\ "vcpu" \in Thread /\ Thread = {"host", "vcpu"}
      /\ pc \in [Thread -> Pc] /\ tmp \in [Thread -> 0 .. Depth] /\ edit \in [Thread -> Edit]
  BY DEF Thread, Pl011TypeOK, Pc, Edit
<1>00. rx_count \in Nat
  BY RingNumbers
<1>1. serial /\ CallInv
  BY DEF DrRead, DrLoad, DrCount, DrEmpty, CountLoad, Enter, SerialInv
<1>2. pc["host"] = "idle"
  BY <1>1 DEF DrRead, DrLoad, DrCount, DrEmpty, CountLoad, Enter, Quiet, Thread,
              CallInv, OneCall
<1>3. CASE DrRead
  <2>1. /\ pc["vcpu"] = "idle" /\ pc' = [pc EXCEPT !["vcpu"] = "dr load"]
        /\ tmp' = [tmp EXCEPT !["vcpu"] = rx_count]
        /\ UNCHANGED <<rx_fifo, rx_count, ris, imsc, edit>>
    BY <1>3 DEF DrRead, Enter, Goto
  <2>2. pc'["vcpu"] = "dr load" /\ pc'["host"] = "idle" /\ tmp'["vcpu"] = rx_count
    BY <1>0, <1>2, <2>1
  <2>3. OneCall' /\ CountsCurrent'
    BY <2>1, <2>2 DEF OneCall, CountsCurrent, Putting, Reading
  <2>4. RingHolds'
    <3>1. rx_count > 0 /\ rx_count <= Depth /\ Depth \in Nat
      BY <1>3, RingNumbers DEF DrRead
    <3>2. Unread = rx_count /\ Unread' = rx_count - 1
      BY <1>2, <2>1, <2>2 DEF Unread, Stored, Reading
    <3>3. pending \in Seq(Byte) /\ Len(pending) = rx_count
      BY <1>1, <3>2 DEF Pl011TypeOK, CallInv, RingHolds
    <3>4. pending # <<>>
      BY <1>00, <3>1, <3>3
    <3>5. /\ Len(Tail(pending)) = Len(pending) - 1
          /\ \A k \in 1 .. Len(Tail(pending)) : Tail(pending)[k] = pending[k + 1]
      BY <3>3, <3>4, HeadTailProperties
    <3>6. pending' = Tail(pending)
      BY <1>3, <3>4 DEF DrRead
    <3>7. ASSUME NEW k \in 1 .. (rx_count - 1)
          PROVE  pending'[k] = rx_fifo[Oldest(k)']
      <4>1. k \in 1 .. (Depth - 1) /\ k + 1 \in 1 .. rx_count
        BY <1>00, <3>1
      <4>2. Oldest(k)' = Oldest(k + 1)
        BY <1>3, <4>1, HeadMoves DEF DrRead
      <4>3. pending[k + 1] = rx_fifo[Oldest(k + 1)]
        BY <1>1, <3>2, <4>1 DEF CallInv, RingHolds
      <4>4. pending'[k] = pending[k + 1]
        BY <3>3, <3>5, <3>6
      <4> QED
        BY <4>2, <4>3, <4>4
    <3> QED
      BY <2>1, <3>2, <3>3, <3>5, <3>6, <3>7 DEF RingHolds
  <2>5. SeenCurrent' /\ RxFollowsCount'
    BY <1>0, <1>1, <1>2, <2>1, <2>2 DEF CallInv, SeenCurrent, RxFollowsCount, Editing, Clears
  <2> QED
    BY <2>3, <2>4, <2>5 DEF CallInv
<1>4. CASE DrLoad
  <2>1. /\ pc["vcpu"] = "dr load" /\ pc' = [pc EXCEPT !["vcpu"] = "dr count"]
        /\ UNCHANGED <<rx_fifo, rx_head, rx_count, pending, ris, imsc, edit>>
    BY <1>4 DEF DrLoad, CountLoad, Goto, ring
  <2>2. pc'["vcpu"] = "dr count" /\ pc'["host"] = "idle"
    BY <1>0, <1>2, <2>1
  <2>3. OneCall' /\ CountsCurrent'
    <3>1. tmp' = [tmp EXCEPT !["vcpu"] = rx_count]
      BY <1>1, <1>4, <2>1 DEF DrLoad, CountLoad, Loads, CallInv, CountsCurrent, Reading
    <3> QED
      BY <1>0, <2>1, <2>2, <3>1 DEF OneCall, CountsCurrent, Putting, Reading
  <2>4. RingHolds'
    BY <1>1, <1>2, <2>1, <2>2 DEF CallInv, RingHolds, Unread, Stored, Reading, Oldest
  <2>5. SeenCurrent' /\ RxFollowsCount'
    BY <1>0, <1>1, <1>2, <2>1, <2>2 DEF CallInv, SeenCurrent, RxFollowsCount, Editing, Clears
  <2> QED
    BY <2>3, <2>4, <2>5 DEF CallInv
<1>5. CASE DrCount
  <2>1. /\ pc["vcpu"] = "dr count" /\ pc' = [pc EXCEPT !["vcpu"] = "dr empty"]
        /\ rx_count' = tmp["vcpu"] - 1
        /\ tmp' = [tmp EXCEPT !["vcpu"] = tmp["vcpu"] - 1]
        /\ UNCHANGED <<rx_fifo, rx_head, pending, ris, imsc, edit>>
    BY <1>5 DEF DrCount, Goto
  <2>2. /\ pc'["vcpu"] = "dr empty" /\ pc'["host"] = "idle" /\ rx_count' = rx_count - 1
        /\ tmp'["vcpu"] = rx_count'
    BY <1>0, <1>1, <1>2, <2>1 DEF CallInv, CountsCurrent, Reading
  <2>3. OneCall' /\ CountsCurrent'
    BY <2>2 DEF OneCall, CountsCurrent, Putting, Reading
  <2>4. RingHolds'
    <3>1. Unread' = Unread
      BY <1>2, <2>1, <2>2 DEF Unread, Stored, Reading
    <3> QED
      BY <1>1, <2>1, <3>1 DEF CallInv, RingHolds, Oldest
  <2>5. "RX" \in ris
    <3>1. rx_count > 0
      BY <2>1 DEF LoadedCountFits, Reading
    <3> QED
      BY <1>1, <1>2, <2>1, <3>1 DEF CallInv, RxFollowsCount, Editing, Clears
  <2>6. SeenCurrent' /\ RxFollowsCount'
    BY <1>0, <2>1, <2>2, <2>5 DEF SeenCurrent, RxFollowsCount, Editing, Clears
  <2> QED
    BY <2>3, <2>4, <2>6 DEF CallInv
<1>6. CASE DrEmpty
  <2>1. pc["vcpu"] = "dr empty" /\ tmp["vcpu"] = rx_count /\ "RX" \in ris
        /\ UNCHANGED <<rx_fifo, rx_head, rx_count, pending, ris, imsc, tmp>>
    BY <1>1, <1>6 DEF DrEmpty, ring, CallInv, CountsCurrent, RxFollowsCount
  <2>2. \/ rx_count = 0 /\ EditRis("vcpu", {}, {"RX"})
        \/ rx_count # 0 /\ Goto("vcpu", "mis") /\ UNCHANGED edit
    BY <1>6, <2>1 DEF DrEmpty, Loads, LastByteRead
  <2>3. pc'["host"] = "idle" /\ pc'["vcpu"] \in {"ris load", "mis"}
    BY <1>0, <1>2, <2>2 DEF EditRis, Goto
  <2>4. OneCall' /\ CountsCurrent'
    BY <2>3 DEF OneCall, CountsCurrent, Putting, Reading
  <2>5. RingHolds'
    BY <1>1, <1>2, <2>1, <2>3 DEF CallInv, RingHolds, Unread, Stored, Reading, Oldest
  <2>6. SeenCurrent'
    BY <1>0, <2>3 DEF SeenCurrent
  <2>7. RxFollowsCount'
    <3>1. CASE rx_count = 0 /\ EditRis("vcpu", {}, {"RX"})
      <4>1. /\ pc'["vcpu"] = "ris load"
            /\ edit'["vcpu"].set = {} /\ edit'["vcpu"].clear = {"RX"}
        BY <1>0, <3>1 DEF EditRis, Goto
      <4> QED
        BY <2>1, <2>3, <3>1, <4>1 DEF RxFollowsCount, Editing, Clears
    <3>2. CASE rx_count # 0 /\ Goto("vcpu", "mis") /\ UNCHANGED edit
      <4>1. pc'["vcpu"] = "mis" /\ rx_count > 0
        BY <1>0, <1>00, <3>2 DEF Goto
      <4> QED
        BY <2>1, <2>3, <4>1 DEF RxFollowsCount, Editing, Clears
    <3> QED
      BY <2>2, <3>1, <3>2
  <2> QED
    BY <2>4, <2>5, <2>6, <2>7 DEF CallInv
<1> QED
  BY <1>3, <1>4, <1>5, <1>6

(* The guest's writes: the driver clears no receive interrupt (ICR).       *)
LEMMA WriteKeepsSerialInv ==
  ASSUME Pl011TypeOK, SerialInv, NEW S \in SUBSET {"TX"},
         DrWrite \/ IcrWrite(S) \/ ImscWrite(S)
  PROVE  SerialInv'
<1> SUFFICES ASSUME serial' PROVE CallInv'
  BY DEF SerialInv
<1>0. /\ "host" \in Thread /\ "vcpu" \in Thread /\ Thread = {"host", "vcpu"}
      /\ pc \in [Thread -> Pc] /\ edit \in [Thread -> Edit]
  BY DEF Thread, Pl011TypeOK, Pc, Edit
<1>1. serial /\ CallInv /\ pc["host"] = "idle" /\ pc["vcpu"] = "idle"
  BY DEF DrWrite, IcrWrite, ImscWrite, Enter, Quiet, Thread, SerialInv
<1>2. UNCHANGED <<rx_fifo, rx_head, rx_count, pending, ris, tmp>>
  BY DEF DrWrite, IcrWrite, ImscWrite, ring
<1>3. /\ pc'["host"] = "idle" /\ pc'["vcpu"] \in {"ris load", "mis"}
      /\ pc'["vcpu"] = "ris load"
           => "RX" \notin edit'["vcpu"].set /\ "RX" \notin edit'["vcpu"].clear
  <2>1. CASE DrWrite
    BY <1>0, <1>1, <2>1 DEF DrWrite, EditRis, Goto
  <2>2. CASE IcrWrite(S)
    BY <1>0, <1>1, <2>2 DEF IcrWrite, EditRis, Goto
  <2>3. CASE ImscWrite(S)
    BY <1>0, <1>1, <2>3 DEF ImscWrite, Goto
  <2> QED
    BY <2>1, <2>2, <2>3
<1>4. OneCall' /\ CountsCurrent'
  BY <1>3 DEF OneCall, CountsCurrent, Putting, Reading
<1>5. RingHolds'
  BY <1>1, <1>2, <1>3 DEF CallInv, RingHolds, Unread, Stored, Reading, Oldest
<1>6. SeenCurrent'
  BY <1>0, <1>3 DEF SeenCurrent
<1>7. RxFollowsCount'
  BY <1>1, <1>2, <1>3 DEF CallInv, RxFollowsCount, Editing, Clears
<1> QED
  BY <1>4, <1>5, <1>6, <1>7 DEF CallInv

LEMMA UpdateKeepsSerialInv ==
  ASSUME Pl011TypeOK, SerialInv, NEW t \in Thread, UpdateStep(t)
  PROVE  SerialInv'
<1> SUFFICES ASSUME serial' PROVE CallInv'
  BY DEF SerialInv
<1>0. /\ "host" \in Thread /\ "vcpu" \in Thread /\ Thread = {"host", "vcpu"}
      /\ pc \in [Thread -> Pc] /\ edit \in [Thread -> Edit] /\ tmp \in [Thread -> 0 .. Depth]
  BY DEF Thread, Pl011TypeOK, Pc, Edit
<1>1. serial /\ CallInv /\ UNCHANGED <<rx_fifo, rx_head, rx_count, pending, imsc>>
  BY DEF UpdateStep, RisLoad, RisStore, MisLoad, UpdateIrq, ring, SerialInv
<1>2. /\ pc[t] \in {"ris load", "ris store", "mis", "irq"}
      /\ pc'[t] \in {"ris store", "mis", "irq", "idle"}
      /\ \A u \in Thread \ {t} : pc[u] = "idle" /\ pc'[u] = "idle"
  <2>1. pc[t] \in {"ris load", "ris store", "mis", "irq"}
    BY DEF UpdateStep, RisLoad, RisStore, MisLoad, UpdateIrq
  <2>2. \A u \in Thread \ {t} : pc[u] = "idle"
    BY <1>0, <1>1, <2>1 DEF CallInv, OneCall
  <2>3. PICK label \in {"ris store", "mis", "irq", "idle"} : Goto(t, label)
    BY DEF UpdateStep, RisLoad, RisStore, MisLoad, UpdateIrq
  <2> QED
    BY <1>0, <2>1, <2>2, <2>3 DEF Goto
<1>3. OneCall' /\ CountsCurrent'
  BY <1>0, <1>2 DEF OneCall, CountsCurrent, Putting, Reading
<1>4. RingHolds'
  <2>1. ~Stored /\ ~Reading /\ ~Stored' /\ ~Reading'
    BY <1>0, <1>2 DEF Stored, Reading
  <2> QED
    BY <1>1, <2>1 DEF CallInv, RingHolds, Unread, Oldest
<1>5. SeenCurrent'
  <2>1. CASE RisLoad(t)
    <3>1. edit'[t].seen = ris' /\ pc'[t] = "ris store"
      BY <1>0, <2>1 DEF RisLoad, Goto, Edit
    <3> QED
      BY <1>0, <1>2, <3>1 DEF SeenCurrent
  <2>2. CASE RisStore(t)
    BY <1>0, <1>2, <2>2 DEF RisStore, Goto, SeenCurrent
  <2>3. CASE MisLoad(t)
    <3>1. edit'[t].seen = ris \ imsc /\ ris' = ris
      BY <1>0, <2>3 DEF MisLoad, NoEdit
    <3>2. pc'[t] = "irq"
      BY <1>0, <2>3 DEF MisLoad, Goto
    <3> QED
      BY <1>0, <1>1, <1>2, <3>1, <3>2 DEF SeenCurrent
  <2>4. CASE UpdateIrq(t)
    BY <1>0, <1>2, <2>4 DEF UpdateIrq, Goto, SeenCurrent
  <2> QED
    BY <2>1, <2>2, <2>3, <2>4 DEF UpdateStep
<1>6. RxFollowsCount'
  <2>1. CASE RisLoad(t)
    <3>1. /\ edit'[t].set = edit[t].set /\ edit'[t].clear = edit[t].clear
          /\ \A u \in Thread \ {t} : edit'[u] = edit[u]
          /\ pc[t] = "ris load" /\ pc'[t] = "ris store" /\ ris' = ris
      BY <1>0, <2>1 DEF RisLoad, Goto, Edit
    <3> QED
      BY <1>0, <1>1, <1>2, <3>1 DEF CallInv, RxFollowsCount, Editing, Clears
  <2>2. CASE RisStore(t)
    <3>1. /\ pc[t] = "ris store" /\ pc'[t] = "mis" /\ edit' = edit
          /\ ris' = (ris \cup edit[t].set) \ edit[t].clear
      BY <1>0, <1>1, <2>2 DEF RisStore, Goto, CallInv, SeenCurrent
    <3>2. CASE t = "host"
      BY <1>0, <1>1, <1>2, <3>1, <3>2 DEF CallInv, RxFollowsCount, Editing, Clears
    <3>3. CASE t = "vcpu"
      <4>1. rx_count \in Nat /\ rx_count' = rx_count
        BY <1>1, RingNumbers
      <4>2. pc["host"] = "idle" /\ pc'["host"] = "idle"
        BY <1>0, <1>2, <3>3
      <4>3. Editing("vcpu") /\ "RX" \notin edit["vcpu"].set
        BY <1>1, <3>1, <3>3 DEF CallInv, RxFollowsCount, Editing
      <4>4. CASE "RX" \in edit["vcpu"].clear
        <5>1. rx_count = 0 /\ "RX" \notin ris'
          BY <1>1, <3>1, <3>3, <4>3, <4>4 DEF CallInv, RxFollowsCount, Clears
        <5>2. rx_count' = 0
          BY <4>1, <5>1
        <5>3. ~(rx_count' > 0)
          BY <5>2
        <5>4. pc'["vcpu"] = "mis"
          BY <3>1, <3>3
        <5> QED
          BY <4>2, <5>1, <5>2, <5>3, <5>4 DEF RxFollowsCount, Editing, Clears
      <4>5. CASE "RX" \notin edit["vcpu"].clear
        <5>1. "RX" \in ris <=> rx_count > 0
          BY <1>1, <3>1, <3>3, <4>2, <4>5 DEF CallInv, RxFollowsCount, Editing, Clears
        <5>2. "RX" \in ris' <=> "RX" \in ris
          BY <3>1, <3>3, <4>3, <4>5
        <5> QED
          BY <3>1, <3>3, <4>1, <4>2, <5>1, <5>2 DEF RxFollowsCount, Editing, Clears
      <4> QED
        BY <4>4, <4>5
    <3> QED
      BY <1>0, <3>2, <3>3
  <2>3. CASE MisLoad(t) \/ UpdateIrq(t)
    <3>1. pc[t] \in {"mis", "irq"} /\ pc'[t] \in {"irq", "idle"} /\ ris' = ris
      BY <1>0, <2>3 DEF MisLoad, UpdateIrq, Goto
    <3> QED
      BY <1>0, <1>1, <1>2, <3>1 DEF CallInv, RxFollowsCount, Editing, Clears
  <2> QED
    BY <2>1, <2>2, <2>3 DEF UpdateStep
<1> QED
  BY <1>3, <1>4, <1>5, <1>6 DEF CallInv

LEMMA NextKeepsSerialInv ==
  ASSUME RingInv, SerialInv, [DriverNext]_driverVars
  PROVE  SerialInv'
<1>0. ASSUME UNCHANGED uartVars PROVE SerialInv'
  BY <1>0 DEF uartVars, ring, SerialInv, CallInv, OneCall, CountsCurrent, RingHolds, Unread,
              Oldest, Stored, Putting, Reading, SeenCurrent, RxFollowsCount, Editing, Clears
<1>1. CASE Inject
  BY <1>1, PutKeepsSerialInv DEF Inject, RingInv
<1>2. CASE HostCall
  BY <1>2, PutKeepsSerialInv, UpdateKeepsSerialInv DEF HostCall, HostStep, Thread, RingInv
<1>3. CASE VcpuCall
  BY <1>3, ReadKeepsSerialInv, UpdateKeepsSerialInv DEF VcpuCall, VcpuStep, Thread, RingInv
<1>4. CASE Boot \/ Interrupted \/ Finish
  BY <1>0, <1>4 DEF Boot, Interrupted, Finish
<1>5. CASE Drain
  <2>1. DrRead \/ IcrWrite({"TX"}) \/ UNCHANGED uartVars
    BY <1>5 DEF Drain
  <2> QED
    BY <1>0, <2>1, ReadKeepsSerialInv, WriteKeepsSerialInv DEF RingInv
<1>6. CASE SendChar
  <2>1. \E S \in SUBSET {"TX"} : DrWrite \/ ImscWrite(S)
    BY <1>6 DEF SendChar
  <2> QED
    BY <2>1, WriteKeepsSerialInv DEF RingInv
<1>7. CASE UNCHANGED driverVars
  BY <1>0, <1>7 DEF driverVars
<1> QED
  BY <1>1, <1>2, <1>3, <1>4, <1>5, <1>6, <1>7 DEF DriverNext

LEMMA InitEstablishesSerialInv == DriverInit => SerialInv
<1> SUFFICES ASSUME DriverInit PROVE CallInv
  BY DEF SerialInv
<1>1. /\ \A t \in Thread : pc[t] = "idle"
      /\ rx_count = 0 /\ ris = {} /\ pending = <<>>
      /\ "host" \in Thread /\ "vcpu" \in Thread
  BY DEF DriverInit, Pl011Init, Thread
<1>2. OneCall /\ CountsCurrent /\ SeenCurrent
  BY <1>1 DEF OneCall, CountsCurrent, Putting, Reading, SeenCurrent
<1>3. RingHolds
  <2>1. Unread = 0 /\ Len(pending) = 0
    BY <1>1, EmptySeq DEF Unread, Stored, Reading
  <2> QED
    BY <2>1 DEF RingHolds
<1>4. RxFollowsCount
  <2>1. ~(rx_count > 0)
    BY <1>1
  <2> QED
    BY <1>1, <2>1 DEF RxFollowsCount, Editing, Clears
<1> QED
  BY <1>2, <1>3, <1>4 DEF CallInv

(* The invariant of calls that do not overlap (pl011.c).                   *)
THEOREM SerialInvariant == DriverSpec => [](RingInv /\ SerialInv)
<1>1. DriverInit => RingInv /\ SerialInv
  BY InitEstablishesInv, InitEstablishesSerialInv
<1>2. RingInv /\ SerialInv /\ [DriverNext]_driverVars => (RingInv /\ SerialInv)'
  BY NextKeepsInv, NextKeepsSerialInv
<1> QED
  BY <1>1, <1>2, PTL DEF DriverSpec

(* While calls do not overlap, what the guest reads is what the host put,  *)
(* in the order it put it (pl011_rx_put, a read of DR).                    *)
THEOREM FifoStaysIntact == DriverSpec => []FifoIntact
<1>1. RingInv /\ SerialInv => FifoIntact
  <2> SUFFICES ASSUME RingInv, SerialInv, serial, Quiet PROVE RingContent = pending
    BY DEF FifoIntact
  <2>1. Unread = rx_count
    BY DEF Quiet, Thread, Unread, Stored, Reading
  <2>2. /\ pending \in Seq(Byte) /\ Len(pending) = rx_count
        /\ \A k \in 1 .. rx_count : pending[k] = rx_fifo[Oldest(k)]
    BY <2>1 DEF SerialInv, CallInv, RingHolds, RingInv, Pl011TypeOK
  <2>3. pending = [k \in 1 .. rx_count |-> pending[k]]
    BY <2>2
  <2> QED
    BY <2>2, <2>3 DEF RingContent, Oldest
<1> QED
  BY <1>1, SerialInvariant, PTL

(* A byte in the ring keeps the receive interrupt up (pl011_update_irq).   *)
THEOREM BytesInterrupt == DriverSpec => []ByteInterrupts
<1>1. SerialInv => ByteInterrupts
  BY DEF ByteInterrupts, SerialInv, CallInv, RxFollowsCount, Editing, Clears, Quiet, Thread
<1> QED
  BY <1>1, SerialInvariant, PTL

-----------------------------------------------------------------------------
(* From the UART's interrupt to the CPU.                                   *)

IrqFields == [state : IrqState, enabled : BOOLEAN, priority : Priority, route : Nat]

(* The driver has the interrupt routed, and enabled when it first waits.   *)
Wired ==
  /\ irq \in [Irq -> IrqFields] /\ signal \in [Cpu -> SUBSET Irq]
  /\ irq[UartIrq].route = 0 /\ irq[UartIrq].priority = DefaultPriority
  /\ driver # "off" => are_ns
  /\ driver \notin {"off", "routed"} => irq[UartIrq].enabled

(* It sends nothing before it first waits, so that nothing but bytes can   *)
(* have raised the interrupt while it was still disabled.                  *)
Booting == driver \in {"off", "routed", "boot drain"}
NothingSent ==
  Booting => /\ "TX" \notin ris
             /\ \A t \in Thread : "TX" \notin edit[t].set /\ "TX" \notin edit[t].seen

Delivered ==
  serial /\ Quiet /\ driver = "wait" /\ ris \ imsc # {}
    => irq[UartIrq].state = "PENDING" /\ UartIrq \in signal[0]

DeliveryInv == Wired /\ NothingSent /\ Delivered

LEMMA UartIrqIsIrq == UartIrq \in Irq /\ UartIrq \in Spi /\ 0 \in Cpu
<1>1. UartIrq \in Spi /\ NumCpus \in Nat \ {0} /\ SpiBase \in Nat /\ NumIrq \in Nat
  BY Pl011Constants, GicConstants
<1> QED
  BY <1>1 DEF Spi, Irq, Cpu

LEMMA StateChanges ==
  ASSUME irq \in [Irq -> IrqFields], NEW i, NEW s \in IrqState,
         irq' = [irq EXCEPT ![i].state = s]
  PROVE  /\ irq' \in [Irq -> IrqFields]
         /\ \A j \in Irq : /\ irq'[j].route = irq[j].route
                           /\ irq'[j].priority = irq[j].priority
                           /\ irq'[j].enabled = irq[j].enabled
  BY DEF IrqFields

(* What one call into the GIC does to the UART's interrupt.                *)
LEMMA GicCallsKeepWired ==
  ASSUME Wired,
         \/ RaiseSpi(UartIrq) /\ UNCHANGED driver
         \/ LowerSpi(UartIrq) /\ UNCHANGED driver
         \/ Acknowledge(0) /\ driver = "wait" /\ driver' = "drain"
         \/ Eoi(UartIrq) /\ driver = "drain" /\ driver' = "wait"
         \/ CtlrWrite(TRUE) /\ driver = "off" /\ driver' = "routed"
         \/ EnableWrite(UartIrq, TRUE) /\ driver = "routed" /\ driver' = "boot drain"
  PROVE  Wired'
<1>0. irq \in [Irq -> IrqFields] /\ signal \in [Cpu -> SUBSET Irq] /\ UartIrq \in Irq
  BY UartIrqIsIrq DEF Wired
<1>1. CASE RaiseSpi(UartIrq) /\ UNCHANGED driver
  <2>1. signal' \in [Cpu -> SUBSET Irq] /\ are_ns' = are_ns
    BY <1>0, <1>1 DEF RaiseSpi, Announce
  <2>2. irq' = irq \/ irq' = [irq EXCEPT ![UartIrq].state = "PENDING"]
    BY <1>1 DEF RaiseSpi, RaisedSpi
  <2>3. /\ irq' \in [Irq -> IrqFields]
        /\ \A j \in Irq : /\ irq'[j].route = irq[j].route
                          /\ irq'[j].priority = irq[j].priority
                          /\ irq'[j].enabled = irq[j].enabled
    BY <1>0, <2>2, StateChanges DEF IrqState
  <2> QED
    BY <1>0, <1>1, <2>1, <2>3 DEF Wired
<1>2. CASE LowerSpi(UartIrq) /\ UNCHANGED driver
  <2>1. /\ irq' \in [Irq -> IrqFields]
        /\ \A j \in Irq : /\ irq'[j].route = irq[j].route
                          /\ irq'[j].priority = irq[j].priority
                          /\ irq'[j].enabled = irq[j].enabled
    BY <1>0, <1>2, StateChanges DEF LowerSpi, IrqState
  <2>2. signal' \in [Cpu -> SUBSET Irq] /\ are_ns' = are_ns
    BY <1>0, <1>2 DEF LowerSpi, Withdraw
  <2> QED
    BY <1>0, <1>2, <2>1, <2>2 DEF Wired
<1>3. CASE Acknowledge(0) /\ driver = "wait" /\ driver' = "drain"
  <2>1. /\ irq' \in [Irq -> IrqFields]
        /\ \A j \in Irq : /\ irq'[j].route = irq[j].route
                          /\ irq'[j].priority = irq[j].priority
                          /\ irq'[j].enabled = irq[j].enabled
    BY <1>0, <1>3, StateChanges DEF Acknowledge, IrqState
  <2>2. signal' \in [Cpu -> SUBSET Irq] /\ are_ns' = are_ns
    BY <1>0, <1>3 DEF Acknowledge
  <2> QED
    BY <1>0, <1>3, <2>1, <2>2 DEF Wired
<1>4. CASE Eoi(UartIrq) /\ driver = "drain" /\ driver' = "wait"
  <2>1. RetiredState(irq[UartIrq].state) \in IrqState
    BY <1>0 DEF RetiredState, IrqState, IrqFields
  <2>2. /\ irq' \in [Irq -> IrqFields]
        /\ \A j \in Irq : /\ irq'[j].route = irq[j].route
                          /\ irq'[j].priority = irq[j].priority
                          /\ irq'[j].enabled = irq[j].enabled
    BY <1>0, <1>4, <2>1, StateChanges DEF Eoi
  <2>3. UNCHANGED <<are_ns, signal>>
    BY <1>4 DEF Eoi
  <2> QED
    BY <1>0, <1>4, <2>2, <2>3 DEF Wired
<1>5. CASE CtlrWrite(TRUE) /\ driver = "off" /\ driver' = "routed"
  BY <1>5 DEF CtlrWrite, Wired
<1>6. CASE EnableWrite(UartIrq, TRUE) /\ driver = "routed" /\ driver' = "boot drain"
  <2>1. /\ irq' \in [Irq -> IrqFields] /\ irq'[UartIrq].enabled
        /\ irq'[UartIrq].route = irq[UartIrq].route
        /\ irq'[UartIrq].priority = irq[UartIrq].priority
    BY <1>0, <1>6 DEF EnableWrite, IrqFields
  <2> QED
    BY <1>6, <2>1 DEF EnableWrite, Wired
<1> QED
  BY <1>1, <1>2, <1>3, <1>4, <1>5, <1>6

LEMMA WiredIsKept ==
  ASSUME Wired, [DriverNext]_driverVars
  PROVE  Wired'
<1>1. ASSUME UNCHANGED <<irq, are_ns, signal, driver>> PROVE Wired'
  BY <1>1 DEF Wired
<1>2. ASSUME NEW t \in Thread, UpdateIrq(t), UNCHANGED driver
      PROVE  Wired'
  BY <1>2, GicCallsKeepWired DEF UpdateIrq
<1>3. ASSUME NEW t \in Thread, UpdateStep(t), UNCHANGED driver
      PROVE  Wired'
  BY <1>1, <1>2, <1>3 DEF UpdateStep, RisLoad, RisStore, MisLoad, gicVars
<1>4. CASE Inject
  BY <1>1, <1>4 DEF Inject, RxPut, gicVars
<1>5. CASE HostCall
  BY <1>1, <1>3, <1>5
  DEF HostCall, HostStep, RxWrite, RxLoad, RxCount, CountLoad, Thread, gicVars
<1>6. CASE VcpuCall
  BY <1>1, <1>3, <1>6
  DEF VcpuCall, VcpuStep, DrLoad, DrCount, DrEmpty, CountLoad, Thread, gicVars
<1>7. CASE Boot \/ Interrupted \/ Finish
  BY <1>7, GicCallsKeepWired DEF Boot, Interrupted, Finish
<1>8. CASE Drain
  <2>1. CASE driver = "boot drain" /\ driver' = "wait" /\ UNCHANGED gicVars
    BY <2>1 DEF gicVars, Wired
  <2> QED
    BY <1>1, <1>8, <2>1 DEF Drain, DrRead, IcrWrite, gicVars
<1>9. CASE SendChar
  BY <1>1, <1>9 DEF SendChar, DrWrite, ImscWrite, gicVars
<1>10. CASE UNCHANGED driverVars
  BY <1>1, <1>10 DEF driverVars, gicVars
<1> QED
  BY <1>4, <1>5, <1>6, <1>7, <1>8, <1>9, <1>10 DEF DriverNext

LEMMA NothingSentIsKept ==
  ASSUME Pl011TypeOK, NothingSent, [DriverNext]_driverVars
  PROVE  NothingSent'
<1> SUFFICES ASSUME Booting' PROVE NothingSent'
  BY DEF NothingSent
<1>0. /\ "host" \in Thread /\ "vcpu" \in Thread /\ edit \in [Thread -> Edit]
      /\ "TX" # "RX"
  BY DEF Thread, Pl011TypeOK, Edit
<1>1. Booting /\ ~SendChar
  BY DEF DriverNext, Inject, HostCall, VcpuCall, Boot, Interrupted, Drain, Finish, SendChar,
         driverVars, Booting
<1>2. "TX" \notin ris /\ \A t \in Thread : "TX" \notin edit[t].set /\ "TX" \notin edit[t].seen
  BY <1>1 DEF NothingSent
<1>3. ASSUME UNCHANGED <<ris, edit>> PROVE NothingSent'
  BY <1>2, <1>3 DEF NothingSent
<1>4. ASSUME NEW t \in Thread, NEW S \in SUBSET {"RX"}, NEW C \in SUBSET Interrupt,
             EditRis(t, S, C), UNCHANGED ris
      PROVE  NothingSent'
  <2>1. edit' = [edit EXCEPT ![t] = [set |-> S, clear |-> C, seen |-> {}]]
    BY <1>4 DEF EditRis
  <2> QED
    BY <1>0, <1>2, <1>4, <2>1 DEF NothingSent
<1>5. ASSUME NEW t \in Thread, UpdateStep(t) PROVE NothingSent'
  <2>1. CASE RisLoad(t)
    BY <1>0, <1>2, <2>1 DEF RisLoad, NothingSent, Edit
  <2>2. CASE RisStore(t)
    BY <1>0, <1>2, <2>2 DEF RisStore, NothingSent
  <2>3. CASE MisLoad(t)
    BY <1>0, <1>2, <2>3 DEF MisLoad, NoEdit, NothingSent
  <2>4. CASE UpdateIrq(t)
    BY <1>0, <1>2, <2>4 DEF UpdateIrq, NoEdit, NothingSent
  <2> QED
    BY <1>5, <2>1, <2>2, <2>3, <2>4 DEF UpdateStep
<1>6. CASE Inject
  BY <1>3, <1>6 DEF Inject, RxPut
<1>7. CASE HostCall
  <2>1. CASE RxCount
    BY <1>0, <1>4, <2>1 DEF RxCount, Interrupt
  <2> QED
    BY <1>3, <1>5, <1>7, <2>1 DEF HostCall, HostStep, RxWrite, RxLoad, CountLoad, Thread
<1>8. CASE VcpuCall
  <2>1. CASE DrEmpty
    BY <1>0, <1>3, <1>4, <2>1 DEF DrEmpty, Interrupt
  <2> QED
    BY <1>3, <1>5, <1>8, <2>1 DEF VcpuCall, VcpuStep, DrLoad, DrCount, CountLoad, Thread
<1>9. CASE Boot \/ Interrupted \/ Finish
  BY <1>3, <1>9 DEF Boot, Interrupted, Finish, uartVars
<1>10. CASE Drain
  <2>1. CASE IcrWrite({"TX"})
    BY <1>0, <1>4, <2>1 DEF IcrWrite, Interrupt
  <2> QED
    BY <1>3, <1>10, <2>1 DEF Drain, DrRead, uartVars
<1>11. CASE UNCHANGED driverVars
  BY <1>3, <1>11 DEF driverVars, uartVars
<1> QED
  BY <1>1, <1>6, <1>7, <1>8, <1>9, <1>10, <1>11 DEF DriverNext

(* Between calls, with no byte in the ring and nothing sent, ris is clear. *)
LEMMA NothingRaised ==
  ASSUME RingInv, SerialInv, serial, Quiet, rx_count = 0, "TX" \notin ris
  PROVE  ris = {}
<1>1. "RX" \notin ris
  <2>1. ~(rx_count > 0)
    OBVIOUS
  <2> QED
    BY <2>1 DEF SerialInv, CallInv, RxFollowsCount, Quiet, Thread, Editing, Clears
<1> QED
  BY <1>1 DEF RingInv, Pl011TypeOK, Interrupt

(* pl011_update_irq announces whatever it sees.                            *)
LEMMA UpdateDelivers ==
  ASSUME RingInv, SerialInv, Wired, NEW t \in Thread, UpdateIrq(t), UNCHANGED driver
  PROVE  Delivered'
<1> SUFFICES ASSUME serial', driver' = "wait", (ris \ imsc)' # {}
             PROVE  irq'[UartIrq].state = "PENDING" /\ UartIrq \in signal'[0]
  BY DEF Delivered
<1>1. serial /\ driver = "wait" /\ ris' = ris /\ imsc' = imsc
  BY DEF UpdateIrq
<1>2. edit[t].seen # {}
  BY <1>1 DEF UpdateIrq, SerialInv, CallInv, SeenCurrent
<1>3. RaiseSpi(UartIrq)
  BY <1>2 DEF UpdateIrq
<1>4. irq[UartIrq].enabled /\ Targets(UartIrq) = {0}
  BY <1>1 DEF Wired, Targets
<1>5. irq' = [irq EXCEPT ![UartIrq].state = "PENDING"] /\ signal' = Announce(UartIrq)
  BY <1>3, <1>4 DEF RaiseSpi, RaisedSpi
<1>6. irq'[UartIrq].state = "PENDING"
  BY <1>5, UartIrqIsIrq DEF Wired, IrqFields
<1>7. UartIrq \in signal'[0]
  BY <1>4, <1>5, UartIrqIsIrq DEF Announce
<1> QED
  BY <1>6, <1>7

LEMMA DeliveredIsKept ==
  ASSUME RingInv, SerialInv, DeliveryInv, [DriverNext]_driverVars
  PROVE  Delivered'
<1>0. pc \in [Thread -> Pc] /\ "host" \in Thread /\ "vcpu" \in Thread
  BY DEF RingInv, Pl011TypeOK, Pc, Thread
<1>1. ASSUME NEW t \in Thread, NEW label \in Pc \ {"idle"}, Goto(t, label)
      PROVE  Delivered'
  BY <1>0, <1>1 DEF Goto, Delivered, Quiet
<1>2. ASSUME driver' # "wait" PROVE Delivered'
  BY <1>2 DEF Delivered
<1>3. ASSUME NEW t \in Thread, NEW S, NEW C, EditRis(t, S, C) PROVE Delivered'
  BY <1>1, <1>3 DEF EditRis, Pc
<1>4. ASSUME NEW t \in Thread, UpdateStep(t), UNCHANGED driver PROVE Delivered'
  <2>1. CASE RisLoad(t) \/ RisStore(t) \/ MisLoad(t)
    BY <1>1, <2>1 DEF RisLoad, RisStore, MisLoad, Pc
  <2>2. CASE UpdateIrq(t)
    BY <1>4, <2>2, UpdateDelivers DEF DeliveryInv
  <2> QED
    BY <1>4, <2>1, <2>2 DEF UpdateStep
<1>5. CASE Inject
  BY <1>0, <1>1, <1>5 DEF Inject, RxPut, Pc
<1>6. CASE HostCall
  <2>1. CASE \E t \in Thread : UpdateStep(t)
    BY <1>4, <1>6, <2>1 DEF HostCall
  <2>2. CASE \E b \in Byte : RxWrite(b)
    BY <1>0, <1>1, <2>2 DEF RxWrite, Pc
  <2>3. CASE RxLoad
    BY <1>0, <1>1, <2>3 DEF RxLoad, CountLoad, Pc
  <2>4. CASE RxCount
    BY <1>0, <1>3, <2>4 DEF RxCount
  <2> QED
    BY <1>0, <1>6, <2>1, <2>2, <2>3, <2>4 DEF HostCall, HostStep
<1>7. CASE VcpuCall
  <2>1. CASE \E t \in Thread : UpdateStep(t)
    BY <1>4, <1>7, <2>1 DEF VcpuCall
  <2>2. CASE DrLoad \/ DrCount
    BY <1>0, <1>1, <2>2 DEF DrLoad, DrCount, CountLoad, Pc
  <2>3. CASE DrEmpty
    BY <1>0, <1>1, <1>3, <2>3 DEF DrEmpty, Pc
  <2> QED
    BY <1>0, <1>7, <2>1, <2>2, <2>3 DEF VcpuCall, VcpuStep
<1>8. CASE Boot \/ Interrupted
  BY <1>2, <1>8 DEF Boot, Interrupted
<1>9. ASSUME UNCHANGED uartVars, rx_count = 0, "TX" \notin ris PROVE Delivered'
  <2> SUFFICES ASSUME serial', Quiet' PROVE ris' = {}
    BY DEF Delivered
  <2>1. serial /\ Quiet /\ ris' = ris
    BY <1>9 DEF uartVars, Quiet
  <2> QED
    BY <1>9, <2>1, NothingRaised
<1>10. CASE Finish
  BY <1>9, <1>10 DEF Finish
<1>11. CASE Drain
  <2>1. CASE DrRead
    BY <1>0, <1>1, <2>1 DEF DrRead, Pc
  <2>2. CASE IcrWrite({"TX"})
    BY <1>0, <1>3, <2>2 DEF IcrWrite
  <2>3. CASE driver = "boot drain" /\ rx_count = 0 /\ UNCHANGED uartVars
    BY <1>9, <2>3 DEF DeliveryInv, NothingSent, Booting
  <2> QED
    BY <1>11, <2>1, <2>2, <2>3 DEF Drain
<1>12. CASE SendChar
  <2>1. CASE DrWrite
    BY <1>0, <1>3, <2>1 DEF DrWrite
  <2>2. CASE \E S \in SUBSET {"TX"} : ImscWrite(S)
    BY <1>0, <1>1, <2>2 DEF ImscWrite, Pc
  <2> QED
    BY <1>12, <2>1, <2>2 DEF SendChar
<1>13. CASE UNCHANGED driverVars
  BY <1>13 DEF driverVars, uartVars, gicVars, DeliveryInv, Delivered, Quiet
<1> QED
  BY <1>5, <1>6, <1>7, <1>8, <1>10, <1>11, <1>12, <1>13 DEF DriverNext

LEMMA InitDelivers == DriverInit => DeliveryInv
<1> SUFFICES ASSUME DriverInit PROVE DeliveryInv
  OBVIOUS
<1>1. irq \in [Irq -> IrqFields]
  <2> DEFINE enabled(i) == i \in Sgi
  <2>1. \A i \in Irq : enabled(i) \in BOOLEAN
    OBVIOUS
  <2>2. "INACTIVE" \in IrqState /\ 0 \in Nat /\ DefaultPriority \in Priority
    BY GicConstants DEF IrqState
  <2>3. irq = [i \in Irq |-> [state |-> "INACTIVE", enabled |-> enabled(i),
                             priority |-> DefaultPriority, route |-> 0]]
    BY DEF DriverInit, GicInit
  <2> HIDE DEF enabled
  <2> QED
    BY <2>1, <2>2, <2>3 DEF IrqFields
<1>2. Wired
  BY <1>1, UartIrqIsIrq DEF DriverInit, GicInit, Wired
<1>3. NothingSent
  BY DEF DriverInit, Pl011Init, NoEdit, NothingSent
<1>4. Delivered
  BY DEF DriverInit, Delivered
<1> QED
  BY <1>2, <1>3, <1>4 DEF DeliveryInv

(* What the UART raises reaches CPU 0: while the guest sleeps and no call  *)
(* is under way, an unmasked interrupt can be acknowledged there and has   *)
(* been announced (pl011_update_irq, gic_raise_spi).                       *)
THEOREM InterruptIsDelivered == DriverSpec => []AssertedIsDelivered
<1>1. DriverInit => RingInv /\ SerialInv /\ DeliveryInv
  BY InitEstablishesInv, InitEstablishesSerialInv, InitDelivers
<1>2. RingInv /\ SerialInv /\ DeliveryInv /\ [DriverNext]_driverVars
        => (RingInv /\ SerialInv /\ DeliveryInv)'
  BY NextKeepsInv, NextKeepsSerialInv, WiredIsKept, NothingSentIsKept, DeliveredIsKept
  DEF RingInv, DeliveryInv
<1>3. DeliveryInv => AssertedIsDelivered
  <2> SUFFICES ASSUME DeliveryInv, serial, Quiet, driver = "wait", ris \ imsc # {}
               PROVE  UartIrq \in Eligible(0) /\ UartIrq \in signal[0]
    BY DEF AssertedIsDelivered
  <2>1. irq[UartIrq].state = "PENDING" /\ UartIrq \in signal[0]
    BY DEF DeliveryInv, Delivered
  <2>2. /\ irq[UartIrq].enabled /\ irq[UartIrq].priority = DefaultPriority
        /\ Targets(UartIrq) = {0}
    BY DEF DeliveryInv, Wired, Targets
  <2>3. DefaultPriority < LowestPriority
    BY GicConstants DEF Priority
  <2> QED
    BY <2>1, <2>2, <2>3, UartIrqIsIrq DEF Eligible
<1> QED
  BY <1>1, <1>2, <1>3, PTL DEF DriverSpec

=============================================================================
