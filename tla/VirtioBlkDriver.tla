--------------------------- MODULE VirtioBlkDriver --------------------------
(***************************************************************************)
(* The block device, the transport and the GIC under the guest's driver:   *)
(* it sets the device up by the virtio rules, keeps the free descriptors,  *)
(* submits and notifies from its task and from its interrupt handler,      *)
(* collects the used ring in the handler, and may reset the device and     *)
(* begin again.  Guest code runs on vCPU 0 alone (sv_machine_run), and a   *)
(* notification is served before the vCPU continues, so no action of the   *)
(* driver happens while the device is serving.  The driver is an external  *)
(* component.                                                              *)
(***************************************************************************)
EXTENDS VirtioBlk

CONSTANTS
  Sizes,    (* queue sizes the driver may choose                           *)
  Requests  (* requests the guest makes                                    *)

ASSUME DriverConstants ==
  /\ Sizes \subseteq 1 .. MaxSize /\ Requests \subseteq Request
  /\ \A n \in Sizes : IndexLimit % n = 0
  /\ \A r \in Requests : r.type \in {"in", "out"} => r.segments > 0

VARIABLES
  driver,    (* where the driver is                                        *)
  free,      (* descriptors not in flight                                  *)
  last_used, (* used entries collected, modulo IndexLimit                  *)
  kick,      (* submitted since the last notification                      *)
  settled,   (* ghost: what the disk may hold, no request being in flight  *)
  may        (* ghost: per head, what a read in flight may return          *)

driverOnly == <<driver, free, last_used, kick, settled, may>>
vars == <<gicVars, virtioVars, blkVars, driverOnly>>

NoRequest == CHOOSE r \in Requests : TRUE   (* in memory not in use        *)
Size == queues[0].size
On == driver \in {"idle", "isr", "collect", "spurious"}
Pending(h) == On /\ h \in 0 .. Size - 1 /\ h \notin free
WritesInFlight == {chain[h].value : h \in {g \in Slot : Pending(g) /\ chain[g].type = "out"}}
Done == [k \in 1 .. (used[0].idx + IndexLimit - last_used) % IndexLimit |->
           used[0].ring[((last_used + (k - 1)) % IndexLimit) % Size]]
DoneWhenReady == IF queues[0].ready THEN Done ELSE <<>>

Init ==
  /\ GicInit /\ VirtioInit
  /\ disk \in Value
  /\ chain = [h \in Slot |-> NoRequest]
  /\ buffer = [h \in Slot |-> CHOOSE v \in Value : TRUE]
  /\ second = [h \in Slot |-> "data"]
  /\ reported = [h \in Slot |-> "stale"] /\ serving = FALSE
  /\ driver = "off" /\ free = {} /\ last_used = 0 /\ kick = FALSE
  /\ settled = {disk} /\ may = [h \in Slot |-> {}]

-----------------------------------------------------------------------------
Setup ==
  /\ \/ driver = "off" /\ StatusWrite(FALSE) /\ driver' = "clear"
     \/ /\ driver = "clear" /\ driver' = "probe"
        /\ avail' = [q \in Queue |-> EmptyRing]
        /\ used' = [q \in Queue |-> EmptyRing]
        /\ UNCHANGED <<status, queue_sel, queues, int_status, gicVars>>
     \/ driver = "probe" /\ StatusWrite(TRUE) /\ driver' = "select"
     \/ driver = "select" /\ QueueSelWrite(0) /\ driver' = "size"
     \/ driver = "size" /\ driver' = "areas" /\ \E n \in Sizes : QueueNumWrite(n)
     \/ /\ driver = "areas" /\ UNCHANGED driver
        /\ \/ \E a \in Area \ queues[0].cached : AreaWrite(a)
           \/ ~are_ns /\ CtlrWrite(TRUE) /\ UNCHANGED virtioVars
           \/ /\ ~irq[VirtioIrq].enabled
              /\ EnableWrite(VirtioIrq, TRUE) /\ UNCHANGED virtioVars
  /\ UNCHANGED <<blkVars, free, last_used, kick, settled, may>>

Ready ==
  /\ driver = "areas"
  /\ queues[0].cached = Area /\ are_ns /\ irq[VirtioIrq].enabled
  /\ QueueReadyWrite(TRUE)
  /\ driver' = "idle"
  /\ free' = 0 .. Size - 1 /\ last_used' = 0 /\ kick' = FALSE
  /\ UNCHANGED <<blkVars, settled, may>>

(* The ring is filled first, then its index advanced.                      *)
Submit(r) ==
  /\ On /\ ~serving
  /\ \E h \in free :
       /\ free' = free \ {h}
       /\ chain' = [chain EXCEPT ![h] = r]
       /\ reported' = [reported EXCEPT ![h] = "stale"]
       /\ avail' = [avail EXCEPT ![0] =
            [idx |-> (@.idx + 1) % IndexLimit, ring |-> [@.ring EXCEPT ![avail[0].idx % Size] = h]]]
       /\ may' = [g \in Slot |->
            IF g = h THEN IF r.type = "in" THEN settled \cup WritesInFlight ELSE {}
            ELSE IF r.type = "out" /\ Pending(g) /\ chain[g].type = "in"
                 THEN may[g] \cup {r.value} ELSE may[g]]
  /\ kick' = TRUE
  /\ UNCHANGED <<status, queue_sel, queues, int_status, used, disk, buffer, second,
                 serving, gicVars, driver, last_used, settled>>

Notify ==
  /\ On /\ kick
  /\ QueueNotify
  /\ kick' = FALSE
  /\ UNCHANGED <<driver, free, last_used, settled, may>>

Serve ==
  /\ ServeRequest \/ StopServing
  /\ UNCHANGED driverOnly

Interrupt ==
  /\ driver = "idle" /\ ~serving /\ signal[0] # {}
  /\ Acknowledge(0)
  /\ driver' = "isr"
  /\ UNCHANGED <<virtioVars, blkVars, free, last_used, kick, settled, may>>

Isr ==
  /\ driver = "isr" /\ ~serving
  /\ InterruptAck
  /\ driver' = IF int_status THEN "collect" ELSE "spurious"
  /\ UNCHANGED <<blkVars, free, last_used, kick, settled, may>>

Collect ==
  /\ driver = "collect" /\ ~serving /\ last_used # used[0].idx
  /\ LET h == Done[1] IN
     /\ free' = free \cup {h}
     /\ settled' = IF chain[h].type # "out" THEN settled
                   ELSE IF reported[h] = "ok" THEN {chain[h].value}
                   ELSE settled \cup {chain[h].value}
     /\ may' = [may EXCEPT ![h] = {}]
     /\ chain' = [chain EXCEPT ![h] = NoRequest]
     /\ buffer' = [buffer EXCEPT ![h] = CHOOSE v \in Value : TRUE]
     /\ second' = [second EXCEPT ![h] = "data"]
     /\ reported' = [reported EXCEPT ![h] = "stale"]
  /\ last_used' = (last_used + 1) % IndexLimit
  /\ UNCHANGED <<gicVars, virtioVars, disk, serving, driver, kick>>

Finish ==
  /\ ~serving
  /\ \/ driver = "spurious"
     \/ driver = "collect" /\ last_used = used[0].idx
  /\ Eoi(VirtioIrq)
  /\ driver' = "idle"
  /\ UNCHANGED <<virtioVars, blkVars, free, last_used, kick, settled, may>>

(* The driver gives up what is in flight.                                  *)
Reset ==
  /\ driver = "idle" /\ ~serving
  /\ StatusWrite(FALSE)
  /\ driver' = "off" /\ free' = {} /\ kick' = FALSE /\ last_used' = 0
  /\ settled' = settled \cup WritesInFlight
  /\ may' = [h \in Slot |-> {}]
  /\ chain' = [h \in Slot |-> NoRequest]
  /\ buffer' = [h \in Slot |-> CHOOSE v \in Value : TRUE]
  /\ second' = [h \in Slot |-> "data"]
  /\ reported' = [h \in Slot |-> "stale"]
  /\ UNCHANGED <<disk, serving>>

Next ==
  \/ Setup \/ Ready \/ Notify \/ Serve \/ Interrupt \/ Isr \/ Collect \/ Finish \/ Reset
  \/ \E r \in Requests : Submit(r)

(* What was submitted is notified, and the interrupt preempts the guest.   *)
DriverStep == Notify \/ Serve \/ Interrupt \/ Isr \/ Collect \/ Finish

Spec == Init /\ [][Next]_vars /\ WF_vars(DriverStep)

-----------------------------------------------------------------------------
(* The rings implement the queue a driver relies on: in order, each        *)
(* request once, nothing left over from before a reset, also when the      *)
(* indices wrap (virtio_get_avail, virtio_put_used).                       *)
Fifo == INSTANCE RequestFifo WITH
          Request <- Slot, todo <- Heads(0), done <- DoneWhenReady
ImplementsFifo == Fifo!Spec

(* While the guest is outside its handler, a completion it has not seen    *)
(* has its interrupt waiting at the GIC, although the device may complete  *)
(* more while the handler runs (virtio_raise_interrupt, gic_raise_spi).    *)
CompletionSignalled ==
  driver = "idle" /\ ~serving /\ last_used # used[0].idx
    => VirtioIrq \in Eligible(0) /\ VirtioIrq \in signal[0]

(* A read in flight that completes returns what the last write collected   *)
(* before it was submitted left there, or what a write concurrent with it  *)
(* wrote.                                                                  *)
ReadsAreCurrent ==
  \A k \in DOMAIN DoneWhenReady :
    LET h == Done[k] IN
    chain[h].type = "in" /\ reported[h] = "ok" => buffer[h] \in may[h]

(* Every request is returned to the driver, unless it resets the device.   *)
RequestsReturn == \A h \in Slot : Pending(h) ~> ~Pending(h)

(* Where the status byte of a request goes (virtio_blk.c:81-85, 146): to   *)
(* its own descriptor if the request has one data segment.  A flush, which *)
(* has none, is handed back without its status, a request of several with  *)
(* the byte over its second segment, be that one the device may write or   *)
(* not; and a request that is not served yet is untouched.                 *)
StatusLands ==
  \A h \in Slot :
    LET served == \E k \in DOMAIN DoneWhenReady : Done[k] = h IN
    /\ reported[h] # "stale" <=> served /\ chain[h].segments = 1
    /\ second[h] # "data" <=> served /\ chain[h].segments > 1

=============================================================================
