----------------------------- MODULE VirtioMmio -----------------------------
(***************************************************************************)
(* The virtio-mmio transport, devices/transport/virtio_mmio.c: the         *)
(* registers that set up, notify and reset a device, the split virtqueues  *)
(* the devices walk through virtio_get_avail, virtio_get_desc and          *)
(* virtio_put_used, and the interrupt they raise at the GIC.               *)
(*                                                                         *)
(* Ring addresses are abstracted to whether they lie in guest RAM, so that *)
(* the code caches a pointer to the area; feature negotiation and the      *)
(* configuration space change nothing a device consults and are left out.  *)
(***************************************************************************)
EXTENDS Gic, Sequences

CONSTANTS
  NumQueues,   (* dev->num_queues                                          *)
  MaxSize,     (* the largest queue the guest sets up                      *)
  IndexLimit,  (* 2^16: what ring indices are counted modulo               *)
  VirtioIrq    (* dev->irq_num                                             *)

ASSUME VirtioConstants ==
  /\ NumQueues \in Nat \ {0} /\ MaxSize \in Nat \ {0}
  /\ IndexLimit \in Nat /\ MaxSize < IndexLimit
  /\ VirtioIrq \in Spi

Queue == 0 .. (NumQueues - 1)
Index == 0 .. (IndexLimit - 1)
Slot == 0 .. (MaxSize - 1)
Area == {"desc", "avail", "used"}

VARIABLES
  status,     (* dev->status is not zero                                   *)
  queue_sel,  (* dev->queue_sel                                            *)
  queues,     (* dev->queues[]; cached: the areas whose pointer is set     *)
  int_status, (* VIRTIO_INT_VRING in dev->int_status                       *)
  avail,      (* guest RAM: the available ring of every queue              *)
  used        (* guest RAM: the used ring of every queue                   *)

virtioVars == <<status, queue_sel, queues, int_status, avail, used>>

EmptyQueue == [ready |-> FALSE, size |-> 0, cached |-> {}, last_avail_idx |-> 0]
EmptyRing == [idx |-> 0, ring |-> [s \in Slot |-> 0]]

VirtioInit ==
  /\ status = FALSE /\ queue_sel = 0 /\ int_status = FALSE
  /\ queues = [q \in Queue |-> EmptyQueue]
  /\ avail = [q \in Queue |-> EmptyRing]
  /\ used = [q \in Queue |-> EmptyRing]

-----------------------------------------------------------------------------
(* Writes of the guest, virtio_mmio_write.                                 *)

QueueSelWrite(q) ==
  /\ queue_sel' = q
  /\ UNCHANGED <<status, queues, int_status, avail, used, gicVars>>

QueueNumWrite(n) ==
  /\ queues' = [queues EXCEPT ![queue_sel].size = n]
  /\ UNCHANGED <<status, queue_sel, int_status, avail, used, gicVars>>

QueueReadyWrite(b) ==
  /\ queues' = [queues EXCEPT ![queue_sel].ready = b]
  /\ UNCHANGED <<status, queue_sel, int_status, avail, used, gicVars>>

AreaWrite(a) ==   (* QUEUE_DESC, QUEUE_AVAIL, QUEUE_USED, low and high     *)
  /\ queues' = [queues EXCEPT ![queue_sel].cached = @ \cup {a}]
  /\ UNCHANGED <<status, queue_sel, int_status, avail, used, gicVars>>

InterruptAck ==
  /\ int_status' = FALSE
  /\ UNCHANGED <<status, queue_sel, queues, avail, used, gicVars>>

(* Writing zero resets the queues; queue_sel and the GIC's pending state   *)
(* are left as they are.                                                   *)
QueuesKept(b) == queues
QueuesAfter(b) == IF status /\ ~b THEN [q \in Queue |-> EmptyQueue] ELSE queues

StatusWrite(b) ==
  /\ status' = b
  /\ queues' = QueuesAfter(b)
  /\ int_status' = (int_status /\ ~(status /\ ~b))
  /\ UNCHANGED <<queue_sel, avail, used, gicVars>>

-----------------------------------------------------------------------------
(* What a device does with a queue.                                        *)

(* virtio_get_avail called until it finds nothing: the heads it returns.   *)
Waiting(q) ==
  (avail[q].idx + IndexLimit - queues[q].last_avail_idx) % IndexLimit

HeadAt(q, k) ==
  avail[q].ring[((queues[q].last_avail_idx + k) % IndexLimit) % queues[q].size]

Heads(q) ==
  IF queues[q].ready /\ "avail" \in queues[q].cached
  THEN [k \in 1 .. Waiting(q) |-> HeadAt(q, k - 1)]
  ELSE <<>>

(* The queue after one such call that found a head.                        *)
Fetched(q) ==
  [queues EXCEPT ![q].last_avail_idx = (@ + 1) % IndexLimit]

(* virtio_get_desc: the head names a descriptor of the table.              *)
HasDesc(q, h) == "desc" \in queues[q].cached /\ h < queues[q].size

(* virtio_put_used                                                         *)
PutUsed(q, h) ==
  IF "used" \in queues[q].cached
  THEN [used EXCEPT ![q] = [idx  |-> (@.idx + 1) % IndexLimit,
                            ring |-> [@.ring EXCEPT ![used[q].idx % queues[q].size] = h]]]
  ELSE used

(* virtio_raise_interrupt                                                  *)
RaiseInterrupt ==
  /\ int_status' = TRUE
  /\ RaiseSpi(VirtioIrq)

=============================================================================
