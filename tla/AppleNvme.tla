------------------------------ MODULE AppleNvme -----------------------------
(***************************************************************************)
(* The NVMe controller of the Apple machine,                               *)
(* devices/apple-nvme/apple_nvme.c: the enable bit, the doorbells, the     *)
(* admin commands that create and delete I/O queues, and the completions   *)
(* every command posts.                                                    *)
(*                                                                         *)
(* Queue 0 is the admin queue.  A submission doorbell is served before the *)
(* vCPU continues; each command is a step here, taken while serving names  *)
(* the queue.  DMA succeeds, as it does for every address in guest RAM     *)
(* once a disk is attached, and the data, the status and the registers     *)
(* that nothing consults are left out.                                     *)
(***************************************************************************)
EXTENDS Naturals, Sequences

CONSTANTS
  IoQueues,  (* identifiers of I/O queues: 1 .. NVME_MAX_QUEUES - 1        *)
  SqSize,    (* entries of a submission queue less one (AQA, cdw10)        *)
  CqSize,    (* entries of a completion queue less one                     *)
  Cid,       (* command identifiers                                        *)
  None

ASSUME NvmeConstants ==
  /\ IoQueues \subseteq Nat \ {0} /\ IoQueues # {}
  /\ SqSize \in Nat /\ CqSize \in Nat
  /\ None \notin Nat

Qid == {0} \cup IoQueues
SqEntry == 0 .. SqSize
CqEntry == 0 .. CqSize
AdminOp == {"identify", "features", "abort", "log", "create cq", "create sq",
            "delete cq", "delete sq"}
IoOp == {"rw", "unknown"}
Command == [op : AdminOp \cup IoOp, cid : Cid, qid : Qid, cqid : Qid]

VARIABLES
  enabled,  (* nvme->enabled                                               *)
  sq,       (* admin_sq and io_sq[]: valid, size, head, tail               *)
  cq,       (* admin_cq and io_cq[]: valid, size, head                     *)
  serving,  (* the queue whose doorbell is being served, or None           *)
  next,     (* the local variable head of nvme_process_admin_cmd, _io_sq   *)
  sqe,      (* guest RAM: the submission queues                            *)
  cqe,      (* guest RAM: the completion queues                            *)
  raised,   (* irq_raise called since the guest last took the interrupt    *)
  posted    (* ghost: per queue, completions posted and not collected      *)

nvmeVars == <<enabled, sq, cq, serving, next, sqe, cqe, raised, posted>>

NoCompletion == [cid |-> None, phase |-> 0]

NvmeInit ==
  /\ enabled = FALSE /\ serving = None /\ next = 0 /\ raised = FALSE
  /\ sq = [q \in Qid |-> [valid |-> FALSE, size |-> 0, head |-> 0, tail |-> 0]]
  /\ cq = [q \in Qid |-> [valid |-> FALSE, size |-> 0, head |-> 0]]
  /\ sqe = [q \in Qid |-> [e \in SqEntry |-> None]]
  /\ cqe = [q \in Qid |-> [e \in CqEntry |-> NoCompletion]]
  /\ posted = [q \in Qid |-> <<>>]

FreshSq == [valid |-> TRUE, size |-> SqSize, head |-> 0, tail |-> 0]
FreshCq == [valid |-> TRUE, size |-> CqSize, head |-> 0]

-----------------------------------------------------------------------------
(* Writes to NVME_REG_CC that change the enable bit.                       *)
Enable ==
  /\ serving = None /\ ~enabled
  /\ enabled' = TRUE
  /\ sq' = [sq EXCEPT ![0] = FreshSq]
  /\ cq' = [cq EXCEPT ![0] = FreshCq]
  /\ UNCHANGED <<serving, next, sqe, cqe, raised, posted>>

Invalid(queues) == [q \in Qid |-> [queues[q] EXCEPT !.valid = FALSE]]

Disable ==
  /\ serving = None /\ enabled
  /\ enabled' = FALSE
  /\ sq' = Invalid(sq)
  /\ cq' = Invalid(cq)
  /\ posted' = [q \in Qid |-> <<>>]
  /\ UNCHANGED <<serving, next, sqe, cqe, raised>>

(* Doorbells.                                                              *)
TailDoorbell(q, tail) ==
  /\ serving = None /\ enabled /\ sq[q].valid
  /\ sq' = [sq EXCEPT ![q].tail = tail]
  /\ IF sq[q].head # tail /\ (q = 0 \/ cq[q].valid)
     THEN serving' = q /\ next' = sq[q].head
     ELSE UNCHANGED <<serving, next>>
  /\ UNCHANGED <<enabled, cq, sqe, cqe, raised, posted>>

HeadDoorbell(q, head) ==
  /\ serving = None /\ enabled
  /\ q = 0 \/ cq[q].valid
  /\ cq' = [cq EXCEPT ![q].head = head]
  /\ UNCHANGED <<enabled, sq, serving, next, sqe, cqe, raised, posted>>

-----------------------------------------------------------------------------
(* Serving a doorbell.                                                     *)

Following(e, size) == (e + 1) % (size + 1)

(* Post a completion for command c to a completion queue; `queues` is cq   *)
(* after what the command did.                                             *)
PostShort(q, c, queues) ==
  IF queues[q].valid
  THEN /\ cqe' = [cqe EXCEPT ![q][queues[q].head] = [cid |-> c.cid, phase |-> 1]]
       /\ cq' = [queues EXCEPT ![q].head = Following(@, queues[q].size - 1)]
       /\ posted' = [posted EXCEPT ![q] = Append(@, c.cid)]
  ELSE cq' = queues /\ UNCHANGED <<cqe, posted>>
Post(q, c, queues) ==
  IF queues[q].valid
  THEN /\ cqe' = [cqe EXCEPT ![q][queues[q].head] = [cid |-> c.cid, phase |-> 1]]
       /\ cq' = [queues EXCEPT ![q].head = Following(@, queues[q].size)]
       /\ posted' = [posted EXCEPT ![q] = Append(@, c.cid)]
  ELSE cq' = queues /\ UNCHANGED <<cqe, posted>>

InterruptsAdmin(c) == raised' = (raised \/ (serving = 0 /\ c.op # "abort"))
Interrupts(c) == raised' = (raised \/ (cq[serving].valid /\ c.op # "abort"))

(* What the queue commands do; others leave the queues as they are.  A     *)
(* submission queue is created if io_cq[cqid] is valid: io_cq[0] never is, *)
(* and an identifier behind the array, which is not refused, is none of a  *)
(* Command.                                                                *)
IoCqValid(id) == id # 0 /\ cq[id].valid
CreateAllowed(c) == c.qid # 0 /\ (c.op = "create sq" => IoCqValid(c.cqid))

SqAfter(c) ==
  IF c.op = "create sq" /\ CreateAllowed(c) THEN [sq EXCEPT ![c.qid] = FreshSq]
  ELSE IF c.op = "delete sq" /\ c.qid # 0 THEN [sq EXCEPT ![c.qid].valid = FALSE]
  ELSE sq
CqAfter(c) ==
  IF c.op = "create cq" /\ CreateAllowed(c) THEN [cq EXCEPT ![c.qid] = FreshCq]
  ELSE IF c.op = "delete cq" /\ c.qid # 0 THEN [cq EXCEPT ![c.qid].valid = FALSE]
  ELSE cq

AnsweredNoFeatures(c) == c.op \notin {"log", "unknown", "identify"}
Answered(c) == c.op \notin {"log", "unknown"}

ServeCommand ==
  /\ serving # None /\ next # sq[serving].tail
  /\ LET c == sqe[serving][next] IN
     /\ sq' = SqAfter(c)
     /\ IF Answered(c)
        THEN Post(serving, c, CqAfter(c)) /\ Interrupts(c)
        ELSE UNCHANGED <<cq, cqe, posted, raised>>
  /\ next' = Following(next, sq[serving].size)
  /\ UNCHANGED <<enabled, serving, sqe>>

ServeEnd ==
  /\ serving # None /\ next = sq[serving].tail
  /\ sq' = [sq EXCEPT ![serving].head = next]
  /\ serving' = None
  /\ UNCHANGED <<enabled, cq, next, sqe, cqe, raised, posted>>

Serve == ServeCommand \/ ServeEnd

=============================================================================
