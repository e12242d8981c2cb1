-------------------------- MODULE AppleNvmeDriver ---------------------------
(***************************************************************************)
(* The controller under a driver that follows the NVMe rules: it enables   *)
(* the controller, creates a completion and a submission queue, submits    *)
(* while it has a free entry, and collects completions by their phase tag, *)
(* which it expects to change with every pass over the ring.  It writes    *)
(* the head doorbell after each completion or after several.  It may       *)
(* delete the queues again and may reset the controller at any time.  The  *)
(* driver is an external component.                                        *)
(*                                                                         *)
(* The controller never changes the tag: behind the first pass over a ring *)
(* the driver takes its new completions for old entries.  And it takes the *)
(* head doorbell for the index it posts at: one that is written while      *)
(* completions lie behind it, seen or not, has them overwritten.  `early`  *)
(* says that this has happened.                                            *)
(***************************************************************************)
EXTENDS AppleNvme, FiniteSets

CONSTANTS
  AdminOps,     (* other admin commands the driver issues                  *)
  IoOps         (* I/O commands it issues                                  *)

(* Commands that are answered and signalled: GET_LOG_PAGE and unknown      *)
(* opcodes post no completion, ABORT posts one without an interrupt.       *)
ASSUME DriverConstants ==
  /\ AdminOps \subseteq {"identify", "features"}
  /\ IoOps \subseteq {"rw"}

VARIABLES
  stage,     (* how far the I/O queues are set up                          *)
  tails,     (* per queue: tail to submit at, and the one last rung        *)
  heads,     (* per queue: head to collect at, the one last rung, and the  *)
             (* phase expected                                             *)
  inflight,  (* per queue: commands not collected                          *)
  handler,   (* the interrupt handler: "idle" or "collect"                 *)
  early      (* ghost: since the reset, a head doorbell was written with   *)
             (* completions of its queue not collected                     *)

vars == <<nvmeVars, stage, tails, heads, inflight, handler, early>>

Io == CHOOSE q \in IoQueues : TRUE
FreshTail == [tail |-> 0, rung |-> 0]
FreshHead == [head |-> 0, rung |-> 0, phase |-> 1]

Init ==
  /\ NvmeInit
  /\ stage = "none" /\ handler = "idle" /\ early = FALSE
  /\ tails = [q \in Qid |-> FreshTail]
  /\ heads = [q \in Qid |-> FreshHead]
  /\ inflight = [q \in Qid |-> {}]

-----------------------------------------------------------------------------
Start ==
  /\ stage # "reset"
  /\ Enable
  /\ UNCHANGED <<stage, tails, heads, inflight, handler, early>>

Reset ==
  /\ handler = "idle"
  /\ Disable
  /\ stage' = "reset"
  /\ UNCHANGED <<tails, heads, inflight, handler, early>>

Clear ==   (* the driver's memory, before it begins again                  *)
  /\ stage = "reset"
  /\ stage' = "none"
  /\ sqe' = [q \in Qid |-> [e \in SqEntry |-> None]]
  /\ cqe' = [q \in Qid |-> [e \in CqEntry |-> NoCompletion]]
  /\ raised' = FALSE
  /\ tails' = [q \in Qid |-> FreshTail]
  /\ heads' = [q \in Qid |-> FreshHead]
  /\ inflight' = [q \in Qid |-> {}]
  /\ early' = FALSE
  /\ UNCHANGED <<enabled, sq, cq, serving, next, posted, handler>>

-----------------------------------------------------------------------------
Ids(q) == {c.cid : c \in inflight[q]}
Cmd(op, cid) == [op |-> op, cid |-> cid, qid |-> Io, cqid |-> Io]

Waiting(q) ==   (* entries written since the last doorbell                 *)
  {(tails[q].rung + k) % (SqSize + 1) :
     k \in 0 .. ((tails[q].tail + SqSize + 1 - tails[q].rung) % (SqSize + 1)) - 1}

(* Neither ring overflows.  Entries served before are forgotten.           *)
Write(q, c) ==
  /\ serving = None /\ enabled
  /\ Cardinality(inflight[q]) < SqSize /\ Cardinality(inflight[q]) < CqSize
  /\ c.cid \notin Ids(q)
  /\ sqe' = [sqe EXCEPT ![q] = [e \in SqEntry |->
                IF e = tails[q].tail THEN c ELSE IF e \in Waiting(q) THEN @[e] ELSE None]]
  /\ tails' = [tails EXCEPT ![q].tail = (@ + 1) % (SqSize + 1)]
  /\ inflight' = [inflight EXCEPT ![q] = @ \cup {c}]
  /\ UNCHANGED <<enabled, sq, cq, serving, next, raised, posted, handler, early>>

(* A queue is created in memory the driver has cleared.                    *)
CreateQueue(cid) ==
  \/ /\ stage = "none" /\ stage' = "creating cq"
     /\ Write(0, Cmd("create cq", cid))
     /\ cqe' = [cqe EXCEPT ![Io] = [e \in CqEntry |-> NoCompletion]]
     /\ heads' = [heads EXCEPT ![Io] = FreshHead]
  \/ /\ stage = "cq" /\ stage' = "creating sq"
     /\ tails[Io] = FreshTail
     /\ Write(0, Cmd("create sq", cid))
     /\ UNCHANGED <<cqe, heads>>

DeleteQueue(cid) ==
  /\ \/ /\ stage = "live" /\ stage' = "deleting sq"
        /\ inflight[Io] = {}
        /\ Write(0, Cmd("delete sq", cid))
     \/ /\ stage = "cq" /\ stage' = "deleting cq"
        /\ Write(0, Cmd("delete cq", cid))
  /\ UNCHANGED <<cqe, heads>>

Submit(cid) ==
  /\ \/ \E op \in AdminOps : Write(0, Cmd(op, cid))
     \/ stage = "live" /\ \E op \in IoOps : Write(Io, Cmd(op, cid))
  /\ UNCHANGED <<cqe, heads, stage>>

Ring(q) ==
  /\ tails[q].rung # tails[q].tail
  /\ TailDoorbell(q, tails[q].tail)
  /\ tails' = [tails EXCEPT ![q].rung = tails[q].tail]
  /\ UNCHANGED <<stage, heads, inflight, handler, early>>

-----------------------------------------------------------------------------
Visible(q) == cqe[q][heads[q].head].phase = heads[q].phase

Interrupt ==
  /\ serving = None /\ handler = "idle" /\ enabled /\ raised
  /\ handler' = "collect" /\ raised' = FALSE
  /\ UNCHANGED <<enabled, sq, cq, serving, next, sqe, cqe, posted,
                 stage, tails, heads, inflight, early>>

StageAfter(op) ==
  CASE op = "create cq" -> "cq"
    [] op = "create sq" -> "live"
    [] op = "delete sq" -> "cq"
    [] op = "delete cq" -> "none"
    [] OTHER            -> stage

Collect(q) ==
  /\ serving = None /\ handler = "collect" /\ Visible(q)
  /\ LET done == {c \in inflight[q] : c.cid = cqe[q][heads[q].head].cid} IN
     /\ inflight' = [inflight EXCEPT ![q] = @ \ done]
     /\ stage' = IF done = {} THEN stage ELSE StageAfter((CHOOSE c \in done : TRUE).op)
     /\ tails' = IF stage = "deleting sq" /\ stage' = "cq"
                 THEN [tails EXCEPT ![Io] = FreshTail] ELSE tails
  /\ heads' = [heads EXCEPT
                 ![q].head = (@ + 1) % (CqSize + 1),
                 ![q].phase = IF heads[q].head = CqSize THEN 1 - @ ELSE @]
  /\ posted' = [posted EXCEPT ![q] = IF @ = <<>> THEN @ ELSE Tail(@)]
  /\ cqe' = [cqe EXCEPT ![q][heads[q].head].cid = None]
  /\ UNCHANGED <<enabled, sq, cq, serving, next, sqe, raised, handler, early>>

RingHead(q) ==
  /\ handler = "collect" /\ heads[q].rung # heads[q].head
  /\ HeadDoorbell(q, heads[q].head)
  /\ early' = (early \/ posted[q] # <<>>)
  /\ heads' = [heads EXCEPT ![q].rung = heads[q].head]
  /\ UNCHANGED <<stage, tails, inflight, handler>>

Finish ==
  /\ serving = None /\ handler = "collect"
  /\ \A q \in Qid : ~Visible(q) /\ heads[q].rung = heads[q].head
  /\ handler' = "idle"
  /\ UNCHANGED <<nvmeVars, stage, tails, heads, inflight, early>>

ServeStep == Serve /\ UNCHANGED <<stage, tails, heads, inflight, handler, early>>

Next ==
  \/ Start \/ Reset \/ Clear \/ ServeStep \/ Interrupt \/ Finish
  \/ \E q \in Qid : Ring(q) \/ Collect(q) \/ RingHead(q)
  \/ \E cid \in Cid : CreateQueue(cid) \/ DeleteQueue(cid) \/ Submit(cid)

Spec == Init /\ [][Next]_vars

-----------------------------------------------------------------------------
Live == serving = None /\ enabled /\ ~early
NotRung(q) == {sqe[q][e].cid : e \in Waiting(q)}

(* Every command whose doorbell was served has been answered exactly once, *)
(* whichever queues were created, deleted or reset in between, also when   *)
(* its completion is one the driver does not see.                          *)
AnsweredOnce ==
  Live => \A q \in Qid :
    /\ Ids(q) = NotRung(q) \cup {posted[q][k] : k \in DOMAIN posted[q]}
    /\ Cardinality(Ids(q)) = Cardinality(NotRung(q)) + Len(posted[q])

(* A completion the driver has not collected is still in the ring, in the  *)
(* order posted from where the driver reads on, on every pass over it: one *)
(* is overwritten only when a head doorbell moved the controller back      *)
(* (apple_nvme.c:281-286, 528-533, 919, 930), none is left behind in the   *)
(* memory of a deleted queue.                                              *)
CompletionsKept ==
  enabled /\ ~early => \A q \in Qid : \A k \in DOMAIN posted[q] :
    cqe[q][(heads[q].head + k - 1) % (CqSize + 1)].cid = posted[q][k]

(* While the driver sleeps, a completion it would see has its interrupt    *)
(* raised.                                                                 *)
CompletionSignalled ==
  Live /\ handler = "idle" /\ (\E q \in Qid : Visible(q)) => raised

=============================================================================
