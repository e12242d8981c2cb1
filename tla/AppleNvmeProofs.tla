--------------------------- MODULE AppleNvmeProofs --------------------------
(* Theorems about the NVMe controller under its driver, for every size of  *)
(* the queues and any number of commands, queues created and deleted, and  *)
(* resets.                                                                 *)
EXTENDS AppleNvmeDriver, SequenceTheorems, FiniteSetTheorems, FunctionTheorems, TLAPS

-----------------------------------------------------------------------------
(* Types.                                                                  *)
SqRecord == [valid : BOOLEAN, size : {0, SqSize}, head : SqEntry, tail : SqEntry]
CqRecord == [valid : BOOLEAN, size : {0, CqSize}, head : CqEntry]
Completion == [cid : Cid \cup {None}, phase : {0, 1}]
TailRecord == [tail : SqEntry, rung : SqEntry]
HeadRecord == [head : CqEntry, rung : CqEntry, phase : {0, 1}]
Stages == {"none", "creating cq", "cq", "creating sq", "live", "deleting sq",
           "deleting cq", "reset"}

NvmeType ==
  /\ enabled \in BOOLEAN /\ raised \in BOOLEAN
  /\ serving \in Qid \cup {None} /\ next \in SqEntry
  /\ sq \in [Qid -> SqRecord] /\ cq \in [Qid -> CqRecord]
  /\ sqe \in [Qid -> [SqEntry -> Command \cup {None}]]
  /\ cqe \in [Qid -> [CqEntry -> Completion]]
  /\ posted \in [Qid -> Seq(Cid)]
DriverType ==
  /\ stage \in Stages /\ handler \in {"idle", "collect"}
  /\ tails \in [Qid -> TailRecord] /\ heads \in [Qid -> HeadRecord]
  /\ inflight \in [Qid -> SUBSET Command]

-----------------------------------------------------------------------------
(* A submission queue: entries S, of which those from `base` to `tail` are *)
(* still to answer, commands F in flight, completions P not collected.     *)
(* Line is first what was answered and then what was not, oldest first:    *)
(* serving a command only moves the boundary between the two.              *)
Gap(tail, base) == (tail + SqSize + 1 - base) % (SqSize + 1)
Place(base, k) == (base + k) % (SqSize + 1)
Count(tail, base, P) == Len(P) + Gap(tail, base)
Line(S, base, P, k) == IF k <= Len(P) THEN P[k] ELSE S[Place(base, k - Len(P) - 1)].cid

SubmissionInv(S, tail, base, F, P) ==
  /\ IsFiniteSet(F) /\ Cardinality(F) = Count(tail, base, P)
  /\ Count(tail, base, P) <= SqSize
  /\ \A k \in 0 .. (Gap(tail, base) - 1) : S[Place(base, k)] \in F
  /\ \A k \in 1 .. Len(P) : \E c \in F : c.cid = P[k]
  /\ \A j, k \in 1 .. Count(tail, base, P) :
       Line(S, base, P, j) = Line(S, base, P, k) => j = k
  /\ \A c \in F : \E k \in 1 .. Count(tail, base, P) : c.cid = Line(S, base, P, k)
  /\ \A c, d \in F : c.cid = d.cid => c = d

(* A completion queue: entries C, the driver's head and phase h, and n     *)
(* commands in flight.  The uncollected completions lie in the ring from   *)
(* the driver's head on.  The tag is 1 behind the first entry written and  *)
(* never changes again: when the driver begins its second pass, and        *)
(* expects 0, all tags are 1.                                              *)
Slot(head, k) == (head + k) % (CqSize + 1)
CompletionInv(C, h, P, n) ==
  /\ n <= CqSize
  /\ \A k \in 1 .. Len(P) : C[Slot(h.head, k - 1)].cid = P[k]
  /\ \A e \in CqEntry :
       C[e].phase = IF h.phase = 1 /\ e >= h.head + Len(P) THEN 0 ELSE 1

(* Where the controller goes on: at the command it is about to serve, or   *)
(* at the first whose doorbell has not been rung.                          *)
Base(q) == IF serving = q THEN next ELSE tails[q].rung
Unanswered(q) == Gap(tails[q].tail, Base(q))
QueueInv(q) ==
  /\ SubmissionInv(sqe[q], tails[q].tail, Base(q), inflight[q], posted[q])
  /\ CompletionInv(cqe[q], heads[q], posted[q],
                   Count(tails[q].tail, Base(q), posted[q]))

-----------------------------------------------------------------------------
(* The controller's indices are the driver's.                              *)
IndicesAgree(q) ==
  /\ sq[q].valid => /\ cq[q].valid /\ sq[q].size = SqSize /\ sq[q].tail = tails[q].rung
                    /\ serving # q => sq[q].head = tails[q].rung
  /\ cq[q].valid => /\ cq[q].size = CqSize
                    /\ cq[q].head = (heads[q].head + Len(posted[q])) % (CqSize + 1)

Fresh(q) ==
  /\ tails[q] = FreshTail /\ heads[q] = FreshHead
  /\ inflight[q] = {} /\ posted[q] = <<>>
  /\ sqe[q] = [e \in SqEntry |-> None] /\ cqe[q] = [e \in CqEntry |-> NoCompletion]

Mode ==
  /\ ~enabled => /\ serving = None /\ stage \in {"none", "reset"} /\ handler = "idle"
                 /\ \A q \in Qid : ~sq[q].valid /\ ~cq[q].valid /\ posted[q] = <<>>
  /\ ~enabled /\ stage = "none" => \A q \in Qid : Fresh(q)
  /\ enabled => stage # "reset" /\ sq[0].valid /\ cq[0].valid
  /\ serving # None => sq[serving].valid /\ tails[serving].tail = tails[serving].rung

(* How far the I/O queues are set up.                                      *)
QueueOp == {"create cq", "create sq", "delete cq", "delete sq"}
StageOf(op) == CASE op = "create cq" -> "creating cq"
                 [] op = "create sq" -> "creating sq"
                 [] op = "delete sq" -> "deleting sq"
                 [] op = "delete cq" -> "deleting cq"
AnsweredIds(q) == {posted[q][k] : k \in DOMAIN posted[q]}

CommandsFitStage ==
  /\ \A c \in inflight[0] : /\ c.op \in QueueOp \cup {"identify", "features"}
                            /\ c.qid = Io /\ c.cqid = Io
                            /\ c.op \in QueueOp => stage = StageOf(c.op)
  /\ \A c, d \in inflight[0] : c.op \in QueueOp /\ d.op \in QueueOp => c = d
  /\ \A q \in IoQueues : \A c \in inflight[q] : c.op = "rw"
QueuesFitStage ==
  /\ stage # "live" => inflight[Io] = {}
  /\ stage = "creating cq" => heads[Io] = FreshHead
  /\ stage = "creating sq" => tails[Io] = FreshTail
  /\ stage = "none" => ~cq[Io].valid
  /\ stage \in {"none", "creating cq", "cq", "deleting cq"} => ~sq[Io].valid
  /\ \A c \in inflight[0] : c.cid \in AnsweredIds(0) =>
       /\ c.op = "delete sq" => ~sq[Io].valid
       /\ c.op = "delete cq" => ~cq[Io].valid
StageInv == enabled => CommandsFitStage /\ QueuesFitStage

(* What was posted since the driver went to sleep was signalled.  On the   *)
(* second pass it sees nothing and may go to sleep over completions.       *)
SignalInv ==
  handler = "idle" /\ (\E q \in Qid : posted[q] # <<>> /\ heads[q].phase = 1) => raised

ControlInv ==
  /\ NvmeType /\ DriverType /\ Mode
  /\ enabled => \A q \in Qid : QueueInv(q) /\ IndicesAgree(q)
  /\ StageInv /\ SignalInv

(* What holds also when completions have been overwritten: after a reset   *)
(* the controller is stopped, whatever was in the rings.                   *)
StoppedInv ==
  /\ early \in BOOLEAN /\ enabled \in BOOLEAN
  /\ serving \in Qid \cup {None} /\ next \in SqEntry
  /\ sq \in [Qid -> SqRecord] /\ cq \in [Qid -> CqRecord]
  /\ tails \in [Qid -> TailRecord] /\ heads \in [Qid -> HeadRecord]
  /\ ~enabled => /\ serving = None /\ stage \in {"none", "reset"} /\ handler = "idle"
                 /\ \A q \in Qid : ~sq[q].valid /\ ~cq[q].valid
                 /\ posted = [q \in Qid |-> <<>>]
  /\ enabled => stage # "reset"

IInv == StoppedInv /\ (~early => ControlInv)

-----------------------------------------------------------------------------
(* Arithmetic of the rings.                                                *)
LEMMA Wrap ==
  ASSUME NEW s \in Nat, NEW a \in 0 .. s, NEW k \in 0 .. s + 1
  PROVE  /\ (a + k) % (s + 1) = IF a + k <= s THEN a + k ELSE a + k - (s + 1)
         /\ (a + k) % (s + 1) \in 0 .. s
<1>1. CASE a + k <= s
  BY <1>1
<1>2. CASE a + k > s
  BY <1>2
<1> QED
  BY <1>1, <1>2

LEMMA GapSize ==
  ASSUME NEW tail \in SqEntry, NEW base \in SqEntry
  PROVE  /\ Gap(tail, base) = IF base <= tail THEN tail - base
                                              ELSE tail + SqSize + 1 - base
         /\ Gap(tail, base) \in 0 .. SqSize
<1>1. SqSize \in Nat /\ tail \in 0 .. SqSize /\ base \in 0 .. SqSize
  BY NvmeConstants DEF SqEntry
<1>2. CASE base <= tail
  BY <1>1, <1>2 DEF Gap
<1>3. CASE base > tail
  BY <1>1, <1>3 DEF Gap
<1> QED
  BY <1>1, <1>2, <1>3

LEMMA PlaceInRing ==
  ASSUME NEW base \in SqEntry, NEW k \in 0 .. SqSize
  PROVE  /\ Place(base, k) \in SqEntry
         /\ Place(base, k) = IF base + k <= SqSize THEN base + k ELSE base + k - (SqSize + 1)
<1>1. SqSize \in Nat /\ base \in 0 .. SqSize /\ k \in 0 .. SqSize + 1
  BY NvmeConstants DEF SqEntry
<1> QED
  BY <1>1, Wrap DEF Place, SqEntry

LEMMA PlacesDiffer ==
  ASSUME NEW base \in SqEntry, NEW j \in 0 .. SqSize, NEW k \in 0 .. SqSize,
         Place(base, j) = Place(base, k)
  PROVE  j = k
<1>1. SqSize \in Nat /\ base \in 0 .. SqSize
  BY NvmeConstants DEF SqEntry
<1> QED
  BY <1>1, PlaceInRing

(* The step of the base, or of the tail, by one entry.                     *)
LEMMA FollowingEntry ==
  ASSUME NEW e \in SqEntry
  PROVE  /\ Following(e, SqSize) \in SqEntry
         /\ Following(e, SqSize) = IF e + 1 <= SqSize THEN e + 1 ELSE 0
<1>1. SqSize \in Nat /\ e \in 0 .. SqSize /\ 1 \in 0 .. SqSize + 1
  BY NvmeConstants DEF SqEntry
<1>2. /\ (e + 1) % (SqSize + 1) = IF e + 1 <= SqSize THEN e + 1 ELSE e + 1 - (SqSize + 1)
      /\ (e + 1) % (SqSize + 1) \in 0 .. SqSize
  BY <1>1, Wrap
<1> QED
  BY <1>1, <1>2 DEF Following, SqEntry

LEMMA NextPlace ==
  ASSUME NEW base \in SqEntry
  PROVE  /\ Following(base, SqSize) \in SqEntry
         /\ \A k \in 0 .. (SqSize - 1) : Place(Following(base, SqSize), k) = Place(base, k + 1)
         /\ Place(base, 0) = base
<1>1. SqSize \in Nat /\ base \in 0 .. SqSize
  BY NvmeConstants DEF SqEntry
<1>2. /\ Following(base, SqSize) = IF base + 1 <= SqSize THEN base + 1 ELSE 0
      /\ Following(base, SqSize) \in SqEntry
  BY FollowingEntry
<1>3. ASSUME NEW k \in 0 .. (SqSize - 1)
      PROVE  Place(Following(base, SqSize), k) = Place(base, k + 1)
  <2>1. k \in 0 .. SqSize /\ k + 1 \in 0 .. SqSize
    BY <1>1
  <2> QED
    BY <1>1, <1>2, <2>1, PlaceInRing
<1>4. Place(base, 0) = base
  BY <1>1, PlaceInRing
<1> QED
  BY <1>2, <1>3, <1>4

LEMMA GapSteps ==
  ASSUME NEW tail \in SqEntry, NEW base \in SqEntry
  PROVE  /\ base # tail => Gap(tail, Following(base, SqSize)) = Gap(tail, base) - 1
         /\ Gap(tail, base) < SqSize => Gap(Following(tail, SqSize), base) = Gap(tail, base) + 1
         /\ Place(base, Gap(tail, base)) = tail
         /\ base # tail <=> Gap(tail, base) # 0
<1>1. SqSize \in Nat /\ base \in 0 .. SqSize /\ tail \in 0 .. SqSize
  BY NvmeConstants DEF SqEntry
<1>2. /\ Following(base, SqSize) = IF base + 1 <= SqSize THEN base + 1 ELSE 0
      /\ Following(tail, SqSize) = IF tail + 1 <= SqSize THEN tail + 1 ELSE 0
      /\ Following(base, SqSize) \in SqEntry /\ Following(tail, SqSize) \in SqEntry
  BY FollowingEntry
<1>3. base # tail => Gap(tail, Following(base, SqSize)) = Gap(tail, base) - 1
  BY <1>1, <1>2, GapSize
<1>4. Gap(tail, base) < SqSize => Gap(Following(tail, SqSize), base) = Gap(tail, base) + 1
  BY <1>1, <1>2, GapSize
<1>5. Place(base, Gap(tail, base)) = tail
  <2>1. Gap(tail, base) \in 0 .. SqSize
    BY GapSize
  <2>2. Place(base, Gap(tail, base)) = IF base + Gap(tail, base) <= SqSize
                                       THEN base + Gap(tail, base)
                                       ELSE base + Gap(tail, base) - (SqSize + 1)
    BY <2>1, PlaceInRing
  <2>3. CASE base <= tail
    BY <1>1, <2>2, <2>3, GapSize
  <2>4. CASE base > tail
    BY <1>1, <2>2, <2>4, GapSize
  <2> QED
    BY <1>1, <2>3, <2>4
<1>6. base # tail <=> Gap(tail, base) # 0
  BY <1>1, GapSize
<1> QED
  BY <1>3, <1>4, <1>5, <1>6

-----------------------------------------------------------------------------
(* The line of commands.                                                   *)
LEMMA CountNumbers ==
  ASSUME NEW tail \in SqEntry, NEW base \in SqEntry, NEW P \in Seq(Cid)
  PROVE  /\ Len(P) \in Nat /\ Gap(tail, base) \in Nat /\ Gap(tail, base) <= SqSize
         /\ Count(tail, base, P) \in Nat /\ Count(tail, base, P) = Len(P) + Gap(tail, base)
         /\ SqSize \in Nat
<1>1. SqSize \in Nat /\ Gap(tail, base) \in 0 .. SqSize /\ Len(P) \in Nat
  BY NvmeConstants, GapSize
<1> QED
  BY <1>1 DEF Count

(* Every place of the line belongs to a command in flight.                 *)
LEMMA LineInFlight ==
  ASSUME NEW S, NEW tail \in SqEntry, NEW base \in SqEntry, NEW F \in SUBSET Command,
         NEW P \in Seq(Cid), SubmissionInv(S, tail, base, F, P),
         NEW k \in 1 .. Count(tail, base, P)
  PROVE  \E c \in F : c.cid = Line(S, base, P, k)
<1>1. CASE k <= Len(P)
  <2>1. k \in 1 .. Len(P)
    BY <1>1, CountNumbers
  <2> QED
    BY <1>1, <2>1 DEF SubmissionInv, Line
<1>2. CASE ~(k <= Len(P))
  <2>1. k - Len(P) - 1 \in 0 .. (Gap(tail, base) - 1)
    BY <1>2, CountNumbers
  <2>2. S[Place(base, k - Len(P) - 1)] \in F
    BY <2>1 DEF SubmissionInv
  <2> QED
    BY <1>2, <2>2 DEF Line
<1> QED
  BY <1>1, <1>2

(* Serving a command: it moves from the unanswered to the answered.        *)
LEMMA ServingKeepsLine ==
  ASSUME NEW S, NEW tail \in SqEntry, NEW base \in SqEntry, NEW F \in SUBSET Command,
         NEW P \in Seq(Cid), SubmissionInv(S, tail, base, F, P), base # tail
  PROVE  /\ S[base] \in F
         /\ Count(tail, Following(base, SqSize), Append(P, S[base].cid)) = Count(tail, base, P)
         /\ SubmissionInv(S, tail, Following(base, SqSize), F, Append(P, S[base].cid))
<1> DEFINE c == S[base]
           Q == Append(P, c.cid)
           b == Following(base, SqSize)
<1>1. Gap(tail, base) \in Nat /\ Gap(tail, base) > 0 /\ Len(P) \in Nat /\ SqSize \in Nat
      /\ Gap(tail, base) <= SqSize
  BY CountNumbers, GapSteps
<1>2. c \in F
  <2>1. 0 \in 0 .. (Gap(tail, base) - 1) /\ Place(base, 0) = base
    BY <1>1, NextPlace
  <2> QED
    BY <2>1 DEF SubmissionInv
<1>3. b \in SqEntry /\ Gap(tail, b) = Gap(tail, base) - 1
  BY FollowingEntry, GapSteps
<1>4. /\ Q \in Seq(Cid) /\ Len(Q) = Len(P) + 1 /\ Q[Len(P) + 1] = c.cid
      /\ \A k \in 1 .. Len(P) : Q[k] = P[k]
  <2>1. c.cid \in Cid
    BY <1>2 DEF Command
  <2> QED
    BY <2>1, AppendProperties
<1>5. Count(tail, b, Q) = Count(tail, base, P)
  BY <1>1, <1>3, <1>4 DEF Count
<1>6. \A k \in 0 .. (SqSize - 1) : Place(b, k) = Place(base, k + 1)
  BY NextPlace
<1> HIDE DEF c, Q, b
<1>7. ASSUME NEW k \in 1 .. Count(tail, base, P)
      PROVE  Line(S, b, Q, k) = Line(S, base, P, k)
  <2>0. k \in Nat /\ k >= 1 /\ k <= Len(P) + Gap(tail, base)
    BY <1>1 DEF Count
  <2>1. CASE k <= Len(P)
    <3>1. k \in 1 .. Len(P) /\ k <= Len(Q)
      BY <1>1, <1>4, <2>0, <2>1
    <3> QED
      BY <1>4, <2>1, <3>1 DEF Line
  <2>2. CASE k = Len(P) + 1
    <3>1. Line(S, b, Q, k) = c.cid
      <4>1. k <= Len(Q)
        BY <1>1, <1>4, <2>2
      <4> QED
        BY <1>4, <2>2, <4>1 DEF Line
    <3>2. Line(S, base, P, k) = S[Place(base, 0)].cid
      <4>1. ~(k <= Len(P)) /\ k - Len(P) - 1 = 0
        BY <1>1, <2>2
      <4> QED
        BY <4>1 DEF Line
    <3> QED
      BY <3>1, <3>2, NextPlace DEF c
  <2>3. CASE k > Len(P) + 1
    <3> DEFINE m == k - Len(P) - 2
    <3>1. m \in 0 .. (SqSize - 1) /\ m + 1 = k - Len(P) - 1 /\ m = k - Len(Q) - 1
      BY <1>1, <1>4, <2>0, <2>3
    <3>2. ~(k <= Len(P)) /\ ~(k <= Len(Q))
      BY <1>1, <1>4, <2>0, <2>3
    <3>3. Line(S, b, Q, k) = S[Place(b, m)].cid
      BY <3>1, <3>2 DEF Line
    <3>4. Line(S, base, P, k) = S[Place(base, m + 1)].cid
      BY <3>1, <3>2 DEF Line
    <3> QED
      BY <1>6, <3>1, <3>3, <3>4
  <2> QED
    BY <1>1, <2>0, <2>1, <2>2, <2>3
<1>8. ASSUME NEW k \in 0 .. (Gap(tail, b) - 1)
      PROVE  S[Place(b, k)] \in F
  <2>1. k \in 0 .. (SqSize - 1) /\ k + 1 \in 0 .. (Gap(tail, base) - 1)
    BY <1>1, <1>3
  <2> QED
    BY <1>6, <2>1 DEF SubmissionInv
<1>9. ASSUME NEW k \in 1 .. Len(Q)
      PROVE  \E d \in F : d.cid = Q[k]
  <2>1. CASE k = Len(P) + 1
    BY <1>2, <1>4, <2>1
  <2>2. CASE k # Len(P) + 1
    <3>1. k \in 1 .. Len(P)
      BY <1>1, <1>4, <2>2
    <3> QED
      BY <1>4, <3>1 DEF SubmissionInv
  <2> QED
    BY <2>1, <2>2
<1>10. SubmissionInv(S, tail, b, F, Q)
  BY <1>5, <1>7, <1>8, <1>9 DEF SubmissionInv
<1> QED
  BY <1>2, <1>5, <1>10 DEF c, Q, b

(* Writing a command at the tail: S before, T after.                       *)
Written(S, T, tail, base, F, P, c) ==
  /\ SubmissionInv(S, tail, base, F, P) /\ Cardinality(F) < SqSize
  /\ \A d \in F : d.cid # c.cid
  /\ T[tail] = c
  /\ \A k \in 0 .. (Gap(tail, base) - 1) : T[Place(base, k)] = S[Place(base, k)]

LEMMA WritingKeepsLine ==
  ASSUME NEW S, NEW T, NEW tail \in SqEntry, NEW base \in SqEntry,
         NEW F \in SUBSET Command, NEW P \in Seq(Cid), NEW c \in Command,
         Written(S, T, tail, base, F, P, c)
  PROVE  /\ Count(Following(tail, SqSize), base, P) = Count(tail, base, P) + 1
         /\ SubmissionInv(T, Following(tail, SqSize), base, F \cup {c}, P)
<1> DEFINE t == Following(tail, SqSize)
           n == Count(tail, base, P)
<1>0. /\ SubmissionInv(S, tail, base, F, P) /\ Cardinality(F) < SqSize
      /\ \A d \in F : d.cid # c.cid
      /\ T[tail] = c
      /\ \A k \in 0 .. (Gap(tail, base) - 1) : T[Place(base, k)] = S[Place(base, k)]
  BY DEF Written
<1> USE <1>0
<1>1. /\ Gap(tail, base) \in Nat /\ Len(P) \in Nat /\ SqSize \in Nat /\ n \in Nat
      /\ n = Len(P) + Gap(tail, base) /\ n < SqSize
  BY CountNumbers DEF SubmissionInv
<1>2. t \in SqEntry /\ Gap(t, base) = Gap(tail, base) + 1
  <2>1. Gap(tail, base) < SqSize
    BY <1>1
  <2> QED
    BY <2>1, FollowingEntry, GapSteps
<1>3. Count(t, base, P) = n + 1
  BY <1>1, <1>2 DEF Count
<1>4. Place(base, Gap(tail, base)) = tail
  BY GapSteps
<1> HIDE DEF t, n
<1>5. ASSUME NEW k \in 1 .. n
      PROVE  Line(T, base, P, k) = Line(S, base, P, k)
  <2>1. CASE k <= Len(P)
    BY <2>1 DEF Line
  <2>2. CASE ~(k <= Len(P))
    <3>1. k - Len(P) - 1 \in 0 .. (Gap(tail, base) - 1)
      BY <1>1, <2>2
    <3> QED
      BY <2>2, <3>1 DEF Line
  <2> QED
    BY <2>1, <2>2
<1>6. Line(T, base, P, n + 1) = c.cid
  <2>1. ~(n + 1 <= Len(P)) /\ (n + 1) - Len(P) - 1 = Gap(tail, base)
    BY <1>1
  <2>2. Line(T, base, P, n + 1) = T[Place(base, (n + 1) - Len(P) - 1)].cid
    BY <2>1 DEF Line
  <2>3. T[Place(base, Gap(tail, base))] = c
    BY <1>4
  <2> QED
    BY <2>1, <2>2, <2>3
<1>7. \A k \in 1 .. n : \E d \in F : d.cid = Line(T, base, P, k)
  BY <1>5, LineInFlight DEF n
<1>8. \A k \in 1 .. n : Line(T, base, P, k) # c.cid
  BY <1>7
<1>9. \A k \in 1 .. (n + 1) : k \in 1 .. n \/ k = n + 1
  BY <1>1
<1>10. ASSUME NEW j \in 1 .. (n + 1), NEW k \in 1 .. (n + 1),
              Line(T, base, P, j) = Line(T, base, P, k)
       PROVE  j = k
  <2>1. CASE j \in 1 .. n /\ k \in 1 .. n
    BY <1>5, <1>10, <2>1 DEF SubmissionInv, n
  <2>2. CASE j = n + 1 \/ k = n + 1
    BY <1>6, <1>8, <1>9, <1>10, <2>2
  <2> QED
    BY <1>9, <2>1, <2>2
<1>11. ASSUME NEW d \in F \cup {c}
       PROVE  \E k \in 1 .. (n + 1) : d.cid = Line(T, base, P, k)
  <2>1. CASE d \in F
    <3>1. PICK k \in 1 .. n : d.cid = Line(S, base, P, k)
      BY <2>1 DEF SubmissionInv, n
    <3>2. k \in 1 .. (n + 1)
      BY <1>1
    <3> QED
      BY <1>5, <3>1, <3>2
  <2>2. CASE d = c
    <3>1. n + 1 \in 1 .. (n + 1)
      BY <1>1
    <3> QED
      BY <1>6, <2>2, <3>1
  <2> QED
    BY <2>1, <2>2
<1>12. IsFiniteSet(F \cup {c}) /\ Cardinality(F \cup {c}) = n + 1
  <2>1. IsFiniteSet(F) /\ Cardinality(F) = n /\ c \notin F
    BY DEF SubmissionInv, n
  <2> QED
    BY <2>1, FS_AddElement
<1>13. ASSUME NEW k \in 0 .. (Gap(t, base) - 1)
       PROVE  T[Place(base, k)] \in F \cup {c}
  <2>1. CASE k = Gap(tail, base)
    BY <1>4, <2>1
  <2>2. CASE k # Gap(tail, base)
    <3>1. k \in 0 .. (Gap(tail, base) - 1)
      BY <1>1, <1>2, <2>2
    <3> QED
      BY <3>1 DEF SubmissionInv
  <2> QED
    BY <2>1, <2>2
<1>14. n + 1 <= SqSize
  BY <1>1
<1>15. \A k \in 1 .. Len(P) : \E d \in F \cup {c} : d.cid = P[k]
  BY DEF SubmissionInv
<1>16. \A d, e \in F \cup {c} : d.cid = e.cid => d = e
  BY DEF SubmissionInv
<1>17. SubmissionInv(T, t, base, F \cup {c}, P)
  BY <1>3, <1>10, <1>11, <1>12, <1>13, <1>14, <1>15, <1>16 DEF SubmissionInv
<1> QED
  BY <1>3, <1>17 DEF t, n

(* Collecting the oldest completion, which answers command d.              *)
Oldest(S, tail, base, F, P, d) ==
  SubmissionInv(S, tail, base, F, P) /\ P # <<>> /\ d \in F /\ d.cid = P[1]

LEMMA CollectingKeepsLine ==
  ASSUME NEW S, NEW tail \in SqEntry, NEW base \in SqEntry, NEW F \in SUBSET Command,
         NEW P \in Seq(Cid), NEW d, Oldest(S, tail, base, F, P, d)
  PROVE  SubmissionInv(S, tail, base, F \ {d}, Tail(P))
<1> DEFINE Q == Tail(P)
           n == Count(tail, base, P)
<1>0. SubmissionInv(S, tail, base, F, P) /\ P # <<>> /\ d \in F /\ d.cid = P[1]
  BY DEF Oldest
<1> USE <1>0
<1>1. /\ Gap(tail, base) \in Nat /\ Len(P) \in Nat /\ Len(P) > 0 /\ SqSize \in Nat
      /\ n \in Nat /\ n = Len(P) + Gap(tail, base)
  <2>1. Len(P) # 0
    BY EmptySeq
  <2> QED
    BY <2>1, CountNumbers
<1>2. /\ Q \in Seq(Cid) /\ Len(Q) = Len(P) - 1
      /\ \A k \in 1 .. Len(Q) : Q[k] = P[k + 1]
  BY HeadTailProperties
<1>3. Count(tail, base, Q) = n - 1
  BY <1>1, <1>2 DEF Count
<1> HIDE DEF Q, n
<1>4. ASSUME NEW k \in 1 .. (n - 1)
      PROVE  Line(S, base, Q, k) = Line(S, base, P, k + 1)
  <2>1. CASE k <= Len(Q)
    <3>1. k \in 1 .. Len(Q) /\ k + 1 <= Len(P)
      BY <1>1, <1>2, <2>1
    <3> QED
      BY <1>2, <2>1, <3>1 DEF Line
  <2>2. CASE ~(k <= Len(Q))
    <3>1. ~(k + 1 <= Len(P)) /\ k - Len(Q) - 1 = (k + 1) - Len(P) - 1
      BY <1>1, <1>2, <2>2
    <3> QED
      BY <2>2, <3>1 DEF Line
  <2> QED
    BY <2>1, <2>2
<1>5. Line(S, base, P, 1) = d.cid
  BY <1>1 DEF Line
<1>6. \A k \in 1 .. (n - 1) : k + 1 \in 1 .. n /\ k + 1 # 1
  BY <1>1
<1>7. \A k \in 1 .. n : k = 1 \/ (k - 1 \in 1 .. (n - 1) /\ k - 1 + 1 = k)
  BY <1>1
<1>8. 1 \in 1 .. n
  BY <1>1
<1>9. ASSUME NEW k \in 1 .. (n - 1)
      PROVE  Line(S, base, Q, k) # d.cid
  BY <1>4, <1>5, <1>6, <1>8 DEF SubmissionInv, n
<1>10. ASSUME NEW j \in 1 .. (n - 1), NEW k \in 1 .. (n - 1),
              Line(S, base, Q, j) = Line(S, base, Q, k)
       PROVE  j = k
  <2>1. j + 1 \in 1 .. n /\ k + 1 \in 1 .. n
    BY <1>6
  <2>2. j + 1 = k + 1
    BY <1>4, <1>10, <2>1 DEF SubmissionInv, n
  <2> QED
    BY <1>1, <2>2
<1>11. ASSUME NEW c \in F \ {d}
       PROVE  \E k \in 1 .. (n - 1) : c.cid = Line(S, base, Q, k)
  <2>1. PICK k \in 1 .. n : c.cid = Line(S, base, P, k)
    BY DEF SubmissionInv, n
  <2>2. k # 1
    BY <1>5, <2>1 DEF SubmissionInv
  <2>3. k - 1 \in 1 .. (n - 1) /\ k - 1 + 1 = k
    BY <1>7, <2>2
  <2> QED
    BY <1>4, <2>1, <2>3
<1>12. IsFiniteSet(F \ {d}) /\ Cardinality(F \ {d}) = n - 1
  <2>1. IsFiniteSet(F) /\ Cardinality(F) = n
    BY DEF SubmissionInv, n
  <2> QED
    BY <2>1, FS_RemoveElement
<1>13. ASSUME NEW k \in 0 .. (Gap(tail, base) - 1)
       PROVE  S[Place(base, k)] \in F \ {d}
  <2>1. S[Place(base, k)] \in F
    BY DEF SubmissionInv
  <2> DEFINE m == Len(Q) + k + 1
  <2>2. m \in 1 .. (n - 1) /\ ~(m <= Len(Q)) /\ m - Len(Q) - 1 = k
    BY <1>1, <1>2
  <2>3. Line(S, base, Q, m) = S[Place(base, k)].cid
    BY <2>2 DEF Line
  <2> QED
    BY <1>9, <2>1, <2>2, <2>3
<1>14. ASSUME NEW k \in 1 .. Len(Q)
       PROVE  \E c \in F \ {d} : c.cid = Q[k]
  <2>1. k \in 1 .. (n - 1) /\ k + 1 \in 1 .. Len(P) /\ k <= Len(Q)
    BY <1>1, <1>2
  <2>2. Line(S, base, Q, k) = Q[k]
    BY <2>1 DEF Line
  <2>3. PICK c \in F : c.cid = P[k + 1]
    BY <2>1 DEF SubmissionInv
  <2> QED
    BY <1>2, <1>9, <2>1, <2>2, <2>3
<1>15. n - 1 <= SqSize
  BY <1>1 DEF SubmissionInv, n
<1>16. SubmissionInv(S, tail, base, F \ {d}, Q)
  BY <1>3, <1>10, <1>11, <1>12, <1>13, <1>14, <1>15 DEF SubmissionInv
<1> QED
  BY <1>16 DEF Q

-----------------------------------------------------------------------------
(* The completion queue.                                                   *)
LEMMA FollowingCompletion ==
  ASSUME NEW e \in CqEntry
  PROVE  /\ Following(e, CqSize) \in CqEntry
         /\ Following(e, CqSize) = IF e + 1 <= CqSize THEN e + 1 ELSE 0
<1>1. CqSize \in Nat /\ e \in 0 .. CqSize /\ 1 \in 0 .. CqSize + 1
  BY NvmeConstants DEF CqEntry
<1>2. /\ (e + 1) % (CqSize + 1) = IF e + 1 <= CqSize THEN e + 1 ELSE e + 1 - (CqSize + 1)
      /\ (e + 1) % (CqSize + 1) \in 0 .. CqSize
  BY <1>1, Wrap
<1> QED
  BY <1>1, <1>2 DEF Following, CqEntry

(* The places of the ring from an entry on.                                *)
LEMMA SlotInRing ==
  ASSUME NEW head \in CqEntry, NEW k \in 0 .. CqSize + 1
  PROVE  /\ Slot(head, k) \in CqEntry
         /\ Slot(head, k) = IF head + k <= CqSize THEN head + k ELSE head + k - (CqSize + 1)
<1>1. CqSize \in Nat /\ head \in 0 .. CqSize
  BY NvmeConstants DEF CqEntry
<1> QED
  BY <1>1, Wrap DEF Slot, CqEntry

LEMMA SlotsDiffer ==
  ASSUME NEW head \in CqEntry, NEW j \in 0 .. CqSize, NEW k \in 0 .. CqSize,
         Slot(head, j) = Slot(head, k)
  PROVE  j = k
<1>1. CqSize \in Nat /\ head \in 0 .. CqSize /\ j \in 0 .. CqSize + 1 /\ k \in 0 .. CqSize + 1
  BY NvmeConstants DEF CqEntry
<1> QED
  BY <1>1, SlotInRing

LEMMA NextSlot ==
  ASSUME NEW head \in CqEntry, NEW k \in 0 .. CqSize
  PROVE  /\ Following(Slot(head, k), CqSize) = Slot(head, k + 1)
         /\ Slot(Following(head, CqSize), k) = Slot(head, k + 1)
         /\ Slot(head, 0) = head
<1>1. /\ CqSize \in Nat /\ head \in 0 .. CqSize /\ 0 \in 0 .. CqSize + 1
      /\ k \in 0 .. CqSize + 1 /\ k + 1 \in 0 .. CqSize + 1
  BY NvmeConstants DEF CqEntry
<1>2. /\ Following(head, CqSize) \in CqEntry
      /\ Following(head, CqSize) = IF head + 1 <= CqSize THEN head + 1 ELSE 0
  BY FollowingCompletion
<1>3. Following(Slot(head, k), CqSize) = Slot(head, k + 1)
  <2>1. /\ Slot(head, k) \in CqEntry
        /\ Slot(head, k) = IF head + k <= CqSize THEN head + k ELSE head + k - (CqSize + 1)
        /\ Slot(head, k + 1) = IF head + (k + 1) <= CqSize THEN head + (k + 1)
                               ELSE head + (k + 1) - (CqSize + 1)
    BY <1>1, SlotInRing
  <2>2. Following(Slot(head, k), CqSize) = IF Slot(head, k) + 1 <= CqSize
                                           THEN Slot(head, k) + 1 ELSE 0
    BY <2>1, FollowingCompletion
  <2> QED
    BY <1>1, <2>1, <2>2
<1>4. Slot(Following(head, CqSize), k) = Slot(head, k + 1)
  BY <1>1, <1>2, SlotInRing
<1>5. Slot(head, 0) = head
  BY <1>1, SlotInRing
<1> QED
  BY <1>3, <1>4, <1>5

(* Where the controller posts, while a command is unanswered.              *)
LEMMA PostingPlace ==
  ASSUME NEW h \in HeadRecord, NEW P \in Seq(Cid), NEW n \in Nat, Len(P) < n,
         NEW C, CompletionInv(C, h, P, n)
  PROVE  /\ Slot(h.head, Len(P)) \in CqEntry /\ Len(P) \in 0 .. CqSize
         /\ Following(Slot(h.head, Len(P)), CqSize) = (h.head + (Len(P) + 1)) % (CqSize + 1)
<1>1. Len(P) \in Nat /\ CqSize \in Nat /\ h.head \in CqEntry /\ n <= CqSize
  BY NvmeConstants DEF HeadRecord, CompletionInv
<1>2. Len(P) \in 0 .. CqSize /\ Len(P) \in 0 .. CqSize + 1
  BY <1>1
<1> QED
  BY <1>1, <1>2, SlotInRing, NextSlot DEF Slot

(* Posting a completion.                                                   *)
LEMMA PostingKeepsRing ==
  ASSUME NEW h \in HeadRecord, NEW P \in Seq(Cid), NEW n \in Nat, Len(P) < n,
         NEW C \in [CqEntry -> Completion], CompletionInv(C, h, P, n),
         NEW id \in Cid, NEW D \in [CqEntry -> Completion],
         D[Slot(h.head, Len(P))] = [cid |-> id, phase |-> 1],
         \A e \in CqEntry : e # Slot(h.head, Len(P)) => D[e] = C[e]
  PROVE  CompletionInv(D, h, Append(P, id), n)
<1> DEFINE Q == Append(P, id)
           p == Slot(h.head, Len(P))
<1>1. /\ Len(P) \in Nat /\ CqSize \in Nat /\ h.head \in 0 .. CqSize /\ h.head \in CqEntry
      /\ n <= CqSize /\ Len(P) < CqSize /\ Len(P) \in 0 .. CqSize
  BY NvmeConstants DEF HeadRecord, CqEntry, CompletionInv
<1>2. /\ p \in CqEntry
      /\ p = IF h.head + Len(P) <= CqSize THEN h.head + Len(P)
             ELSE h.head + Len(P) - (CqSize + 1)
  BY <1>1, SlotInRing
<1>3. /\ Len(Q) = Len(P) + 1 /\ Q[Len(P) + 1] = id
      /\ \A k \in 1 .. Len(P) : Q[k] = P[k]
  BY AppendProperties
<1>4. D[p].cid = id /\ D[p].phase = 1 /\ p = Slot(h.head, Len(P))
  OBVIOUS
<1>5. \A e \in CqEntry : e # p => D[e] = C[e]
  OBVIOUS
<1> HIDE DEF Q, p
<1>6. ASSUME NEW e \in CqEntry
      PROVE  D[e].phase = IF h.phase = 1 /\ e >= h.head + Len(Q) THEN 0 ELSE 1
  <2>0. e \in 0 .. CqSize
    BY DEF CqEntry
  <2>1. CASE e = p
    <3>1. ~(e >= h.head + Len(Q))
      BY <1>1, <1>2, <1>3, <2>0, <2>1
    <3> QED
      BY <1>4, <2>1, <3>1
  <2>2. CASE e # p
    <3>1. D[e].phase = IF h.phase = 1 /\ e >= h.head + Len(P) THEN 0 ELSE 1
      BY <1>5, <2>2 DEF CompletionInv
    <3>2. e >= h.head + Len(P) <=> e >= h.head + Len(Q)
      BY <1>1, <1>2, <1>3, <2>0, <2>2
    <3> QED
      BY <3>1, <3>2
  <2> QED
    BY <2>1, <2>2
<1>7. ASSUME NEW k \in 1 .. Len(Q)
      PROVE  D[Slot(h.head, k - 1)].cid = Q[k]
  <2>1. CASE k = Len(P) + 1
    <3>1. k - 1 = Len(P)
      BY <1>1, <2>1
    <3> QED
      BY <1>3, <1>4, <2>1, <3>1
  <2>2. CASE k # Len(P) + 1
    <3>1. k \in 1 .. Len(P) /\ k - 1 \in 0 .. CqSize /\ k - 1 \in 0 .. CqSize + 1 /\ k - 1 # Len(P)
      BY <1>1, <1>3, <2>2
    <3>2. Slot(h.head, k - 1) \in CqEntry /\ Slot(h.head, k - 1) # p
      BY <1>1, <1>4, <3>1, SlotInRing, SlotsDiffer
    <3>3. C[Slot(h.head, k - 1)].cid = P[k]
      BY <3>1 DEF CompletionInv
    <3> QED
      BY <1>3, <1>5, <3>1, <3>2, <3>3
  <2> QED
    BY <2>1, <2>2
<1> QED
  BY <1>1, <1>6, <1>7 DEF CompletionInv, Q

(* What the driver sees: nothing once it expects the other tag.            *)
LEMMA VisibleIsPosted ==
  ASSUME NEW h \in HeadRecord, NEW P \in Seq(Cid), NEW n \in Nat,
         NEW C \in [CqEntry -> Completion], CompletionInv(C, h, P, n)
  PROVE  C[h.head].phase = h.phase <=> h.phase = 1 /\ P # <<>>
<1>1. /\ Len(P) \in Nat /\ h.head \in Nat /\ h.head \in CqEntry /\ h.phase \in {0, 1}
      /\ (P = <<>> <=> Len(P) = 0)
  BY NvmeConstants, EmptySeq DEF HeadRecord, CqEntry
<1>2. C[h.head].phase = IF h.phase = 1 /\ h.head >= h.head + Len(P) THEN 0 ELSE 1
  BY <1>1 DEF CompletionInv
<1>3. h.head >= h.head + Len(P) <=> Len(P) = 0
  BY <1>1
<1> QED
  BY <1>1, <1>2, <1>3

(* Collecting a completion, from C and h to D and g: the driver's head      *)
(* moves on, and its phase changes at the end of the ring.                 *)
Collected(C, D, h, g) ==
  /\ g.head = Following(h.head, CqSize)
  /\ g.phase = IF h.head = CqSize THEN 1 - h.phase ELSE h.phase
  /\ \A e \in CqEntry : D[e].phase = C[e].phase /\ (e # h.head => D[e] = C[e])

LEMMA CollectingKeepsRing ==
  ASSUME NEW h \in HeadRecord, NEW P \in Seq(Cid), NEW n \in Nat, Len(P) <= n,
         NEW C \in [CqEntry -> Completion], CompletionInv(C, h, P, n), P # <<>>, h.phase = 1,
         NEW g \in HeadRecord, NEW D \in [CqEntry -> Completion], Collected(C, D, h, g)
  PROVE  /\ C[h.head].cid = P[1]
         /\ CompletionInv(D, g, Tail(P), n - 1)
         /\ (g.head + Len(Tail(P))) % (CqSize + 1) = (h.head + Len(P)) % (CqSize + 1)
<1> DEFINE Q == Tail(P)
<1>0. /\ g.head = Following(h.head, CqSize)
      /\ g.phase = IF h.head = CqSize THEN 1 - h.phase ELSE h.phase
      /\ \A e \in CqEntry : D[e].phase = C[e].phase /\ (e # h.head => D[e] = C[e])
  BY DEF Collected
<1> USE <1>0
<1>1. /\ Len(P) \in Nat /\ Len(P) > 0 /\ CqSize \in Nat /\ h.head \in 0 .. CqSize
      /\ h.head \in CqEntry /\ n <= CqSize
  <2>1. Len(P) # 0
    BY EmptySeq
  <2> QED
    BY <2>1, NvmeConstants DEF HeadRecord, CqEntry, CompletionInv
<1>3. /\ Q \in Seq(Cid) /\ Len(Q) = Len(P) - 1
      /\ \A k \in 1 .. Len(Q) : Q[k] = P[k + 1]
  BY HeadTailProperties
<1>4. g.head = IF h.head + 1 <= CqSize THEN h.head + 1 ELSE 0
  BY <1>1, FollowingCompletion
<1>5. Slot(h.head, 0) = h.head
  <2>1. 0 \in 0 .. CqSize
    BY <1>1
  <2> QED
    BY <1>1, <2>1, NextSlot
<1>6. C[h.head].cid = P[1]
  <2>1. 1 \in 1 .. Len(P) /\ 1 - 1 = 0
    BY <1>1
  <2>2. C[Slot(h.head, 1 - 1)].cid = P[1]
    BY <2>1 DEF CompletionInv
  <2> QED
    BY <1>5, <2>1, <2>2
<1> HIDE DEF Q
<1>7. ASSUME NEW k \in 1 .. Len(Q)
      PROVE  D[Slot(g.head, k - 1)].cid = Q[k]
  <2>1. /\ k \in 0 .. CqSize /\ k - 1 \in 0 .. CqSize /\ k - 1 + 1 = k /\ k # 0
        /\ k + 1 \in 1 .. Len(P) /\ k + 1 - 1 = k /\ 0 \in 0 .. CqSize /\ k \in 0 .. CqSize + 1
    BY <1>1, <1>3
  <2>2. Slot(g.head, k - 1) = Slot(h.head, k)
    BY <1>1, <2>1, NextSlot
  <2>3. Slot(h.head, k) \in CqEntry /\ Slot(h.head, k) # h.head
    BY <1>1, <1>5, <2>1, SlotInRing, SlotsDiffer
  <2>4. C[Slot(h.head, k)].cid = P[k + 1]
    BY <2>1 DEF CompletionInv
  <2> QED
    BY <1>3, <2>2, <2>3, <2>4
<1>8. ASSUME NEW e \in CqEntry
      PROVE  D[e].phase = IF g.phase = 1 /\ e >= g.head + Len(Q) THEN 0 ELSE 1
  <2>1. D[e].phase = (IF e >= h.head + Len(P) THEN 0 ELSE 1) /\ e \in 0 .. CqSize
    BY DEF CompletionInv, CqEntry
  <2>2. CASE h.head = CqSize
    <3>1. g.phase = 0 /\ ~(e >= h.head + Len(P))
      BY <1>1, <2>1, <2>2
    <3> QED
      BY <2>1, <3>1
  <2>3. CASE h.head # CqSize
    <3>1. g.phase = 1 /\ g.head = h.head + 1
      BY <1>1, <1>4, <2>3
    <3>2. h.head \in Nat /\ Len(P) \in Nat /\ Len(Q) = Len(P) - 1
      BY <1>1, <1>3
    <3>3. \A a, b \in Nat : (a + 1) + (b - 1) = a + b
      OBVIOUS
    <3>4. g.head + Len(Q) = h.head + Len(P)
      BY <3>1, <3>2, <3>3
    <3> QED
      BY <2>1, <3>1, <3>4
  <2> QED
    BY <2>2, <2>3
<1>9. CompletionInv(D, g, Q, n - 1)
  <2>1. n - 1 <= CqSize
    BY <1>1
  <2> QED
    BY <1>7, <1>8, <2>1 DEF CompletionInv
<1>10. (g.head + Len(Q)) % (CqSize + 1) = (h.head + Len(P)) % (CqSize + 1)
  <2>1. Len(Q) \in 0 .. CqSize /\ Len(Q) + 1 = Len(P)
    BY <1>1, <1>3
  <2>2. Slot(g.head, Len(Q)) = Slot(h.head, Len(P))
    BY <1>1, <2>1, NextSlot
  <2> QED
    BY <2>2 DEF Slot
<1> QED
  BY <1>6, <1>9, <1>10 DEF Q

(* A command more in flight: there is room in the ring for its completion. *)
LEMMA WritingKeepsRing ==
  ASSUME NEW h \in HeadRecord, NEW P \in Seq(Cid), NEW n \in Nat, NEW C,
         CompletionInv(C, h, P, n), n < CqSize
  PROVE  CompletionInv(C, h, P, n + 1)
<1>1. n + 1 <= CqSize
  BY NvmeConstants
<1> QED
  BY <1>1 DEF CompletionInv

-----------------------------------------------------------------------------
(* The steps.                                                              *)
LEMMA IoFacts == /\ Io \in IoQueues /\ Io \in Qid /\ Io # 0 /\ 0 \in Qid
                 /\ \A q \in Qid : q # None
<1>1. IoQueues # {} /\ IoQueues \subseteq Nat \ {0} /\ None \notin Nat
  BY NvmeConstants
<1>2. Io \in IoQueues
  BY <1>1 DEF Io
<1>3. Qid \subseteq Nat
  BY <1>1 DEF Qid
<1> QED
  BY <1>1, <1>2, <1>3 DEF Qid

(* What a step does not touch it keeps.                                    *)
LEMMA QueueFrame ==
  ASSUME NEW q \in Qid, QueueInv(q),
         sqe'[q] = sqe[q], cqe'[q] = cqe[q], posted'[q] = posted[q],
         tails'[q].tail = tails[q].tail, Base(q)' = Base(q), inflight'[q] = inflight[q],
         heads'[q].head = heads[q].head, heads'[q].phase = heads[q].phase
  PROVE  QueueInv(q)'
BY DEF QueueInv, CompletionInv

(* A queue in cleared memory.                                              *)
LEMMA EmptySubmission ==
  ASSUME NEW S, NEW tail \in SqEntry
  PROVE  SubmissionInv(S, tail, tail, {}, <<>>) /\ Count(tail, tail, <<>>) = 0
<1>1. Gap(tail, tail) = 0
  BY GapSteps
<1>2. Len(<<>>) = 0
  BY EmptySeq
<1>3. Count(tail, tail, <<>>) = 0
  BY <1>1, <1>2 DEF Count
<1>4. IsFiniteSet({}) /\ Cardinality({}) = 0
  BY FS_EmptySet
<1> QED
  BY <1>1, <1>2, <1>3, <1>4, NvmeConstants DEF SubmissionInv

LEMMA EmptyCompletion ==
  ASSUME NEW C, \A e \in CqEntry : C[e] = NoCompletion
  PROVE  CompletionInv(C, FreshHead, <<>>, 0)
<1>1. \A e \in CqEntry : C[e].phase = 0 /\ e >= 0 + 0
  BY NvmeConstants DEF NoCompletion, CqEntry
<1>2. FreshHead.head = 0 /\ FreshHead.phase = 1 /\ Len(<<>>) = 0 /\ 0 <= CqSize
  BY NvmeConstants, EmptySeq DEF FreshHead
<1>3. \A k \in 1 .. Len(<<>>) : C[Slot(FreshHead.head, k - 1)].cid = (<<>>)[k]
  BY <1>2
<1> QED
  BY <1>1, <1>2, <1>3 DEF CompletionInv

LEMMA FreshQueue ==
  ASSUME NEW q \in Qid, Fresh(q), serving = None
  PROVE  QueueInv(q)
<1>1. /\ tails[q].tail = 0 /\ Base(q) = 0 /\ inflight[q] = {} /\ posted[q] = <<>>
      /\ heads[q] = FreshHead /\ \A e \in CqEntry : cqe[q][e] = NoCompletion
  BY IoFacts DEF Fresh, Base, FreshTail
<1>2. 0 \in SqEntry
  BY NvmeConstants DEF SqEntry
<1> QED
  BY <1>1, <1>2, EmptySubmission, EmptyCompletion DEF QueueInv

(* What is in flight bounds what is posted.                                *)
LEMMA QueueNumbers ==
  ASSUME NEW q \in Qid, NvmeType, DriverType, QueueInv(q)
  PROVE  /\ tails[q].tail \in SqEntry /\ tails[q].rung \in SqEntry /\ Base(q) \in SqEntry
         /\ heads[q] \in HeadRecord /\ inflight[q] \in SUBSET Command
         /\ sqe[q] \in [SqEntry -> Command \cup {None}]
         /\ cqe[q] \in [CqEntry -> Completion]
         /\ posted[q] \in Seq(Cid) /\ Len(posted[q]) \in Nat
         /\ Gap(tails[q].tail, Base(q)) \in Nat
         /\ IsFiniteSet(inflight[q])
         /\ Cardinality(inflight[q]) = Len(posted[q]) + Gap(tails[q].tail, Base(q))
         /\ Cardinality(inflight[q]) \in Nat
         /\ inflight[q] = {} => posted[q] = <<>>
         /\ Base(q) # tails[q].tail => Len(posted[q]) < Cardinality(inflight[q])
         /\ CompletionInv(cqe[q], heads[q], posted[q], Cardinality(inflight[q]))
<1>1. /\ tails[q].tail \in SqEntry /\ tails[q].rung \in SqEntry /\ Base(q) \in SqEntry
      /\ heads[q] \in HeadRecord /\ inflight[q] \in SUBSET Command
      /\ sqe[q] \in [SqEntry -> Command \cup {None}] /\ cqe[q] \in [CqEntry -> Completion]
      /\ posted[q] \in Seq(Cid)
  BY DEF NvmeType, DriverType, Base, TailRecord
<1>2. /\ IsFiniteSet(inflight[q])
      /\ Cardinality(inflight[q]) = Count(tails[q].tail, Base(q), posted[q])
      /\ CompletionInv(cqe[q], heads[q], posted[q], Cardinality(inflight[q]))
  BY DEF QueueInv, SubmissionInv
<1>3. /\ Len(posted[q]) \in Nat /\ Gap(tails[q].tail, Base(q)) \in Nat
      /\ Cardinality(inflight[q]) = Len(posted[q]) + Gap(tails[q].tail, Base(q))
  BY <1>1, <1>2, CountNumbers
<1>4. inflight[q] = {} => posted[q] = <<>>
  <2>1. inflight[q] = {} => Cardinality(inflight[q]) = 0
    BY FS_EmptySet
  <2>2. inflight[q] = {} => Len(posted[q]) = 0
    BY <1>3, <2>1
  <2> QED
    BY <1>1, <2>2, EmptySeq
<1>5. Base(q) # tails[q].tail => Gap(tails[q].tail, Base(q)) # 0
  BY <1>1, GapSteps
<1>6. Base(q) # tails[q].tail => Len(posted[q]) < Cardinality(inflight[q])
  BY <1>3, <1>5
<1> QED
  BY <1>1, <1>2, <1>3, <1>4, <1>6

LEMMA VisibleNow ==
  ASSUME NEW q \in Qid, NvmeType, DriverType, QueueInv(q)
  PROVE  Visible(q) <=> heads[q].phase = 1 /\ posted[q] # <<>>
<1>1. Len(posted[q]) <= Cardinality(inflight[q])
  BY QueueNumbers
<1> QED
  BY <1>1, QueueNumbers, VisibleIsPosted DEF Visible

(* A step that leaves the commands alone and only narrows what is set up.  *)
LEMMA StageFrame ==
  ASSUME StageInv, enabled, stage' = stage, inflight' = inflight, posted'[0] = posted[0],
         stage = "creating cq" => heads'[Io] = heads[Io],
         stage = "creating sq" => tails'[Io] = tails[Io],
         sq'[Io].valid = sq[Io].valid, cq'[Io].valid = cq[Io].valid
  PROVE  StageInv'
<1>1. CommandsFitStage /\ QueuesFitStage
  BY DEF StageInv
<1>2. CommandsFitStage'
  BY <1>1 DEF CommandsFitStage
<1>3. AnsweredIds(0)' = AnsweredIds(0)
  BY DEF AnsweredIds
<1>4. QueuesFitStage'
  <2>1. \A c \in inflight'[0] : c.cid \in AnsweredIds(0)' =>
          /\ c.op = "delete sq" => ~sq'[Io].valid
          /\ c.op = "delete cq" => ~cq'[Io].valid
    BY <1>1, <1>3 DEF QueuesFitStage
  <2> QED
    BY <1>1, <2>1 DEF QueuesFitStage
<1> QED
  BY <1>2, <1>4 DEF StageInv

LEMMA InitKeeps == Init => ControlInv
<1> SUFFICES ASSUME Init PROVE ControlInv
  OBVIOUS
<1> USE DEF Init, NvmeInit
<1>1. 0 \in SqEntry /\ 0 \in CqEntry /\ SqSize \in Nat
  BY NvmeConstants DEF SqEntry, CqEntry
<1>2. NvmeType
  <2>1. <<>> \in Seq(Cid)
    BY EmptySeq
  <2>2. NoCompletion \in Completion
    BY DEF NoCompletion, Completion
  <2> QED
    BY <1>1, <2>1, <2>2 DEF NvmeType, SqRecord, CqRecord
<1>3. DriverType
  BY <1>1 DEF DriverType, Stages, FreshTail, FreshHead, TailRecord, HeadRecord
<1>4. \A q \in Qid : Fresh(q) /\ ~sq[q].valid /\ ~cq[q].valid
  BY DEF Fresh
<1>5. Mode
  BY <1>4 DEF Mode, Fresh
<1> QED
  BY <1>2, <1>3, <1>5 DEF ControlInv, StageInv, SignalInv

LEMMA StartKeeps == ControlInv /\ Start => ControlInv'
<1> SUFFICES ASSUME ControlInv, Start PROVE ControlInv'
  OBVIOUS
<1> USE IoFacts
<1>1. /\ ~enabled /\ enabled' /\ stage = "none" /\ serving = None /\ handler = "idle"
      /\ UNCHANGED <<serving, next, sqe, cqe, raised, posted, stage, tails, heads,
                     inflight, handler>>
  BY DEF ControlInv, Mode, Start, Enable
<1>2. /\ sq'[0] = FreshSq /\ cq'[0] = FreshCq
      /\ \A q \in Qid \ {0} : sq'[q] = sq[q] /\ cq'[q] = cq[q]
  BY DEF ControlInv, NvmeType, Start, Enable
<1>3. \A q \in Qid : Fresh(q) /\ ~sq[q].valid /\ ~cq[q].valid
  BY <1>1 DEF ControlInv, Mode
<1>4. NvmeType'
  <2>1. FreshSq \in SqRecord /\ FreshCq \in CqRecord
    BY NvmeConstants DEF FreshSq, FreshCq, SqRecord, CqRecord, SqEntry, CqEntry
  <2>2. sq' \in [Qid -> SqRecord] /\ cq' \in [Qid -> CqRecord]
    BY <2>1 DEF ControlInv, NvmeType, Start, Enable
  <2> QED
    BY <1>1, <2>2 DEF ControlInv, NvmeType
<1>5. DriverType'
  BY <1>1 DEF ControlInv, DriverType
<1>6. Mode'
  BY <1>1, <1>2 DEF Mode, FreshSq, FreshCq
<1>7. ASSUME NEW q \in Qid PROVE QueueInv(q)' /\ IndicesAgree(q)'
  <2>1. QueueInv(q)
    BY <1>1, <1>3, FreshQueue
  <2>2. QueueInv(q)'
    BY <1>1, <2>1, QueueFrame DEF Base
  <2>3. /\ tails'[q].rung = 0 /\ heads'[q].head = 0 /\ Len(posted'[q]) = 0
    BY <1>1, <1>3, EmptySeq DEF Fresh, FreshTail, FreshHead
  <2>4. (0 + 0) % (CqSize + 1) = 0
    BY NvmeConstants, Wrap
  <2>5. CASE q = 0
    BY <1>2, <2>2, <2>3, <2>4, <2>5 DEF IndicesAgree, FreshSq, FreshCq
  <2>6. CASE q # 0
    BY <1>2, <1>3, <2>2, <2>6 DEF IndicesAgree
  <2> QED
    BY <2>2, <2>5, <2>6
<1>8. StageInv'
  <2>1. inflight'[0] = {} /\ \A q \in IoQueues : inflight'[q] = {}
    BY <1>1, <1>3 DEF Fresh, Qid
  <2>2. ~sq'[Io].valid /\ ~cq'[Io].valid
    BY <1>2, <1>3
  <2>3. CommandsFitStage'
    BY <2>1 DEF CommandsFitStage
  <2>4. QueuesFitStage'
    BY <1>1, <2>1, <2>2 DEF QueuesFitStage
  <2> QED
    BY <2>3, <2>4 DEF StageInv
<1>9. SignalInv'
  BY <1>1, <1>3 DEF SignalInv, Fresh
<1> QED
  BY <1>4, <1>5, <1>6, <1>7, <1>8, <1>9 DEF ControlInv

LEMMA InvalidQueues ==
  ASSUME sq \in [Qid -> SqRecord], cq \in [Qid -> CqRecord]
  PROVE  /\ Invalid(sq) \in [Qid -> SqRecord] /\ Invalid(cq) \in [Qid -> CqRecord]
         /\ \A q \in Qid : ~Invalid(sq)[q].valid /\ ~Invalid(cq)[q].valid
<1>1. ASSUME NEW q \in Qid
      PROVE  /\ [sq[q] EXCEPT !.valid = FALSE] \in SqRecord
             /\ ~[sq[q] EXCEPT !.valid = FALSE].valid
             /\ [cq[q] EXCEPT !.valid = FALSE] \in CqRecord
             /\ ~[cq[q] EXCEPT !.valid = FALSE].valid
  BY DEF SqRecord, CqRecord
<1> QED
  BY <1>1 DEF Invalid

LEMMA ResetKeeps == ControlInv /\ Reset => ControlInv'
<1> SUFFICES ASSUME ControlInv, Reset PROVE ControlInv'
  OBVIOUS
<1>1. /\ enabled' = FALSE /\ stage' = "reset" /\ serving = None /\ handler' = "idle"
      /\ posted' = [q \in Qid |-> <<>>] /\ sq' = Invalid(sq) /\ cq' = Invalid(cq)
      /\ UNCHANGED <<serving, next, sqe, cqe, raised, tails, heads, inflight, handler>>
  BY DEF Reset, Disable
<1>2. NvmeType'
  <2>1. <<>> \in Seq(Cid)
    BY EmptySeq
  <2>2. sq' \in [Qid -> SqRecord] /\ cq' \in [Qid -> CqRecord]
    BY <1>1, InvalidQueues DEF ControlInv, NvmeType
  <2> QED
    BY <1>1, <2>1, <2>2, IoFacts DEF ControlInv, NvmeType
<1>3. DriverType'
  BY <1>1 DEF ControlInv, DriverType, Stages
<1>4. \A q \in Qid : ~sq'[q].valid /\ ~cq'[q].valid /\ posted'[q] = <<>>
  BY <1>1, InvalidQueues DEF ControlInv, NvmeType
<1>5. Mode'
  BY <1>1, <1>4 DEF Mode
<1> QED
  BY <1>1, <1>2, <1>3, <1>4, <1>5 DEF ControlInv, StageInv, SignalInv

LEMMA ClearKeeps == StoppedInv /\ Clear => ControlInv'
<1> SUFFICES ASSUME StoppedInv, Clear PROVE ControlInv'
  OBVIOUS
<1>1. /\ ~enabled /\ stage' = "none" /\ serving = None /\ handler = "idle" /\ ~raised'
      /\ \A q \in Qid : ~sq[q].valid /\ ~cq[q].valid /\ posted[q] = <<>>
      /\ posted = [q \in Qid |-> <<>>]
      /\ UNCHANGED <<enabled, sq, cq, serving, next, posted, handler>>
  BY DEF StoppedInv, Clear
<1>2. \A q \in Qid : Fresh(q)'
  BY <1>1 DEF Clear, Fresh
<1>3. NvmeType'
  <2>1. NoCompletion \in Completion /\ <<>> \in Seq(Cid)
    BY EmptySeq DEF NoCompletion, Completion
  <2>2. posted' \in [Qid -> Seq(Cid)]
    BY <1>1, <2>1
  <2>3. /\ sqe' \in [Qid -> [SqEntry -> Command \cup {None}]]
        /\ cqe' \in [Qid -> [CqEntry -> Completion]]
    BY <2>1 DEF Clear
  <2> QED
    BY <1>1, <2>2, <2>3 DEF Clear, StoppedInv, NvmeType
<1>4. DriverType'
  <2>1. 0 \in SqEntry /\ 0 \in CqEntry
    BY NvmeConstants DEF SqEntry, CqEntry
  <2> QED
    BY <1>1, <2>1 DEF Clear, StoppedInv, DriverType, Stages, FreshTail, FreshHead,
                      TailRecord, HeadRecord
<1>5. Mode'
  BY <1>1, <1>2 DEF Mode
<1> QED
  BY <1>1, <1>3, <1>4, <1>5 DEF ControlInv, StageInv, SignalInv

LEMMA InterruptKeeps == ControlInv /\ Interrupt => ControlInv'
<1> SUFFICES ASSUME ControlInv, Interrupt PROVE ControlInv'
  OBVIOUS
<1>1. /\ enabled /\ handler' = "collect" /\ raised' = FALSE
      /\ UNCHANGED <<enabled, sq, cq, serving, next, sqe, cqe, posted, stage, tails, heads,
                     inflight>>
  BY DEF Interrupt
<1>2. NvmeType' /\ DriverType' /\ Mode' /\ SignalInv'
  BY <1>1 DEF ControlInv, NvmeType, DriverType, Mode, SignalInv
<1>3. \A q \in Qid : QueueInv(q)' /\ IndicesAgree(q)'
  BY <1>1, QueueFrame DEF ControlInv, IndicesAgree, Base
<1>4. StageInv'
  BY <1>1, StageFrame DEF ControlInv
<1> QED
  BY <1>2, <1>3, <1>4 DEF ControlInv

LEMMA FinishKeeps == ControlInv /\ Finish => ControlInv'
<1> SUFFICES ASSUME ControlInv, Finish PROVE ControlInv'
  OBVIOUS
<1>1. /\ enabled /\ handler' = "idle" /\ \A q \in Qid : ~Visible(q)
      /\ UNCHANGED <<enabled, sq, cq, serving, next, sqe, cqe, raised, posted, stage, tails,
                     heads, inflight>>
  BY DEF Finish, ControlInv, Mode, nvmeVars
<1>2. NvmeType' /\ DriverType' /\ Mode'
  BY <1>1 DEF ControlInv, NvmeType, DriverType, Mode
<1>3. \A q \in Qid : QueueInv(q)' /\ IndicesAgree(q)'
  BY <1>1, QueueFrame DEF ControlInv, IndicesAgree, Base
<1>4. StageInv'
  BY <1>1, StageFrame DEF ControlInv
<1>5. SignalInv'
  <2>1. \A q \in Qid : heads[q].phase = 1 => posted[q] = <<>>
    BY <1>1, VisibleNow DEF ControlInv
  <2> QED
    BY <1>1, <2>1 DEF SignalInv
<1> QED
  BY <1>2, <1>3, <1>4, <1>5 DEF ControlInv

LEMMA RingHeadKeeps ==
  ASSUME ControlInv, NEW q \in Qid, RingHead(q), posted[q] = <<>>
  PROVE  ControlInv'
<1>1. /\ enabled /\ handler = "collect" /\ heads[q].rung # heads[q].head
      /\ UNCHANGED <<enabled, sq, serving, next, sqe, cqe, raised, posted, stage, tails,
                     inflight, handler>>
  BY DEF RingHead, HeadDoorbell
<1>2. /\ heads[q] \in HeadRecord
      /\ heads'[q].head = heads[q].head /\ heads'[q].phase = heads[q].phase
      /\ \A r \in Qid \ {q} : heads'[r] = heads[r]
      /\ heads' \in [Qid -> HeadRecord]
  BY DEF RingHead, HeadDoorbell, ControlInv, DriverType, HeadRecord
<1>3. /\ \A r \in Qid \ {q} : cq'[r] = cq[r]
      /\ \A r \in Qid : cq'[r].valid = cq[r].valid /\ cq'[r].size = cq[r].size
      /\ cq'[q].head = heads[q].head
      /\ cq' \in [Qid -> CqRecord]
  <2>1. cq' = [cq EXCEPT ![q].head = heads[q].head] /\ cq \in [Qid -> CqRecord]
    BY DEF RingHead, HeadDoorbell, ControlInv, NvmeType
  <2>2. cq[q] \in CqRecord /\ heads[q].head \in CqEntry
    BY <1>2, <2>1 DEF HeadRecord
  <2>3. [cq[q] EXCEPT !.head = heads[q].head] \in CqRecord
    BY <2>2 DEF CqRecord
  <2>4. cq'[q] = [cq[q] EXCEPT !.head = heads[q].head] /\ \A r \in Qid \ {q} : cq'[r] = cq[r]
    BY <2>1
  <2>5. cq' \in [Qid -> CqRecord]
    BY <2>1, <2>3
  <2>6. /\ cq'[q].head = heads[q].head /\ cq'[q].valid = cq[q].valid
        /\ cq'[q].size = cq[q].size
    BY <2>2, <2>4 DEF CqRecord
  <2> QED
    BY <2>4, <2>5, <2>6
<1>4. NvmeType' /\ DriverType'
  BY <1>1, <1>2, <1>3 DEF ControlInv, NvmeType, DriverType
<1>5. Mode'
  BY <1>1, <1>3, IoFacts DEF ControlInv, Mode, NvmeType
<1>6. ASSUME NEW r \in Qid PROVE QueueInv(r)' /\ IndicesAgree(r)'
  <2>1. QueueInv(r) /\ IndicesAgree(r)
    BY <1>1 DEF ControlInv
  <2>2. QueueInv(r)'
    BY <1>1, <1>2, <2>1, QueueFrame DEF Base
  <2>3. CASE r = q
    <3>1. Len(posted[q]) = 0
      BY EmptySeq
    <3>2. (heads[q].head + 0) % (CqSize + 1) = heads[q].head
      <4>1. CqSize \in Nat /\ heads[q].head \in 0 .. CqSize /\ 0 \in 0 .. CqSize + 1
        BY <1>2, NvmeConstants DEF HeadRecord, CqEntry
      <4>2. heads[q].head + 0 = heads[q].head /\ heads[q].head + 0 <= CqSize
        BY <4>1
      <4> QED
        BY <4>1, <4>2, Wrap
    <3> QED
      BY <1>1, <1>2, <1>3, <2>1, <2>2, <2>3, <3>1, <3>2 DEF IndicesAgree
  <2>4. CASE r # q
    BY <1>1, <1>2, <1>3, <2>1, <2>2, <2>4 DEF IndicesAgree
  <2> QED
    BY <2>3, <2>4
<1>7. StageInv'
  <2>1. stage = "creating cq" => q # Io
    <3>1. stage = "creating cq" => heads[Io] = FreshHead
      BY <1>1 DEF ControlInv, StageInv, QueuesFitStage
    <3>2. FreshHead.rung = FreshHead.head
      BY DEF FreshHead
    <3> QED
      BY <1>1, <3>1, <3>2
  <2>2. stage = "creating cq" => heads'[Io] = heads[Io]
    BY <1>2, <2>1, IoFacts
  <2> QED
    BY <1>1, <1>3, <2>2, IoFacts, StageFrame DEF ControlInv
<1> QED
  BY <1>1, <1>4, <1>5, <1>6, <1>7 DEF ControlInv, SignalInv

LEMMA RingKeeps ==
  ASSUME ControlInv, NEW q \in Qid, Ring(q)
  PROVE  ControlInv'
<1>1. /\ enabled /\ serving = None /\ sq[q].valid /\ tails[q].rung # tails[q].tail
      /\ UNCHANGED <<enabled, cq, sqe, cqe, raised, posted, stage, heads, inflight, handler>>
  BY DEF Ring, TailDoorbell
<1>2. \A r \in Qid : QueueInv(r) /\ IndicesAgree(r)
  BY <1>1 DEF ControlInv
<1>3. sq[q].head = tails[q].rung /\ cq[q].valid
  BY <1>1, <1>2, IoFacts DEF IndicesAgree
<1>4. serving' = q /\ next' = tails[q].rung
  BY <1>1, <1>3 DEF Ring, TailDoorbell
<1>5. /\ tails'[q].tail = tails[q].tail /\ tails'[q].rung = tails[q].tail
      /\ \A r \in Qid \ {q} : tails'[r] = tails[r]
      /\ tails[q].rung \in SqEntry /\ tails[q].tail \in SqEntry
      /\ tails' \in [Qid -> TailRecord]
  BY DEF Ring, TailDoorbell, ControlInv, DriverType, TailRecord
<1>6. /\ sq'[q].tail = tails[q].tail /\ sq'[q].valid = sq[q].valid /\ sq'[q].size = sq[q].size
      /\ \A r \in Qid \ {q} : sq'[r] = sq[r]
      /\ sq' \in [Qid -> SqRecord]
  <2>1. sq' = [sq EXCEPT ![q].tail = tails[q].tail] /\ sq \in [Qid -> SqRecord]
    BY DEF Ring, TailDoorbell, ControlInv, NvmeType
  <2>2. [sq[q] EXCEPT !.tail = tails[q].tail] \in SqRecord
    BY <1>5, <2>1 DEF SqRecord
  <2>3. sq'[q] = [sq[q] EXCEPT !.tail = tails[q].tail] /\ \A r \in Qid \ {q} : sq'[r] = sq[r]
    BY <2>1
  <2>4. sq' \in [Qid -> SqRecord]
    BY <2>1, <2>2
  <2>5. sq[q] \in SqRecord
    BY <2>1
  <2> QED
    BY <2>3, <2>4, <2>5 DEF SqRecord
<1>7. NvmeType' /\ DriverType'
  BY <1>1, <1>4, <1>5, <1>6 DEF ControlInv, NvmeType, DriverType
<1>8. Mode'
  BY <1>1, <1>4, <1>5, <1>6, IoFacts DEF ControlInv, Mode
<1>9. ASSUME NEW r \in Qid PROVE QueueInv(r)' /\ IndicesAgree(r)'
  <2>1. Base(r)' = Base(r) /\ tails'[r].tail = tails[r].tail
    BY <1>1, <1>4, <1>5, IoFacts DEF Base
  <2>2. QueueInv(r)'
    BY <1>1, <1>2, <2>1, QueueFrame
  <2>3. IndicesAgree(r)'
    BY <1>1, <1>2, <1>4, <1>5, <1>6, IoFacts DEF IndicesAgree
  <2> QED
    BY <2>2, <2>3
<1>10. StageInv'
  <2>1. stage = "creating sq" => q # Io
    <3>1. stage = "creating sq" => tails[Io] = FreshTail
      BY <1>1 DEF ControlInv, StageInv, QueuesFitStage
    <3>2. FreshTail.rung = FreshTail.tail
      BY DEF FreshTail
    <3> QED
      BY <1>1, <3>1, <3>2
  <2>2. \A r \in Qid : sq'[r].valid = sq[r].valid
    BY <1>6
  <2> QED
    BY <1>1, <1>5, <2>1, <2>2, IoFacts, StageFrame DEF ControlInv
<1> QED
  BY <1>1, <1>7, <1>8, <1>9, <1>10 DEF ControlInv, SignalInv

LEMMA ServeEndKeeps ==
  ASSUME ControlInv, ServeEnd, UNCHANGED <<stage, tails, heads, inflight, handler>>
  PROVE  ControlInv'
<1>1. /\ enabled /\ serving \in Qid /\ next = sq[serving].tail /\ serving' = None
      /\ UNCHANGED <<enabled, cq, next, sqe, cqe, raised, posted>>
      /\ UNCHANGED <<stage, tails, heads, inflight, handler>>
  BY DEF ServeEnd, ControlInv, Mode, NvmeType
<1>2. \A r \in Qid : QueueInv(r) /\ IndicesAgree(r)
  BY <1>1 DEF ControlInv
<1>3. next = tails[serving].rung
  <2>1. sq[serving].valid
    BY <1>1, IoFacts DEF ControlInv, Mode
  <2> QED
    BY <1>1, <1>2, <2>1 DEF IndicesAgree
<1>4. /\ sq'[serving].head = next
      /\ \A r \in Qid \ {serving} : sq'[r] = sq[r]
      /\ \A r \in Qid : /\ sq'[r].valid = sq[r].valid /\ sq'[r].size = sq[r].size
                        /\ sq'[r].tail = sq[r].tail
      /\ sq' \in [Qid -> SqRecord]
  BY <1>1 DEF ServeEnd, ControlInv, NvmeType, SqRecord
<1>5. NvmeType' /\ DriverType'
  BY <1>1, <1>4 DEF ControlInv, NvmeType, DriverType
<1>6. Mode'
  BY <1>1, <1>4, IoFacts DEF ControlInv, Mode
<1>7. ASSUME NEW r \in Qid PROVE QueueInv(r)' /\ IndicesAgree(r)'
  <2>1. Base(r)' = Base(r)
    BY <1>1, <1>3, IoFacts DEF Base
  <2>2. QueueInv(r)'
    BY <1>1, <1>2, <2>1, QueueFrame
  <2>3. IndicesAgree(r)'
    <3>1. CASE r = serving
      BY <1>1, <1>2, <1>3, <1>4, <3>1 DEF IndicesAgree
    <3>2. CASE r # serving
      BY <1>1, <1>2, <1>4, <3>2 DEF IndicesAgree
    <3> QED
      BY <3>1, <3>2
  <2> QED
    BY <2>2, <2>3
<1>8. StageInv'
  BY <1>1, <1>4, IoFacts, StageFrame DEF ControlInv
<1> QED
  BY <1>1, <1>5, <1>6, <1>7, <1>8 DEF ControlInv, SignalInv

LEMMA StutterKeeps == ControlInv /\ UNCHANGED vars => ControlInv'
<1> SUFFICES ASSUME ControlInv, UNCHANGED vars PROVE ControlInv'
  OBVIOUS
<1>1. UNCHANGED <<enabled, sq, cq, serving, next, sqe, cqe, raised, posted, stage, tails, heads,
                  inflight, handler>>
  BY DEF vars, nvmeVars
<1>2. NvmeType' /\ DriverType' /\ Mode' /\ SignalInv'
  BY <1>1 DEF ControlInv, NvmeType, DriverType, Mode, SignalInv, Fresh
<1>3. enabled => \A q \in Qid : QueueInv(q)' /\ IndicesAgree(q)'
  BY <1>1, QueueFrame DEF ControlInv, IndicesAgree, Base
<1>4. StageInv'
  BY <1>1, StageFrame DEF ControlInv, StageInv
<1> QED
  BY <1>1, <1>2, <1>3, <1>4 DEF ControlInv

-----------------------------------------------------------------------------
(* Writing a command.                                                      *)

(* The entries still waiting for their doorbell stay, and the tail is not  *)
(* one of them.                                                            *)
LEMMA WaitingPlaces ==
  ASSUME NEW q \in Qid, NvmeType, DriverType, QueueInv(q), serving = None
  PROVE  /\ Base(q) = tails[q].rung
         /\ Waiting(q) = {Place(tails[q].rung, k) :
                            k \in 0 .. (Gap(tails[q].tail, tails[q].rung) - 1)}
         /\ \A k \in 0 .. (Gap(tails[q].tail, tails[q].rung) - 1) :
              /\ Place(tails[q].rung, k) \in SqEntry
              /\ Place(tails[q].rung, k) \in Waiting(q)
              /\ Place(tails[q].rung, k) # tails[q].tail
<1>1. Base(q) = tails[q].rung /\ tails[q].tail \in SqEntry /\ tails[q].rung \in SqEntry
  BY IoFacts, QueueNumbers DEF Base
<1>2. Waiting(q) = {Place(tails[q].rung, k) :
                      k \in 0 .. (Gap(tails[q].tail, tails[q].rung) - 1)}
  BY DEF Waiting, Place, Gap
<1> DEFINE g == Gap(tails[q].tail, tails[q].rung)
<1>3. g \in 0 .. SqSize /\ SqSize \in Nat /\ Place(tails[q].rung, g) = tails[q].tail
  BY <1>1, GapSize, GapSteps, NvmeConstants
<1> HIDE DEF g
<1>4. ASSUME NEW k \in 0 .. (g - 1)
      PROVE  Place(tails[q].rung, k) \in SqEntry /\ Place(tails[q].rung, k) # tails[q].tail
  <2>1. k \in 0 .. SqSize /\ k # g
    BY <1>3
  <2> QED
    BY <1>1, <1>3, <2>1, PlaceInRing, PlacesDiffer
<1> QED
  BY <1>1, <1>2, <1>4 DEF g

LEMMA WriteKeepsSubmission ==
  ASSUME NEW q \in Qid, NEW c \in Command, NvmeType, DriverType, QueueInv(q), Write(q, c)
  PROVE  /\ SubmissionInv(sqe'[q], tails'[q].tail, Base(q)', inflight'[q], posted'[q])
         /\ Count(tails'[q].tail, Base(q)', posted'[q]) =
              Count(tails[q].tail, Base(q), posted[q]) + 1
         /\ CompletionInv(cqe[q], heads[q], posted'[q],
                          Count(tails'[q].tail, Base(q)', posted'[q]))
<1> DEFINE T == [e \in SqEntry |-> IF e = tails[q].tail THEN c
                                   ELSE IF e \in Waiting(q) THEN sqe[q][e] ELSE None]
<1>1. /\ serving = None /\ posted' = posted /\ serving' = None
      /\ Cardinality(inflight[q]) < SqSize /\ Cardinality(inflight[q]) < CqSize
      /\ c.cid \notin Ids(q)
  BY DEF Write
<1>2. /\ tails'[q].tail = Following(tails[q].tail, SqSize) /\ tails'[q].rung = tails[q].rung
      /\ inflight'[q] = inflight[q] \cup {c}
  BY DEF Write, DriverType, TailRecord, Following
<1>3. sqe'[q] = T
  BY DEF Write, NvmeType
<1>4. Base(q) = tails[q].rung /\ Base(q)' = tails[q].rung
  BY <1>1, <1>2, IoFacts DEF Base
<1>5. T[tails[q].tail] = c
  BY QueueNumbers
<1>6. \A k \in 0 .. (Gap(tails[q].tail, Base(q)) - 1) : T[Place(Base(q), k)] = sqe[q][Place(Base(q), k)]
  BY <1>1, <1>4, WaitingPlaces
<1>7. \A d \in inflight[q] : d.cid # c.cid
  BY <1>1 DEF Ids
<1> HIDE DEF T
<1>8. /\ Count(tails'[q].tail, Base(q), posted[q]) =
           Count(tails[q].tail, Base(q), posted[q]) + 1
      /\ SubmissionInv(T, tails'[q].tail, Base(q), inflight[q] \cup {c}, posted[q])
  <2>1. SubmissionInv(sqe[q], tails[q].tail, Base(q), inflight[q], posted[q])
    BY DEF QueueInv
  <2>2. /\ tails[q].tail \in SqEntry /\ Base(q) \in SqEntry
        /\ inflight[q] \in SUBSET Command /\ posted[q] \in Seq(Cid)
    BY QueueNumbers
  <2>3. /\ Count(Following(tails[q].tail, SqSize), Base(q), posted[q]) =
             Count(tails[q].tail, Base(q), posted[q]) + 1
        /\ SubmissionInv(T, Following(tails[q].tail, SqSize), Base(q), inflight[q] \cup {c},
                         posted[q])
    <3>1. Written(sqe[q], T, tails[q].tail, Base(q), inflight[q], posted[q], c)
      BY <1>1, <1>5, <1>6, <1>7, <2>1 DEF Written
    <3> QED
      BY <2>2, <3>1, WritingKeepsLine
  <2> QED
    BY <1>2, <2>3
<1>9. CompletionInv(cqe[q], heads[q], posted[q], Cardinality(inflight[q]) + 1)
  BY <1>1, QueueNumbers, WritingKeepsRing
<1>10. Cardinality(inflight[q]) = Count(tails[q].tail, Base(q), posted[q])
  BY QueueNumbers DEF Count
<1> QED
  BY <1>1, <1>2, <1>3, <1>4, <1>8, <1>9, <1>10

(* A completion queue may be created in cleared memory at the same time.   *)
Recreated(r) ==
  /\ inflight[r] = {} /\ ~cq[r].valid /\ heads'[r] = FreshHead
  /\ \A e \in CqEntry : cqe'[r][e] = NoCompletion

LEMMA WriteKeeps ==
  ASSUME ControlInv, NEW q \in Qid, NEW c \in Command, Write(q, c),
         stage' \in Stages \ {"reset"}, cqe' \in [Qid -> [CqEntry -> Completion]],
         heads' \in [Qid -> HeadRecord],
         \A r \in Qid : \/ cqe'[r] = cqe[r] /\ heads'[r] = heads[r]
                        \/ r # q /\ Recreated(r)
  PROVE  /\ NvmeType' /\ DriverType' /\ Mode' /\ SignalInv'
         /\ \A r \in Qid : QueueInv(r)' /\ IndicesAgree(r)'
<1>1. /\ enabled /\ serving = None
      /\ UNCHANGED <<enabled, sq, cq, serving, next, raised, posted, handler>>
  BY DEF Write
<1>2. \A r \in Qid : QueueInv(r) /\ IndicesAgree(r)
  BY <1>1 DEF ControlInv
<1>3. /\ tails'[q].rung = tails[q].rung
      /\ \A r \in Qid \ {q} : /\ tails'[r] = tails[r] /\ sqe'[r] = sqe[r]
                              /\ inflight'[r] = inflight[r]
  BY DEF Write, ControlInv, NvmeType, DriverType, TailRecord
<1>4. NvmeType'
  <2>1. sqe' \in [Qid -> [SqEntry -> Command \cup {None}]]
    <3>1. \A e \in SqEntry : sqe[q][e] \in Command \cup {None}
      BY DEF ControlInv, NvmeType
    <3> QED
      BY <3>1 DEF Write, ControlInv, NvmeType
  <2> QED
    BY <1>1, <2>1 DEF ControlInv, NvmeType
<1>5. DriverType'
  <2>1. inflight' \in [Qid -> SUBSET Command]
    BY DEF Write, ControlInv, DriverType
  <2>2. tails' \in [Qid -> TailRecord]
    <3>1. tails[q] \in TailRecord /\ tails \in [Qid -> TailRecord]
      BY DEF ControlInv, DriverType
    <3>2. (tails[q].tail + 1) % (SqSize + 1) \in SqEntry
      <4>1. tails[q].tail \in SqEntry
        BY <3>1 DEF TailRecord
      <4> QED
        BY <4>1, FollowingEntry DEF Following
    <3>3. [tails[q] EXCEPT !.tail = (tails[q].tail + 1) % (SqSize + 1)] \in TailRecord
      BY <3>1, <3>2 DEF TailRecord
    <3>4. tails' = [tails EXCEPT ![q] = [tails[q] EXCEPT !.tail = (tails[q].tail + 1) % (SqSize + 1)]]
      BY <3>1 DEF Write
    <3> QED
      BY <3>1, <3>3, <3>4
  <2> QED
    BY <1>1, <2>1, <2>2 DEF ControlInv, DriverType
<1>6. Mode'
  BY <1>1 DEF ControlInv, Mode
<1>7. SignalInv'
  <2>1. ASSUME NEW r \in Qid, Recreated(r)
        PROVE  posted[r] = <<>>
    BY <1>2, <2>1, QueueNumbers DEF Recreated, ControlInv
  <2>2. \A r \in Qid : posted[r] # <<>> => heads'[r] = heads[r]
    BY <2>1
  <2> QED
    BY <1>1, <2>2 DEF ControlInv, SignalInv
<1>8. ASSUME NEW r \in Qid PROVE QueueInv(r)'
  <2>1. CASE r = q
    <3>1. cqe'[q] = cqe[q] /\ heads'[q] = heads[q]
      OBVIOUS
    <3> QED
      BY <1>2, <2>1, <3>1, WriteKeepsSubmission DEF QueueInv, ControlInv
  <2>2. CASE r # q
    <3>1. Base(r)' = Base(r)
      BY <1>1, <1>3, <2>2, IoFacts DEF Base
    <3>2. CASE cqe'[r] = cqe[r] /\ heads'[r] = heads[r]
      BY <1>1, <1>2, <1>3, <2>2, <3>1, <3>2, QueueFrame
    <3>3. CASE Recreated(r)
      <4>1. posted[r] = <<>> /\ SubmissionInv(sqe[r], tails[r].tail, Base(r), {}, <<>>)
        BY <1>2, <3>3, QueueNumbers DEF Recreated, QueueInv, ControlInv
      <4>2. Count(tails[r].tail, Base(r), <<>>) = 0
        BY <4>1, FS_EmptySet DEF SubmissionInv
      <4>3. CompletionInv(cqe'[r], FreshHead, <<>>, 0)
        BY <3>3, EmptyCompletion DEF Recreated
      <4> QED
        BY <1>1, <1>3, <2>2, <3>1, <3>3, <4>1, <4>2, <4>3 DEF QueueInv, Recreated
    <3> QED
      BY <3>2, <3>3
  <2> QED
    BY <2>1, <2>2
<1>9. ASSUME NEW r \in Qid PROVE IndicesAgree(r)'
  <2>1. tails'[r].rung = tails[r].rung
    BY <1>3
  <2>2. CASE cqe'[r] = cqe[r] /\ heads'[r] = heads[r]
    BY <1>1, <1>2, <2>1, <2>2 DEF IndicesAgree
  <2>3. CASE Recreated(r)
    BY <1>1, <1>2, <2>1, <2>3 DEF IndicesAgree, Recreated
  <2> QED
    BY <2>2, <2>3
<1> QED
  BY <1>4, <1>5, <1>6, <1>7, <1>8, <1>9

(* A new admin command fits the stage it takes the driver to.              *)
LEMMA WriteFitsStage ==
  ASSUME ControlInv, NEW c \in Command, Write(0, c), c.qid = Io, c.cqid = Io,
         \/ c.op \in {"identify", "features"} /\ stage' = stage
         \/ /\ c.op \in QueueOp /\ stage \in {"none", "cq", "live"}
            /\ stage' = StageOf(c.op),
         stage' # "live" => inflight[Io] = {},
         stage' = "creating cq" => heads'[Io] = FreshHead,
         stage' = "creating sq" => tails[Io] = FreshTail,
         stage' = "none" => ~cq[Io].valid,
         stage' \in {"none", "creating cq", "cq", "deleting cq"} => ~sq[Io].valid
  PROVE  StageInv'
<1>1. /\ enabled /\ enabled' /\ c.cid \notin Ids(0)
      /\ UNCHANGED <<sq, cq, posted>>
  BY DEF Write
<1>2. CommandsFitStage /\ QueuesFitStage
  BY <1>1 DEF ControlInv, StageInv
<1>3. /\ inflight'[0] = inflight[0] \cup {c}
      /\ \A q \in IoQueues : inflight'[q] = inflight[q] /\ tails'[q] = tails[q]
  BY NvmeConstants DEF Write, ControlInv, DriverType, Qid
<1>4. c.op \in QueueOp => \A d \in inflight[0] : d.op \notin QueueOp
  <2>1. \A op \in QueueOp : StageOf(op) \notin {"none", "cq", "live"}
    BY DEF QueueOp, StageOf
  <2> QED
    BY <1>2, <2>1 DEF CommandsFitStage, QueueOp
<1>5. CommandsFitStage'
  <2>1. \A d \in inflight'[0] : /\ d.op \in QueueOp \cup {"identify", "features"}
                                /\ d.qid = Io /\ d.cqid = Io
                                /\ d.op \in QueueOp => stage' = StageOf(d.op)
    <3>1. "identify" \notin QueueOp /\ "features" \notin QueueOp
      BY DEF QueueOp
    <3> QED
      BY <1>2, <1>3, <1>4, <3>1 DEF CommandsFitStage
  <2>2. \A d, e \in inflight'[0] : d.op \in QueueOp /\ e.op \in QueueOp => d = e
    BY <1>2, <1>3, <1>4 DEF CommandsFitStage
  <2>3. \A q \in IoQueues : \A d \in inflight'[q] : d.op = "rw"
    BY <1>2, <1>3 DEF CommandsFitStage
  <2> QED
    BY <2>1, <2>2, <2>3 DEF CommandsFitStage
<1>6. c.cid \notin AnsweredIds(0)
  <2>1. \A k \in 1 .. Len(posted[0]) : \E d \in inflight[0] : d.cid = posted[0][k]
    BY <1>1, IoFacts DEF ControlInv, QueueInv, SubmissionInv
  <2>2. posted[0] \in Seq(Cid)
    BY IoFacts DEF ControlInv, NvmeType
  <2>3. DOMAIN posted[0] = 1 .. Len(posted[0])
    BY <2>2, LenProperties
  <2>4. ASSUME NEW k \in DOMAIN posted[0] PROVE posted[0][k] # c.cid
    <3>1. PICK d \in inflight[0] : d.cid = posted[0][k]
      BY <2>1, <2>3
    <3>2. d.cid \in Ids(0)
      BY DEF Ids
    <3> QED
      BY <1>1, <3>1, <3>2
  <2> QED
    BY <2>4 DEF AnsweredIds
<1>7. AnsweredIds(0)' = AnsweredIds(0)
  BY <1>1 DEF AnsweredIds
<1>8. QueuesFitStage'
  <2>1. \A d \in inflight'[0] : d.cid \in AnsweredIds(0)' =>
          /\ d.op = "delete sq" => ~sq'[Io].valid
          /\ d.op = "delete cq" => ~cq'[Io].valid
    BY <1>1, <1>2, <1>3, <1>6, <1>7 DEF QueuesFitStage
  <2> QED
    BY <1>1, <1>3, <2>1, IoFacts DEF QueuesFitStage
<1> QED
  BY <1>5, <1>8 DEF StageInv

LEMMA CmdFields ==
  ASSUME NEW op \in AdminOp \cup IoOp, NEW cid \in Cid
  PROVE  /\ Cmd(op, cid) \in Command /\ Cmd(op, cid).op = op /\ Cmd(op, cid).cid = cid
         /\ Cmd(op, cid).qid = Io /\ Cmd(op, cid).cqid = Io
BY IoFacts DEF Cmd, Command

LEMMA CreateKeeps ==
  ASSUME ControlInv, NEW cid \in Cid, CreateQueue(cid)
  PROVE  ControlInv'
<1>1. CASE /\ stage = "none" /\ stage' = "creating cq" /\ Write(0, Cmd("create cq", cid))
           /\ cqe' = [cqe EXCEPT ![Io] = [e \in CqEntry |-> NoCompletion]]
           /\ heads' = [heads EXCEPT ![Io] = FreshHead]
  <2> DEFINE c == Cmd("create cq", cid)
  <2>1. c \in Command /\ c.op = "create cq" /\ c.qid = Io /\ c.cqid = Io
    BY CmdFields DEF AdminOp
  <2> HIDE DEF c
  <2>2. enabled /\ Write(0, c)
    BY <1>1 DEF Write, c
  <2>3. QueuesFitStage
    BY <2>2 DEF ControlInv, StageInv
  <2>4. inflight[Io] = {} /\ ~cq[Io].valid /\ ~sq[Io].valid
    BY <1>1, <2>3 DEF QueuesFitStage
  <2>5. cqe' \in [Qid -> [CqEntry -> Completion]] /\ heads' \in [Qid -> HeadRecord]
    <3>1. NoCompletion \in Completion /\ FreshHead \in HeadRecord
      BY NvmeConstants DEF NoCompletion, Completion, FreshHead, HeadRecord, CqEntry
    <3> QED
      BY <1>1, <3>1, IoFacts DEF ControlInv, NvmeType, DriverType
  <2>6. /\ \A e \in CqEntry : cqe'[Io][e] = NoCompletion
        /\ heads'[Io] = FreshHead
        /\ \A r \in Qid \ {Io} : cqe'[r] = cqe[r] /\ heads'[r] = heads[r]
    BY <1>1, IoFacts DEF ControlInv, NvmeType, DriverType
  <2>7. /\ NvmeType' /\ DriverType' /\ Mode' /\ SignalInv'
        /\ \A r \in Qid : QueueInv(r)' /\ IndicesAgree(r)'
    <3>1. Recreated(Io)
      BY <2>4, <2>6 DEF Recreated
    <3>2. stage' \in Stages \ {"reset"}
      BY <1>1 DEF Stages
    <3> QED
      BY <2>1, <2>2, <2>5, <2>6, <3>1, <3>2, IoFacts, WriteKeeps
  <2>8. StageInv'
    <3>1. StageOf("create cq") = "creating cq" /\ "create cq" \in QueueOp
      BY DEF StageOf, QueueOp
    <3> QED
      BY <1>1, <2>1, <2>2, <2>4, <2>6, <3>1, WriteFitsStage
  <2> QED
    BY <2>7, <2>8 DEF ControlInv
<1>2. CASE /\ stage = "cq" /\ stage' = "creating sq" /\ tails[Io] = FreshTail
           /\ Write(0, Cmd("create sq", cid)) /\ UNCHANGED <<cqe, heads>>
  <2> DEFINE c == Cmd("create sq", cid)
  <2>1. c \in Command /\ c.op = "create sq" /\ c.qid = Io /\ c.cqid = Io
    BY CmdFields DEF AdminOp
  <2> HIDE DEF c
  <2>2. enabled /\ Write(0, c)
    BY <1>2 DEF Write, c
  <2>3. inflight[Io] = {}
    BY <1>2, <2>2 DEF ControlInv, StageInv, QueuesFitStage
  <2>4. /\ NvmeType' /\ DriverType' /\ Mode' /\ SignalInv'
        /\ \A r \in Qid : QueueInv(r)' /\ IndicesAgree(r)'
    <3>1. /\ stage' \in Stages \ {"reset"} /\ cqe' \in [Qid -> [CqEntry -> Completion]]
          /\ heads' \in [Qid -> HeadRecord]
      BY <1>2 DEF Stages, ControlInv, NvmeType, DriverType
    <3> QED
      BY <1>2, <2>1, <2>2, <3>1, IoFacts, WriteKeeps
  <2>5. StageInv'
    <3>1. StageOf("create sq") = "creating sq" /\ "create sq" \in QueueOp
      BY DEF StageOf, QueueOp
    <3> QED
      BY <1>2, <2>1, <2>2, <2>3, <3>1, WriteFitsStage
  <2> QED
    BY <2>4, <2>5 DEF ControlInv
<1> QED
  BY <1>1, <1>2 DEF CreateQueue

LEMMA DeleteKeeps ==
  ASSUME ControlInv, NEW cid \in Cid, DeleteQueue(cid)
  PROVE  ControlInv'
<1>1. ASSUME NEW op \in {"delete sq", "delete cq"}, stage' = StageOf(op),
             Write(0, Cmd(op, cid)), stage \in {"cq", "live"}, inflight[Io] = {},
             op = "delete cq" => ~sq[Io].valid
      PROVE  ControlInv'
  <2> DEFINE c == Cmd(op, cid)
  <2>1. c \in Command /\ c.op = op /\ c.qid = Io /\ c.cqid = Io
    BY CmdFields DEF AdminOp
  <2> HIDE DEF c
  <2>2. enabled /\ Write(0, c) /\ UNCHANGED <<cqe, heads>>
    BY <1>1 DEF Write, c, DeleteQueue
  <2>3. /\ op \in QueueOp /\ stage' \in {"deleting sq", "deleting cq"}
        /\ stage' = "deleting cq" => op = "delete cq"
    BY <1>1 DEF StageOf, QueueOp
  <2>4. /\ NvmeType' /\ DriverType' /\ Mode' /\ SignalInv'
        /\ \A r \in Qid : QueueInv(r)' /\ IndicesAgree(r)'
    <3>1. /\ stage' \in Stages \ {"reset"} /\ cqe' \in [Qid -> [CqEntry -> Completion]]
          /\ heads' \in [Qid -> HeadRecord]
      BY <2>2, <2>3 DEF Stages, ControlInv, NvmeType, DriverType
    <3> QED
      BY <2>1, <2>2, <3>1, IoFacts, WriteKeeps
  <2>5. StageInv'
    BY <1>1, <2>1, <2>2, <2>3, WriteFitsStage
  <2> QED
    BY <2>4, <2>5 DEF ControlInv
<1>2. CASE /\ stage = "live" /\ stage' = "deleting sq" /\ inflight[Io] = {}
           /\ Write(0, Cmd("delete sq", cid))
  BY <1>1, <1>2 DEF StageOf
<1>3. CASE /\ stage = "cq" /\ stage' = "deleting cq" /\ Write(0, Cmd("delete cq", cid))
  <2>1. QueuesFitStage
    BY <1>3 DEF Write, ControlInv, StageInv
  <2>2. inflight[Io] = {} /\ ~sq[Io].valid
    BY <1>3, <2>1 DEF QueuesFitStage
  <2> QED
    BY <1>1, <1>3, <2>2 DEF StageOf
<1> QED
  BY <1>2, <1>3 DEF DeleteQueue

LEMMA SubmitKeeps ==
  ASSUME ControlInv, NEW cid \in Cid, Submit(cid)
  PROVE  ControlInv'
<1>1. /\ UNCHANGED <<cqe, heads, stage>>
      /\ AdminOps \subseteq {"identify", "features"} /\ IoOps \subseteq {"rw"}
  BY DriverConstants DEF Submit
<1>2. ASSUME NEW q \in Qid, NEW c \in Command, Write(q, c)
      PROVE  /\ NvmeType' /\ DriverType' /\ Mode' /\ SignalInv'
             /\ \A r \in Qid : QueueInv(r)' /\ IndicesAgree(r)'
  <2>1. enabled
    BY <1>2 DEF Write
  <2>2. /\ stage' \in Stages \ {"reset"} /\ cqe' \in [Qid -> [CqEntry -> Completion]]
        /\ heads' \in [Qid -> HeadRecord]
    BY <1>1, <2>1 DEF ControlInv, NvmeType, DriverType, Mode
  <2> QED
    BY <1>1, <1>2, <2>2, WriteKeeps
<1>3. ASSUME NEW op \in AdminOps, Write(0, Cmd(op, cid))
      PROVE  ControlInv'
  <2> DEFINE c == Cmd(op, cid)
  <2>1. op \in {"identify", "features"} /\ c \in Command /\ c.op = op /\ c.qid = Io /\ c.cqid = Io
    BY <1>1, CmdFields DEF AdminOp
  <2> HIDE DEF c
  <2>2. enabled /\ Write(0, c)
    BY <1>3 DEF Write, c
  <2>3. QueuesFitStage
    BY <2>2 DEF ControlInv, StageInv
  <2>4. StageInv'
    BY <1>1, <2>1, <2>2, <2>3, WriteFitsStage DEF QueuesFitStage
  <2> QED
    BY <1>2, <2>1, <2>2, <2>4, IoFacts DEF ControlInv
<1>4. ASSUME NEW op \in IoOps, stage = "live", Write(Io, Cmd(op, cid))
      PROVE  ControlInv'
  <2> DEFINE c == Cmd(op, cid)
  <2>1. c \in Command /\ c.op = "rw"
    BY <1>1, CmdFields DEF IoOp
  <2> HIDE DEF c
  <2>2. enabled /\ enabled' /\ Write(Io, c) /\ UNCHANGED <<sq, cq, posted>>
    BY <1>4 DEF Write, c
  <2>3. CommandsFitStage /\ QueuesFitStage
    BY <2>2 DEF ControlInv, StageInv
  <2>4. inflight'[Io] = inflight[Io] \cup {c} /\ \A q \in Qid \ {Io} : inflight'[q] = inflight[q]
    BY <2>2, IoFacts DEF Write, ControlInv, DriverType
  <2>5. CommandsFitStage'
    BY <1>1, <2>1, <2>3, <2>4, IoFacts DEF CommandsFitStage, Qid
  <2>6. QueuesFitStage'
    <3>1. AnsweredIds(0)' = AnsweredIds(0)
      BY <2>2 DEF AnsweredIds
    <3>2. \A d \in inflight'[0] : d.cid \in AnsweredIds(0)' =>
            /\ d.op = "delete sq" => ~sq'[Io].valid
            /\ d.op = "delete cq" => ~cq'[Io].valid
      BY <2>2, <2>3, <2>4, <3>1, IoFacts DEF QueuesFitStage
    <3> QED
      BY <1>1, <1>4, <3>2 DEF QueuesFitStage
  <2> QED
    BY <1>2, <2>1, <2>2, <2>5, <2>6, IoFacts DEF ControlInv, StageInv
<1> QED
  BY <1>3, <1>4 DEF Submit

-----------------------------------------------------------------------------
(* Serving a command.                                                      *)

(* What the queue commands do to the queues, at their stage.               *)
LEMMA QueuesAfter ==
  ASSUME ControlInv, enabled, NEW q \in Qid, NEW c \in inflight[q], sq[q].valid, serving = q
  PROVE  /\ c \in Command /\ Answered(c) /\ c.op # "abort"
         /\ SqAfter(c) \in [Qid -> SqRecord] /\ CqAfter(c) \in [Qid -> CqRecord]
         /\ SqAfter(c)[q] = sq[q] /\ SqAfter(c)[0] = sq[0]
         /\ CqAfter(c)[q] = cq[q] /\ CqAfter(c)[0] = cq[0]
         /\ \A r \in Qid \ {Io} : SqAfter(c)[r] = sq[r] /\ CqAfter(c)[r] = cq[r]
         /\ SqAfter(c)[Io] # sq[Io] => \/ c.op = "create sq" /\ SqAfter(c)[Io] = FreshSq
                                          /\ cq[Io].valid
                                       \/ c.op = "delete sq" /\ ~SqAfter(c)[Io].valid
         /\ CqAfter(c)[Io] # cq[Io] => \/ c.op = "create cq" /\ CqAfter(c)[Io] = FreshCq
                                       \/ c.op = "delete cq" /\ ~CqAfter(c)[Io].valid
         /\ c.op = "delete sq" => ~SqAfter(c)[Io].valid
         /\ c.op = "delete cq" => ~CqAfter(c)[Io].valid
         /\ c.op \in QueueOp => q = 0
<1>1. CommandsFitStage /\ inflight[q] \in SUBSET Command
  BY DEF ControlInv, StageInv, DriverType
<1>2. CASE q = 0
  <2>1. /\ c \in Command /\ c.op \in QueueOp \cup {"identify", "features"}
        /\ c.qid = Io /\ c.cqid = Io /\ Io \in Qid /\ Io # 0 /\ 0 \in Qid /\ Io \in IoQueues
    BY <1>1, <1>2, IoFacts DEF CommandsFitStage
  <2>2. Answered(c) /\ c.op # "abort"
    BY <2>1 DEF QueueOp, Answered
  <2>3. FreshSq \in SqRecord /\ FreshSq.valid /\ FreshCq \in CqRecord /\ FreshCq.valid
    BY NvmeConstants DEF FreshSq, FreshCq, SqRecord, CqRecord, SqEntry, CqEntry
  <2>4. sq \in [Qid -> SqRecord] /\ cq \in [Qid -> CqRecord]
    BY DEF ControlInv, NvmeType
  <2> DEFINE s == [sq[Io] EXCEPT !.valid = FALSE]
             t == [cq[Io] EXCEPT !.valid = FALSE]
  <2>5. s \in SqRecord /\ ~s.valid /\ t \in CqRecord /\ ~t.valid
    BY <2>1, <2>4 DEF SqRecord, CqRecord
  <2> HIDE DEF s, t
  <2>6. SqAfter(c) = IF c.op = "create sq" /\ cq[Io].valid THEN [sq EXCEPT ![Io] = FreshSq]
                     ELSE IF c.op = "delete sq" THEN [sq EXCEPT ![Io] = s] ELSE sq
    BY <2>1, <2>4 DEF SqAfter, CreateAllowed, IoCqValid, s
  <2>7. CqAfter(c) = IF c.op = "create cq" THEN [cq EXCEPT ![Io] = FreshCq]
                     ELSE IF c.op = "delete cq" THEN [cq EXCEPT ![Io] = t] ELSE cq
    BY <2>1, <2>4 DEF CqAfter, CreateAllowed, t
  <2>8. /\ SqAfter(c) \in [Qid -> SqRecord]
        /\ \A r \in Qid \ {Io} : SqAfter(c)[r] = sq[r]
        /\ SqAfter(c)[Io] = IF c.op = "create sq" /\ cq[Io].valid THEN FreshSq
                            ELSE IF c.op = "delete sq" THEN s ELSE sq[Io]
    BY <2>1, <2>3, <2>4, <2>5, <2>6
  <2>9. /\ CqAfter(c) \in [Qid -> CqRecord]
        /\ \A r \in Qid \ {Io} : CqAfter(c)[r] = cq[r]
        /\ CqAfter(c)[Io] = IF c.op = "create cq" THEN FreshCq
                            ELSE IF c.op = "delete cq" THEN t ELSE cq[Io]
    BY <2>1, <2>3, <2>4, <2>5, <2>7
  <2> QED
    BY <1>2, <2>1, <2>2, <2>5, <2>8, <2>9
<1>3. CASE q # 0
  <2>1. c.op = "rw" /\ c \in Command
    BY <1>1, <1>3 DEF CommandsFitStage, Qid
  <2>2. SqAfter(c) = sq /\ CqAfter(c) = cq /\ Answered(c)
    BY <2>1 DEF SqAfter, CqAfter, Answered
  <2> QED
    BY <2>1, <2>2 DEF ControlInv, NvmeType, QueueOp
<1> QED
  BY <1>2, <1>3

LEMMA ServeKeeps ==
  ASSUME ControlInv, ServeCommand, UNCHANGED <<stage, tails, heads, inflight, handler>>
  PROVE  ControlInv'
<1> DEFINE q == serving
           c == sqe[q][next]
           p == Slot(heads[q].head, Len(posted[q]))
<1>1. /\ enabled /\ q \in Qid /\ sq[q].valid /\ next # sq[q].tail /\ serving' = serving
      /\ tails[q].tail = tails[q].rung
      /\ UNCHANGED <<enabled, serving, sqe, stage, tails, heads, inflight, handler>>
  BY IoFacts DEF ServeCommand, ControlInv, Mode, NvmeType
<1>2. /\ \A r \in Qid : QueueInv(r) /\ IndicesAgree(r)
      /\ NvmeType /\ DriverType /\ Mode /\ CommandsFitStage /\ QueuesFitStage
  BY <1>1 DEF ControlInv, StageInv
<1>3. /\ sq[q].size = SqSize /\ sq[q].tail = tails[q].tail
      /\ cq[q].valid /\ cq[q].size = CqSize
      /\ cq[q].head = p
      /\ Base(q) = next /\ next # tails[q].tail
  BY <1>1, <1>2 DEF IndicesAgree, Base, Slot
<1>4. SubmissionInv(sqe[q], tails[q].tail, next, inflight[q], posted[q])
  BY <1>1, <1>2, <1>3 DEF QueueInv
<1>5. /\ tails[q].tail \in SqEntry /\ next \in SqEntry /\ inflight[q] \in SUBSET Command
      /\ posted[q] \in Seq(Cid) /\ heads[q] \in HeadRecord
      /\ cqe[q] \in [CqEntry -> Completion] /\ Len(posted[q]) < Cardinality(inflight[q])
      /\ CompletionInv(cqe[q], heads[q], posted[q], Cardinality(inflight[q]))
      /\ Cardinality(inflight[q]) \in Nat
      /\ Cardinality(inflight[q]) = Count(tails[q].tail, next, posted[q])
  <2>1. QueueInv(q)
    BY <1>1, <1>2
  <2> QED
    BY <1>1, <1>2, <1>3, <2>1, QueueNumbers DEF Count
<1>6. /\ c \in inflight[q]
      /\ Count(tails[q].tail, Following(next, SqSize), Append(posted[q], c.cid)) =
           Count(tails[q].tail, next, posted[q])
      /\ SubmissionInv(sqe[q], tails[q].tail, Following(next, SqSize), inflight[q],
                       Append(posted[q], c.cid))
  <2>1. /\ tails[q].tail \in SqEntry /\ next \in SqEntry /\ inflight[q] \in SUBSET Command
        /\ posted[q] \in Seq(Cid) /\ next # tails[q].tail
    BY <1>3, <1>5
  <2> QED
    BY <1>4, <2>1, ServingKeepsLine
<1> HIDE DEF c
<1>7. /\ c \in Command /\ Answered(c) /\ c.op # "abort"
      /\ SqAfter(c) \in [Qid -> SqRecord] /\ CqAfter(c) \in [Qid -> CqRecord]
      /\ SqAfter(c)[q] = sq[q] /\ SqAfter(c)[0] = sq[0]
      /\ CqAfter(c)[q] = cq[q] /\ CqAfter(c)[0] = cq[0]
      /\ \A r \in Qid \ {Io} : SqAfter(c)[r] = sq[r] /\ CqAfter(c)[r] = cq[r]
      /\ SqAfter(c)[Io] # sq[Io] => \/ c.op = "create sq" /\ SqAfter(c)[Io] = FreshSq
                                       /\ cq[Io].valid
                                    \/ c.op = "delete sq" /\ ~SqAfter(c)[Io].valid
      /\ CqAfter(c)[Io] # cq[Io] => \/ c.op = "create cq" /\ CqAfter(c)[Io] = FreshCq
                                    \/ c.op = "delete cq" /\ ~CqAfter(c)[Io].valid
      /\ c.op = "delete sq" => ~SqAfter(c)[Io].valid
      /\ c.op = "delete cq" => ~CqAfter(c)[Io].valid
      /\ c.op \in QueueOp => q = 0
  BY <1>1, <1>6, QueuesAfter
<1>8. /\ p \in CqEntry
      /\ Following(p, CqSize) = (heads[q].head + (Len(posted[q]) + 1)) % (CqSize + 1)
      /\ Following(p, CqSize) \in CqEntry
  BY <1>5, PostingPlace, FollowingCompletion
<1>9. /\ sq' = SqAfter(c)
      /\ cqe' = [cqe EXCEPT ![q][p] = [cid |-> c.cid, phase |-> 1]]
      /\ cq' = [CqAfter(c) EXCEPT ![q].head = Following(p, CqSize)]
      /\ posted' = [posted EXCEPT ![q] = Append(posted[q], c.cid)]
      /\ raised' = TRUE
      /\ next' = Following(next, SqSize)
  <2>1. /\ sq' = SqAfter(c) /\ Post(q, c, CqAfter(c)) /\ Interrupts(c)
        /\ next' = Following(next, SqSize)
    BY <1>1, <1>3, <1>7 DEF ServeCommand, c
  <2>2. raised' = TRUE
    BY <1>3, <1>7, <2>1 DEF Interrupts
  <2>3. CqAfter(c)[q].valid /\ CqAfter(c)[q].head = p /\ CqAfter(c)[q].size = CqSize
    BY <1>3, <1>7, <1>8
  <2>4. /\ cqe' = [cqe EXCEPT ![q][CqAfter(c)[q].head] = [cid |-> c.cid, phase |-> 1]]
        /\ cq' = [CqAfter(c) EXCEPT ![q].head =
                    Following(CqAfter(c)[q].head, CqAfter(c)[q].size)]
        /\ posted' = [posted EXCEPT ![q] = Append(posted[q], c.cid)]
    BY <1>1, <1>2, <1>7, <2>1, <2>3 DEF Post, NvmeType, CqRecord
  <2> QED
    BY <2>1, <2>2, <2>3, <2>4
<1> HIDE DEF q, p
<1>10. /\ cqe' \in [Qid -> [CqEntry -> Completion]]
       /\ cqe'[q][p] = [cid |-> c.cid, phase |-> 1]
       /\ \A e \in CqEntry : e # p => cqe'[q][e] = cqe[q][e]
       /\ \A r \in Qid \ {q} : cqe'[r] = cqe[r]
  <2>1. [cid |-> c.cid, phase |-> 1] \in Completion
    BY <1>7 DEF Command, Completion
  <2> QED
    BY <1>1, <1>2, <1>8, <1>9, <2>1 DEF NvmeType
<1>11. /\ posted' \in [Qid -> Seq(Cid)] /\ posted'[q] = Append(posted[q], c.cid)
       /\ \A r \in Qid \ {q} : posted'[r] = posted[r]
  <2>1. Append(posted[q], c.cid) \in Seq(Cid)
    BY <1>5, <1>7, AppendProperties DEF Command
  <2> QED
    BY <1>1, <1>2, <1>9, <2>1 DEF NvmeType
<1>12. /\ cq' \in [Qid -> CqRecord] /\ cq'[q].valid = cq[q].valid /\ cq'[q].size = cq[q].size
       /\ cq'[q].head = Following(p, CqSize)
       /\ \A r \in Qid \ {q} : cq'[r] = CqAfter(c)[r]
  <2> DEFINE s == [cq[q] EXCEPT !.head = Following(p, CqSize)]
  <2>1. /\ s \in CqRecord /\ s.valid = cq[q].valid /\ s.size = cq[q].size
        /\ s.head = Following(p, CqSize)
    BY <1>1, <1>2, <1>8 DEF NvmeType, CqRecord
  <2>2. cq' = [CqAfter(c) EXCEPT ![q] = s]
    BY <1>1, <1>7, <1>9 DEF CqRecord
  <2> HIDE DEF s
  <2> QED
    BY <1>1, <1>7, <2>1, <2>2
<1>13. NvmeType' /\ DriverType'
  <2>1. next' \in SqEntry
    BY <1>5, <1>9, FollowingEntry
  <2> QED
    BY <1>1, <1>2, <1>7, <1>9, <1>10, <1>11, <1>12, <2>1 DEF NvmeType, DriverType
<1>14. Mode'
  <2>1. sq'[0].valid /\ cq'[0].valid
    BY <1>1, <1>2, <1>7, <1>9, <1>12, IoFacts DEF Mode
  <2> QED
    BY <1>1, <1>2, <1>7, <1>9, <2>1 DEF Mode, q
<1>15. SignalInv'
  BY <1>9 DEF SignalInv
<1>16. ASSUME NEW r \in Qid PROVE QueueInv(r)'
  <2>1. CASE r = q
    <3>1. Base(r)' = Following(next, SqSize)
      BY <1>1, <1>9, <2>1 DEF Base, q
    <3>2. cqe'[q] \in [CqEntry -> Completion] /\ c.cid \in Cid
      BY <1>1, <1>7, <1>10 DEF Command
    <3>3. CompletionInv(cqe'[q], heads[q], Append(posted[q], c.cid), Cardinality(inflight[q]))
      BY <1>5, <1>10, <3>2, PostingKeepsRing DEF p
    <3> QED
      BY <1>1, <1>5, <1>6, <1>11, <2>1, <3>1, <3>3 DEF QueueInv
  <2>2. CASE r # q
    <3>1. Base(r)' = Base(r)
      BY <1>1, <2>2 DEF Base, q
    <3> QED
      BY <1>1, <1>2, <1>10, <1>11, <2>2, <3>1, QueueFrame
  <2> QED
    BY <2>1, <2>2
<1>17. c.op \in QueueOp => q = 0 /\ stage = StageOf(c.op)
  BY <1>2, <1>6, <1>7 DEF CommandsFitStage
<1>18. ASSUME NEW r \in Qid PROVE IndicesAgree(r)'
  <2>1. CASE r = q
    <3>1. Len(posted'[q]) = Len(posted[q]) + 1
      <4>1. c.cid \in Cid
        BY <1>7 DEF Command
      <4>2. Len(Append(posted[q], c.cid)) = Len(posted[q]) + 1
        BY <1>5, <4>1, AppendProperties
      <4> QED
        BY <1>11, <4>2
    <3>2. cq'[q].head = (heads'[q].head + Len(posted'[q])) % (CqSize + 1)
      BY <1>1, <1>8, <1>12, <3>1
    <3>3. sq'[q] = sq[q] /\ serving' = q
      BY <1>1, <1>7, <1>9 DEF q
    <3> QED
      BY <1>1, <1>2, <1>3, <1>12, <2>1, <3>2, <3>3 DEF IndicesAgree
  <2>2. CASE r # q /\ r # Io
    <3>1. sq'[r] = sq[r] /\ cq'[r] = cq[r] /\ posted'[r] = posted[r]
      BY <1>7, <1>9, <1>11, <1>12, <2>2
    <3> QED
      BY <1>1, <1>2, <3>1 DEF IndicesAgree
  <2>3. CASE r # q /\ r = Io
    <3>1. /\ sq'[Io] = SqAfter(c)[Io] /\ cq'[Io] = CqAfter(c)[Io] /\ posted'[Io] = posted[Io]
          /\ IndicesAgree(Io) /\ Io \in Qid /\ serving # Io
      BY <1>2, <1>9, <1>11, <1>12, <2>3, IoFacts DEF q
    <3>2. cq'[Io].valid => /\ cq'[Io].size = CqSize
                           /\ cq'[Io].head =
                                (heads'[Io].head + Len(posted'[Io])) % (CqSize + 1)
      <4>1. CASE cq'[Io] = cq[Io]
        BY <1>1, <3>1, <4>1 DEF IndicesAgree
      <4>2. CASE c.op = "create cq" /\ cq'[Io] = FreshCq
        <5>1. stage = "creating cq"
          BY <1>17, <4>2 DEF QueueOp, StageOf
        <5>2. heads[Io] = FreshHead /\ inflight[Io] = {}
          BY <1>2, <5>1 DEF QueuesFitStage
        <5>3. posted[Io] = <<>>
          BY <1>2, <3>1, <5>2, QueueNumbers
        <5>4. heads'[Io].head = 0 /\ Len(posted'[Io]) = 0
          BY <1>1, <3>1, <5>2, <5>3, EmptySeq DEF FreshHead
        <5>5. (0 + 0) % (CqSize + 1) = 0
          BY NvmeConstants, Wrap
        <5> QED
          <6>1. FreshCq.size = CqSize /\ FreshCq.head = 0
            BY DEF FreshCq
          <6> QED
            BY <4>2, <5>4, <5>5, <6>1
      <4>3. CASE ~cq'[Io].valid
        BY <4>3
      <4> QED
        BY <1>7, <3>1, <4>1, <4>2, <4>3
    <3>3. sq'[Io].valid => /\ sq'[Io].size = SqSize /\ sq'[Io].tail = tails'[Io].rung
                           /\ serving' # Io => sq'[Io].head = tails'[Io].rung
      <4>1. CASE sq'[Io] = sq[Io]
        BY <1>1, <3>1, <4>1 DEF IndicesAgree
      <4>2. CASE c.op = "create sq" /\ sq'[Io] = FreshSq
        <5>1. stage = "creating sq"
          BY <1>17, <4>2 DEF QueueOp, StageOf
        <5>2. tails'[Io] = FreshTail
          BY <1>1, <1>2, <5>1 DEF QueuesFitStage
        <5> QED
          <6>1. FreshSq.size = SqSize /\ FreshSq.tail = 0 /\ FreshSq.head = 0
            BY DEF FreshSq
          <6>2. FreshTail.rung = 0
            BY DEF FreshTail
          <6> QED
            BY <4>2, <5>2, <6>1, <6>2
      <4>3. CASE ~sq'[Io].valid
        BY <4>3
      <4> QED
        BY <1>7, <3>1, <4>1, <4>2, <4>3
    <3>4. sq'[Io].valid => cq'[Io].valid
      <4>1. CASE sq'[Io] = sq[Io]
        <5>1. CASE c.op = "delete cq"
          <6>1. stage = "deleting cq"
            BY <1>17, <5>1 DEF QueueOp, StageOf
          <6> QED
            BY <1>2, <4>1, <6>1 DEF QueuesFitStage
        <5>2. CASE c.op # "delete cq"
          <6>1. FreshCq.valid
            BY DEF FreshCq
          <6>2. sq[Io].valid => cq[Io].valid
            BY <3>1 DEF IndicesAgree
          <6>3. cq'[Io] = cq[Io] \/ cq'[Io] = FreshCq
            BY <1>7, <3>1, <5>2
          <6> QED
            BY <4>1, <6>1, <6>2, <6>3
        <5> QED
          BY <5>1, <5>2
      <4>2. CASE c.op = "create sq" /\ cq[Io].valid
        BY <1>7, <3>1, <4>2
      <4>3. CASE ~sq'[Io].valid
        BY <4>3
      <4> QED
        BY <1>7, <3>1, <4>1, <4>2, <4>3
    <3> QED
      BY <2>3, <3>2, <3>3, <3>4 DEF IndicesAgree
  <2> QED
    BY <2>1, <2>2, <2>3
<1>19. StageInv'
  <2>1. CommandsFitStage'
    BY <1>1, <1>2 DEF CommandsFitStage
  <2>2. /\ stage = "none" => ~cq'[Io].valid
        /\ stage \in {"none", "creating cq", "cq", "deleting cq"} => ~sq'[Io].valid
    <3>1. CASE q = Io
      <4>1. cq'[Io].valid = cq[Io].valid /\ sq'[Io] = sq[Io]
        BY <1>7, <1>9, <1>12, <3>1
      <4> QED
        BY <1>2, <4>1 DEF QueuesFitStage
    <3>2. CASE q # Io
      <4>1. sq'[Io] = SqAfter(c)[Io] /\ cq'[Io] = CqAfter(c)[Io]
        BY <1>9, <1>12, <3>2, IoFacts
      <4>2. c.op = "create cq" => stage = "creating cq"
        BY <1>17 DEF QueueOp, StageOf
      <4>3. c.op = "create sq" => stage = "creating sq"
        BY <1>17 DEF QueueOp, StageOf
      <4> QED
        BY <1>2, <1>7, <4>1, <4>2, <4>3 DEF QueuesFitStage
    <3> QED
      BY <3>1, <3>2
  <2>3. ASSUME NEW d \in inflight[0], d.cid \in AnsweredIds(0)'
        PROVE  /\ d.op = "delete sq" => ~sq'[Io].valid
               /\ d.op = "delete cq" => ~cq'[Io].valid
    <3>1. CASE d = c /\ q = 0
      <4>1. sq'[Io] = SqAfter(c)[Io] /\ cq'[Io] = CqAfter(c)[Io]
        BY <1>9, <1>12, <3>1, IoFacts
      <4> QED
        BY <1>7, <3>1, <4>1
    <3>2. CASE ~(d = c /\ q = 0)
      <4>1. d.cid \in AnsweredIds(0)
        <5>1. CASE q = 0
          <6>1. d.cid # c.cid
            <7>1. \A a, b \in inflight[0] : a.cid = b.cid => a = b
              BY <1>4, <5>1 DEF SubmissionInv, q
            <7> QED
              BY <1>6, <3>2, <5>1, <7>1
          <6>2. PICK k \in DOMAIN posted'[0] : d.cid = posted'[0][k]
            BY <2>3 DEF AnsweredIds
          <6>3. /\ posted'[0] = Append(posted[0], c.cid) /\ posted[0] \in Seq(Cid)
                /\ c.cid \in Cid
            BY <1>5, <1>7, <1>11, <5>1 DEF Command
          <6>4. /\ Len(posted[0]) \in Nat
                /\ Len(posted'[0]) = Len(posted[0]) + 1 /\ posted'[0][Len(posted[0]) + 1] = c.cid
                /\ \A j \in 1 .. Len(posted[0]) : posted'[0][j] = posted[0][j]
                /\ DOMAIN posted'[0] = 1 .. Len(posted'[0])
                /\ DOMAIN posted[0] = 1 .. Len(posted[0])
            <7>1. posted'[0] \in Seq(Cid)
              BY <6>3, AppendProperties
            <7> QED
              BY <6>3, <7>1, AppendProperties, LenProperties
          <6>5. k # Len(posted[0]) + 1
            BY <6>1, <6>2, <6>4
          <6>6. k \in 1 .. Len(posted[0])
            BY <6>2, <6>4, <6>5
          <6> QED
            BY <6>2, <6>4, <6>6 DEF AnsweredIds
        <5>2. CASE q # 0
          BY <1>11, <2>3, <5>2, IoFacts DEF AnsweredIds
        <5> QED
          BY <5>1, <5>2
      <4>2. d.op \in {"delete sq", "delete cq"} => c.op \notin QueueOp
        <5>1. c.op \in QueueOp => c \in inflight[0] /\ d # c
          BY <1>6, <1>17, <3>2
        <5> QED
          BY <1>2, <5>1 DEF CommandsFitStage, QueueOp
      <4>3. c.op \notin QueueOp => sq'[Io].valid = sq[Io].valid /\ cq'[Io].valid = cq[Io].valid
        <5>1. c.op \notin QueueOp => SqAfter(c)[Io] = sq[Io] /\ CqAfter(c)[Io] = cq[Io]
          BY <1>7 DEF QueueOp
        <5> QED
          BY <1>9, <1>12, <5>1, IoFacts
      <4> QED
        BY <1>2, <4>1, <4>2, <4>3 DEF QueuesFitStage
    <3> QED
      BY <3>1, <3>2
  <2>4. QueuesFitStage'
    BY <1>1, <1>2, <2>2, <2>3 DEF QueuesFitStage
  <2> QED
    BY <2>1, <2>4 DEF StageInv
<1> QED
  BY <1>13, <1>14, <1>15, <1>16, <1>18, <1>19 DEF ControlInv

-----------------------------------------------------------------------------
(* Collecting a completion.                                                *)

(* What the driver does to its own queue when it collects.                 *)
LEMMA CollectingQueue ==
  ASSUME ControlInv, NEW q \in Qid, Collect(q)
  PROVE  /\ enabled /\ serving = None /\ handler = "collect"
         /\ UNCHANGED <<enabled, sq, cq, serving, next, sqe, raised, handler>>
         /\ \E d \in inflight[q] :
              /\ d.cid = posted[q][1] /\ posted[q] # <<>>
              /\ inflight'[q] = inflight[q] \ {d} /\ stage' = StageAfter(d.op)
              /\ SubmissionInv(sqe[q], tails[q].tail, Base(q), inflight'[q], posted'[q])
              /\ CompletionInv(cqe'[q], heads'[q], posted'[q],
                               Count(tails[q].tail, Base(q), posted'[q]))
         /\ posted'[q] = Tail(posted[q])
         /\ (heads'[q].head + Len(posted'[q])) % (CqSize + 1) =
              (heads[q].head + Len(posted[q])) % (CqSize + 1)
         /\ \A r \in Qid \ {q} : /\ inflight'[r] = inflight[r] /\ posted'[r] = posted[r]
                                 /\ heads'[r] = heads[r] /\ cqe'[r] = cqe[r]
         /\ heads' \in [Qid -> HeadRecord] /\ inflight' \in [Qid -> SUBSET Command]
         /\ cqe' \in [Qid -> [CqEntry -> Completion]] /\ posted' \in [Qid -> Seq(Cid)]
<1>1. /\ enabled /\ serving = None /\ handler = "collect"
      /\ UNCHANGED <<enabled, sq, cq, serving, next, sqe, raised, handler>>
      /\ Visible(q)
  BY DEF Collect, ControlInv, Mode
<1>2. NvmeType /\ DriverType /\ QueueInv(q)
  BY <1>1 DEF ControlInv
<1> DEFINE h == heads[q]
           P == posted[q]
           F == inflight[q]
           g == [h EXCEPT !.head = (h.head + 1) % (CqSize + 1),
                          !.phase = IF h.head = CqSize THEN 1 - h.phase ELSE h.phase]
<1>3. /\ tails[q].tail \in SqEntry /\ Base(q) \in SqEntry /\ h \in HeadRecord
      /\ F \in SUBSET Command /\ P \in Seq(Cid)
      /\ cqe[q] \in [CqEntry -> Completion]
      /\ Cardinality(F) \in Nat /\ Len(P) <= Cardinality(F)
      /\ CompletionInv(cqe[q], h, P, Cardinality(F)) /\ h.head \in CqEntry
      /\ SubmissionInv(sqe[q], tails[q].tail, Base(q), F, P)
      /\ Cardinality(F) = Count(tails[q].tail, Base(q), P)
  BY <1>2, QueueNumbers DEF QueueInv, HeadRecord, Count
<1>4. P # <<>> /\ h.phase = 1
  BY <1>1, <1>2, VisibleNow
<1>5. PICK d \in F : d.cid = P[1]
  <2>1. Len(P) # 0
    BY <1>3, <1>4, EmptySeq
  <2>2. 1 \in 1 .. Len(P)
    BY <1>3, <2>1
  <2> QED
    BY <1>3, <2>2 DEF SubmissionInv
<1>6. /\ Count(tails[q].tail, Base(q), Tail(P)) = Cardinality(F) - 1
      /\ SubmissionInv(sqe[q], tails[q].tail, Base(q), F \ {d}, Tail(P))
      /\ {c \in F : c.cid = P[1]} = {d}
  <2>1. /\ tails[q].tail \in SqEntry /\ Base(q) \in SqEntry /\ F \in SUBSET Command
        /\ P \in Seq(Cid) /\ SubmissionInv(sqe[q], tails[q].tail, Base(q), F, P)
    BY <1>3
  <2>2. /\ Count(tails[q].tail, Base(q), Tail(P)) = Count(tails[q].tail, Base(q), P) - 1
        /\ SubmissionInv(sqe[q], tails[q].tail, Base(q), F \ {d}, Tail(P))
        /\ {c \in F : c.cid = P[1]} = {d}
    <3>1. /\ Count(tails[q].tail, Base(q), Tail(P)) = Count(tails[q].tail, Base(q), P) - 1
          /\ SubmissionInv(sqe[q], tails[q].tail, Base(q), F \ {d}, Tail(P))
          /\ \A c \in F : c.cid = P[1] => c = d
      <4>1. Oldest(sqe[q], tails[q].tail, Base(q), F, P, d)
        BY <1>4, <1>5, <2>1 DEF Oldest
      <4>2. Count(tails[q].tail, Base(q), Tail(P)) = Count(tails[q].tail, Base(q), P) - 1
        <5>1. Len(Tail(P)) = Len(P) - 1
          BY <1>3, <1>4, HeadTailProperties
        <5>2. Len(P) \in Nat /\ Gap(tails[q].tail, Base(q)) \in Nat
          BY <2>1, CountNumbers
        <5> QED
          BY <5>1, <5>2 DEF Count
      <4>3. SubmissionInv(sqe[q], tails[q].tail, Base(q), F \ {d}, Tail(P))
        BY <2>1, <4>1, CollectingKeepsLine
      <4>4. \A c \in F : c.cid = P[1] => c = d
        BY <1>5, <2>1 DEF SubmissionInv
      <4> QED
        BY <4>2, <4>3, <4>4
    <3> QED
      BY <1>5, <3>1
  <2> QED
    BY <1>3, <2>2
<1>7. /\ g \in HeadRecord /\ g.head = Following(h.head, CqSize)
      /\ g.phase = IF h.head = CqSize THEN 1 - h.phase ELSE h.phase
  <2>1. (h.head + 1) % (CqSize + 1) \in CqEntry
    BY <1>3, FollowingCompletion DEF Following
  <2>2. h.phase \in {0, 1} /\ 1 - h.phase \in {0, 1}
    BY <1>3 DEF HeadRecord
  <2> QED
    BY <1>3, <2>1, <2>2 DEF HeadRecord, Following
<1>8. heads' = [heads EXCEPT ![q] = g] /\ heads \in [Qid -> HeadRecord]
  BY <1>2 DEF Collect, DriverType
<1> HIDE DEF g
<1>9. /\ heads'[q] = g /\ heads' \in [Qid -> HeadRecord]
      /\ \A r \in Qid \ {q} : heads'[r] = heads[r]
  BY <1>7, <1>8
<1>10. /\ cqe' \in [Qid -> [CqEntry -> Completion]]
       /\ \A e \in CqEntry : /\ cqe'[q][e].phase = cqe[q][e].phase
                             /\ e # h.head => cqe'[q][e] = cqe[q][e]
       /\ \A r \in Qid \ {q} : cqe'[r] = cqe[r]
  <2> DEFINE n == [cqe[q][h.head] EXCEPT !.cid = None]
  <2>1. n \in Completion /\ n.phase = cqe[q][h.head].phase
    BY <1>3 DEF Completion
  <2>2. cqe' = [cqe EXCEPT ![q] = [cqe[q] EXCEPT ![h.head] = n]]
    BY <1>2 DEF Collect, NvmeType
  <2> HIDE DEF n
  <2> QED
    BY <1>2, <1>3, <2>1, <2>2 DEF NvmeType
<1>11. /\ posted'[q] = Tail(P) /\ \A r \in Qid \ {q} : posted'[r] = posted[r]
       /\ posted' \in [Qid -> Seq(Cid)]
  <2>1. Tail(P) \in Seq(Cid)
    BY <1>3, <1>4, HeadTailProperties
  <2> QED
    BY <1>2, <1>4, <2>1 DEF Collect, NvmeType
<1>12. /\ cqe[q][h.head].cid = P[1]
       /\ CompletionInv(cqe'[q], g, Tail(P), Cardinality(F) - 1)
       /\ (g.head + Len(Tail(P))) % (CqSize + 1) = (h.head + Len(P)) % (CqSize + 1)
  <2>1. cqe'[q] \in [CqEntry -> Completion]
    BY <1>10
  <2>2. /\ h \in HeadRecord /\ P \in Seq(Cid) /\ Cardinality(F) \in Nat
        /\ Len(P) <= Cardinality(F) /\ cqe[q] \in [CqEntry -> Completion]
        /\ CompletionInv(cqe[q], h, P, Cardinality(F))
    BY <1>3
  <2>3. Collected(cqe[q], cqe'[q], h, g)
    BY <1>7, <1>10 DEF Collected
  <2> HIDE DEF h, P, F
  <2> QED
    BY <1>4, <1>7, <2>1, <2>2, <2>3, CollectingKeepsRing
<1>13. /\ inflight' = [inflight EXCEPT ![q] = F \ {d}]
       /\ stage' = StageAfter(d.op)
  <2>1. {c \in inflight[q] : c.cid = cqe[q][heads[q].head].cid} = {d}
    BY <1>6, <1>12
  <2> QED
    BY <2>1 DEF Collect
<1>14. /\ inflight'[q] = F \ {d} /\ \A r \in Qid \ {q} : inflight'[r] = inflight[r]
       /\ inflight' \in [Qid -> SUBSET Command]
  BY <1>2, <1>3, <1>13 DEF DriverType
<1> QED
  BY <1>1, <1>4, <1>5, <1>6, <1>9, <1>10, <1>11, <1>12, <1>13, <1>14

LEMMA CollectKeeps ==
  ASSUME ControlInv, NEW q \in Qid, Collect(q)
  PROVE  ControlInv'
<1>1. /\ enabled /\ serving = None /\ handler = "collect"
      /\ UNCHANGED <<enabled, sq, cq, serving, next, sqe, raised, handler>>
  BY CollectingQueue
<1>2. PICK d \in inflight[q] :
        /\ d.cid = posted[q][1] /\ posted[q] # <<>>
        /\ inflight'[q] = inflight[q] \ {d} /\ stage' = StageAfter(d.op)
        /\ SubmissionInv(sqe[q], tails[q].tail, Base(q), inflight'[q], posted'[q])
        /\ CompletionInv(cqe'[q], heads'[q], posted'[q],
                         Count(tails[q].tail, Base(q), posted'[q]))
  BY CollectingQueue
<1>3. /\ posted'[q] = Tail(posted[q])
      /\ (heads'[q].head + Len(posted'[q])) % (CqSize + 1) =
           (heads[q].head + Len(posted[q])) % (CqSize + 1)
      /\ \A r \in Qid \ {q} : /\ inflight'[r] = inflight[r] /\ posted'[r] = posted[r]
                              /\ heads'[r] = heads[r] /\ cqe'[r] = cqe[r]
      /\ heads' \in [Qid -> HeadRecord] /\ inflight' \in [Qid -> SUBSET Command]
      /\ cqe' \in [Qid -> [CqEntry -> Completion]] /\ posted' \in [Qid -> Seq(Cid)]
  BY CollectingQueue
<1>4. /\ NvmeType /\ DriverType /\ Mode /\ CommandsFitStage /\ QueuesFitStage
      /\ \A r \in Qid : QueueInv(r) /\ IndicesAgree(r)
  BY <1>1 DEF ControlInv, StageInv
<1>5. d.cid \in AnsweredIds(q) /\ posted[q] \in Seq(Cid) /\ Len(posted[q]) > 0
  <2>1. posted[q] \in Seq(Cid)
    BY <1>4 DEF NvmeType
  <2>2. Len(posted[q]) > 0
    <3>1. Len(posted[q]) # 0 /\ Len(posted[q]) \in Nat
      BY <1>2, <2>1, EmptySeq
    <3> QED
      BY <3>1
  <2>3. 1 \in DOMAIN posted[q]
    BY <2>1, <2>2, LenProperties
  <2> QED
    BY <1>2, <2>1, <2>2, <2>3 DEF AnsweredIds
(* A queue is forgotten when its deletion is collected.                    *)
<1>6. /\ ~(stage = "deleting sq" /\ stage' = "cq") => tails' = tails
      /\ (stage = "deleting sq" /\ stage' = "cq") => tails' = [tails EXCEPT ![Io] = FreshTail]
  BY DEF Collect
<1>7. \/ d.op \in {"identify", "features", "rw"} /\ stage' = stage /\ (d.op = "rw" <=> q # 0)
      \/ q = 0 /\ d.op = "create cq" /\ stage = "creating cq" /\ stage' = "cq"
      \/ q = 0 /\ d.op = "create sq" /\ stage = "creating sq" /\ stage' = "live"
      \/ q = 0 /\ d.op = "delete sq" /\ stage = "deleting sq" /\ stage' = "cq"
      \/ q = 0 /\ d.op = "delete cq" /\ stage = "deleting cq" /\ stage' = "none"
  <2>1. CASE q = 0
    <3>1. d.op \in QueueOp \cup {"identify", "features"} /\ (d.op \in QueueOp => stage = StageOf(d.op))
      BY <1>4, <2>1 DEF CommandsFitStage
    <3>2. CASE d.op \in {"identify", "features"}
      BY <1>2, <2>1, <3>2 DEF StageAfter
    <3>3. CASE d.op = "create cq"
      BY <1>2, <2>1, <3>1, <3>3 DEF StageAfter, StageOf, QueueOp
    <3>4. CASE d.op = "create sq"
      BY <1>2, <2>1, <3>1, <3>4 DEF StageAfter, StageOf, QueueOp
    <3>5. CASE d.op = "delete sq"
      BY <1>2, <2>1, <3>1, <3>5 DEF StageAfter, StageOf, QueueOp
    <3>6. CASE d.op = "delete cq"
      BY <1>2, <2>1, <3>1, <3>6 DEF StageAfter, StageOf, QueueOp
    <3> QED
      BY <3>1, <3>2, <3>3, <3>4, <3>5, <3>6 DEF QueueOp
  <2>2. CASE q # 0
    <3>1. d.op = "rw"
      BY <1>4, <2>2 DEF CommandsFitStage, Qid
    <3> QED
      BY <1>2, <2>2, <3>1 DEF StageAfter
  <2> QED
    BY <2>1, <2>2
<1>8. NvmeType' /\ DriverType'
  <2>1. stage' \in Stages
    BY <1>4, <1>7 DEF DriverType, Stages
  <2>2. tails' \in [Qid -> TailRecord]
    <3>1. FreshTail \in TailRecord
      BY NvmeConstants DEF FreshTail, TailRecord, SqEntry
    <3> QED
      BY <1>4, <1>6, <3>1 DEF DriverType
  <2> QED
    BY <1>1, <1>3, <1>4, <2>1, <2>2 DEF NvmeType, DriverType
<1>9. Mode'
  <2>1. stage' # "reset"
    BY <1>1, <1>4, <1>7 DEF Mode
  <2> QED
    BY <1>1, <1>4, <2>1 DEF Mode
<1>10. SignalInv'
  BY <1>1 DEF SignalInv
(* The queue collected from, and a queue forgotten.                        *)
<1>11. ASSUME stage = "deleting sq" /\ stage' = "cq"
       PROVE  \A r \in Qid : QueueInv(r)' /\ IndicesAgree(r)'
  <2>1. /\ q = 0 /\ d.op = "delete sq" /\ tails' = [tails EXCEPT ![Io] = FreshTail]
        /\ Io \in Qid /\ Io # q /\ 0 \in Qid
    BY <1>6, <1>7, <1>11, IoFacts
  <2>2. ~sq[Io].valid /\ inflight[Io] = {}
    BY <1>4, <1>5, <1>11, <2>1 DEF QueuesFitStage
  <2>3. /\ tails'[Io] = FreshTail /\ \A r \in Qid \ {Io} : tails'[r] = tails[r]
    BY <1>4, <2>1 DEF DriverType
  <2>4. \A r \in Qid \ {Io} : Base(r)' = Base(r)
    BY <1>1, <2>3 DEF Base
  <2>5. ASSUME NEW r \in Qid PROVE QueueInv(r)'
    <3>1. CASE r = q
      BY <1>1, <1>2, <2>1, <2>3, <2>4, <3>1 DEF QueueInv
    <3>2. CASE r # q /\ r # Io
      BY <1>1, <1>3, <1>4, <2>3, <2>4, <3>2, QueueFrame
    <3>3. CASE r = Io
      <4>1. posted[Io] = <<>> /\ CompletionInv(cqe[Io], heads[Io], <<>>, 0)
        BY <1>4, <2>1, <2>2, QueueNumbers, FS_EmptySet
      <4>2. Base(Io)' = 0 /\ tails'[Io].tail = 0 /\ 0 \in SqEntry
        <5>1. FreshTail.tail = 0 /\ FreshTail.rung = 0
          BY DEF FreshTail
        <5>2. 0 \in SqEntry
          BY NvmeConstants DEF SqEntry
        <5>3. Base(Io)' = tails'[Io].rung
          BY <1>1, <2>1, IoFacts DEF Base
        <5> QED
          BY <2>3, <5>1, <5>2, <5>3
      <4>3. SubmissionInv(sqe[Io], 0, 0, {}, <<>>) /\ Count(0, 0, <<>>) = 0
        BY <4>2, EmptySubmission
      <4>4. /\ sqe'[Io] = sqe[Io] /\ cqe'[Io] = cqe[Io] /\ heads'[Io] = heads[Io]
            /\ inflight'[Io] = {} /\ posted'[Io] = <<>>
        BY <1>1, <1>3, <2>1, <2>2, <4>1
      <4> QED
        BY <3>3, <4>1, <4>2, <4>3, <4>4 DEF QueueInv
    <3> QED
      BY <3>1, <3>2, <3>3
  <2>6. ASSUME NEW r \in Qid PROVE IndicesAgree(r)'
    <3>1. CASE r = q
      <4>1. tails'[q] = tails[q] /\ IndicesAgree(q)
        BY <1>4, <2>1, <2>3
      <4> QED
        BY <1>1, <1>3, <3>1, <4>1 DEF IndicesAgree
    <3>2. CASE r # q /\ r # Io
      BY <1>1, <1>3, <1>4, <2>3, <3>2 DEF IndicesAgree
    <3>3. CASE r = Io
      BY <1>1, <1>3, <1>4, <2>1, <2>2, <3>3 DEF IndicesAgree
    <3> QED
      BY <3>1, <3>2, <3>3
  <2> QED
    BY <2>5, <2>6
<1>12. ASSUME ~(stage = "deleting sq" /\ stage' = "cq")
       PROVE  \A r \in Qid : QueueInv(r)' /\ IndicesAgree(r)'
  <2>1. tails' = tails /\ \A r \in Qid : Base(r)' = Base(r)
    BY <1>1, <1>6, <1>12 DEF Base
  <2>2. ASSUME NEW r \in Qid PROVE QueueInv(r)'
    <3>1. CASE r = q
      BY <1>1, <1>2, <2>1, <3>1 DEF QueueInv
    <3>2. CASE r # q
      BY <1>1, <1>3, <1>4, <2>1, <3>2, QueueFrame
    <3> QED
      BY <3>1, <3>2
  <2>3. ASSUME NEW r \in Qid PROVE IndicesAgree(r)'
    <3>1. CASE r = q
      BY <1>1, <1>3, <1>4, <2>1, <3>1 DEF IndicesAgree
    <3>2. CASE r # q
      BY <1>1, <1>3, <1>4, <2>1, <3>2 DEF IndicesAgree
    <3> QED
      BY <3>1, <3>2
  <2> QED
    BY <2>2, <2>3
<1>13. \A r \in Qid : QueueInv(r)' /\ IndicesAgree(r)'
  BY <1>11, <1>12
<1>14. /\ inflight'[0] \subseteq inflight[0] /\ inflight'[Io] \subseteq inflight[Io]
       /\ \A r \in Qid : inflight'[r] \subseteq inflight[r]
       /\ q = 0 => d \notin inflight'[0]
  BY <1>2, <1>3, IoFacts
<1>15. CommandsFitStage'
  <2>1. \A c \in inflight'[0] : c.op \in QueueOp => stage' = StageOf(c.op)
    <3>1. CASE stage' = stage
      BY <1>4, <1>14, <3>1 DEF CommandsFitStage
    <3>2. CASE stage' # stage
      <4>1. q = 0 /\ d.op \in QueueOp /\ d \in inflight[0]
        BY <1>7, <3>2 DEF QueueOp
      <4>2. \A c \in inflight'[0] : c.op \notin QueueOp
        BY <1>4, <1>14, <4>1 DEF CommandsFitStage
      <4> QED
        BY <4>2
    <3> QED
      BY <3>1, <3>2
  <2>2. \A r \in IoQueues : inflight'[r] \subseteq inflight[r]
    BY <1>14 DEF Qid
  <2> QED
    BY <1>4, <1>14, <2>1, <2>2 DEF CommandsFitStage
<1>16. QueuesFitStage'
  <2>1. AnsweredIds(0)' \subseteq AnsweredIds(0)
    <3>1. CASE q = 0
      <4>1. /\ Tail(posted[0]) \in Seq(Cid) /\ Len(Tail(posted[0])) = Len(posted[0]) - 1
            /\ \A k \in 1 .. Len(Tail(posted[0])) : Tail(posted[0])[k] = posted[0][k + 1]
        BY <1>2, <1>5, <3>1, HeadTailProperties
      <4>2. ASSUME NEW k \in DOMAIN posted'[0] PROVE posted'[0][k] \in AnsweredIds(0)
        <5>1. k \in 1 .. (Len(posted[0]) - 1) /\ posted'[0][k] = posted[0][k + 1]
          BY <1>3, <3>1, <4>1, <4>2, LenProperties
        <5>2. k + 1 \in DOMAIN posted[0]
          <6>1. Len(posted[0]) \in Nat /\ DOMAIN posted[0] = 1 .. Len(posted[0])
            BY <1>5, <3>1, LenProperties
          <6> QED
            BY <5>1, <6>1
        <5> QED
          BY <5>1, <5>2 DEF AnsweredIds
      <4> QED
        BY <4>2 DEF AnsweredIds
    <3>2. CASE q # 0
      BY <1>3, <3>2, IoFacts DEF AnsweredIds
    <3> QED
      BY <3>1, <3>2
  <2>2. \A c \in inflight'[0] : c.cid \in AnsweredIds(0)' =>
          /\ c.op = "delete sq" => ~sq'[Io].valid
          /\ c.op = "delete cq" => ~cq'[Io].valid
    BY <1>1, <1>4, <1>14, <2>1 DEF QueuesFitStage
  <2>3. stage' # "live" => inflight'[Io] = {}
    BY <1>4, <1>7, <1>14 DEF QueuesFitStage
  <2>4. stage' = "creating cq" => heads'[Io] = FreshHead
    <3>1. stage' = "creating cq" => stage = "creating cq" /\ heads[Io] = FreshHead
      BY <1>4, <1>7 DEF QueuesFitStage
    <3>2. stage' = "creating cq" => q # Io
      BY <1>4, <3>1 DEF QueuesFitStage
    <3> QED
      BY <1>3, <3>1, <3>2, IoFacts
  <2>5. stage' = "creating sq" => tails'[Io] = FreshTail
    BY <1>4, <1>6, <1>7 DEF QueuesFitStage
  <2>6. stage' = "none" => ~cq'[Io].valid
    <3>1. CASE q = 0 /\ d.op = "delete cq"
      BY <1>1, <1>4, <1>5, <3>1 DEF QueuesFitStage
    <3>2. CASE ~(q = 0 /\ d.op = "delete cq")
      BY <1>1, <1>4, <1>7, <3>2 DEF QueuesFitStage
    <3> QED
      BY <3>1, <3>2
  <2>7. stage' \in {"none", "creating cq", "cq", "deleting cq"} => ~sq'[Io].valid
    <3>1. CASE q = 0 /\ d.op = "delete sq"
      BY <1>1, <1>4, <1>5, <3>1 DEF QueuesFitStage
    <3>2. CASE ~(q = 0 /\ d.op = "delete sq")
      BY <1>1, <1>4, <1>7, <3>2 DEF QueuesFitStage
    <3> QED
      BY <3>1, <3>2
  <2> QED
    BY <2>2, <2>3, <2>4, <2>5, <2>6, <2>7 DEF QueuesFitStage
<1> QED
  BY <1>8, <1>9, <1>10, <1>13, <1>15, <1>16 DEF ControlInv, StageInv

-----------------------------------------------------------------------------
(* What is kept even when completions have been overwritten.               *)
LEMMA DriverStepsStop ==
  ASSUME StoppedInv, NEW q \in Qid, NEW c, Write(q, c), stage' # "reset",
         heads' \in [Qid -> HeadRecord]
  PROVE  StoppedInv'
<1>1. /\ enabled /\ enabled' /\ UNCHANGED <<enabled, sq, cq, serving, next, posted, handler, early>>
  BY DEF Write
<1>2. tails' \in [Qid -> TailRecord]
  <2>1. tails[q] \in TailRecord /\ tails \in [Qid -> TailRecord]
    BY DEF StoppedInv
  <2>2. (tails[q].tail + 1) % (SqSize + 1) \in SqEntry
    BY <2>1, FollowingEntry DEF Following, TailRecord
  <2>3. [tails[q] EXCEPT !.tail = (tails[q].tail + 1) % (SqSize + 1)] \in TailRecord
    BY <2>1, <2>2 DEF TailRecord
  <2>4. tails' = [tails EXCEPT ![q] = [tails[q] EXCEPT !.tail = (tails[q].tail + 1) % (SqSize + 1)]]
    BY <2>1 DEF Write
  <2> QED
    BY <2>1, <2>3, <2>4
<1> QED
  BY <1>1, <1>2 DEF StoppedInv

LEMMA ServeStops ==
  ASSUME StoppedInv, ServeStep
  PROVE  StoppedInv'
<1>1. /\ enabled /\ enabled' /\ serving \in Qid /\ serving' \in Qid \cup {None}
      /\ UNCHANGED <<enabled, stage, tails, heads, handler, early>>
  BY IoFacts DEF StoppedInv, ServeStep, Serve, ServeCommand, ServeEnd
<1>2. CASE ServeCommand
  <2> DEFINE c == sqe[serving][next]
  <2>1. /\ sq' = SqAfter(c) /\ next' = Following(next, sq[serving].size)
        /\ \/ cq' = cq
           \/ cq' = CqAfter(c)
           \/ cq' = [CqAfter(c) EXCEPT ![serving].head =
                       Following(CqAfter(c)[serving].head, CqAfter(c)[serving].size)]
    BY <1>1, <1>2 DEF ServeCommand, Post
  <2> HIDE DEF c
  <2>2. FreshSq \in SqRecord /\ FreshCq \in CqRecord
    BY NvmeConstants DEF FreshSq, FreshCq, SqRecord, CqRecord, SqEntry, CqEntry
  <2>3. \A r \in SqRecord : [r EXCEPT !.valid = FALSE] \in SqRecord
    BY DEF SqRecord
  <2>4. \A r \in CqRecord : [r EXCEPT !.valid = FALSE] \in CqRecord
    BY DEF CqRecord
  <2>5. SqAfter(c) \in [Qid -> SqRecord]
    <3>1. sq \in [Qid -> SqRecord]
      BY DEF StoppedInv
    <3>2. \A i : [sq EXCEPT ![i] = FreshSq] \in [Qid -> SqRecord]
      BY <2>2, <3>1
    <3>3. \A i : [sq EXCEPT ![i].valid = FALSE] \in [Qid -> SqRecord]
      BY <2>3, <3>1
    <3> QED
      BY <3>1, <3>2, <3>3 DEF SqAfter
  <2>6. CqAfter(c) \in [Qid -> CqRecord]
    <3>1. cq \in [Qid -> CqRecord]
      BY DEF StoppedInv
    <3>2. \A i : [cq EXCEPT ![i] = FreshCq] \in [Qid -> CqRecord]
      BY <2>2, <3>1
    <3>3. \A i : [cq EXCEPT ![i].valid = FALSE] \in [Qid -> CqRecord]
      BY <2>4, <3>1
    <3> QED
      BY <3>1, <3>2, <3>3 DEF CqAfter
  <2>7. cq' \in [Qid -> CqRecord]
    <3> DEFINE r == CqAfter(c)[serving]
               e == Following(r.head, r.size)
    <3>1. r \in CqRecord
      BY <1>1, <2>6
    <3>2. e \in CqEntry
      <4>1. r.head \in CqEntry /\ r.size \in {0, CqSize}
        BY <3>1 DEF CqRecord
      <4>2. CASE r.size = CqSize
        BY <4>1, <4>2, FollowingCompletion
      <4>3. CASE r.size = 0
        <5>1. CqSize \in Nat /\ r.head \in 0 .. CqSize
          BY <4>1, NvmeConstants DEF CqEntry
        <5>2. (r.head + 1) % (0 + 1) = 0 /\ 0 \in 0 .. CqSize
          BY <5>1
        <5> QED
          BY <4>3, <5>2 DEF Following, CqEntry
      <4> QED
        BY <4>1, <4>2, <4>3
    <3>3. [r EXCEPT !.head = e] \in CqRecord
      BY <3>1, <3>2 DEF CqRecord
    <3>4. [CqAfter(c) EXCEPT ![serving].head = e] = [CqAfter(c) EXCEPT ![serving] = [r EXCEPT !.head = e]]
      BY <2>6
    <3> HIDE DEF r, e
    <3>5. [CqAfter(c) EXCEPT ![serving] = [r EXCEPT !.head = e]] \in [Qid -> CqRecord]
      BY <2>6, <3>3
    <3>6. cq \in [Qid -> CqRecord]
      BY DEF StoppedInv
    <3> QED
      BY <2>1, <2>6, <3>4, <3>5, <3>6 DEF r, e
  <2>8. next' \in SqEntry
    <3>1. next \in SqEntry /\ sq[serving].size \in {0, SqSize}
      BY <1>1 DEF StoppedInv, SqRecord
    <3>2. CASE sq[serving].size = SqSize
      BY <2>1, <3>1, <3>2, FollowingEntry
    <3>3. CASE sq[serving].size = 0
      <4>1. SqSize \in Nat /\ next \in 0 .. SqSize
        BY <3>1, NvmeConstants DEF SqEntry
      <4>2. (next + 1) % (0 + 1) = 0 /\ 0 \in 0 .. SqSize
        BY <4>1
      <4> QED
        BY <2>1, <3>3, <4>2 DEF Following, SqEntry
    <3> QED
      BY <3>1, <3>2, <3>3
  <2> QED
    BY <1>1, <2>1, <2>5, <2>7, <2>8 DEF StoppedInv
<1>3. CASE ServeEnd
  <2>1. sq' = [sq EXCEPT ![serving].head = next] /\ UNCHANGED <<cq, next>>
    BY <1>3 DEF ServeEnd
  <2>2. sq' \in [Qid -> SqRecord]
    BY <1>1, <2>1 DEF StoppedInv, SqRecord
  <2> QED
    BY <1>1, <2>1, <2>2 DEF StoppedInv
<1> QED
  BY <1>2, <1>3 DEF ServeStep, Serve

LEMMA RingsStop ==
  ASSUME StoppedInv, NEW q \in Qid, Ring(q) \/ RingHead(q) \/ Collect(q)
  PROVE  StoppedInv'
<1>1. CASE Ring(q)
  <2>1. /\ enabled /\ serving = None /\ tails' = [tails EXCEPT ![q].rung = tails[q].tail]
        /\ sq' = [sq EXCEPT ![q].tail = tails[q].tail]
        /\ serving' \in Qid \cup {None} /\ next' \in {next, sq[q].head}
        /\ UNCHANGED <<enabled, cq, posted, stage, heads, handler, early>>
    BY <1>1 DEF Ring, TailDoorbell, StoppedInv
  <2>2. sq' \in [Qid -> SqRecord]
    <3>1. sq \in [Qid -> SqRecord] /\ tails[q].tail \in SqEntry
      BY DEF StoppedInv, TailRecord
    <3>2. [sq[q] EXCEPT !.tail = tails[q].tail] \in SqRecord
      BY <3>1 DEF SqRecord
    <3>3. sq' = [sq EXCEPT ![q] = [sq[q] EXCEPT !.tail = tails[q].tail]]
      BY <2>1, <3>1
    <3> QED
      BY <3>1, <3>2, <3>3
  <2>3. tails' \in [Qid -> TailRecord] /\ next' \in SqEntry
    BY <2>1 DEF StoppedInv, SqRecord, TailRecord
  <2> QED
    BY <2>1, <2>2, <2>3 DEF StoppedInv
<1>2. CASE RingHead(q)
  <2>1. /\ enabled /\ heads' = [heads EXCEPT ![q].rung = heads[q].head]
        /\ cq' = [cq EXCEPT ![q].head = heads[q].head]
        /\ early' = (early \/ posted[q] # <<>>)
        /\ UNCHANGED <<enabled, sq, serving, next, posted, stage, tails, handler>>
    BY <1>2 DEF RingHead, HeadDoorbell
  <2>2. cq' \in [Qid -> CqRecord] /\ heads' \in [Qid -> HeadRecord]
    BY <2>1 DEF StoppedInv, CqRecord, HeadRecord
  <2>3. early' \in BOOLEAN
    BY <2>1 DEF StoppedInv
  <2> QED
    BY <2>1, <2>2, <2>3 DEF StoppedInv
<1>3. CASE Collect(q)
  <2>1. /\ enabled /\ handler = "collect"
        /\ heads' = [heads EXCEPT ![q].head = (heads[q].head + 1) % (CqSize + 1),
                                  ![q].phase = IF heads[q].head = CqSize THEN 1 - heads[q].phase
                                                                         ELSE heads[q].phase]
        /\ tails' \in {tails, [tails EXCEPT ![Io] = FreshTail]}
        /\ stage' = stage \/ \E op : stage' = StageAfter(op)
        /\ UNCHANGED <<enabled, sq, cq, serving, next, handler, early>>
    BY <1>3 DEF Collect, StoppedInv
  <2>2. heads' \in [Qid -> HeadRecord]
    <3>1. heads[q] \in HeadRecord /\ heads[q].head \in CqEntry /\ heads[q].phase \in {0, 1}
      BY DEF StoppedInv, HeadRecord
    <3>2. (heads[q].head + 1) % (CqSize + 1) \in CqEntry /\ 1 - heads[q].phase \in {0, 1}
      BY <3>1, FollowingCompletion DEF Following
    <3> QED
      BY <2>1, <3>1, <3>2 DEF StoppedInv, HeadRecord
  <2>3. tails' \in [Qid -> TailRecord]
    <3>1. FreshTail \in TailRecord
      BY NvmeConstants DEF FreshTail, TailRecord, SqEntry
    <3> QED
      BY <2>1, <3>1 DEF StoppedInv
  <2>4. stage' # "reset"
    BY <2>1 DEF StoppedInv, StageAfter
  <2> QED
    BY <2>1, <2>2, <2>3, <2>4 DEF StoppedInv
<1> QED
  BY <1>1, <1>2, <1>3

LEMMA StopsAlways == StoppedInv /\ [Next]_vars => StoppedInv'
<1> SUFFICES ASSUME StoppedInv, [Next]_vars PROVE StoppedInv'
  OBVIOUS
<1>1. CASE Start
  <2>1. FreshSq \in SqRecord /\ FreshCq \in CqRecord
    BY NvmeConstants DEF FreshSq, FreshCq, SqRecord, CqRecord, SqEntry, CqEntry
  <2> QED
    BY <1>1, <2>1 DEF Start, Enable, StoppedInv
<1>2. CASE Reset
  <2>1. /\ sq' \in [Qid -> SqRecord] /\ cq' \in [Qid -> CqRecord]
        /\ \A q \in Qid : ~sq'[q].valid /\ ~cq'[q].valid
    BY <1>2, InvalidQueues DEF Reset, Disable, StoppedInv
  <2> QED
    BY <1>2, <2>1 DEF Reset, Disable, StoppedInv
<1>3. CASE Clear
  <2>1. FreshTail \in TailRecord /\ FreshHead \in HeadRecord
    BY NvmeConstants DEF FreshTail, FreshHead, TailRecord, HeadRecord, SqEntry, CqEntry
  <2> QED
    BY <1>3, <2>1 DEF Clear, StoppedInv
<1>4. CASE ServeStep
  BY <1>4, ServeStops
<1>5. CASE Interrupt \/ Finish \/ UNCHANGED vars
  BY <1>5 DEF Interrupt, Finish, vars, nvmeVars, StoppedInv
<1>6. CASE \E q \in Qid : Ring(q) \/ Collect(q) \/ RingHead(q)
  BY <1>6, RingsStop
<1>7. ASSUME NEW cid \in Cid, CreateQueue(cid) \/ DeleteQueue(cid) \/ Submit(cid)
      PROVE  StoppedInv'
  <2>1. FreshHead \in HeadRecord
    BY NvmeConstants DEF FreshHead, HeadRecord, CqEntry
  <2>2. CASE CreateQueue(cid)
    <3>1. heads' \in [Qid -> HeadRecord] /\ stage' # "reset"
      BY <2>1, <2>2 DEF CreateQueue, StoppedInv
    <3> QED
      BY <2>2, <3>1, IoFacts, DriverStepsStop DEF CreateQueue
  <2>3. CASE DeleteQueue(cid)
    <3>1. heads' \in [Qid -> HeadRecord] /\ stage' # "reset"
      BY <2>3 DEF DeleteQueue, StoppedInv
    <3> QED
      BY <2>3, <3>1, IoFacts, DriverStepsStop DEF DeleteQueue
  <2>4. CASE Submit(cid)
    <3>1. heads' \in [Qid -> HeadRecord] /\ stage' = stage
      BY <2>4 DEF Submit, StoppedInv
    <3>2. \E q \in Qid : \E c : Write(q, c)
      BY <2>4, IoFacts DEF Submit
    <3>3. stage' # "reset"
      BY <3>1, <3>2 DEF Write, StoppedInv
    <3> QED
      BY <3>1, <3>2, <3>3, DriverStepsStop
  <2> QED
    BY <1>7, <2>2, <2>3, <2>4
<1> QED
  BY <1>1, <1>2, <1>3, <1>4, <1>5, <1>6, <1>7 DEF Next

(* While no head doorbell came early, the controller and the driver agree  *)
(* on what is in every queue, at every moment: while a doorbell is served, *)
(* while completions are collected, on every pass over the rings, and      *)
(* while queues are created, deleted and reset; and a reset brings them    *)
(* back to agreement from whatever an early doorbell left.                 *)
THEOREM ControllerCorrect == Spec => []IInv
<1>1. Init => IInv
  <2> SUFFICES ASSUME Init PROVE StoppedInv
    BY InitKeeps DEF IInv
  <2>1. ControlInv /\ early = FALSE
    BY InitKeeps DEF Init
  <2> QED
    BY <2>1 DEF StoppedInv, ControlInv, NvmeType, DriverType, Mode
<1>2. IInv /\ [Next]_vars => IInv'
  <2> SUFFICES ASSUME IInv, [Next]_vars, ~early' PROVE ControlInv'
    BY StopsAlways DEF IInv
  <2>1. CASE Clear
    BY <2>1, ClearKeeps DEF IInv
  <2>2. CASE ~Clear
    <3>1. ControlInv
      <4>1. ~early
        BY <2>2 DEF Next, Start, Reset, ServeStep, Interrupt, Finish, Ring, Collect, RingHead,
                    CreateQueue, DeleteQueue, Submit, Write, vars
      <4> QED
        BY <4>1 DEF IInv
    <3>2. CASE Start
      BY <3>1, <3>2, StartKeeps
    <3>3. CASE Reset
      BY <3>1, <3>3, ResetKeeps
    <3>4. CASE ServeStep
      BY <3>1, <3>4, ServeKeeps, ServeEndKeeps DEF ServeStep, Serve
    <3>5. CASE Interrupt
      BY <3>1, <3>5, InterruptKeeps
    <3>6. CASE Finish
      BY <3>1, <3>6, FinishKeeps
    <3>7. CASE \E q \in Qid : Ring(q) \/ Collect(q)
      BY <3>1, <3>7, RingKeeps, CollectKeeps
    <3>8. ASSUME NEW q \in Qid, RingHead(q)
          PROVE  ControlInv'
      <4>1. posted[q] = <<>>
        BY <3>8 DEF RingHead
      <4> QED
        BY <3>1, <3>8, <4>1, RingHeadKeeps
    <3>9. CASE \E cid \in Cid : CreateQueue(cid) \/ DeleteQueue(cid) \/ Submit(cid)
      BY <3>1, <3>9, CreateKeeps, DeleteKeeps, SubmitKeeps
    <3>10. CASE UNCHANGED vars
      BY <3>1, <3>10, StutterKeeps
    <3> QED
      BY <2>2, <3>2, <3>3, <3>4, <3>5, <3>6, <3>7, <3>8, <3>9, <3>10 DEF Next
  <2> QED
    BY <2>1, <2>2
<1> QED
  BY <1>1, <1>2, PTL DEF Spec

-----------------------------------------------------------------------------
(* A command seen in the driver's sleep has its interrupt raised.          *)
THEOREM CompletionIsSignalled == Spec => []CompletionSignalled
<1>1. IInv => CompletionSignalled
  <2> SUFFICES ASSUME IInv, Live, handler = "idle", NEW q \in Qid, Visible(q)
               PROVE  raised
    BY DEF CompletionSignalled
  <2>1. ControlInv
    BY DEF IInv, Live
  <2>2. posted[q] # <<>> /\ heads[q].phase = 1
    BY <2>1, VisibleNow DEF ControlInv, Live
  <2> QED
    BY <2>1, <2>2 DEF ControlInv, SignalInv
<1> QED
  BY ControllerCorrect, <1>1, PTL

(* A completion posted and not collected is in the ring where the driver   *)
(* will read it, on every pass over the ring, unless a head doorbell was   *)
(* written before everything was collected.                                *)
THEOREM CompletionsAreKept == Spec => []CompletionsKept
<1>1. IInv => CompletionsKept
  <2> SUFFICES ASSUME IInv, enabled, ~early, NEW q \in Qid, NEW k \in DOMAIN posted[q]
               PROVE  cqe[q][(heads[q].head + k - 1) % (CqSize + 1)].cid = posted[q][k]
    BY DEF CompletionsKept
  <2>1. /\ heads[q] \in HeadRecord /\ posted[q] \in Seq(Cid) /\ Len(posted[q]) \in Nat
        /\ CompletionInv(cqe[q], heads[q], posted[q], Cardinality(inflight[q]))
    BY QueueNumbers DEF IInv, ControlInv
  <2>2. k \in 1 .. Len(posted[q]) /\ heads[q].head \in Nat
    BY <2>1, LenProperties, NvmeConstants DEF HeadRecord, CqEntry
  <2>3. cqe[q][Slot(heads[q].head, k - 1)].cid = posted[q][k]
    BY <2>1, <2>2 DEF CompletionInv
  <2>4. heads[q].head + (k - 1) = heads[q].head + k - 1
    BY <2>2
  <2> QED
    BY <2>3, <2>4 DEF Slot
<1> QED
  BY ControllerCorrect, <1>1, PTL

-----------------------------------------------------------------------------
(* Counting: what a one-to-one function maps onto has as many elements.    *)
LEMMA SameCount ==
  ASSUME NEW S, NEW T, NEW f \in [S -> T], IsFiniteSet(S),
         \A a, b \in S : f[a] = f[b] => a = b,
         \A t \in T : \E a \in S : f[a] = t
  PROVE  IsFiniteSet(T) /\ Cardinality(T) = Cardinality(S)
<1>1. f \in Bijection(S, T)
  BY Fun_IsBij
<1>2. ExistsBijection(S, T)
  BY <1>1 DEF ExistsBijection
<1> QED
  BY <1>2, FS_Bijection

(* Every command whose doorbell was rung is answered, once.                *)
THEOREM CommandsAnsweredOnce == Spec => []AnsweredOnce
<1>1. IInv => AnsweredOnce
  <2> SUFFICES ASSUME IInv, Live, NEW q \in Qid
               PROVE  /\ Ids(q) = NotRung(q) \cup {posted[q][k] : k \in DOMAIN posted[q]}
                      /\ Cardinality(Ids(q)) = Cardinality(NotRung(q)) + Len(posted[q])
    BY DEF AnsweredOnce
  <2> DEFINE P == posted[q]
             F == inflight[q]
             r == tails[q].rung
             g == Gap(tails[q].tail, r)
             S == sqe[q]
             at == [k \in 0 .. (g - 1) |-> S[Place(r, k)].cid]
             id == [c \in F |-> c.cid]
  <2>1. NvmeType /\ DriverType /\ QueueInv(q) /\ serving = None
    BY DEF IInv, ControlInv, Live
  <2>2. /\ Waiting(q) = {Place(r, k) : k \in 0 .. (g - 1)} /\ Base(q) = r
        /\ tails[q].tail \in SqEntry /\ r \in SqEntry /\ P \in Seq(Cid) /\ Len(P) \in Nat
        /\ g \in Nat /\ F \in SUBSET Command
        /\ SubmissionInv(S, tails[q].tail, r, F, P)
        /\ Cardinality(F) = Len(P) + g /\ Count(tails[q].tail, r, P) = Len(P) + g
        /\ DOMAIN P = 1 .. Len(P)
    <3>1. Base(q) = r /\ Waiting(q) = {Place(r, k) : k \in 0 .. (g - 1)}
      BY <2>1, WaitingPlaces
    <3>2. /\ tails[q].tail \in SqEntry /\ r \in SqEntry /\ P \in Seq(Cid) /\ Len(P) \in Nat
          /\ g \in Nat /\ F \in SUBSET Command /\ Cardinality(F) = Len(P) + g
      BY <2>1, <3>1, QueueNumbers
    <3>3. SubmissionInv(S, tails[q].tail, r, F, P)
      BY <2>1, <3>1 DEF QueueInv
    <3>4. DOMAIN P = 1 .. Len(P)
      BY <3>2, LenProperties
    <3> QED
      BY <3>1, <3>2, <3>3, <3>4 DEF Count
  <2>3. NotRung(q) = {S[Place(r, k)].cid : k \in 0 .. (g - 1)}
    BY <2>2 DEF NotRung
  <2> HIDE DEF P, F, r, g, S
  <2>4. ASSUME NEW k \in 0 .. (g - 1)
        PROVE  /\ Line(S, r, P, Len(P) + k + 1) = S[Place(r, k)].cid
               /\ Len(P) + k + 1 \in 1 .. Count(tails[q].tail, r, P)
    <3>1. k \in Nat /\ ~(Len(P) + k + 1 <= Len(P)) /\ (Len(P) + k + 1) - Len(P) - 1 = k
      BY <2>2
    <3>2. Line(S, r, P, Len(P) + k + 1) = S[Place(r, (Len(P) + k + 1) - Len(P) - 1)].cid
      BY <3>1 DEF Line
    <3> QED
      BY <2>2, <3>1, <3>2
  <2>5. Cardinality(NotRung(q)) = g
    <3>1. at \in [0 .. (g - 1) -> NotRung(q)]
      BY <2>3
    <3>2. ASSUME NEW j \in 0 .. (g - 1), NEW k \in 0 .. (g - 1), at[j] = at[k]
          PROVE  j = k
      <4>1. Line(S, r, P, Len(P) + j + 1) = Line(S, r, P, Len(P) + k + 1)
        BY <2>4, <3>2
      <4>2. Len(P) + j + 1 = Len(P) + k + 1
        BY <2>2, <2>4, <4>1 DEF SubmissionInv
      <4> QED
        BY <2>2, <4>2
    <3>3. \A t \in NotRung(q) : \E k \in 0 .. (g - 1) : at[k] = t
      BY <2>3
    <3>4. IsFiniteSet(0 .. (g - 1)) /\ Cardinality(0 .. (g - 1)) = g
      <4>1. 0 \in Int /\ g - 1 \in Int /\ (IF 0 > g - 1 THEN 0 ELSE (g - 1) - 0 + 1) = g
        BY <2>2
      <4> QED
        BY <4>1, FS_Interval
    <3> HIDE DEF at
    <3>5. \A j, k \in 0 .. (g - 1) : at[j] = at[k] => j = k
      BY <3>2
    <3> DEFINE I == 0 .. (g - 1)
    <3>6. /\ at \in [I -> NotRung(q)] /\ \A j, k \in I : at[j] = at[k] => j = k
          /\ \A t \in NotRung(q) : \E k \in I : at[k] = t
          /\ IsFiniteSet(I) /\ Cardinality(I) = g
      BY <3>1, <3>3, <3>4, <3>5
    <3> HIDE DEF I
    <3> QED
      BY <3>6, SameCount
  <2>6. Cardinality(Ids(q)) = Len(P) + g
    <3>0. Ids(q) = {c.cid : c \in F}
      BY DEF Ids, F
    <3>1. id \in [F -> Ids(q)]
      BY <3>0
    <3>2. \A a, b \in F : id[a] = id[b] => a = b
      BY <2>2 DEF SubmissionInv
    <3>3. \A t \in Ids(q) : \E a \in F : id[a] = t
      BY <3>0
    <3>4. IsFiniteSet(F)
      BY <2>2 DEF SubmissionInv
    <3> HIDE DEF id
    <3> QED
      BY <2>2, <3>1, <3>2, <3>3, <3>4, SameCount
  <2>7. Ids(q) = NotRung(q) \cup {P[k] : k \in DOMAIN P}
    <3>0. Ids(q) = {c.cid : c \in F}
      BY DEF Ids, F
    <3>1. ASSUME NEW c \in F
          PROVE  c.cid \in NotRung(q) \cup {P[k] : k \in DOMAIN P}
      <4>1. PICK k \in 1 .. Count(tails[q].tail, r, P) : c.cid = Line(S, r, P, k)
        BY <2>2 DEF SubmissionInv
      <4>2. CASE k <= Len(P)
        <5>1. k \in DOMAIN P /\ c.cid = P[k]
          BY <2>2, <4>1, <4>2 DEF Line
        <5> QED
          BY <5>1
      <4>3. CASE ~(k <= Len(P))
        <5>1. k - Len(P) - 1 \in 0 .. (g - 1)
          BY <2>2, <4>3
        <5>2. c.cid = S[Place(r, k - Len(P) - 1)].cid
          BY <4>1, <4>3 DEF Line
        <5> QED
          BY <2>3, <5>1, <5>2
      <4> QED
        BY <4>2, <4>3
    <3>2. ASSUME NEW k \in DOMAIN P PROVE P[k] \in Ids(q)
      BY <2>2, <3>0 DEF SubmissionInv
    <3>3. ASSUME NEW k \in 0 .. (g - 1) PROVE S[Place(r, k)].cid \in Ids(q)
      <4>1. S[Place(r, k)] \in F
        BY <2>2 DEF SubmissionInv, g
      <4> QED
        BY <3>0, <4>1
    <3> QED
      BY <2>3, <3>0, <3>1, <3>2, <3>3
  <2> QED
    BY <2>5, <2>6, <2>7, <2>2 DEF P
<1> QED
  BY ControllerCorrect, <1>1, PTL

=============================================================================
