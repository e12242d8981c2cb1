--------------------------- MODULE VirtioBlkProofs --------------------------
(* Theorems about the virtio block device under its driver, for every size *)
(* of the queue and every set of requests: the rings implement a queue of  *)
(* requests, what was completed is signalled, and reads are current.       *)
EXTENDS VirtioBlkDriver, SequenceTheorems, FiniteSetTheorems, TLAPS

-----------------------------------------------------------------------------
(* Types.                                                                  *)
QueueRecord == [ready : BOOLEAN, size : Nat, cached : SUBSET Area, last_avail_idx : Index]
RingRecord == [idx : Index, ring : [Slot -> Slot]]
DriverStates == {"off", "clear", "probe", "select", "size", "areas",
                 "idle", "isr", "collect", "spurious"}

BlkType ==
  /\ GicTypeOK
  /\ status \in BOOLEAN /\ int_status \in BOOLEAN /\ serving \in BOOLEAN
  /\ queue_sel = 0
  /\ queues \in [Queue -> QueueRecord]
  /\ avail \in [Queue -> RingRecord] /\ used \in [Queue -> RingRecord]
  /\ driver \in DriverStates /\ last_used \in Index /\ free \in SUBSET Slot
  /\ chain = [h \in Slot |-> chain[h]]
  /\ reported \in [Slot -> Status] /\ buffer = [h \in Slot |-> buffer[h]]
  /\ may = [h \in Slot |-> may[h]]

(* What the driver has set up, and what it left behind by a reset.         *)
Mode ==
  /\ On => /\ status /\ queues[0].ready /\ queues[0].cached = Area /\ Size \in Sizes
           /\ are_ns /\ irq[VirtioIrq].enabled
           /\ queues[0].last_avail_idx = used[0].idx
           /\ free \in SUBSET (0 .. Size - 1)
  /\ ~On => /\ ~serving /\ ~queues[0].ready /\ queues[0].last_avail_idx = 0
  /\ driver \in {"probe", "select", "size", "areas"} => avail[0].idx = 0 /\ used[0].idx = 0
  /\ driver \in {"select", "size", "areas"} => status
  /\ driver = "areas" => Size \in Sizes

-----------------------------------------------------------------------------
(* The heads in flight are those available, behind those done; each is one *)
(* that is not free, and there is none twice.                              *)
Busy == (0 .. Size - 1) \ free
Places(S) == {S[k] : k \in DOMAIN S}
Once(S) == \A j, k \in DOMAIN S : S[j] = S[k] => j = k
InFlight(S, T, B) ==
  /\ Once(S) /\ Once(T) /\ Places(S) \cap Places(T) = {}
  /\ Places(S) \subseteq B /\ Places(T) \subseteq B
  /\ IsFiniteSet(B) /\ Cardinality(B) = Len(S) + Len(T)
RingInv == On => InFlight(Done, Heads(0), Busy)

-----------------------------------------------------------------------------
(* The interrupt on its way from the device to the driver's handler.       *)
IrqInv ==
  /\ irq[VirtioIrq].route = 0 /\ irq[VirtioIrq].priority = DefaultPriority
  /\ \A i \in Irq \ {VirtioIrq} : irq[i].state = "INACTIVE"
  /\ irq[VirtioIrq].state # "ACTIVE_PENDING"
  /\ irq[VirtioIrq].state = "PENDING" =>
       VirtioIrq \in signal[0] /\ are_ns /\ irq[VirtioIrq].enabled

(* A completion the driver has not seen makes it look again: the interrupt *)
(* is pending, and the handler will find VIRTIO_INT_VRING set.             *)
SignalInv ==
  On /\ ~serving /\ last_used # used[0].idx =>
    /\ driver \in {"idle", "spurious"} => irq[VirtioIrq].state = "PENDING" /\ int_status
    /\ driver = "isr" => int_status

-----------------------------------------------------------------------------
(* What the disk holds, and what the reads in flight may return.  Disk d,  *)
(* requests ch, buffers buf, status bytes rep and permissions m, where the *)
(* disk may hold P, the heads B are busy, S done and T available.          *)
Possible == settled \cup WritesInFlight
LastWrite(d, ch, rep, S) ==
  \A k \in DOMAIN S : ch[S[k]].type = "out" /\ rep[S[k]] = "ok" =>
    \E j \in DOMAIN S : j >= k /\ ch[S[j]].type = "out" /\ d = ch[S[j]].value
ReadsFit(ch, buf, rep, m, S) ==
  \A k \in DOMAIN S : ch[S[k]].type = "in" /\ rep[S[k]] = "ok" => buf[S[k]] \in m[S[k]]
Contents(d, ch, buf, rep, m, P, B, S, T) ==
  /\ d \in P
  /\ \A h \in B : ch[h] \in Requests /\ (ch[h].type = "in" => P \subseteq m[h])
  /\ LastWrite(d, ch, rep, S) /\ ReadsFit(ch, buf, rep, m, S)
  /\ \A k \in DOMAIN T : rep[T[k]] = "stale"
DataInv ==
  /\ disk \in Possible
  /\ On => Contents(disk, chain, buffer, reported, may, Possible, Busy, Done, Heads(0))

BlkInv ==
  BlkType /\ Mode /\ RingInv /\ IrqInv /\ SignalInv /\ DataInv
-----------------------------------------------------------------------------
(* Arithmetic of the ring indices.                                         *)
Gap(a, b) == (a + IndexLimit - b) % IndexLimit
Place(from, k, n) == ((from + k) % IndexLimit) % n
IsSize(n) == n \in 1 .. MaxSize /\ IndexLimit % n = 0

LEMMA Wrap ==
  ASSUME NEW m \in Nat \ {0}, NEW x \in 0 .. (2 * m - 1)
  PROVE  /\ x % m = IF x < m THEN x ELSE x - m
         /\ x % m \in 0 .. (m - 1)
<1>1. CASE x < m
  BY <1>1
<1>2. CASE x >= m
  BY <1>2
<1> QED
  BY <1>1, <1>2

LEMMA GapSteps ==
  ASSUME NEW a \in Index, NEW b \in Index
  PROVE  /\ Gap(a, b) \in 0 .. (IndexLimit - 1)
         /\ (b + Gap(a, b)) % IndexLimit = a
         /\ Gap(a, b) = 0 <=> a = b
         /\ (a + 1) % IndexLimit \in Index
         /\ (a + 1) % IndexLimit = IF a + 1 < IndexLimit THEN a + 1 ELSE 0
         /\ a # b => Gap(a, (b + 1) % IndexLimit) = Gap(a, b) - 1
         /\ Gap(a, b) < IndexLimit - 1 => Gap((a + 1) % IndexLimit, b) = Gap(a, b) + 1
<1> DEFINE m == IndexLimit
<1>1. m \in Nat \ {0} /\ a \in 0 .. (m - 1) /\ b \in 0 .. (m - 1)
  BY VirtioConstants DEF Index
<1>2. \A x \in 0 .. (2 * m - 1) : x % m = IF x < m THEN x ELSE x - m
  BY <1>1, Wrap
<1>3. \A c, d \in 0 .. (m - 1) : Gap(c, d) = IF c < d THEN c + m - d ELSE c - d
  <2> SUFFICES ASSUME NEW c \in 0 .. (m - 1), NEW d \in 0 .. (m - 1)
               PROVE  Gap(c, d) = IF c < d THEN c + m - d ELSE c - d
    OBVIOUS
  <2>1. c + m - d \in 0 .. (2 * m - 1)
    BY <1>1
  <2> QED
    BY <1>1, <1>2, <2>1 DEF Gap
<1>4. \A c \in 0 .. (m - 1) : (c + 1) % m = IF c + 1 < m THEN c + 1 ELSE 0
  BY <1>1, <1>2
<1>5. Gap(a, b) \in 0 .. (m - 1) /\ (Gap(a, b) = 0 <=> a = b)
  BY <1>1, <1>3
<1>6. (b + Gap(a, b)) % m = a
  <2> DEFINE x == b + Gap(a, b)
  <2>1. x \in 0 .. (2 * m - 1) /\ x = IF a < b THEN a + m ELSE a
    <3>1. Gap(a, b) = IF a < b THEN a + m - b ELSE a - b
      BY <1>1, <1>3
    <3> HIDE DEF m
    <3> QED
      BY <1>1, <1>5, <3>1
  <2> HIDE DEF x
  <2>2. x % m = IF x < m THEN x ELSE x - m
    BY <1>2, <2>1
  <2>3. x % m = a
    BY <1>1, <2>1, <2>2
  <2> QED
    BY <2>3 DEF x
<1>7. (a + 1) % m \in 0 .. (m - 1) /\ (b + 1) % m \in 0 .. (m - 1)
  BY <1>1, <1>4
<1> DEFINE na == (a + 1) % m
           nb == (b + 1) % m
<1>a. /\ na = IF a + 1 < m THEN a + 1 ELSE 0
      /\ nb = IF b + 1 < m THEN b + 1 ELSE 0
      /\ na \in 0 .. (m - 1) /\ nb \in 0 .. (m - 1)
  BY <1>1, <1>4, <1>7
<1> HIDE DEF na, nb
<1>b. /\ Gap(a, b) = IF a < b THEN a + m - b ELSE a - b
      /\ Gap(na, b) = IF na < b THEN na + m - b ELSE na - b
      /\ Gap(a, nb) = IF a < nb THEN a + m - nb ELSE a - nb
  BY <1>1, <1>3, <1>a
<1> HIDE DEF m
<1>8. a # b => Gap(a, nb) = Gap(a, b) - 1
  BY <1>1, <1>a, <1>b
<1>9. Gap(a, b) < m - 1 => Gap(na, b) = Gap(a, b) + 1
  BY <1>1, <1>a, <1>b
<1> QED
  BY <1>5, <1>6, <1>7, <1>8, <1>9, <1>a DEF Index, na, nb, m

LEMMA SmallMultiple ==
  ASSUME NEW n \in Nat \ {0}, NEW d \in Int, n * d < n, -n < n * d
  PROVE  d = 0
<1>1. ASSUME d >= 1 PROVE FALSE
  <2>1. d - 1 \in Nat /\ n * d = n + n * (d - 1)
    BY <1>1
  <2>2. n * (d - 1) \in Nat
    BY <2>1
  <2> QED
    BY <2>1, <2>2
<1>2. ASSUME d <= -1 PROVE FALSE
  <2>1. -d - 1 \in Nat /\ n * d = -n - n * (-d - 1)
    BY <1>2
  <2>2. n * (-d - 1) \in Nat
    BY <2>1
  <2> QED
    BY <2>1, <2>2
<1> QED
  BY <1>1, <1>2

(* A ring of n slots does not hold two of n entries in one slot, for n     *)
(* divides the number the indices wrap at.                                 *)
LEMMA PlacesDiffer ==
  ASSUME NEW n, IsSize(n), NEW from \in Index, NEW j \in 0 .. (n - 1), NEW k \in 0 .. (n - 1),
         Place(from, j, n) = Place(from, k, n)
  PROVE  j = k
<1> DEFINE m == IndexLimit
           q == m \div n
           x == (from + j) % m
           y == (from + k) % m
<1>1. /\ m \in Nat \ {0} /\ from \in 0 .. (m - 1) /\ n \in Nat \ {0} /\ n < m
      /\ m % n = 0
  BY VirtioConstants DEF Index, IsSize
<1>2. q \in Nat /\ m = n * q
  BY <1>1
<1>3. /\ x \in Nat /\ x = IF from + j < m THEN from + j ELSE from + j - m
      /\ y \in Nat /\ y = IF from + k < m THEN from + k ELSE from + k - m
  <2>1. from + j \in 0 .. (2 * m - 1) /\ from + k \in 0 .. (2 * m - 1)
    BY <1>1
  <2>2. \A z \in 0 .. (2 * m - 1) : z % m = IF z < m THEN z ELSE z - m
    BY <1>1, Wrap
  <2> DEFINE c == from + j
             d == from + k
  <2>3. x = c % m /\ y = d % m
    OBVIOUS
  <2> HIDE DEF c, d, x, y
  <2>4. /\ x = IF c < m THEN c ELSE c - m
        /\ y = IF d < m THEN d ELSE d - m
    <3>1. c \in 0 .. (2 * m - 1) /\ d \in 0 .. (2 * m - 1)
      BY <2>1 DEF c, d
    <3> QED
      BY <2>2, <2>3, <3>1
  <2> HIDE DEF m
  <2> QED
    BY <1>1, <2>1, <2>4 DEF c, d
<1>4. x % n = y % n
  BY DEF Place
<1> HIDE DEF q, x, y
<1>5. /\ x = n * (x \div n) + (x % n) /\ x \div n \in Int
      /\ y = n * (y \div n) + (y % n) /\ y \div n \in Int
  BY <1>1, <1>3
<1>6. PICK d \in Int : x - y = n * d
  <2>1. x - y = n * (x \div n) - n * (y \div n)
    BY <1>4, <1>5, <1>1, <1>3
  <2>2. n * (x \div n) - n * (y \div n) = n * (x \div n - y \div n)
    BY <1>1, <1>5
  <2> QED
    BY <1>5, <2>1, <2>2
<1>7. PICK e \in {-1, 0, 1} : j - k = x - y + m * e
  BY <1>1, <1>3
<1>8. j - k = n * (d + q * e) /\ d + q * e \in Int
  <2>1. m * e = n * (q * e)
    BY <1>1, <1>2, <1>7
  <2>2. n * d + n * (q * e) = n * (d + q * e)
    BY <1>1, <1>2, <1>6, <1>7
  <2> QED
    BY <1>1, <1>2, <1>6, <1>7, <2>1, <2>2
<1>9. j - k < n /\ -n < j - k
  BY <1>1
<1>10. d + q * e = 0
  BY <1>1, <1>8, <1>9, SmallMultiple
<1> QED
  BY <1>1, <1>8, <1>10

LEMMA PlaceSteps ==
  ASSUME NEW n, IsSize(n), NEW from \in Index
  PROVE  /\ \A k \in 0 .. (IndexLimit - 1) : Place(from, k, n) \in 0 .. (n - 1)
         /\ \A k \in 0 .. (IndexLimit - 2) :
              Place((from + 1) % IndexLimit, k, n) = Place(from, k + 1, n)
         /\ \A a \in Index : Place(from, Gap(a, from), n) = a % n
<1> DEFINE m == IndexLimit
<1>1. m \in Nat \ {0} /\ from \in 0 .. (m - 1) /\ n \in Nat \ {0}
  BY VirtioConstants DEF Index, IsSize
<1>2. \A x \in 0 .. (2 * m - 1) : x % m \in 0 .. (m - 1) /\ x % m = IF x < m THEN x ELSE x - m
  BY <1>1, Wrap
<1>3. ASSUME NEW k \in 0 .. (m - 1) PROVE Place(from, k, n) \in 0 .. (n - 1)
  <2>1. (from + k) % m \in Nat
    BY <1>1, <1>2
  <2> QED
    BY <1>1, <2>1 DEF Place
<1>4. ASSUME NEW k \in 0 .. (m - 2)
      PROVE  Place((from + 1) % m, k, n) = Place(from, k + 1, n)
  <2>1. (((from + 1) % m) + k) % m = (from + (k + 1)) % m
    <3> DEFINE f == (from + 1) % m
               x == f + k
               y == from + (k + 1)
    <3>2. f = IF from + 1 < m THEN from + 1 ELSE 0
      BY GapSteps
    <3> HIDE DEF f, m
    <3>3. f \in 0 .. (m - 1) /\ x \in 0 .. (2 * m - 1) /\ y \in 0 .. (2 * m - 1)
      BY <1>1, <3>2
    <3>4. /\ x % m = IF x < m THEN x ELSE x - m
          /\ y % m = IF y < m THEN y ELSE y - m
      BY <1>2, <3>3
    <3>5. x % m = y % m
      BY <1>1, <3>2, <3>3, <3>4
    <3> QED
      BY <3>5 DEF f, m
  <2> QED
    BY <2>1 DEF Place
<1>5. \A a \in Index : Place(from, Gap(a, from), n) = a % n
  BY GapSteps DEF Place
<1> QED
  BY <1>3, <1>4, <1>5

-----------------------------------------------------------------------------
(* The part of a ring between two indices, as a sequence.                  *)
Window(ring, from, to, n) == [k \in 1 .. Gap(to, from) |-> ring[Place(from, k - 1, n)]]

LEMMA WindowType ==
  ASSUME NEW n, IsSize(n), NEW from \in Index, NEW to \in Index, NEW ring \in [Slot -> Slot]
  PROVE  /\ Window(ring, from, to, n) \in Seq(Slot)
         /\ Len(Window(ring, from, to, n)) = Gap(to, from)
         /\ Window(ring, from, to, n) = <<>> <=> from = to
<1>1. Gap(to, from) \in Nat /\ Gap(to, from) <= IndexLimit - 1 /\ (Gap(to, from) = 0 <=> to = from)
  BY GapSteps, VirtioConstants
<1>2. \A k \in 1 .. Gap(to, from) : ring[Place(from, k - 1, n)] \in Slot
  <2> TAKE k \in 1 .. Gap(to, from)
  <2>1. k - 1 \in 0 .. (IndexLimit - 1)
    BY <1>1, VirtioConstants
  <2>2. Place(from, k - 1, n) \in 0 .. (n - 1)
    BY <2>1, PlaceSteps
  <2>3. Place(from, k - 1, n) \in Slot
    BY <2>2, VirtioConstants DEF IsSize, Slot
  <2> QED
    BY <2>3
<1>3. /\ Window(ring, from, to, n) \in Seq(Slot)
      /\ Len(Window(ring, from, to, n)) = Gap(to, from)
  BY <1>1, <1>2 DEF Window
<1>4. Window(ring, from, to, n) = <<>> <=> Gap(to, from) = 0
  BY <1>1, <1>3, EmptySeq
<1> QED
  BY <1>1, <1>3, <1>4

LEMMA WindowAppends ==
  ASSUME NEW n, IsSize(n), NEW from \in Index, NEW to \in Index, NEW ring \in [Slot -> Slot],
         Gap(to, from) < n, NEW h \in Slot
  PROVE  Window([ring EXCEPT ![to % n] = h], from, (to + 1) % IndexLimit, n)
           = Append(Window(ring, from, to, n), h)
<1> DEFINE g == Gap(to, from)
           after == [ring EXCEPT ![to % n] = h]
           end == (to + 1) % IndexLimit
<1>1. IndexLimit \in Nat /\ n \in Nat /\ n <= IndexLimit - 1 /\ n >= 1
  BY VirtioConstants DEF IsSize
<1>2. g \in Nat /\ g < n /\ end \in Index /\ Gap(end, from) = g + 1
  BY <1>1, GapSteps
<1>3. /\ Place(from, g, n) = to % n
      /\ \A k \in 0 .. (n - 1) : Place(from, k, n) \in 0 .. (n - 1)
  <2>1. 0 .. (n - 1) \subseteq 0 .. (IndexLimit - 1)
    BY <1>1
  <2> QED
    BY <2>1, PlaceSteps
<1>4. \A k \in 0 .. (n - 1) : Place(from, k, n) \in Slot
  <2>1. 0 .. (n - 1) \subseteq Slot
    BY VirtioConstants DEF IsSize, Slot
  <2> QED
    BY <1>3, <2>1
<1>5. to % n \in Slot
  BY <1>2, <1>1, <1>3, <1>4
<1>6. after \in [Slot -> Slot]
  OBVIOUS
<1>7. \A k \in 0 .. (g - 1) : after[Place(from, k, n)] = ring[Place(from, k, n)]
  <2> TAKE k \in 0 .. (g - 1)
  <2>1. k \in 0 .. (n - 1) /\ g \in 0 .. (n - 1) /\ k # g
    BY <1>1, <1>2
  <2>2. Place(from, k, n) # Place(from, g, n)
    BY <2>1, PlacesDiffer
  <2> QED
    BY <1>3, <1>4, <2>1, <2>2
<1>8. after[Place(from, g, n)] = h
  BY <1>3, <1>5
<1> DEFINE W == Window(ring, from, to, n)
           V == Window(after, from, end, n)
<1>9. W \in Seq(Slot) /\ Len(W) = g /\ V \in Seq(Slot) /\ Len(V) = g + 1
  <2> HIDE DEF after, end
  <2> QED
    BY <1>2, <1>6, WindowType
<1>10. /\ \A k \in 1 .. g : W[k] = ring[Place(from, k - 1, n)]
       /\ \A k \in 1 .. (g + 1) : V[k] = after[Place(from, k - 1, n)]
  BY <1>2 DEF Window
<1> HIDE DEF W, V, after, end, g
<1>11. Append(W, h) \in Seq(Slot) /\ Len(Append(W, h)) = g + 1
  BY <1>2, <1>9
<1>12. \A k \in 1 .. (g + 1) : V[k] = Append(W, h)[k]
  <2> TAKE k \in 1 .. (g + 1)
  <2>1. CASE k = g + 1
    <3>1. V[k] = after[Place(from, g, n)]
      BY <1>2, <1>10, <2>1
    <3> QED
      BY <1>2, <1>8, <1>9, <2>1, <3>1
  <2>2. CASE k # g + 1
    <3>1. k \in 1 .. g /\ k - 1 \in 0 .. (g - 1)
      BY <1>2, <2>2
    <3>2. V[k] = W[k]
      BY <1>7, <1>10, <3>1
    <3> QED
      BY <1>2, <1>9, <3>1, <3>2
  <2> QED
    BY <2>1, <2>2
<1>13. V = Append(W, h)
  BY <1>9, <1>11, <1>12, <1>2, SeqEqual
<1> QED
  BY <1>13 DEF V, W, after, end

LEMMA WindowAdvances ==
  ASSUME NEW n, IsSize(n), NEW from \in Index, NEW to \in Index, NEW ring \in [Slot -> Slot],
         from # to
  PROVE  /\ Window(ring, (from + 1) % IndexLimit, to, n) = Tail(Window(ring, from, to, n))
         /\ Window(ring, from, to, n)[1] = ring[from % n]
         /\ Window(ring, from, to, n) # <<>>
<1> DEFINE g == Gap(to, from)
           start == (from + 1) % IndexLimit
           W == Window(ring, from, to, n)
           V == Window(ring, start, to, n)
<1>1. IndexLimit \in Nat /\ g \in Nat /\ g <= IndexLimit - 1 /\ g # 0 /\ start \in Index
      /\ Gap(to, start) = g - 1
  BY GapSteps, VirtioConstants
<1>2. W \in Seq(Slot) /\ Len(W) = g /\ V \in Seq(Slot) /\ Len(V) = g - 1 /\ W # <<>>
  BY <1>1, WindowType
<1>3. /\ \A k \in 1 .. g : W[k] = ring[Place(from, k - 1, n)]
      /\ \A k \in 1 .. (g - 1) : V[k] = ring[Place(start, k - 1, n)]
  BY <1>1 DEF Window
<1>4. \A k \in 0 .. (IndexLimit - 2) : Place(start, k, n) = Place(from, k + 1, n)
  BY PlaceSteps
<1>5. W[1] = ring[from % n]
  <2>1. Gap(from, from) = 0
    BY GapSteps
  <2>2. Place(from, 0, n) = from % n
    BY <2>1, PlaceSteps
  <2>3. W[1] = ring[Place(from, 0, n)]
    BY <1>1, <1>3
  <2> QED
    BY <2>2, <2>3
<1> HIDE DEF W, V, g, start
<1>6. Tail(W) \in Seq(Slot) /\ Len(Tail(W)) = g - 1 /\ \A k \in 1 .. (g - 1) : Tail(W)[k] = W[k + 1]
  BY <1>1, <1>2
<1>7. \A k \in 1 .. (g - 1) : V[k] = W[k + 1]
  <2> TAKE k \in 1 .. (g - 1)
  <2>1. k - 1 \in 0 .. (IndexLimit - 2) /\ k + 1 \in 1 .. g /\ (k - 1) + 1 = k /\ (k + 1) - 1 = k
    BY <1>1
  <2> QED
    BY <1>3, <1>4, <2>1
<1>8. V = Tail(W)
  BY <1>1, <1>2, <1>6, <1>7, SeqEqual
<1> QED
  BY <1>2, <1>5, <1>8 DEF W, V, start

-----------------------------------------------------------------------------
(* The heads in flight.                                                    *)
LEMMA FirstAndLast ==
  ASSUME NEW S \in Seq(Slot), NEW h \in Slot
  PROVE  /\ DOMAIN S = 1 .. Len(S) /\ Len(S) \in Nat
         /\ Append(S, h) \in Seq(Slot) /\ Len(Append(S, h)) = Len(S) + 1
         /\ DOMAIN Append(S, h) = 1 .. (Len(S) + 1)
         /\ \A k \in 1 .. Len(S) : Append(S, h)[k] = S[k]
         /\ Append(S, h)[Len(S) + 1] = h
         /\ S # <<>> => /\ Tail(S) \in Seq(Slot) /\ Len(Tail(S)) = Len(S) - 1
                        /\ DOMAIN Tail(S) = 1 .. (Len(S) - 1)
                        /\ \A k \in 1 .. (Len(S) - 1) : Tail(S)[k] = S[k + 1]
                        /\ Len(S) >= 1 /\ S[1] \in Slot /\ Head(S) = S[1]
  OBVIOUS

LEMMA PlacesChange ==
  ASSUME NEW S \in Seq(Slot), NEW h \in Slot
  PROVE  /\ Places(Append(S, h)) = Places(S) \cup {h}
         /\ S # <<>> => Places(S) = Places(Tail(S)) \cup {S[1]}
         /\ Once(S) /\ h \notin Places(S) => Once(Append(S, h))
         /\ Once(S) /\ S # <<>> => Once(Tail(S)) /\ S[1] \notin Places(Tail(S))
<1>1. Places(Append(S, h)) = Places(S) \cup {h}
  BY FirstAndLast DEF Places
<1>2. ASSUME S # <<>> PROVE Places(S) = Places(Tail(S)) \cup {S[1]}
  <2>1. ASSUME NEW k \in DOMAIN S PROVE S[k] \in Places(Tail(S)) \cup {S[1]}
    <3>1. CASE k = 1
      BY <3>1
    <3>2. CASE k # 1
      <4>1. k - 1 \in DOMAIN Tail(S) /\ Tail(S)[k - 1] = S[k]
        BY <1>2, <2>1, <3>2, FirstAndLast
      <4> QED
        BY <4>1 DEF Places
    <3> QED
      BY <3>1, <3>2
  <2>2. ASSUME NEW k \in DOMAIN Tail(S) PROVE Tail(S)[k] \in Places(S)
    <3>1. k + 1 \in DOMAIN S /\ Tail(S)[k] = S[k + 1]
      BY <1>2, <2>2, FirstAndLast
    <3> QED
      BY <3>1 DEF Places
  <2>3. S[1] \in Places(S)
    BY <1>2, FirstAndLast DEF Places
  <2> QED
    BY <2>1, <2>2, <2>3 DEF Places
<1>3. ASSUME Once(S), h \notin Places(S) PROVE Once(Append(S, h))
  BY <1>3, FirstAndLast DEF Once, Places
<1>4. ASSUME Once(S), S # <<>> PROVE Once(Tail(S)) /\ S[1] \notin Places(Tail(S))
  <2>1. ASSUME NEW j \in DOMAIN Tail(S), NEW k \in DOMAIN Tail(S), Tail(S)[j] = Tail(S)[k]
        PROVE  j = k
    <3>1. /\ j \in Nat /\ k \in Nat /\ j + 1 \in DOMAIN S /\ k + 1 \in DOMAIN S
          /\ Tail(S)[j] = S[j + 1] /\ Tail(S)[k] = S[k + 1]
      BY <1>4, <2>1, FirstAndLast
    <3>2. j + 1 = k + 1
      BY <1>4, <2>1, <3>1 DEF Once
    <3> QED
      BY <3>1, <3>2
  <2>2. ASSUME NEW k \in DOMAIN Tail(S), Tail(S)[k] = S[1] PROVE FALSE
    <3>1. /\ k \in Nat /\ k >= 1 /\ k + 1 \in DOMAIN S /\ 1 \in DOMAIN S
          /\ Tail(S)[k] = S[k + 1]
      BY <1>4, <2>2, FirstAndLast
    <3>2. k + 1 = 1
      BY <1>4, <2>2, <3>1 DEF Once
    <3> QED
      BY <3>1, <3>2
  <2> QED
    BY <2>1, <2>2 DEF Once, Places
<1> QED
  BY <1>1, <1>2, <1>3, <1>4

LEMMA SubmittingKeepsInFlight ==
  ASSUME NEW S \in Seq(Slot), NEW T \in Seq(Slot), NEW B, InFlight(S, T, B),
         NEW h \in Slot, h \notin B
  PROVE  InFlight(S, Append(T, h), B \cup {h})
<1>1. h \notin Places(S) /\ h \notin Places(T)
  BY DEF InFlight
<1>2. /\ IsFiniteSet(B \cup {h}) /\ Cardinality(B \cup {h}) = Cardinality(B) + 1
  BY FS_AddElement DEF InFlight
<1>3. Cardinality(B) + 1 = Len(S) + Len(Append(T, h))
  <2>1. Cardinality(B) = Len(S) + Len(T)
    BY DEF InFlight
  <2> QED
    BY <2>1, FirstAndLast
<1>4. Once(Append(T, h)) /\ Places(Append(T, h)) = Places(T) \cup {h}
  BY <1>1, PlacesChange DEF InFlight
<1> QED
  BY <1>1, <1>2, <1>3, <1>4 DEF InFlight

LEMMA ServingKeepsInFlight ==
  ASSUME NEW S \in Seq(Slot), NEW T \in Seq(Slot), NEW B, InFlight(S, T, B), T # <<>>
  PROVE  /\ InFlight(Append(S, T[1]), Tail(T), B)
         /\ T[1] \in B /\ T[1] \in Slot /\ T[1] \notin Places(S)
<1> DEFINE h == T[1]
<1>1. h \in Slot /\ Tail(T) \in Seq(Slot)
  BY FirstAndLast
<1>2. Places(T) = Places(Tail(T)) \cup {h} /\ h \notin Places(Tail(T)) /\ Once(Tail(T))
  BY <1>1, PlacesChange DEF InFlight
<1>3. h \notin Places(S) /\ h \in B
  BY <1>2 DEF InFlight
<1>4. Places(Append(S, h)) = Places(S) \cup {h} /\ Once(Append(S, h))
  BY <1>1, <1>3, PlacesChange DEF InFlight
<1>5. Cardinality(B) = Len(Append(S, h)) + Len(Tail(T))
  <2>1. Cardinality(B) = Len(S) + Len(T)
    BY DEF InFlight
  <2>2. Len(Append(S, h)) = Len(S) + 1 /\ Len(Tail(T)) = Len(T) - 1
        /\ Len(S) \in Nat /\ Len(T) \in Nat
    BY <1>1, FirstAndLast
  <2> QED
    BY <2>1, <2>2
<1> HIDE DEF h
<1>6. InFlight(Append(S, h), Tail(T), B)
  BY <1>2, <1>3, <1>4, <1>5 DEF InFlight
<1> QED
  BY <1>1, <1>3, <1>6 DEF h

LEMMA CollectingKeepsInFlight ==
  ASSUME NEW S \in Seq(Slot), NEW T \in Seq(Slot), NEW B, InFlight(S, T, B), S # <<>>
  PROVE  /\ InFlight(Tail(S), T, B \ {S[1]})
         /\ S[1] \in B /\ S[1] \in Slot
         /\ S[1] \notin Places(Tail(S)) /\ S[1] \notin Places(T)
<1> DEFINE h == S[1]
<1>1. h \in Slot /\ Tail(S) \in Seq(Slot)
  BY FirstAndLast
<1>2. Places(S) = Places(Tail(S)) \cup {h} /\ h \notin Places(Tail(S)) /\ Once(Tail(S))
  BY <1>1, PlacesChange DEF InFlight
<1>3. h \notin Places(T) /\ h \in B
  BY <1>2 DEF InFlight
<1>4. IsFiniteSet(B \ {h}) /\ Cardinality(B \ {h}) = Cardinality(B) - 1
  BY <1>3, FS_RemoveElement DEF InFlight
<1>5. Cardinality(B) - 1 = Len(Tail(S)) + Len(T)
  <2>1. Cardinality(B) = Len(S) + Len(T)
    BY DEF InFlight
  <2>2. Len(Tail(S)) = Len(S) - 1 /\ Len(S) \in Nat /\ Len(T) \in Nat
    BY <1>1, FirstAndLast
  <2> QED
    BY <2>1, <2>2
<1> HIDE DEF h
<1>6. InFlight(Tail(S), T, B \ {h})
  BY <1>2, <1>3, <1>4, <1>5 DEF InFlight
<1> QED
  BY <1>1, <1>2, <1>3, <1>6 DEF h

(* There is a slot for every head in flight, and one over while any is     *)
(* free.                                                                   *)
LEMMA InFlightFits ==
  ASSUME NEW n \in Nat, NEW F \in SUBSET (0 .. (n - 1)),
         NEW S \in Seq(Slot), NEW T \in Seq(Slot), InFlight(S, T, (0 .. (n - 1)) \ F)
  PROVE  /\ Len(S) + Len(T) <= n
         /\ F # {} => Len(S) + Len(T) < n
<1> DEFINE R == 0 .. (n - 1)
           B == R \ F
<1>1. IsFiniteSet(R) /\ Cardinality(R) = n
  BY FS_Interval
<1>2. IsFiniteSet(B) /\ Cardinality(B) = Len(S) + Len(T) /\ Cardinality(B) \in Nat
  BY FS_CardinalityType DEF InFlight
<1>3. Cardinality(B) <= n
  BY <1>1, FS_Subset
<1>4. ASSUME NEW f \in F PROVE Cardinality(B) < n
  <2>1. IsFiniteSet(R \ {f}) /\ Cardinality(R \ {f}) = n - 1
    <3>1. f \in R
      BY <1>4
    <3> HIDE DEF R
    <3> QED
      BY <1>1, <3>1, FS_RemoveElement
  <2>2. B \subseteq R \ {f}
    OBVIOUS
  <2>3. Cardinality(B) <= Cardinality(R \ {f})
    BY <2>1, <2>2, FS_Subset
  <2> QED
    BY <1>2, <2>1, <2>3
<1> QED
  BY <1>2, <1>3, <1>4

-----------------------------------------------------------------------------
(* The rings of the driver.                                                *)
LEMMA QueueFacts ==
  /\ Queue = {0} /\ 0 \in Queue
  /\ IndexLimit \in Nat /\ MaxSize \in Nat /\ 0 \in Index
  /\ VirtioIrq \in Spi /\ VirtioIrq \in Irq /\ 0 \in Cpu
  /\ \A n \in Sizes : IsSize(n) /\ n \in Nat /\ 0 .. (n - 1) \subseteq Slot
<1>1. Queue = {0} /\ 0 \in Queue
  BY BlkConstants DEF Queue
<1>2. IndexLimit \in Nat /\ MaxSize \in Nat /\ 0 \in Index /\ VirtioIrq \in Spi
  BY VirtioConstants DEF Index
<1>3. 0 \in Cpu /\ VirtioIrq \in Irq
  BY <1>2, GicConstants DEF Cpu, Spi, Irq
<1>4. \A n \in Sizes : IsSize(n) /\ n \in Nat /\ 0 .. (n - 1) \subseteq Slot
  BY <1>2, DriverConstants DEF IsSize, Slot
<1> QED
  BY <1>1, <1>2, <1>3, <1>4

Available == Window(avail[0].ring, queues[0].last_avail_idx, avail[0].idx, Size)
Completed == Window(used[0].ring, last_used, used[0].idx, Size)

LEMMA RingsNow ==
  ASSUME BlkType, Mode, On
  PROVE  /\ IsSize(Size) /\ Size \in Nat /\ 0 .. (Size - 1) \subseteq Slot
         /\ Heads(0) = Available /\ Done = Completed /\ DoneWhenReady = Done
<1>1. queues[0].ready /\ queues[0].cached = Area /\ Size \in Sizes
  BY DEF Mode
<1>2. "avail" \in queues[0].cached
  BY <1>1 DEF Area
<1>3. Heads(0) = Available
  BY <1>1, <1>2 DEF Heads, HeadAt, Waiting, Available, Window, Gap, Place, Size
<1>4. Done = Completed
  BY DEF Done, Completed, Window, Gap, Place
<1> QED
  BY <1>1, <1>3, <1>4, QueueFacts DEF DoneWhenReady

LEMMA RingsAfter ==
  ASSUME BlkType', Mode', On'
  PROVE  /\ IsSize(Size') /\ Size' \in Nat /\ 0 .. (Size' - 1) \subseteq Slot
         /\ Heads(0)' = Available' /\ Done' = Completed' /\ DoneWhenReady' = Done'
<1>1. queues'[0].ready /\ queues'[0].cached = Area /\ Size' \in Sizes
  BY DEF Mode
<1>2. "avail" \in queues'[0].cached
  BY <1>1 DEF Area
<1>3. Heads(0)' = Available'
  BY <1>1, <1>2 DEF Heads, HeadAt, Waiting, Available, Window, Gap, Place, Size
<1>4. Done' = Completed'
  BY DEF Done, Completed, Window, Gap, Place
<1> QED
  BY <1>1, <1>3, <1>4, QueueFacts DEF DoneWhenReady

LEMMA RingTypes ==
  ASSUME BlkType
  PROVE  /\ queues[0] \in QueueRecord /\ avail[0] \in RingRecord /\ used[0] \in RingRecord
         /\ queues[0].last_avail_idx \in Index /\ avail[0].idx \in Index
         /\ used[0].idx \in Index /\ last_used \in Index
         /\ avail[0].ring \in [Slot -> Slot] /\ used[0].ring \in [Slot -> Slot]
         /\ free \subseteq Slot
<1>1. queues[0] \in QueueRecord /\ avail[0] \in RingRecord /\ used[0] \in RingRecord
  BY QueueFacts DEF BlkType
<1> QED
  BY <1>1 DEF BlkType, QueueRecord, RingRecord

LEMMA RingSequences ==
  ASSUME BlkType, Mode, On
  PROVE  /\ Heads(0) \in Seq(Slot) /\ Done \in Seq(Slot)
         /\ Len(Heads(0)) = Gap(avail[0].idx, queues[0].last_avail_idx)
         /\ Len(Done) = Gap(used[0].idx, last_used)
         /\ Heads(0) = <<>> <=> queues[0].last_avail_idx = avail[0].idx
         /\ Done = <<>> <=> last_used = used[0].idx
<1>1. /\ Available \in Seq(Slot)
      /\ Len(Available) = Gap(avail[0].idx, queues[0].last_avail_idx)
      /\ Available = <<>> <=> queues[0].last_avail_idx = avail[0].idx
  <2> DEFINE n == Size  ring == avail[0].ring
             from == queues[0].last_avail_idx  to == avail[0].idx
  <2>1. IsSize(n) /\ from \in Index /\ to \in Index /\ ring \in [Slot -> Slot]
    BY RingsNow, RingTypes
  <2> HIDE DEF n, ring, from, to
  <2>2. /\ Window(ring, from, to, n) \in Seq(Slot)
        /\ Len(Window(ring, from, to, n)) = Gap(to, from)
        /\ Window(ring, from, to, n) = <<>> <=> from = to
    BY <2>1, WindowType
  <2> QED
    BY <2>2 DEF Available, n, ring, from, to
<1>2. /\ Completed \in Seq(Slot)
      /\ Len(Completed) = Gap(used[0].idx, last_used)
      /\ Completed = <<>> <=> last_used = used[0].idx
  <2> DEFINE n == Size  ring == used[0].ring
             from == last_used  to == used[0].idx
  <2>1. IsSize(n) /\ from \in Index /\ to \in Index /\ ring \in [Slot -> Slot]
    BY RingsNow, RingTypes
  <2> HIDE DEF n, ring, from, to
  <2>2. /\ Window(ring, from, to, n) \in Seq(Slot)
        /\ Len(Window(ring, from, to, n)) = Gap(to, from)
        /\ Window(ring, from, to, n) = <<>> <=> from = to
    BY <2>1, WindowType
  <2> QED
    BY <2>2 DEF Completed, n, ring, from, to
<1> QED
  BY <1>1, <1>2, RingsNow

(* Every head in flight names a descriptor, and the device serves it.      *)
LEMMA HeadsAreServed ==
  ASSUME BlkType, Mode, On, RingInv
  PROVE  CanServe <=> Heads(0) # <<>>
<1>1. ASSUME Heads(0) # <<>> PROVE HasDesc(0, Heads(0)[1])
  <2>1. Heads(0)[1] \in Busy
    BY <1>1, RingSequences, ServingKeepsInFlight DEF RingInv
  <2>2. Heads(0)[1] < Size
    BY <2>1, RingsNow DEF Busy
  <2> QED
    BY <2>2 DEF HasDesc, Mode, Area, Size
<1> QED
  BY <1>1 DEF CanServe

LEMMA SubmitChangesRings ==
  ASSUME BlkType, Mode, On, RingInv, BlkType', Mode', On', NEW h \in free,
         avail' = [avail EXCEPT ![0] =
            [idx |-> (@.idx + 1) % IndexLimit, ring |-> [@.ring EXCEPT ![avail[0].idx % Size] = h]]],
         UNCHANGED <<queues, used, last_used>>, free' = free \ {h}
  PROVE  /\ Heads(0)' = Append(Heads(0), h) /\ Done' = Done /\ h \in Slot
         /\ h \notin Busy /\ Busy' = Busy \cup {h} /\ Size' = Size
         /\ RingInv'
<1>1. h \in Slot /\ h \in 0 .. (Size - 1) /\ free \in SUBSET (0 .. (Size - 1)) /\ Size' = Size
  BY RingTypes DEF Mode, Size
<1>2. Len(Done) + Len(Heads(0)) < Size /\ Len(Done) \in Nat /\ Len(Heads(0)) \in Nat
  BY <1>1, RingsNow, RingSequences, InFlightFits, FirstAndLast DEF RingInv, Busy
<1>3. Heads(0)' = Append(Heads(0), h)
  <2>1. /\ avail'[0].idx = (avail[0].idx + 1) % IndexLimit
        /\ avail'[0].ring = [avail[0].ring EXCEPT ![avail[0].idx % Size] = h]
    BY QueueFacts DEF BlkType
  <2>2. Gap(avail[0].idx, queues[0].last_avail_idx) < Size
    BY <1>2, RingsNow, RingSequences
  <2>3. Available' = Append(Available, h)
    <3>1. Available' = Window([avail[0].ring EXCEPT ![avail[0].idx % Size] = h],
                              queues[0].last_avail_idx, (avail[0].idx + 1) % IndexLimit, Size)
      BY <1>1, <2>1 DEF Available
    <3> QED
      <4> DEFINE n == Size  ring == avail[0].ring
                 from == queues[0].last_avail_idx  to == avail[0].idx
      <4>1. /\ IsSize(n) /\ from \in Index /\ to \in Index /\ ring \in [Slot -> Slot]
            /\ Gap(to, from) < n
        BY <2>2, RingsNow, RingTypes
      <4> HIDE DEF n, ring, from, to
      <4>2. Window([ring EXCEPT ![to % n] = h], from, (to + 1) % IndexLimit, n)
              = Append(Window(ring, from, to, n), h)
        BY <1>1, <4>1, WindowAppends
      <4> QED
        BY <3>1, <4>2 DEF Available, n, ring, from, to
  <2> QED
    BY <2>3, RingsNow, RingsAfter
<1>4. Done' = Done
  BY <1>1, RingsNow, RingsAfter DEF Completed
<1>5. h \notin Busy /\ Busy' = Busy \cup {h}
  BY <1>1 DEF Busy
<1>6. RingInv'
  <2>1. InFlight(Done, Append(Heads(0), h), Busy \cup {h})
    BY <1>1, <1>5, RingSequences, SubmittingKeepsInFlight DEF RingInv
  <2> QED
    BY <1>3, <1>4, <1>5, <2>1 DEF RingInv
<1> QED
  BY <1>1, <1>3, <1>4, <1>5, <1>6

LEMMA ServeChangesRings ==
  ASSUME BlkType, Mode, On, RingInv, BlkType', Mode', On', Heads(0) # <<>>,
         queues' = Fetched(0), used' = PutUsed(0, Heads(0)[1]),
         UNCHANGED <<avail, last_used, free>>
  PROVE  /\ Heads(0)' = Tail(Heads(0)) /\ Done' = Append(Done, Heads(0)[1])
         /\ Heads(0)[1] \in Busy /\ Heads(0)[1] \in Slot
         /\ Busy' = Busy /\ Size' = Size
         /\ RingInv'
<1> DEFINE h == Heads(0)[1]
<1>1. /\ queues'[0].last_avail_idx = (queues[0].last_avail_idx + 1) % IndexLimit
      /\ queues'[0].size = queues[0].size
  BY QueueFacts DEF Fetched, BlkType, QueueRecord
<1>2. Size' = Size /\ Busy' = Busy /\ free \in SUBSET (0 .. (Size - 1))
  BY <1>1 DEF Size, Busy, Mode
<1>3. h \in Slot /\ h \in Busy
  BY RingSequences, ServingKeepsInFlight DEF RingInv
<1>4. Len(Done) < Size
  <2>1. Len(Done) + Len(Heads(0)) <= Size
    BY <1>2, RingsNow, RingSequences, InFlightFits DEF RingInv, Busy
  <2>2. Len(Heads(0)) >= 1 /\ Len(Heads(0)) \in Nat /\ Len(Done) \in Nat /\ Size \in Nat
    BY RingsNow, RingSequences, FirstAndLast
  <2> QED
    BY <2>1, <2>2
<1>5. Heads(0)' = Tail(Heads(0))
  <2>1. queues[0].last_avail_idx # avail[0].idx
    BY RingSequences
  <2> QED
    BY <1>1, <1>2, <2>1, RingsNow, RingsAfter, RingTypes, WindowAdvances DEF Available
<1>6. Done' = Append(Done, h)
  <2>1. "used" \in queues[0].cached
    BY DEF Mode, Area
  <2>2. /\ used'[0].idx = (used[0].idx + 1) % IndexLimit
        /\ used'[0].ring = [used[0].ring EXCEPT ![used[0].idx % Size] = h]
    BY <2>1, QueueFacts DEF PutUsed, BlkType, Size
  <2>3. Gap(used[0].idx, last_used) < Size
    BY <1>4, RingSequences
  <2> HIDE DEF h
  <2>4. Completed' = Append(Completed, h)
    <3>1. Completed' = Window([used[0].ring EXCEPT ![used[0].idx % Size] = h],
                              last_used, (used[0].idx + 1) % IndexLimit, Size)
      BY <1>2, <2>2 DEF Completed
    <3> QED
      <4> DEFINE n == Size  ring == used[0].ring
                 from == last_used  to == used[0].idx
      <4>1. /\ IsSize(n) /\ from \in Index /\ to \in Index /\ ring \in [Slot -> Slot]
            /\ Gap(to, from) < n
        BY <2>3, RingsNow, RingTypes
      <4> HIDE DEF n, ring, from, to
      <4>2. Window([ring EXCEPT ![to % n] = h], from, (to + 1) % IndexLimit, n)
              = Append(Window(ring, from, to, n), h)
        BY <1>3, <4>1, WindowAppends
      <4> QED
        BY <3>1, <4>2 DEF Completed, n, ring, from, to
  <2> QED
    BY <2>4, RingsNow, RingsAfter
<1>7. RingInv'
  <2>1. InFlight(Append(Done, h), Tail(Heads(0)), Busy)
    BY RingSequences, ServingKeepsInFlight DEF RingInv
  <2> HIDE DEF h
  <2> QED
    BY <1>2, <1>5, <1>6, <2>1 DEF RingInv
<1> QED
  BY <1>2, <1>3, <1>5, <1>6, <1>7

LEMMA CollectChangesRings ==
  ASSUME BlkType, Mode, On, RingInv, BlkType', Mode', On', last_used # used[0].idx,
         UNCHANGED <<queues, avail, used>>,
         last_used' = (last_used + 1) % IndexLimit, free' = free \cup {Done[1]}
  PROVE  /\ Heads(0)' = Heads(0) /\ Done' = Tail(Done) /\ Done # <<>>
         /\ Done[1] \in Busy /\ Done[1] \in Slot
         /\ Busy' = Busy \ {Done[1]} /\ Size' = Size
         /\ RingInv'
<1>1. Size' = Size /\ Busy' = Busy \ {Done[1]}
  BY DEF Size, Busy
<1>2. Done # <<>>
  BY RingSequences
<1>3. Done[1] \in Slot /\ Done[1] \in Busy
  BY <1>2, RingSequences, CollectingKeepsInFlight DEF RingInv
<1>4. Heads(0)' = Heads(0)
  BY <1>1, RingsNow, RingsAfter DEF Available
<1>5. Done' = Tail(Done)
  BY <1>1, RingsNow, RingsAfter, RingTypes, WindowAdvances DEF Completed
<1>6. RingInv'
  BY <1>1, <1>2, <1>4, <1>5, RingSequences, CollectingKeepsInFlight DEF RingInv
<1> QED
  BY <1>1, <1>2, <1>3, <1>4, <1>5, <1>6

-----------------------------------------------------------------------------
(* Types and modes.                                                        *)
IrqFields == [state : IrqState, enabled : BOOLEAN, priority : Priority, route : Nat]

LEMMA GicCallsKeepType ==
  ASSUME GicTypeOK
  PROVE  /\ \A i \in Irq : RaiseSpi(i) => GicTypeOK' /\ are_ns' = are_ns
                                        /\ \A j \in Irq : irq'[j].enabled = irq[j].enabled
         /\ \A c \in Cpu : Acknowledge(c) => GicTypeOK' /\ are_ns' = are_ns
                                        /\ \A j \in Irq : irq'[j].enabled = irq[j].enabled
         /\ \A i \in Irq : Eoi(i) => GicTypeOK' /\ are_ns' = are_ns
                                   /\ \A j \in Irq : irq'[j].enabled = irq[j].enabled
         /\ CtlrWrite(TRUE) => GicTypeOK'
         /\ \A i \in Irq : EnableWrite(i, TRUE) => GicTypeOK'
<1>1. /\ irq \in [Irq -> IrqFields] /\ signal \in [Cpu -> SUBSET Irq]
      /\ are_ns \in BOOLEAN
  BY DEF GicTypeOK, IrqFields
<1>2. \A q \in IrqFields :
        /\ RaisedSpi(q) \in IrqFields /\ RaisedSpi(q).enabled = q.enabled
        /\ [q EXCEPT !.state = "ACTIVE"] \in IrqFields
        /\ [q EXCEPT !.state = "ACTIVE"].enabled = q.enabled
        /\ [q EXCEPT !.state = RetiredState(@)] \in IrqFields
        /\ [q EXCEPT !.state = RetiredState(@)].enabled = q.enabled
        /\ [q EXCEPT !.enabled = TRUE] \in IrqFields
  BY DEF IrqFields, RaisedSpi, RetiredState, IrqState
<1>3. ASSUME NEW i \in Irq, RaiseSpi(i)
      PROVE  GicTypeOK' /\ are_ns' = are_ns /\ \A j \in Irq : irq'[j].enabled = irq[j].enabled
  <2>1. irq' \in [Irq -> IrqFields] /\ \A j \in Irq : irq'[j].enabled = irq[j].enabled
    BY <1>1, <1>2, <1>3 DEF RaiseSpi
  <2>2. signal' \in [Cpu -> SUBSET Irq]
    BY <1>1, <1>3 DEF RaiseSpi, Announce
  <2> QED
    BY <1>3, <2>1, <2>2 DEF GicTypeOK, RaiseSpi, IrqFields
<1>4. ASSUME NEW c \in Cpu, Acknowledge(c)
      PROVE  GicTypeOK' /\ are_ns' = are_ns /\ \A j \in Irq : irq'[j].enabled = irq[j].enabled
  <2>1. irq' \in [Irq -> IrqFields] /\ \A j \in Irq : irq'[j].enabled = irq[j].enabled
    BY <1>1, <1>2, <1>4 DEF Acknowledge
  <2>2. signal' \in [Cpu -> SUBSET Irq]
    BY <1>1, <1>4 DEF Acknowledge
  <2> QED
    BY <1>4, <2>1, <2>2 DEF GicTypeOK, Acknowledge, IrqFields
<1>5. ASSUME NEW i \in Irq, Eoi(i)
      PROVE  GicTypeOK' /\ are_ns' = are_ns /\ \A j \in Irq : irq'[j].enabled = irq[j].enabled
  <2>1. irq' \in [Irq -> IrqFields] /\ \A j \in Irq : irq'[j].enabled = irq[j].enabled
    BY <1>1, <1>2, <1>5 DEF Eoi
  <2> QED
    BY <1>1, <1>5, <2>1 DEF GicTypeOK, Eoi, IrqFields
<1>6. ASSUME CtlrWrite(TRUE) PROVE GicTypeOK'
  BY <1>6 DEF GicTypeOK, CtlrWrite
<1>7. ASSUME NEW i \in Irq, EnableWrite(i, TRUE) PROVE GicTypeOK'
  <2>1. irq' \in [Irq -> IrqFields]
    BY <1>1, <1>2, <1>7 DEF EnableWrite
  <2> QED
    BY <1>1, <1>7, <2>1 DEF GicTypeOK, EnableWrite, IrqFields
<1> QED
  BY <1>3, <1>4, <1>5, <1>6, <1>7

LEMMA FollowingIndex == \A i \in Index : (i + 1) % IndexLimit \in Index
  BY GapSteps

TypeAndMode == BlkType /\ Mode

LEMMA SetupKeepsMode ==
  ASSUME TypeAndMode, Setup
  PROVE  TypeAndMode' /\ ~On /\ ~On'
<1> USE DEF TypeAndMode
<1>1. ~On /\ queues[0] \in QueueRecord /\ ~serving /\ ~queues[0].ready
      /\ queues[0].last_avail_idx = 0
  BY RingTypes DEF Setup, On, Mode
<1>2. /\ EmptyQueue \in QueueRecord /\ EmptyQueue.ready = FALSE /\ EmptyQueue.last_avail_idx = 0
      /\ EmptyRing.idx = 0
  BY QueueFacts DEF EmptyQueue, EmptyRing, QueueRecord
<1>3. ASSUME driver = "off", StatusWrite(FALSE), driver' = "clear",
             UNCHANGED <<blkVars, free, last_used, kick, settled, may>>
      PROVE  TypeAndMode' /\ ~On'
  <2>1. queues' \in [Queue -> QueueRecord]
    BY <1>2, <1>3 DEF StatusWrite, QueuesAfter, BlkType
  <2>2. ~queues'[0].ready /\ queues'[0].last_avail_idx = 0
    BY <1>1, <1>2, <1>3, QueueFacts DEF StatusWrite, QueuesAfter
  <2>3. BlkType'
    BY <1>3, <2>1 DEF BlkType, StatusWrite, DriverStates, blkVars, gicVars, GicTypeOK
  <2> QED
    BY <1>1, <1>3, <2>2, <2>3 DEF Mode, On, StatusWrite, blkVars
<1>4. ASSUME driver = "clear", driver' = "probe",
             avail' = [q \in Queue |-> EmptyRing], used' = [q \in Queue |-> EmptyRing],
             UNCHANGED <<status, queue_sel, queues, int_status, gicVars>>,
             UNCHANGED <<blkVars, free, last_used, kick, settled, may>>
      PROVE  TypeAndMode' /\ ~On'
  <2>1. EmptyRing \in RingRecord
    <3>1. 0 \in Slot
      BY VirtioConstants DEF Slot
    <3> QED
      BY <3>1, QueueFacts DEF EmptyRing, RingRecord
  <2>2. BlkType'
    BY <1>4, <2>1 DEF BlkType, DriverStates, blkVars, gicVars, GicTypeOK
  <2> QED
    BY <1>1, <1>2, <1>4, <2>2, QueueFacts DEF Mode, On, blkVars
<1>5. ASSUME driver = "probe", StatusWrite(TRUE), driver' = "select",
             UNCHANGED <<blkVars, free, last_used, kick, settled, may>>
      PROVE  TypeAndMode' /\ ~On'
  <2>1. queues' = queues /\ status' = TRUE /\ int_status' \in BOOLEAN
    BY <1>5 DEF StatusWrite, QueuesAfter, BlkType
  <2>2. BlkType'
    BY <1>5, <2>1 DEF BlkType, StatusWrite, DriverStates, blkVars, gicVars, GicTypeOK
  <2> QED
    BY <1>1, <1>5, <2>1, <2>2 DEF Mode, On, StatusWrite, blkVars
<1>6. ASSUME driver = "select", QueueSelWrite(0), driver' = "size",
             UNCHANGED <<blkVars, free, last_used, kick, settled, may>>
      PROVE  TypeAndMode' /\ ~On'
  <2>2. BlkType'
    BY <1>6 DEF BlkType, QueueSelWrite, DriverStates, blkVars, gicVars, GicTypeOK
  <2> QED
    BY <1>1, <1>6, <2>2 DEF Mode, On, QueueSelWrite, blkVars
<1>7. ASSUME driver = "size", driver' = "areas", NEW n \in Sizes, QueueNumWrite(n),
             UNCHANGED <<blkVars, free, last_used, kick, settled, may>>
      PROVE  TypeAndMode' /\ ~On'
  <2>1. queues' \in [Queue -> QueueRecord]
    BY <1>7, QueueFacts DEF QueueNumWrite, BlkType, QueueRecord
  <2>2. ~queues'[0].ready /\ queues'[0].last_avail_idx = 0 /\ queues'[0].size = n
    BY <1>1, <1>7, QueueFacts DEF QueueNumWrite, BlkType, QueueRecord
  <2>3. BlkType'
    BY <1>7, <2>1 DEF BlkType, QueueNumWrite, DriverStates, blkVars, gicVars, GicTypeOK
  <2> QED
    BY <1>1, <1>7, <2>2, <2>3 DEF Mode, On, Size, QueueNumWrite, blkVars
<1>8. ASSUME driver = "areas", UNCHANGED driver, NEW a \in Area, AreaWrite(a),
             UNCHANGED <<blkVars, free, last_used, kick, settled, may>>
      PROVE  TypeAndMode' /\ ~On'
  <2>1. queues' \in [Queue -> QueueRecord]
    BY <1>8, QueueFacts DEF AreaWrite, BlkType, QueueRecord
  <2>2. ~queues'[0].ready /\ queues'[0].last_avail_idx = 0 /\ queues'[0].size = queues[0].size
    BY <1>1, <1>8, QueueFacts DEF AreaWrite, BlkType, QueueRecord
  <2>3. BlkType'
    BY <1>8, <2>1 DEF BlkType, AreaWrite, DriverStates, blkVars, gicVars, GicTypeOK
  <2> QED
    BY <1>1, <1>8, <2>2, <2>3 DEF Mode, On, Size, AreaWrite, blkVars
<1>9. ASSUME driver = "areas", UNCHANGED driver, UNCHANGED virtioVars,
             CtlrWrite(TRUE) \/ EnableWrite(VirtioIrq, TRUE),
             UNCHANGED <<blkVars, free, last_used, kick, settled, may>>
      PROVE  TypeAndMode' /\ ~On'
  <2>1. GicTypeOK'
    BY <1>9, GicCallsKeepType, QueueFacts DEF BlkType
  <2>2. BlkType'
    BY <1>9, <2>1 DEF BlkType, DriverStates, blkVars, virtioVars
  <2> QED
    BY <1>1, <1>9, <2>2 DEF Mode, On, Size, blkVars, virtioVars
<1> QED
  BY <1>1, <1>3, <1>4, <1>5, <1>6, <1>7, <1>8, <1>9 DEF Setup

LEMMA ReadyKeepsMode ==
  ASSUME TypeAndMode, Ready
  PROVE  TypeAndMode' /\ ~On /\ On'
<1> USE DEF TypeAndMode
<1>1. queues' \in [Queue -> QueueRecord]
  <2>1. queues' = [queues EXCEPT ![0] = [queues[0] EXCEPT !.ready = TRUE]]
    BY QueueFacts DEF Ready, QueueReadyWrite, BlkType
  <2>2. [queues[0] EXCEPT !.ready = TRUE] \in QueueRecord
    BY RingTypes DEF QueueRecord
  <2> QED
    BY <2>1, <2>2 DEF BlkType
<1>2. queues'[0] = [queues[0] EXCEPT !.ready = TRUE]
  BY QueueFacts DEF Ready, QueueReadyWrite, BlkType
<1>3. /\ queues'[0].ready = TRUE /\ queues'[0].cached = Area /\ queues'[0].last_avail_idx = 0
      /\ queues'[0].size = queues[0].size /\ Size \in Sizes /\ Size' = Size
  BY <1>2, RingTypes DEF Ready, Mode, On, QueueRecord, Size
<1>4. 0 .. (Size - 1) \subseteq Slot
  BY <1>3, QueueFacts
<1>5. BlkType'
  BY <1>1, <1>4, QueueFacts
  DEF BlkType, Ready, QueueReadyWrite, DriverStates, blkVars, gicVars, GicTypeOK
<1> QED
  BY <1>3, <1>5 DEF Mode, Ready, QueueReadyWrite, On, gicVars, blkVars

LEMMA SubmitKeepsMode ==
  ASSUME TypeAndMode, NEW r \in Requests, Submit(r)
  PROVE  TypeAndMode' /\ On /\ On'
<1> USE DEF TypeAndMode
<1>1. PICK h \in free :
        /\ free' = free \ {h}
        /\ chain' = [chain EXCEPT ![h] = r]
        /\ reported' = [reported EXCEPT ![h] = "stale"]
        /\ avail' = [avail EXCEPT ![0] =
             [idx |-> (@.idx + 1) % IndexLimit, ring |-> [@.ring EXCEPT ![avail[0].idx % Size] = h]]]
        /\ may' = [g \in Slot |->
             IF g = h THEN IF r.type = "in" THEN settled \cup WritesInFlight ELSE {}
             ELSE IF r.type = "out" /\ Pending(g) /\ chain[g].type = "in"
                  THEN may[g] \cup {r.value} ELSE may[g]]
  BY DEF Submit
<1>2. h \in Slot /\ avail[0] \in RingRecord
  BY RingTypes
<1>3. avail' \in [Queue -> RingRecord]
  BY <1>1, <1>2, FollowingIndex DEF BlkType, RingRecord
<1>4. /\ reported' \in [Slot -> Status]
      /\ chain' = [g \in Slot |-> chain'[g]] /\ may' = [g \in Slot |-> may'[g]]
  <2>1. "stale" \in Status
    BY DEF Status
  <2> QED
    BY <1>1, <2>1 DEF BlkType
<1>5. BlkType'
  BY <1>1, <1>3, <1>4 DEF BlkType, Submit, gicVars, GicTypeOK
<1> QED
  BY <1>1, <1>5 DEF Mode, Submit, On, Size, gicVars

LEMMA NotifyKeepsMode ==
  ASSUME TypeAndMode, Notify
  PROVE  TypeAndMode' /\ On /\ On'
<1> USE DEF TypeAndMode
<1>1. BlkType'
  BY DEF BlkType, Notify, QueueNotify, virtioVars, gicVars, GicTypeOK
<1> QED
  BY <1>1 DEF Mode, Notify, QueueNotify, On, Size, virtioVars, gicVars

LEMMA ServeKeepsMode ==
  ASSUME TypeAndMode, ServeRequest, UNCHANGED driverOnly
  PROVE  TypeAndMode' /\ On /\ On'
<1> USE DEF TypeAndMode
<1>1. On /\ On' /\ Heads(0) # <<>> /\ Heads(0)[1] \in Slot
  BY RingSequences, FirstAndLast DEF ServeRequest, CanServe, Mode, On, driverOnly
<1>2. /\ queues' \in [Queue -> QueueRecord]
      /\ queues'[0] = [queues[0] EXCEPT !.last_avail_idx = (@ + 1) % IndexLimit]
  BY QueueFacts, FollowingIndex DEF ServeRequest, Fetched, BlkType, QueueRecord
<1>3. /\ queues'[0].ready = queues[0].ready /\ queues'[0].cached = queues[0].cached
      /\ queues'[0].size = queues[0].size
      /\ queues'[0].last_avail_idx = (queues[0].last_avail_idx + 1) % IndexLimit
  BY <1>2, RingTypes DEF QueueRecord
<1>4. /\ used' \in [Queue -> RingRecord]
      /\ used'[0].idx = (used[0].idx + 1) % IndexLimit
  <2>1. "used" \in queues[0].cached
    BY <1>1 DEF Mode, Area
  <2>2. used' = [used EXCEPT ![0] =
                  [idx  |-> (@.idx + 1) % IndexLimit,
                   ring |-> [@.ring EXCEPT ![used[0].idx % queues[0].size] = Heads(0)[1]]]]
    BY <2>1 DEF ServeRequest, PutUsed
  <2> QED
    BY <1>1, <2>2, QueueFacts, RingTypes, FollowingIndex DEF BlkType, RingRecord
<1>5. /\ reported' \in [Slot -> Status] /\ buffer' = [g \in Slot |-> buffer'[g]]
  <2>1. PICK result \in Results(chain[Heads(0)[1]]) :
          /\ buffer' = IF chain[Heads(0)[1]].type = "in" /\ result = "ok"
                       THEN [buffer EXCEPT ![Heads(0)[1]] = disk] ELSE buffer
          /\ reported' = IF Third(chain[Heads(0)[1]]) = "status"
                         THEN [reported EXCEPT ![Heads(0)[1]] = result] ELSE reported
    BY DEF ServeRequest
  <2>2. result \in Status
    BY <2>1 DEF Results, Status
  <2> QED
    BY <2>1, <2>2 DEF BlkType
<1>6. BlkType'
  BY <1>2, <1>4, <1>5 DEF BlkType, ServeRequest, driverOnly, gicVars, GicTypeOK
<1> QED
  BY <1>1, <1>3, <1>4, <1>6 DEF Mode, ServeRequest, On, Size, driverOnly, gicVars

LEMMA StopKeepsMode ==
  ASSUME TypeAndMode, RingInv, StopServing, UNCHANGED driverOnly
  PROVE  TypeAndMode' /\ On /\ On' /\ queues' = queues
<1> USE DEF TypeAndMode
<1>1. On /\ On'
  BY DEF StopServing, Mode, On, driverOnly
<1>2. queues' = queues
  BY <1>1, HeadsAreServed DEF StopServing
<1>3. GicTypeOK' /\ are_ns' = are_ns /\ irq'[VirtioIrq].enabled = irq[VirtioIrq].enabled
  BY GicCallsKeepType, QueueFacts DEF StopServing, RaiseInterrupt, BlkType
<1>4. BlkType'
  BY <1>2, <1>3 DEF BlkType, StopServing, RaiseInterrupt, driverOnly
<1> QED
  BY <1>1, <1>2, <1>3, <1>4 DEF Mode, StopServing, On, Size, driverOnly

LEMMA HandlerKeepsMode ==
  ASSUME TypeAndMode, Interrupt \/ Isr \/ Finish
  PROVE  TypeAndMode' /\ On /\ On'
<1> USE DEF TypeAndMode
<1>1. ASSUME Interrupt PROVE TypeAndMode' /\ On /\ On'
  <2>1. GicTypeOK' /\ are_ns' = are_ns /\ irq'[VirtioIrq].enabled = irq[VirtioIrq].enabled
    BY <1>1, GicCallsKeepType, QueueFacts DEF Interrupt, BlkType
  <2>2. BlkType'
    BY <1>1, <2>1 DEF BlkType, Interrupt, DriverStates, virtioVars, blkVars
  <2> QED
    BY <1>1, <2>1, <2>2 DEF Mode, Interrupt, On, Size, virtioVars, blkVars
<1>2. ASSUME Isr PROVE TypeAndMode' /\ On /\ On'
  <2>1. BlkType'
    BY <1>2 DEF BlkType, Isr, InterruptAck, DriverStates, blkVars, gicVars, GicTypeOK
  <2> QED
    BY <1>2, <2>1 DEF Mode, Isr, InterruptAck, On, Size, blkVars, gicVars
<1>3. ASSUME Finish PROVE TypeAndMode' /\ On /\ On'
  <2>1. GicTypeOK' /\ are_ns' = are_ns /\ irq'[VirtioIrq].enabled = irq[VirtioIrq].enabled
    BY <1>3, GicCallsKeepType, QueueFacts DEF Finish, BlkType
  <2>2. BlkType'
    BY <1>3, <2>1 DEF BlkType, Finish, DriverStates, virtioVars, blkVars
  <2> QED
    BY <1>3, <2>1, <2>2 DEF Mode, Finish, On, Size, virtioVars, blkVars
<1> QED
  BY <1>1, <1>2, <1>3

LEMMA CollectKeepsMode ==
  ASSUME TypeAndMode, RingInv, Collect
  PROVE  TypeAndMode' /\ On /\ On'
<1> USE DEF TypeAndMode
<1>1. On /\ On'
  BY DEF Collect, On
<1>2. Done # <<>> /\ Done[1] \in Slot /\ Done[1] \in Busy
  BY <1>1, RingSequences, CollectingKeepsInFlight DEF RingInv, Collect
<1>3. free' \in SUBSET (0 .. (Size - 1)) /\ free' \in SUBSET Slot /\ Size' = Size
  BY <1>1, <1>2 DEF Collect, Mode, Busy, BlkType, Size, virtioVars
<1>4. reported' \in [Slot -> Status]
  <2>1. "stale" \in Status
    BY DEF Status
  <2> QED
    BY <2>1 DEF Collect, BlkType
<1>5. last_used' \in Index
  BY FollowingIndex DEF Collect, BlkType
<1>6. /\ chain' = [g \in Slot |-> chain'[g]] /\ buffer' = [g \in Slot |-> buffer'[g]]
      /\ may' = [g \in Slot |-> may'[g]]
  <2>1. PICK h, b : /\ may' = [may EXCEPT ![h] = {}]
                    /\ chain' = [chain EXCEPT ![h] = NoRequest]
                    /\ buffer' = [buffer EXCEPT ![h] = b]
    BY DEF Collect
  <2>2. chain' = [g \in Slot |-> chain'[g]]
    BY <2>1 DEF BlkType
  <2>3. buffer' = [g \in Slot |-> buffer'[g]]
    BY <2>1 DEF BlkType
  <2>4. may' = [g \in Slot |-> may'[g]]
    BY <2>1 DEF BlkType
  <2> QED
    BY <2>2, <2>3, <2>4
<1>7. BlkType'
  BY <1>3, <1>4, <1>5, <1>6 DEF BlkType, Collect, virtioVars, gicVars, GicTypeOK
<1> QED
  BY <1>1, <1>3, <1>7 DEF Mode, Collect, On, virtioVars, gicVars

LEMMA ResetKeepsMode ==
  ASSUME TypeAndMode, Reset
  PROVE  TypeAndMode' /\ On /\ ~On'
<1> USE DEF TypeAndMode
<1>1. On /\ ~On' /\ status
  BY DEF Reset, On, Mode
<1>2. queues' = [q \in Queue |-> EmptyQueue]
  BY <1>1 DEF Reset, StatusWrite, QueuesAfter
<1>3. /\ EmptyQueue \in QueueRecord /\ EmptyQueue.ready = FALSE /\ EmptyQueue.last_avail_idx = 0
  BY QueueFacts DEF EmptyQueue, QueueRecord
<1>4. queues'[0] = EmptyQueue /\ queues' \in [Queue -> QueueRecord]
  BY <1>2, <1>3, QueueFacts
<1>5. BlkType'
  <2>1. /\ reported' \in [Slot -> Status] /\ chain' = [g \in Slot |-> chain'[g]]
        /\ buffer' = [g \in Slot |-> buffer'[g]] /\ may' = [g \in Slot |-> may'[g]]
    BY DEF Reset, Status
  <2> QED
    BY <1>4, <2>1, QueueFacts DEF BlkType, Reset, StatusWrite, DriverStates, gicVars, GicTypeOK
<1> QED
  BY <1>1, <1>3, <1>4, <1>5 DEF Mode, Reset, StatusWrite, gicVars

-----------------------------------------------------------------------------
(* What the disk holds and what reads return.                              *)

(* Request r is written to the descriptors at h.                           *)
LEMMA SubmittingKeepsContents ==
  ASSUME NEW d, NEW ch, NEW buf, NEW rep, NEW m, NEW P, NEW B \in SUBSET Slot,
         NEW S \in Seq(Slot), NEW T \in Seq(Slot), InFlight(S, T, B),
         Contents(d, ch, buf, rep, m, P, B, S, T),
         NEW h \in Slot \ B, NEW r \in Requests,
         NEW ch2, NEW rep2, NEW m2, NEW P2,
         ch2[h] = r, rep2[h] = "stale", r.type = "in" => P \subseteq m2[h],
         \A g \in B : ch2[g] = ch[g] /\ rep2[g] = rep[g] /\ m[g] \subseteq m2[g],
         \A g \in B : r.type = "out" /\ ch[g].type = "in" => r.value \in m2[g],
         P \subseteq P2, \A v \in P2 : v \in P \/ (r.type = "out" /\ v = r.value)
  PROVE  Contents(d, ch2, buf, rep2, m2, P2, B \cup {h}, S, Append(T, h))
<1>1. d \in P2
  BY DEF Contents
<1>2. ASSUME NEW g \in B \cup {h}
      PROVE  ch2[g] \in Requests /\ (ch2[g].type = "in" => P2 \subseteq m2[g])
  <2>1. CASE g = h
    <3>1. ch2[g] = r
      BY <2>1
    <3>2. ASSUME r.type = "in" PROVE P2 \subseteq m2[g]
      <4>1. P \subseteq m2[h]
        BY <3>2
      <4>2. r.type # "out"
        BY <3>2
      <4> QED
        BY <2>1, <4>1, <4>2
    <3> QED
      BY <3>1, <3>2
  <2>2. CASE g \in B
    <3>1. /\ ch[g] \in Requests /\ (ch[g].type = "in" => P \subseteq m[g])
          /\ ch2[g] = ch[g] /\ m[g] \subseteq m2[g]
      BY <2>2 DEF Contents
    <3>2. ASSUME ch[g].type = "in" PROVE P2 \subseteq m2[g]
      <4>1. P \subseteq m2[g] /\ (r.type = "out" => r.value \in m2[g])
        BY <2>2, <3>1, <3>2
      <4> QED
        BY <4>1
    <3> QED
      BY <3>1, <3>2
  <2> QED
    BY <2>1, <2>2
<1>3. (\A k \in DOMAIN S : S[k] \in B) /\ (\A k \in DOMAIN T : T[k] \in B)
  BY DEF InFlight, Places
<1>4. LastWrite(d, ch2, rep2, S)
  <2>1. LastWrite(d, ch, rep, S)
    BY DEF Contents
  <2> QED
    BY <1>3, <2>1 DEF LastWrite
<1>5. ReadsFit(ch2, buf, rep2, m2, S)
  <2>1. ReadsFit(ch, buf, rep, m, S)
    BY DEF Contents
  <2>2. ASSUME NEW k \in DOMAIN S, ch2[S[k]].type = "in", rep2[S[k]] = "ok"
        PROVE  buf[S[k]] \in m2[S[k]]
    <3>1. S[k] \in B
      BY <1>3, <2>2
    <3>2. ch2[S[k]] = ch[S[k]] /\ rep2[S[k]] = rep[S[k]] /\ m[S[k]] \subseteq m2[S[k]]
      BY <3>1
    <3>3. buf[S[k]] \in m[S[k]]
      BY <2>1, <2>2, <3>2 DEF ReadsFit
    <3> QED
      BY <3>2, <3>3
  <2> QED
    BY <2>2 DEF ReadsFit
<1>6. ASSUME NEW k \in DOMAIN Append(T, h) PROVE rep2[Append(T, h)[k]] = "stale"
  <2>1. CASE k = Len(T) + 1
    BY <2>1, FirstAndLast
  <2>2. CASE k # Len(T) + 1
    <3>1. k \in DOMAIN T /\ Append(T, h)[k] = T[k]
      BY <1>6, <2>2, FirstAndLast
    <3>2. T[k] \in B /\ rep[T[k]] = "stale"
      BY <1>3, <3>1 DEF Contents
    <3>3. rep2[T[k]] = rep[T[k]]
      BY <3>2
    <3> QED
      BY <3>1, <3>2, <3>3
  <2> QED
    BY <2>1, <2>2
<1> QED
  BY <1>1, <1>2, <1>4, <1>5, <1>6 DEF Contents

(* The device serves the first head available, h, of the busy heads B.     *)
ServedAs(d, ch, buf, rep, B, h, d2, buf2, rep2) ==
  \E result \in Results(ch[h]) :
    /\ d2 \in DiskAfter(d, ch[h], result)
    /\ \A g \in B \ {h} : buf2[g] = buf[g] /\ rep2[g] = rep[g]
    /\ ch[h].type = "in" /\ result = "ok" => buf2[h] = d
    /\ rep2[h] = IF Third(ch[h]) = "status" THEN result ELSE rep[h]

LEMMA ServingKeepsContents ==
  ASSUME NEW d, NEW ch, NEW buf, NEW rep, NEW m, NEW P, NEW B \in SUBSET Slot,
         NEW S \in Seq(Slot), NEW T \in Seq(Slot), InFlight(S, T, B), T # <<>>,
         Contents(d, ch, buf, rep, m, P, B, S, T),
         ch[T[1]].type = "out" => ch[T[1]].value \in P,
         NEW d2, NEW buf2, NEW rep2, ServedAs(d, ch, buf, rep, B, T[1], d2, buf2, rep2)
  PROVE  Contents(d2, ch, buf2, rep2, m, P, B, Append(S, T[1]), Tail(T))
<1> DEFINE h == T[1]
           r == ch[h]
<1>0. /\ h \in Slot /\ h = T[1] /\ r = ch[h] /\ (r.type = "out" => r.value \in P)
      /\ ServedAs(d, ch, buf, rep, B, h, d2, buf2, rep2)
  BY FirstAndLast
<1>p. PICK result \in Results(r) :
        /\ d2 \in DiskAfter(d, r, result)
        /\ \A g \in B \ {h} : buf2[g] = buf[g] /\ rep2[g] = rep[g]
        /\ r.type = "in" /\ result = "ok" => buf2[h] = d
        /\ rep2[h] = IF Third(r) = "status" THEN result ELSE rep[h]
  BY DEF ServedAs
<1> HIDE DEF h, r
<1>1. /\ h \in B /\ h \notin Places(S) /\ h \notin Places(Tail(T)) /\ Places(Tail(T)) \subseteq Places(T)
      /\ Places(S) \subseteq B /\ Places(T) \subseteq B
  BY <1>0, ServingKeepsInFlight, PlacesChange DEF InFlight
<1>2. r \in Request /\ rep[h] = "stale"
  <2>1. 1 \in DOMAIN T
    BY FirstAndLast
  <2> QED
    BY <1>0, <1>1, <2>1, DriverConstants DEF Contents
<1>3. /\ d2 = d \/ (r.type = "out" /\ d2 = r.value)
      /\ r.type = "out" /\ result = "ok" => d2 = r.value
      /\ rep2[h] = "ok" => result = "ok"
  BY <1>2, <1>p DEF DiskAfter, Results
<1> DEFINE A == Append(S, h)
           n == Len(S) + 1
<1>4. /\ n \in Nat /\ DOMAIN A = 1 .. n /\ DOMAIN S = 1 .. (n - 1) /\ A[n] = h
      /\ \A k \in DOMAIN S : A[k] = S[k]
  BY <1>0, FirstAndLast
<1> HIDE DEF A, n
<1>5. \A k \in DOMAIN S : S[k] \in B \ {h}
  BY <1>1 DEF Places
<1>6. d2 \in P
  BY <1>0, <1>3 DEF Contents
<1>7. ASSUME NEW k \in DOMAIN A, ch[A[k]].type = "out", rep2[A[k]] = "ok"
      PROVE  \E j \in DOMAIN A : j >= k /\ ch[A[j]].type = "out" /\ d2 = ch[A[j]].value
  <2>1. n \in DOMAIN A /\ n >= k
    BY <1>4
  <2>2. ASSUME r.type = "out", d2 = r.value
        PROVE  \E j \in DOMAIN A : j >= k /\ ch[A[j]].type = "out" /\ d2 = ch[A[j]].value
    BY <1>0, <1>4, <2>1, <2>2
  <2>3. CASE k = n
    BY <1>0, <1>3, <1>4, <1>7, <2>2, <2>3
  <2>4. CASE k # n
    <3>1. k \in DOMAIN S /\ A[k] = S[k] /\ rep[S[k]] = "ok"
      BY <1>4, <1>5, <1>7, <1>p, <2>4
    <3>2. PICK j \in DOMAIN S : j >= k /\ ch[S[j]].type = "out" /\ d = ch[S[j]].value
      BY <1>7, <3>1 DEF Contents, LastWrite
    <3>3. j \in DOMAIN A /\ A[j] = S[j]
      BY <1>4, <3>2
    <3> QED
      BY <1>3, <2>2, <3>2, <3>3
  <2> QED
    BY <2>3, <2>4
<1>8. ASSUME NEW k \in DOMAIN A, ch[A[k]].type = "in", rep2[A[k]] = "ok"
      PROVE  buf2[A[k]] \in m[A[k]]
  <2>1. CASE k = n
    <3>1. A[k] = h /\ r.type = "in" /\ result = "ok"
      BY <1>0, <1>3, <1>4, <1>8, <2>1
    <3>2. buf2[h] = d /\ d \in P /\ P \subseteq m[h]
      BY <1>0, <1>1, <1>p, <3>1 DEF Contents
    <3> QED
      BY <3>1, <3>2
  <2>2. CASE k # n
    <3>1. k \in DOMAIN S /\ A[k] = S[k] /\ rep[S[k]] = "ok" /\ buf2[S[k]] = buf[S[k]]
      BY <1>4, <1>5, <1>8, <1>p, <2>2
    <3> QED
      BY <1>8, <3>1 DEF Contents, ReadsFit
  <2> QED
    BY <2>1, <2>2
<1>9. ASSUME NEW k \in DOMAIN Tail(T) PROVE rep2[Tail(T)[k]] = "stale"
  <2>1. k + 1 \in DOMAIN T /\ Tail(T)[k] = T[k + 1]
    BY <1>9, FirstAndLast
  <2>2. Tail(T)[k] \in B \ {h}
    BY <1>1, <1>9 DEF Places
  <2> QED
    BY <1>p, <2>1, <2>2 DEF Contents
<1>10. \A g \in B : ch[g] \in Requests /\ (ch[g].type = "in" => P \subseteq m[g])
  BY DEF Contents
<1>11. LastWrite(d2, ch, rep2, A) /\ ReadsFit(ch, buf2, rep2, m, A)
  BY <1>7, <1>8 DEF LastWrite, ReadsFit
<1> QED
  BY <1>6, <1>9, <1>10, <1>11 DEF Contents, A, h

(* The driver collects the first head done.                                *)
LEMMA CollectingKeepsContents ==
  ASSUME NEW d, NEW ch, NEW buf, NEW rep, NEW m, NEW P, NEW B \in SUBSET Slot,
         NEW S \in Seq(Slot), NEW T \in Seq(Slot), InFlight(S, T, B), S # <<>>,
         Contents(d, ch, buf, rep, m, P, B, S, T),
         NEW h \in Slot, h = S[1],
         NEW ch2, NEW buf2, NEW rep2, NEW m2, NEW P2 \in SUBSET P,
         \A g \in B \ {h} : /\ ch2[g] = ch[g] /\ buf2[g] = buf[g] /\ rep2[g] = rep[g]
                          /\ m2[g] = m[g],
         \/ d \in P2
         \/ /\ ch[h].type = "out" /\ rep[h] = "ok" /\ ch[h].value \in P2
            /\ \A g \in B \ {h} : ch[g].type = "out" => ch[g].value \in P2
  PROVE  Contents(d, ch2, buf2, rep2, m2, P2, B \ {h}, Tail(S), T)
<1>1. /\ h \in B /\ h \notin Places(Tail(S)) /\ h \notin Places(T)
      /\ Places(S) \subseteq B /\ Places(T) \subseteq B
  BY CollectingKeepsInFlight DEF InFlight
<1>2. /\ DOMAIN S = 1 .. Len(S) /\ Len(S) \in Nat /\ Len(S) >= 1
      /\ DOMAIN Tail(S) = 1 .. (Len(S) - 1)
      /\ \A k \in DOMAIN Tail(S) : Tail(S)[k] = S[k + 1]
  BY FirstAndLast
<1>3. \A k \in DOMAIN Tail(S) : Tail(S)[k] \in B \ {h}
  <2> TAKE k \in DOMAIN Tail(S)
  <2>1. Tail(S)[k] \in Places(Tail(S)) /\ k + 1 \in DOMAIN S
    BY <1>2 DEF Places
  <2>2. S[k + 1] \in B
    BY <1>1, <2>1 DEF Places
  <2> QED
    BY <1>1, <1>2, <2>1, <2>2
<1>4. \A k \in DOMAIN T : T[k] \in B \ {h}
  BY <1>1 DEF Places
<1>5. d \in P2
  <2>1. ASSUME ch[h].type = "out", rep[h] = "ok", ch[h].value \in P2,
               \A g \in B \ {h} : ch[g].type = "out" => ch[g].value \in P2
        PROVE  d \in P2
    <3>1. PICK j \in DOMAIN S : ch[S[j]].type = "out" /\ d = ch[S[j]].value
      <4>1. 1 \in DOMAIN S
        BY <1>2
      <4> QED
        BY <2>1, <4>1 DEF Contents, LastWrite
    <3>2. S[j] \in B
      BY <1>1, <3>1 DEF Places
    <3> QED
      BY <2>1, <3>1, <3>2
  <2> QED
    BY <2>1
<1>6. \A g \in B \ {h} : ch2[g] \in Requests /\ (ch2[g].type = "in" => P2 \subseteq m2[g])
  BY DEF Contents
<1>7. ASSUME NEW k \in DOMAIN Tail(S), ch2[Tail(S)[k]].type = "out", rep2[Tail(S)[k]] = "ok"
      PROVE  \E j \in DOMAIN Tail(S) : /\ j >= k /\ ch2[Tail(S)[j]].type = "out"
                                      /\ d = ch2[Tail(S)[j]].value
  <2>1. /\ k + 1 \in DOMAIN S /\ Tail(S)[k] = S[k + 1] /\ k \in Nat
        /\ ch[S[k + 1]].type = "out" /\ rep[S[k + 1]] = "ok"
    BY <1>2, <1>3, <1>7
  <2>2. PICK j \in DOMAIN S : j >= k + 1 /\ ch[S[j]].type = "out" /\ d = ch[S[j]].value
    BY <2>1 DEF Contents, LastWrite
  <2>3. j - 1 \in DOMAIN Tail(S) /\ j - 1 >= k /\ Tail(S)[j - 1] = S[j]
    <3>1. j \in 1 .. Len(S) /\ j - 1 \in 1 .. (Len(S) - 1) /\ (j - 1) + 1 = j /\ k \in 1 .. (Len(S) - 1)
      BY <1>2, <2>1, <2>2
    <3> QED
      BY <1>2, <2>2, <3>1
  <2>4. ch2[Tail(S)[j - 1]] = ch[S[j]]
    BY <1>3, <2>3
  <2> QED
    BY <2>2, <2>3, <2>4
<1>8. ReadsFit(ch2, buf2, rep2, m2, Tail(S))
  <2>1. ASSUME NEW k \in DOMAIN Tail(S), ch2[Tail(S)[k]].type = "in", rep2[Tail(S)[k]] = "ok"
        PROVE  buf2[Tail(S)[k]] \in m2[Tail(S)[k]]
    <3>1. k + 1 \in DOMAIN S /\ Tail(S)[k] = S[k + 1] /\ S[k + 1] \in B \ {h}
      BY <1>2, <1>3
    <3> QED
      BY <2>1, <3>1 DEF Contents, ReadsFit
  <2> QED
    BY <2>1 DEF ReadsFit
<1>9. \A k \in DOMAIN T : rep2[T[k]] = "stale"
  BY <1>4 DEF Contents
<1> QED
  BY <1>5, <1>6, <1>7, <1>8, <1>9 DEF Contents, LastWrite

(* What the disk may hold, of the requests ch at the heads B.              *)
Holds(s, ch, B) == s \cup {ch[g].value : g \in {b \in B : ch[b].type = "out"}}

LEMMA PossibleNow ==
  ASSUME TypeAndMode
  PROVE  /\ On => /\ Possible = Holds(settled, chain, Busy) /\ Busy \in SUBSET Slot
                  /\ \A g \in Slot : Pending(g) <=> g \in Busy
         /\ ~On => Possible = settled
<1>1. ASSUME On
      PROVE  /\ Possible = Holds(settled, chain, Busy) /\ Busy \in SUBSET Slot
             /\ \A g \in Slot : Pending(g) <=> g \in Busy
  <2>1. Busy \in SUBSET Slot
    BY <1>1, RingsNow DEF Busy, TypeAndMode
  <2>2. \A g \in Slot : Pending(g) <=> g \in Busy
    BY <1>1 DEF Pending, Busy
  <2>3. {g \in Slot : Pending(g) /\ chain[g].type = "out"} = {b \in Busy : chain[b].type = "out"}
    BY <2>1, <2>2
  <2> QED
    BY <2>1, <2>2, <2>3 DEF Possible, Holds, WritesInFlight
<1>2. ASSUME ~On PROVE Possible = settled
  BY <1>2 DEF Possible, WritesInFlight, Pending
<1> QED
  BY <1>1, <1>2

LEMMA PossibleAfter ==
  ASSUME TypeAndMode'
  PROVE  /\ On' => Possible' = Holds(settled', chain', Busy')
         /\ ~On' => Possible' = settled'
<1>1. ASSUME On' PROVE Possible' = Holds(settled', chain', Busy')
  <2>1. Busy' \in SUBSET Slot
    BY <1>1, RingsAfter DEF Busy, TypeAndMode
  <2>2. \A g \in Slot : Pending(g)' <=> g \in Busy'
    BY <1>1 DEF Pending, Busy
  <2>3. {g \in Slot : Pending(g)' /\ chain'[g].type = "out"} = {b \in Busy' : chain'[b].type = "out"}
    BY <2>1, <2>2
  <2> QED
    BY <2>1, <2>3 DEF Possible, Holds, WritesInFlight
<1>2. ASSUME ~On' PROVE Possible' = settled'
  BY <1>2 DEF Possible, WritesInFlight, Pending
<1> QED
  BY <1>1, <1>2

RingsAndData == RingInv /\ DataInv

LEMMA OffKeepsData ==
  ASSUME TypeAndMode', ~On', disk' \in settled'
  PROVE  RingsAndData'
<1>1. Possible' = settled'
  BY PossibleAfter
<1> QED
  BY <1>1 DEF RingsAndData, RingInv, DataInv

LEMMA StillKeepsData ==
  ASSUME TypeAndMode, TypeAndMode', On, On', RingsAndData,
         UNCHANGED <<queues, avail, used, last_used, free>>,
         UNCHANGED <<disk, chain, buffer, reported, may, settled>>
  PROVE  RingsAndData'
<1>1. Heads(0)' = Heads(0) /\ Done' = Done /\ Busy' = Busy
  BY DEF Heads, HeadAt, Waiting, Done, Busy, Size
<1>2. Possible' = Possible
  BY <1>1, PossibleNow, PossibleAfter
<1> QED
  BY <1>1, <1>2 DEF RingsAndData, RingInv, DataInv

LEMMA ReadyStartsData ==
  ASSUME TypeAndMode, RingsAndData, Ready
  PROVE  RingsAndData' /\ Heads(0)' = <<>> /\ Done' = <<>>
<1>1. TypeAndMode' /\ ~On /\ On'
  BY ReadyKeepsMode
<1>2. Heads(0)' = <<>> /\ Done' = <<>>
  <2>1. /\ avail'[0].idx = 0 /\ used'[0].idx = 0 /\ last_used' = 0
        /\ queues'[0].last_avail_idx = 0
    BY <1>1 DEF Ready, QueueReadyWrite, Mode, TypeAndMode
  <2>2. (0 + IndexLimit - 0) % IndexLimit = 0
    BY QueueFacts, GapSteps DEF Gap
  <2>3. Waiting(0)' = 0 /\ (used'[0].idx + IndexLimit - last_used') % IndexLimit = 0
    BY <2>1, <2>2 DEF Waiting
  <2>4. Done' = <<>>
    BY <2>3 DEF Done
  <2>5. Heads(0)' = <<>>
    BY <2>3 DEF Heads
  <2> QED
    BY <2>4, <2>5
<1>3. Busy' = {}
  <2>1. Size' = Size
    BY QueueFacts, RingTypes DEF Ready, QueueReadyWrite, Size, TypeAndMode, BlkType, QueueRecord
  <2> QED
    BY <2>1 DEF Ready, Busy
<1>4. disk' \in Possible'
  <2>1. Possible' = Holds(settled', chain', {})
    BY <1>1, <1>3, PossibleAfter
  <2>2. Possible = settled
    BY <1>1, PossibleNow
  <2> QED
    BY <2>1, <2>2 DEF Holds, Ready, blkVars, RingsAndData, DataInv
<1>5. Contents(disk', chain', buffer', reported', may', Possible', {}, <<>>, <<>>)
  BY <1>4 DEF Contents, LastWrite, ReadsFit
<1>6. InFlight(<<>>, <<>>, {})
  BY FS_EmptySet DEF InFlight, Once, Places
<1> QED
  BY <1>2, <1>3, <1>4, <1>5, <1>6 DEF RingsAndData, RingInv, DataInv

LEMMA SubmitKeepsData ==
  ASSUME TypeAndMode, RingsAndData, NEW r \in Requests, Submit(r)
  PROVE  /\ RingsAndData'
         /\ \E h \in Slot : h \notin Busy /\ Heads(0)' = Append(Heads(0), h)
         /\ Done' = Done
<1>1. TypeAndMode' /\ On /\ On'
  BY SubmitKeepsMode
<1>2. PICK h \in free :
        /\ free' = free \ {h}
        /\ chain' = [chain EXCEPT ![h] = r]
        /\ reported' = [reported EXCEPT ![h] = "stale"]
        /\ avail' = [avail EXCEPT ![0] =
             [idx |-> (@.idx + 1) % IndexLimit, ring |-> [@.ring EXCEPT ![avail[0].idx % Size] = h]]]
        /\ may' = [g \in Slot |->
             IF g = h THEN IF r.type = "in" THEN settled \cup WritesInFlight ELSE {}
             ELSE IF r.type = "out" /\ Pending(g) /\ chain[g].type = "in"
                  THEN may[g] \cup {r.value} ELSE may[g]]
  BY DEF Submit
<1>3. /\ Heads(0)' = Append(Heads(0), h) /\ Done' = Done /\ h \in Slot
      /\ h \notin Busy /\ Busy' = Busy \cup {h} /\ RingInv'
  BY <1>1, <1>2, SubmitChangesRings DEF TypeAndMode, RingsAndData, Submit
<1>4. /\ Possible = Holds(settled, chain, Busy) /\ Busy \in SUBSET Slot
      /\ \A g \in Slot : Pending(g) <=> g \in Busy
      /\ Possible' = Holds(settled, chain', Busy \cup {h})
  BY <1>1, <1>3, PossibleNow, PossibleAfter DEF Submit
<1>5. /\ chain'[h] = r /\ reported'[h] = "stale"
      /\ \A g \in Busy : chain'[g] = chain[g] /\ reported'[g] = reported[g]
  BY <1>2, <1>3, <1>4 DEF TypeAndMode, BlkType
<1>6. /\ r.type = "in" => Possible \subseteq may'[h]
      /\ \A g \in Busy : may[g] \subseteq may'[g]
      /\ \A g \in Busy : r.type = "out" /\ chain[g].type = "in" => r.value \in may'[g]
  BY <1>2, <1>3, <1>4 DEF Possible
<1>7. /\ Possible \subseteq Possible'
      /\ \A v \in Possible' : v \in Possible \/ (r.type = "out" /\ v = r.value)
  BY <1>4, <1>5 DEF Holds
<1>8. disk \in Possible /\ Contents(disk, chain, buffer, reported, may, Possible, Busy, Done, Heads(0))
      /\ InFlight(Done, Heads(0), Busy)
  BY <1>1 DEF RingsAndData, DataInv, RingInv
<1>9. Contents(disk, chain', buffer, reported', may', Possible', Busy \cup {h}, Done, Append(Heads(0), h))
  <2> DEFINE P == Possible  P2 == Possible'  B == Busy  S == Done  T == Heads(0)
             ch2 == chain'  rep2 == reported'  m2 == may'
  <2>1. S \in Seq(Slot) /\ T \in Seq(Slot) /\ B \in SUBSET Slot /\ h \in Slot \ B
    BY <1>1, <1>3, <1>4, RingSequences DEF TypeAndMode
  <2>2. /\ InFlight(S, T, B) /\ Contents(disk, chain, buffer, reported, may, P, B, S, T)
        /\ ch2[h] = r /\ rep2[h] = "stale" /\ (r.type = "in" => P \subseteq m2[h])
        /\ \A g \in B : ch2[g] = chain[g] /\ rep2[g] = reported[g] /\ may[g] \subseteq m2[g]
        /\ \A g \in B : r.type = "out" /\ chain[g].type = "in" => r.value \in m2[g]
        /\ P \subseteq P2 /\ \A v \in P2 : v \in P \/ (r.type = "out" /\ v = r.value)
    BY <1>5, <1>6, <1>7, <1>8
  <2> HIDE DEF P, P2, B, S, T, ch2, rep2, m2
  <2>3. Contents(disk, ch2, buffer, rep2, m2, P2, B \cup {h}, S, Append(T, h))
    BY <2>1, <2>2, SubmittingKeepsContents
  <2> QED
    BY <2>3 DEF P2, B, S, T, ch2, rep2, m2
<1>10. disk' = disk /\ buffer' = buffer
  BY DEF Submit
<1>11. DataInv'
  BY <1>3, <1>7, <1>8, <1>9, <1>10 DEF DataInv
<1> QED
  BY <1>3, <1>11 DEF RingsAndData

LEMMA ServeKeepsData ==
  ASSUME TypeAndMode, RingsAndData, ServeRequest, UNCHANGED driverOnly
  PROVE  /\ RingsAndData' /\ Heads(0) # <<>>
         /\ Heads(0)' = Tail(Heads(0)) /\ Done' = Append(Done, Heads(0)[1])
<1> DEFINE h == Heads(0)[1]
           r == chain[h]
<1>1. TypeAndMode' /\ On /\ On' /\ Heads(0) # <<>>
  BY ServeKeepsMode DEF ServeRequest, CanServe
<1>2. /\ Heads(0)' = Tail(Heads(0)) /\ Done' = Append(Done, h)
      /\ h \in Busy /\ h \in Slot /\ Busy' = Busy /\ RingInv'
  BY <1>1, ServeChangesRings DEF TypeAndMode, RingsAndData, ServeRequest, driverOnly
<1>3. /\ Possible = Holds(settled, chain, Busy) /\ Busy \in SUBSET Slot
      /\ Possible' = Possible
  BY <1>1, <1>2, PossibleNow, PossibleAfter DEF ServeRequest, driverOnly
<1>4. PICK result \in Results(r) :
        /\ disk' \in DiskAfter(disk, r, result)
        /\ buffer' = IF r.type = "in" /\ result = "ok"
                     THEN [buffer EXCEPT ![h] = disk] ELSE buffer
        /\ reported' = IF Third(r) = "status" THEN [reported EXCEPT ![h] = result] ELSE reported
  BY DEF ServeRequest
<1>5. /\ \A g \in Busy \ {h} : buffer'[g] = buffer[g] /\ reported'[g] = reported[g]
      /\ r.type = "in" /\ result = "ok" => buffer'[h] = disk
      /\ reported'[h] = IF Third(r) = "status" THEN result ELSE reported[h]
  <2> HIDE DEF h, r
  <2>1. /\ buffer = [g \in Slot |-> buffer[g]] /\ reported \in [Slot -> Status]
        /\ h \in Slot /\ Busy \in SUBSET Slot
    BY <1>2, <1>3 DEF TypeAndMode, BlkType
  <2>2. /\ \A g \in Busy \ {h} : buffer'[g] = buffer[g]
        /\ r.type = "in" /\ result = "ok" => buffer'[h] = disk
    BY <1>4, <2>1
  <2>3. /\ \A g \in Busy \ {h} : reported'[g] = reported[g]
        /\ reported'[h] = IF Third(r) = "status" THEN result ELSE reported[h]
    BY <1>4, <2>1
  <2> QED
    BY <2>2, <2>3
<1>6. /\ Contents(disk, chain, buffer, reported, may, Possible, Busy, Done, Heads(0))
      /\ InFlight(Done, Heads(0), Busy)
  BY <1>1 DEF RingsAndData, DataInv, RingInv
<1>7. r \in Requests /\ (r.type = "out" => r.value \in Possible)
  BY <1>2, <1>3, <1>6 DEF Contents, Holds
<1>8. Contents(disk', chain, buffer', reported', may, Possible, Busy,
               Append(Done, h), Tail(Heads(0)))
  <2> DEFINE P == Possible  B == Busy  S == Done  T == Heads(0)
             d2 == disk'  buf2 == buffer'  rep2 == reported'
  <2>1. S \in Seq(Slot) /\ T \in Seq(Slot) /\ B \in SUBSET Slot /\ h \in Slot
    BY <1>1, <1>2, <1>3, RingSequences DEF TypeAndMode
  <2>2. /\ InFlight(S, T, B) /\ T # <<>> /\ Contents(disk, chain, buffer, reported, may, P, B, S, T)
        /\ (chain[T[1]].type = "out" => chain[T[1]].value \in P)
        /\ ServedAs(disk, chain, buffer, reported, B, T[1], d2, buf2, rep2)
    BY <1>1, <1>4, <1>5, <1>6, <1>7 DEF ServedAs
  <2> HIDE DEF P, B, S, T, d2, buf2, rep2
  <2>3. Contents(d2, chain, buf2, rep2, may, P, B, Append(S, T[1]), Tail(T))
    BY <2>1, <2>2, ServingKeepsContents
  <2> QED
    BY <2>3 DEF P, B, S, T, d2, buf2, rep2
<1>9. chain' = chain /\ may' = may
  BY DEF ServeRequest, driverOnly
<1>10. disk' \in Possible
  BY <1>8 DEF Contents
<1>11. DataInv'
  BY <1>2, <1>3, <1>8, <1>9, <1>10 DEF DataInv
<1> QED
  BY <1>1, <1>2, <1>11 DEF RingsAndData

LEMMA CollectKeepsData ==
  ASSUME TypeAndMode, RingsAndData, Collect
  PROVE  /\ RingsAndData'
         /\ Heads(0)' = Heads(0) /\ Done' = Tail(Done) /\ Done # <<>>
<1> DEFINE h == Done[1]
<1>1. TypeAndMode' /\ On /\ On'
  BY CollectKeepsMode DEF RingsAndData
<1>2. /\ Heads(0)' = Heads(0) /\ Done' = Tail(Done) /\ Done # <<>>
      /\ h \in Busy /\ h \in Slot /\ Busy' = Busy \ {h} /\ RingInv'
  BY <1>1, CollectChangesRings DEF TypeAndMode, RingsAndData, Collect, virtioVars
<1>3. PICK b : /\ may' = [may EXCEPT ![h] = {}]
               /\ chain' = [chain EXCEPT ![h] = NoRequest]
               /\ buffer' = [buffer EXCEPT ![h] = b]
               /\ reported' = [reported EXCEPT ![h] = "stale"]
  BY DEF Collect
<1> DEFINE B == Busy
<1>4. B \in SUBSET Slot /\ Possible = Holds(settled, chain, B)
      /\ Possible' = Holds(settled', chain', B \ {h})
  BY <1>1, <1>2, PossibleNow, PossibleAfter
<1>5. settled' = IF chain[h].type # "out" THEN settled
                 ELSE IF reported[h] = "ok" THEN {chain[h].value}
                 ELSE settled \cup {chain[h].value}
  BY DEF Collect
<1>6. h \in B /\ h \in Slot
  BY <1>2
<1>7. /\ Contents(disk, chain, buffer, reported, may, Possible, B, Done, Heads(0))
      /\ InFlight(Done, Heads(0), B) /\ disk \in Possible
  BY <1>1 DEF RingsAndData, DataInv, RingInv
<1>a. Done \in Seq(Slot) /\ Heads(0) \in Seq(Slot)
  BY <1>1, RingSequences DEF TypeAndMode
<1> HIDE DEF h, B
<1>8. \A g \in B \ {h} : /\ chain'[g] = chain[g] /\ buffer'[g] = buffer[g]
                         /\ reported'[g] = reported[g] /\ may'[g] = may[g]
  <2>1. \A g \in B \ {h} : g \in Slot /\ g # h
    BY <1>4
  <2>2. \A g \in B \ {h} : chain'[g] = chain[g] /\ may'[g] = may[g]
    BY <1>3, <2>1 DEF TypeAndMode, BlkType
  <2>3. \A g \in B \ {h} : buffer'[g] = buffer[g] /\ reported'[g] = reported[g]
    BY <1>3, <2>1 DEF TypeAndMode, BlkType
  <2> QED
    BY <2>2, <2>3
<1>9. Possible' = Holds(settled', chain, B \ {h})
  <2>1. \A g \in B \ {h} : chain'[g] = chain[g]
    BY <1>8
  <2> QED
    BY <1>4, <2>1 DEF Holds
<1>10. /\ Possible' \subseteq Possible
       /\ \/ Possible' = Possible
          \/ /\ chain[h].type = "out" /\ reported[h] = "ok" /\ chain[h].value \in Possible'
             /\ \A g \in B \ {h} : chain[g].type = "out" => chain[g].value \in Possible'
  <2>1. CASE chain[h].type # "out"
    BY <1>4, <1>5, <1>9, <2>1 DEF Holds
  <2>2. CASE chain[h].type = "out" /\ reported[h] # "ok"
    BY <1>4, <1>5, <1>6, <1>9, <2>2 DEF Holds
  <2>3. CASE chain[h].type = "out" /\ reported[h] = "ok"
    BY <1>4, <1>5, <1>6, <1>9, <2>3 DEF Holds
  <2> QED
    BY <2>1, <2>2, <2>3
<1>11. Contents(disk, chain', buffer', reported', may', Possible', B \ {h}, Tail(Done), Heads(0))
  <2> DEFINE P == Possible  P2 == Possible'  S == Done  T == Heads(0)
             ch2 == chain'  buf2 == buffer'  rep2 == reported'  m2 == may'
  <2>1. /\ S \in Seq(Slot) /\ T \in Seq(Slot) /\ B \in SUBSET Slot /\ h \in Slot
        /\ P2 \in SUBSET P
    BY <1>4, <1>6, <1>10, <1>a
  <2>2. /\ InFlight(S, T, B) /\ S # <<>> /\ Contents(disk, chain, buffer, reported, may, P, B, S, T)
        /\ h = S[1]
        /\ \A g \in B \ {h} : /\ ch2[g] = chain[g] /\ buf2[g] = buffer[g]
                              /\ rep2[g] = reported[g] /\ m2[g] = may[g]
        /\ \/ disk \in P2
           \/ /\ chain[h].type = "out" /\ reported[h] = "ok" /\ chain[h].value \in P2
              /\ \A g \in B \ {h} : chain[g].type = "out" => chain[g].value \in P2
    BY <1>2, <1>7, <1>8, <1>10 DEF h
  <2> HIDE DEF P, P2, S, T, ch2, buf2, rep2, m2
  <2>3. Contents(disk, ch2, buf2, rep2, m2, P2, B \ {h}, Tail(S), T)
    BY <2>1, <2>2, CollectingKeepsContents
  <2> QED
    BY <2>3 DEF P2, S, T, ch2, buf2, rep2, m2
<1>12. disk' = disk
  BY DEF Collect
<1>13. disk \in Possible'
  BY <1>11 DEF Contents
<1>14. DataInv'
  BY <1>2, <1>11, <1>12, <1>13 DEF DataInv, B, h
<1> QED
  BY <1>2, <1>14 DEF RingsAndData

-----------------------------------------------------------------------------
(* The device's interrupt.                                                 *)
Interrupts == IrqInv /\ SignalInv

LEMMA IrqNow ==
  ASSUME BlkType
  PROVE  /\ irq[VirtioIrq] \in IrqFields /\ signal[0] \in SUBSET Irq
         /\ irq = [i \in Irq |-> irq[i]] /\ signal = [c \in Cpu |-> signal[c]]
  BY QueueFacts DEF BlkType, GicTypeOK, IrqFields

LEMMA OffKeepsInterrupts ==
  ASSUME TypeAndMode, Interrupts, Setup \/ Ready \/ Reset
  PROVE  Interrupts'
<1>1. ASSUME UNCHANGED gicVars PROVE IrqInv'
  BY <1>1 DEF Interrupts, IrqInv, gicVars
<1>2. ASSUME CtlrWrite(TRUE) PROVE IrqInv'
  BY <1>2 DEF Interrupts, IrqInv, CtlrWrite
<1>3. ASSUME EnableWrite(VirtioIrq, TRUE) PROVE IrqInv'
  <2>1. /\ irq' = [irq EXCEPT ![VirtioIrq].enabled = TRUE]
        /\ signal' = signal /\ are_ns' = are_ns
    BY <1>3 DEF EnableWrite
  <2>2. /\ irq'[VirtioIrq] = [irq[VirtioIrq] EXCEPT !.enabled = TRUE]
        /\ \A i \in Irq \ {VirtioIrq} : irq'[i] = irq[i]
    BY <2>1, IrqNow, QueueFacts DEF TypeAndMode
  <2>3. /\ irq'[VirtioIrq].enabled = TRUE /\ irq'[VirtioIrq].state = irq[VirtioIrq].state
        /\ irq'[VirtioIrq].route = irq[VirtioIrq].route
        /\ irq'[VirtioIrq].priority = irq[VirtioIrq].priority
    BY <2>2, IrqNow DEF TypeAndMode, IrqFields
  <2> QED
    BY <2>1, <2>2, <2>3 DEF Interrupts, IrqInv
<1>4. ASSUME Setup PROVE Interrupts'
  <2>1. ~On'
    BY <1>4, SetupKeepsMode
  <2>2. IrqInv'
    BY <1>1, <1>2, <1>3, <1>4
    DEF Setup, StatusWrite, QueueSelWrite, QueueNumWrite, AreaWrite
  <2> QED
    BY <2>1, <2>2 DEF Interrupts, SignalInv
<1>5. ASSUME Ready PROVE Interrupts'
  <2>1. used'[0].idx = 0 /\ last_used' = 0
    BY <1>5 DEF Ready, QueueReadyWrite, TypeAndMode, Mode
  <2>2. IrqInv'
    BY <1>1, <1>5 DEF Ready, QueueReadyWrite
  <2> QED
    BY <2>1, <2>2 DEF Interrupts, SignalInv
<1>6. ASSUME Reset PROVE Interrupts'
  <2>1. ~On'
    BY <1>6, ResetKeepsMode
  <2>2. IrqInv'
    BY <1>1, <1>6 DEF Reset, StatusWrite
  <2> QED
    BY <2>1, <2>2 DEF Interrupts, SignalInv
<1> QED
  BY <1>4, <1>5, <1>6

LEMMA QuietKeepsInterrupts ==
  ASSUME TypeAndMode, Interrupts,
         \/ \E r \in Requests : Submit(r)
         \/ Notify \/ Collect \/ Isr
         \/ ServeRequest /\ UNCHANGED driverOnly
  PROVE  Interrupts'
<1>1. ASSUME UNCHANGED gicVars PROVE IrqInv'
  BY <1>1 DEF Interrupts, IrqInv, gicVars
<1>2. ASSUME NEW r \in Requests, Submit(r) PROVE Interrupts'
  <2>1. /\ UNCHANGED <<irq, used, last_used, driver, int_status, serving>>
        /\ UNCHANGED gicVars
    BY <1>2 DEF Submit, gicVars
  <2> QED
    BY <1>1, <2>1 DEF Interrupts, SignalInv, On
<1>3. ASSUME Notify PROVE Interrupts'
  BY <1>1, <1>3 DEF Notify, QueueNotify, Interrupts, SignalInv
<1>4. ASSUME ServeRequest, UNCHANGED driverOnly PROVE Interrupts'
  BY <1>1, <1>4 DEF ServeRequest, Interrupts, SignalInv
<1>5. ASSUME Collect PROVE Interrupts'
  BY <1>1, <1>5 DEF Collect, Interrupts, SignalInv
<1>6. ASSUME Isr PROVE Interrupts'
  <2>1. driver' = IF int_status THEN "collect" ELSE "spurious"
    BY <1>6 DEF Isr
  <2>2. ~int_status => last_used' = used'[0].idx
    BY <1>6 DEF Isr, InterruptAck, Interrupts, SignalInv, On
  <2> QED
    BY <1>1, <1>6, <2>1, <2>2 DEF Isr, InterruptAck, Interrupts, SignalInv
<1> QED
  BY <1>2, <1>3, <1>4, <1>5, <1>6

LEMMA StopKeepsInterrupts ==
  ASSUME TypeAndMode, Interrupts, RingInv, StopServing, UNCHANGED driverOnly
  PROVE  Interrupts'
<1>1. are_ns /\ irq[VirtioIrq].enabled /\ irq[VirtioIrq].route = 0
  BY StopKeepsMode DEF Interrupts, IrqInv, TypeAndMode, Mode
<1>2. /\ irq' = [irq EXCEPT ![VirtioIrq] = [irq[VirtioIrq] EXCEPT !.state = "PENDING"]]
      /\ signal' = Announce(VirtioIrq) /\ are_ns' = are_ns /\ int_status' = TRUE
  BY <1>1 DEF StopServing, RaiseInterrupt, RaiseSpi, RaisedSpi
<1>3. /\ irq'[VirtioIrq] = [irq[VirtioIrq] EXCEPT !.state = "PENDING"]
      /\ \A i \in Irq \ {VirtioIrq} : irq'[i] = irq[i]
  BY <1>2, IrqNow, QueueFacts DEF TypeAndMode
<1>4. /\ irq'[VirtioIrq].enabled = irq[VirtioIrq].enabled /\ irq'[VirtioIrq].state = "PENDING"
      /\ irq'[VirtioIrq].route = irq[VirtioIrq].route
      /\ irq'[VirtioIrq].priority = irq[VirtioIrq].priority
  BY <1>3, IrqNow DEF TypeAndMode, IrqFields
<1>5. VirtioIrq \in signal'[0]
  BY <1>1, <1>2, QueueFacts DEF Announce, Targets
<1>6. IrqInv'
  BY <1>1, <1>2, <1>3, <1>4, <1>5 DEF Interrupts, IrqInv
<1> QED
  BY <1>2, <1>4, <1>6 DEF Interrupts, SignalInv

LEMMA TheOneSelected ==
  ASSUME BlkType, IrqInv
  PROVE  /\ Eligible(0) # {} => Selected(0) = VirtioIrq
         /\ irq[VirtioIrq].state = "PENDING" => VirtioIrq \in Eligible(0)
<1>1. Eligible(0) \subseteq {VirtioIrq}
  BY DEF IrqInv, Eligible
<1>2. ASSUME Eligible(0) # {} PROVE Selected(0) = VirtioIrq
  <2>1. irq[VirtioIrq].priority \in Nat
    BY GicConstants DEF IrqInv, Priority
  <2>2. Urgent(0) = {VirtioIrq}
    BY <1>1, <1>2, <2>1 DEF Urgent
  <2>3. VirtioIrq \in Nat
    BY QueueFacts, GicConstants DEF Irq
  <2>4. Min({VirtioIrq}) = VirtioIrq
    BY <2>3 DEF Min
  <2> QED
    BY <2>2, <2>4 DEF Selected
<1>3. ASSUME irq[VirtioIrq].state = "PENDING" PROVE VirtioIrq \in Eligible(0)
  BY <1>3, QueueFacts, GicConstants DEF IrqInv, Eligible, Targets, Priority
<1> QED
  BY <1>2, <1>3

LEMMA HandlerKeepsInterrupts ==
  ASSUME TypeAndMode, Interrupts, Interrupt \/ Finish
  PROVE  Interrupts'
<1> DEFINE q == irq[VirtioIrq]
<1>1. ASSUME NEW s, irq' = [irq EXCEPT ![VirtioIrq].state = s], are_ns' = are_ns,
             s # "ACTIVE_PENDING",
             s = "PENDING" => q.state = "PENDING" /\ VirtioIrq \in signal'[0]
      PROVE  IrqInv' /\ irq'[VirtioIrq].state = s
  <2>1. /\ irq'[VirtioIrq] = [q EXCEPT !.state = s]
        /\ \A i \in Irq \ {VirtioIrq} : irq'[i] = irq[i]
    BY <1>1, IrqNow, QueueFacts DEF TypeAndMode
  <2>2. /\ irq'[VirtioIrq].enabled = q.enabled /\ irq'[VirtioIrq].state = s
        /\ irq'[VirtioIrq].route = q.route /\ irq'[VirtioIrq].priority = q.priority
    BY <2>1, IrqNow DEF TypeAndMode, IrqFields
  <2> QED
    BY <1>1, <2>1, <2>2 DEF Interrupts, IrqInv
<1>2. ASSUME Interrupt PROVE Interrupts'
  <2>1. irq' = [irq EXCEPT ![VirtioIrq].state = "ACTIVE"] /\ are_ns' = are_ns
    BY <1>2, TheOneSelected DEF Interrupt, Acknowledge, TypeAndMode, Interrupts
  <2>2. IrqInv'
    BY <1>1, <2>1
  <2> QED
    BY <1>2, <2>2 DEF Interrupt, virtioVars, blkVars, Interrupts, SignalInv, On
<1>3. ASSUME Finish PROVE Interrupts'
  <2> DEFINE s == RetiredState(q.state)
  <2>1. irq' = [irq EXCEPT ![VirtioIrq].state = s] /\ are_ns' = are_ns /\ signal' = signal
    BY <1>3 DEF Finish, Eoi
  <2>2. /\ s # "ACTIVE_PENDING" /\ (s = "PENDING" <=> q.state = "PENDING")
        /\ (s = "PENDING" => VirtioIrq \in signal'[0])
    BY <2>1, IrqNow DEF RetiredState, Interrupts, IrqInv, TypeAndMode, IrqFields, IrqState
  <2> HIDE DEF s
  <2>3. IrqInv' /\ irq'[VirtioIrq].state = s
    BY <1>1, <2>1, <2>2
  <2>4. last_used # used[0].idx => driver = "spurious"
    BY <1>3 DEF Finish
  <2> QED
    BY <1>3, <2>2, <2>3, <2>4 DEF Finish, virtioVars, blkVars, Interrupts, SignalInv, On
<1> QED
  BY <1>2, <1>3

-----------------------------------------------------------------------------
(* The invariant.                                                          *)
LEMMA InitBlkInv == Init => BlkInv
<1> SUFFICES ASSUME Init PROVE BlkInv
  OBVIOUS
<1>1. GicTypeOK
  <2>1. irq \in [Irq -> IrqFields]
    <3>1. \A i \in Irq : [state |-> "INACTIVE", enabled |-> i \in Sgi,
                         priority |-> DefaultPriority, route |-> 0] \in IrqFields
      <4> TAKE i \in Irq
      <4>1. (i \in Sgi) \in BOOLEAN
        OBVIOUS
      <4>2. "INACTIVE" \in IrqState /\ DefaultPriority \in Priority /\ 0 \in Nat
        BY GicConstants DEF IrqState
      <4> DEFINE b == i \in Sgi
      <4> HIDE DEF b
      <4>3. b \in BOOLEAN
        BY <4>1 DEF b
      <4>4. [state |-> "INACTIVE", enabled |-> b,
             priority |-> DefaultPriority, route |-> 0] \in IrqFields
        BY <4>2, <4>3 DEF IrqFields
      <4> QED
        BY <4>4 DEF b
    <3> DEFINE e(i) == [state |-> "INACTIVE", enabled |-> i \in Sgi,
                        priority |-> DefaultPriority, route |-> 0]
    <3>2. \A i \in Irq : e(i) \in IrqFields
      BY <3>1
    <3>3. irq = [i \in Irq |-> e(i)]
      BY DEF Init, GicInit
    <3> HIDE DEF e
    <3> QED
      BY <3>2, <3>3
  <2> QED
    BY <2>1 DEF Init, GicInit, GicTypeOK, IrqFields
<1>2. EmptyQueue \in QueueRecord /\ EmptyRing \in RingRecord
  <2>1. 0 \in Slot
    BY VirtioConstants DEF Slot
  <2> QED
    BY <2>1, QueueFacts DEF EmptyQueue, EmptyRing, QueueRecord, RingRecord
<1>3. BlkType
  <2>1. reported \in [Slot -> Status]
    BY DEF Init, Status
  <2> QED
    BY <1>1, <1>2, <2>1, QueueFacts DEF BlkType, Init, VirtioInit, DriverStates
<1>4. ~On /\ Mode
  BY QueueFacts DEF Mode, On, Init, VirtioInit, EmptyQueue
<1>5. RingInv /\ SignalInv
  BY <1>4 DEF RingInv, SignalInv
<1>6. IrqInv
  BY QueueFacts DEF IrqInv, Init, GicInit
<1>7. DataInv
  <2>1. Possible = settled
    BY <1>3, <1>4, PossibleNow DEF TypeAndMode
  <2> QED
    BY <1>4, <2>1 DEF DataInv, Init
<1> QED
  BY <1>3, <1>4, <1>5, <1>6, <1>7 DEF BlkInv

(* What each step does to the heads in flight.                             *)
LEMMA StepsKeepBlkInv ==
  ASSUME BlkInv, Next
  PROVE  /\ BlkInv'
         /\ \/ Ready /\ Heads(0)' = <<>> /\ Done' = <<>>
            \/ Setup
            \/ Reset
            \/ /\ On /\ On'
               /\ \/ UNCHANGED <<Heads(0), Done>>
                  \/ /\ Done' = Done
                     /\ \E h \in Slot : h \notin Busy /\ Heads(0)' = Append(Heads(0), h)
                  \/ /\ Heads(0) # <<>> /\ Heads(0)' = Tail(Heads(0))
                     /\ Done' = Append(Done, Heads(0)[1])
                  \/ /\ Done # <<>> /\ Done' = Tail(Done) /\ Heads(0)' = Heads(0)
<1> USE DEF BlkInv
<1>0. TypeAndMode /\ RingsAndData /\ Interrupts /\ RingInv
  BY DEF TypeAndMode, RingsAndData, Interrupts
<1>a. ASSUME TypeAndMode', RingsAndData', Interrupts' PROVE BlkInv'
  BY <1>a DEF TypeAndMode, RingsAndData, Interrupts
<1>b. ASSUME TypeAndMode', On, On',
             UNCHANGED <<queues, avail, used, last_used, free>>,
             UNCHANGED <<disk, chain, buffer, reported, may, settled>>
      PROVE  RingsAndData' /\ UNCHANGED <<Heads(0), Done>>
  <2>1. UNCHANGED <<Heads(0), Done>>
    BY <1>b DEF Heads, HeadAt, Waiting, Done, Size
  <2> QED
    BY <1>0, <1>b, <2>1, StillKeepsData
<1>1. ASSUME Setup PROVE BlkInv'
  <2>1. TypeAndMode' /\ ~On /\ ~On'
    BY <1>0, <1>1, SetupKeepsMode
  <2>2. disk' \in settled'
    <3>1. Possible = settled
      BY <1>0, <2>1, PossibleNow
    <3> QED
      BY <1>1, <3>1 DEF Setup, blkVars, DataInv
  <2> QED
    BY <1>0, <1>1, <1>a, <2>1, <2>2, OffKeepsData, OffKeepsInterrupts
<1>2. ASSUME Ready PROVE BlkInv' /\ Heads(0)' = <<>> /\ Done' = <<>>
  BY <1>0, <1>2, <1>a, ReadyKeepsMode, ReadyStartsData, OffKeepsInterrupts
<1>3. ASSUME Reset PROVE BlkInv'
  <2>1. TypeAndMode' /\ On /\ ~On'
    BY <1>0, <1>3, ResetKeepsMode
  <2>2. disk' \in settled'
    BY <1>3 DEF Reset, DataInv, Possible
  <2> QED
    BY <1>0, <1>3, <1>a, <2>1, <2>2, OffKeepsData, OffKeepsInterrupts
<1>4. ASSUME NEW r \in Requests, Submit(r)
      PROVE  /\ BlkInv' /\ On /\ On' /\ Done' = Done
             /\ \E h \in Slot : h \notin Busy /\ Heads(0)' = Append(Heads(0), h)
  <2>1. TypeAndMode' /\ On /\ On'
    BY <1>0, <1>4, SubmitKeepsMode
  <2>2. Interrupts'
    BY <1>0, <1>4, QuietKeepsInterrupts
  <2>3. /\ RingsAndData' /\ Done' = Done
        /\ \E h \in Slot : h \notin Busy /\ Heads(0)' = Append(Heads(0), h)
    BY <1>0, <1>4, SubmitKeepsData
  <2> QED
    BY <1>a, <2>1, <2>2, <2>3
<1>5. ASSUME Notify PROVE BlkInv' /\ On /\ On' /\ UNCHANGED <<Heads(0), Done>>
  <2>1. TypeAndMode' /\ On /\ On'
    BY <1>0, <1>5, NotifyKeepsMode
  <2>2. RingsAndData' /\ UNCHANGED <<Heads(0), Done>>
    BY <1>5, <1>b, <2>1 DEF Notify, QueueNotify, virtioVars
  <2>3. Interrupts'
    BY <1>0, <1>5, QuietKeepsInterrupts
  <2> QED
    BY <1>a, <2>1, <2>2, <2>3
<1>6. ASSUME ServeRequest, UNCHANGED driverOnly
      PROVE  /\ BlkInv' /\ On /\ On'
             /\ Heads(0) # <<>> /\ Heads(0)' = Tail(Heads(0))
             /\ Done' = Append(Done, Heads(0)[1])
  <2>1. TypeAndMode' /\ On /\ On'
    BY <1>0, <1>6, ServeKeepsMode
  <2>2. /\ RingsAndData' /\ Heads(0) # <<>> /\ Heads(0)' = Tail(Heads(0))
        /\ Done' = Append(Done, Heads(0)[1])
    BY <1>0, <1>6, ServeKeepsData
  <2>3. Interrupts'
    BY <1>0, <1>6, QuietKeepsInterrupts
  <2> QED
    BY <1>a, <2>1, <2>2, <2>3
<1>7. ASSUME StopServing, UNCHANGED driverOnly
      PROVE  BlkInv' /\ On /\ On' /\ UNCHANGED <<Heads(0), Done>>
  <2>1. TypeAndMode' /\ On /\ On' /\ queues' = queues
    BY <1>0, <1>7, StopKeepsMode
  <2>2. RingsAndData' /\ UNCHANGED <<Heads(0), Done>>
    BY <1>7, <1>b, <2>1 DEF StopServing, driverOnly
  <2>3. Interrupts'
    BY <1>0, <1>7, StopKeepsInterrupts
  <2> QED
    BY <1>a, <2>1, <2>2, <2>3
<1>8. ASSUME Interrupt \/ Isr \/ Finish
      PROVE  BlkInv' /\ On /\ On' /\ UNCHANGED <<Heads(0), Done>>
  <2>1. TypeAndMode' /\ On /\ On'
    BY <1>0, <1>8, HandlerKeepsMode
  <2>2. RingsAndData' /\ UNCHANGED <<Heads(0), Done>>
    BY <1>8, <1>b, <2>1 DEF Interrupt, Isr, InterruptAck, Finish, virtioVars, blkVars
  <2>3. Interrupts'
    BY <1>0, <1>8, QuietKeepsInterrupts, HandlerKeepsInterrupts
  <2> QED
    BY <1>a, <2>1, <2>2, <2>3
<1>9. ASSUME Collect
      PROVE  /\ BlkInv' /\ On /\ On'
             /\ Done # <<>> /\ Done' = Tail(Done) /\ Heads(0)' = Heads(0)
  <2>1. TypeAndMode' /\ On /\ On'
    BY <1>0, <1>9, CollectKeepsMode
  <2>2. RingsAndData' /\ Done # <<>> /\ Done' = Tail(Done) /\ Heads(0)' = Heads(0)
    BY <1>0, <1>9, CollectKeepsData
  <2>3. Interrupts'
    BY <1>0, <1>9, QuietKeepsInterrupts
  <2> QED
    BY <1>a, <2>1, <2>2, <2>3
<1> QED
  BY <1>1, <1>2, <1>3, <1>4, <1>5, <1>6, <1>7, <1>8, <1>9 DEF Next, Serve

LEMMA StutterKeepsBlkInv ==
  ASSUME BlkInv, UNCHANGED vars
  PROVE  /\ BlkInv' /\ UNCHANGED <<Heads(0), DoneWhenReady>>
<1>1. /\ UNCHANGED gicVars /\ UNCHANGED virtioVars /\ UNCHANGED blkVars
      /\ UNCHANGED driverOnly
  BY DEF vars
<1>2. UNCHANGED <<On, Heads(0), Done, DoneWhenReady, Busy>>
  BY <1>1 DEF On, Heads, HeadAt, Waiting, Done, DoneWhenReady, Busy, Size,
     virtioVars, driverOnly
<1>3. TypeAndMode'
  BY <1>1, <1>2 DEF BlkInv, TypeAndMode, BlkType, GicTypeOK, Mode, Size,
     gicVars, virtioVars, blkVars, driverOnly
<1>4. RingInv' /\ Interrupts'
  BY <1>1, <1>2 DEF BlkInv, RingInv, Interrupts, IrqInv, SignalInv,
     gicVars, virtioVars, blkVars, driverOnly
<1>5. DataInv'
  <2>1. WritesInFlight' = WritesInFlight
    BY <1>1, <1>2 DEF WritesInFlight, Pending, Size, virtioVars, blkVars, driverOnly
  <2>2. Possible' = Possible
    BY <1>1, <2>1 DEF Possible, driverOnly
  <2> QED
    BY <1>1, <1>2, <2>2 DEF BlkInv, DataInv, blkVars, driverOnly
<1> QED
  BY <1>2, <1>3, <1>4, <1>5 DEF BlkInv, TypeAndMode, Interrupts

-----------------------------------------------------------------------------
(* In every reachable state the heads in flight are those available and    *)
(* those done, each once, a completion the driver has not seen has its     *)
(* interrupt on the way, and the disk holds what the last write left.      *)
THEOREM DeviceCorrect == Spec => []BlkInv
<1>1. BlkInv /\ [Next]_vars => BlkInv'
  BY StepsKeepBlkInv, StutterKeepsBlkInv
<1> QED
  BY InitBlkInv, <1>1, PTL DEF Spec

LEMMA RingsWhenOff ==
  ASSUME BlkInv, ~On
  PROVE  Heads(0) = <<>> /\ DoneWhenReady = <<>>
  BY DEF BlkInv, Mode, Heads, DoneWhenReady

LEMMA RingsWhenOffAfter ==
  ASSUME BlkInv', ~On'
  PROVE  Heads(0)' = <<>> /\ DoneWhenReady' = <<>>
  BY DEF BlkInv, Mode, Heads, DoneWhenReady

(* A completion the driver has not seen has its interrupt waiting at the   *)
(* GIC whenever the driver is outside its handler, whatever it submitted   *)
(* while the handler ran (virtio_raise_interrupt, gic_raise_spi, gic_eoi). *)
THEOREM CompletionIsSignalled == Spec => []CompletionSignalled
<1>1. BlkInv => CompletionSignalled
  BY TheOneSelected DEF BlkInv, SignalInv, IrqInv, CompletionSignalled, On
<1> QED
  BY DeviceCorrect, <1>1, PTL

(* A read handed back with status ok returns what was last written before  *)
(* it, or what a write in flight with it wrote (blk_do_read, blk_do_write).*)
THEOREM ReadsReturnCurrentData == Spec => []ReadsAreCurrent
<1>1. ASSUME BlkInv PROVE ReadsAreCurrent
  <2>1. CASE ~On
    BY <1>1, <2>1, RingsWhenOff DEF ReadsAreCurrent
  <2>2. CASE On
    <3>1. DoneWhenReady = Done
      BY <1>1, <2>2, RingsNow DEF BlkInv
    <3>2. ReadsFit(chain, buffer, reported, may, Done)
      BY <1>1, <2>2 DEF BlkInv, DataInv, Contents
    <3> QED
      BY <3>1, <3>2 DEF ReadsFit, ReadsAreCurrent
  <2> QED
    BY <2>1, <2>2
<1> QED
  BY DeviceCorrect, <1>1, PTL

(* The bytes that statuses went to, besides BlkInv: of the heads S that    *)
(* are done, by their chains ch.                                           *)
Marks(rep, sec, ch, S) ==
  \A h \in Slot :
    /\ rep[h] # "stale" <=> h \in S /\ ch[h].segments = 1
    /\ sec[h] # "data" <=> h \in S /\ ch[h].segments > 1
Served == IF On THEN Places(Done) ELSE {}
StatusInv ==
  /\ second \in [Slot -> Status \cup {"data"}]
  /\ Marks(reported, second, chain, Served)

LEMMA StatusNow ==
  ASSUME BlkInv
  PROVE  /\ reported \in [Slot -> Status] /\ chain = [h \in Slot |-> chain[h]]
         /\ On => /\ Done \in Seq(Slot) /\ Heads(0) \in Seq(Slot)
                  /\ InFlight(Done, Heads(0), Busy)
  BY RingSequences DEF BlkInv, BlkType, RingInv

LEMMA InitStatusInv == Init => StatusInv
<1> SUFFICES ASSUME Init
             PROVE  StatusInv
  OBVIOUS
<1>1. ~On
  BY DEF Init, On
<1> QED
  BY <1>1 DEF Init, StatusInv, Served, Marks

(* A step that leaves the three alone, and what is done.                   *)
LEMMA StatusStays ==
  ASSUME StatusInv, UNCHANGED <<reported, second, chain>>, Served' = Served
  PROVE  StatusInv'
  BY DEF StatusInv, Marks

LEMMA SubmitKeepsStatus ==
  ASSUME BlkInv, StatusInv, NEW r \in Requests, Submit(r)
  PROVE  StatusInv'
<1>1. PICK h \in free : /\ chain' = [chain EXCEPT ![h] = r]
                        /\ reported' = [reported EXCEPT ![h] = "stale"]
  BY DEF Submit
<1>2. On /\ On' /\ Done' = Done /\ second' = second
  BY SubmitKeepsMode, SubmitKeepsData DEF BlkInv, TypeAndMode, RingsAndData, Submit
<1>3. h \in Slot /\ h \notin Served /\ Served' = Served
  BY <1>2, StatusNow DEF Served, InFlight, Busy, BlkInv, BlkType
<1>4. \A g \in Slot \ {h} : chain'[g] = chain[g] /\ reported'[g] = reported[g]
  BY <1>1, StatusNow
<1>5. reported'[h] = "stale" /\ second[h] = "data"
  BY <1>1, <1>3, StatusNow DEF StatusInv, Marks
<1> QED
  BY <1>2, <1>3, <1>4, <1>5 DEF StatusInv, Marks

LEMMA ServeKeepsStatus ==
  ASSUME BlkInv, StatusInv, ServeRequest, UNCHANGED driverOnly
  PROVE  StatusInv'
<1> DEFINE h == Heads(0)[1]
           r == chain[h]
<1>1. PICK result \in Results(r) :
        /\ reported' = IF Third(r) = "status" THEN [reported EXCEPT ![h] = result] ELSE reported
        /\ second' = IF Third(r) = "segment" THEN [second EXCEPT ![h] = result] ELSE second
  BY DEF ServeRequest
<1>2. /\ On /\ On' /\ Done' = Append(Done, h) /\ Heads(0) # <<>> /\ chain' = chain
  BY ServeKeepsMode, ServeKeepsData DEF BlkInv, TypeAndMode, RingsAndData, ServeRequest
<1>3. h \in Slot /\ h \notin Places(Done) /\ h \in Busy
  BY <1>2, StatusNow, ServingKeepsInFlight
<1>4. Served' = Served \cup {h} /\ h \notin Served
  <2>1. Served = Places(Done) /\ Served' = Places(Append(Done, h))
    BY <1>2 DEF Served, Places
  <2>2. Places(Append(Done, h)) = Places(Done) \cup {h}
    BY <1>2, <1>3, StatusNow, PlacesChange
  <2> QED
    BY <1>3, <2>1, <2>2
<1>5. r \in Request
  BY <1>2, <1>3, DriverConstants DEF BlkInv, DataInv, Contents
<1> HIDE DEF h
<1>6. result \in Status \ {"stale"} /\ result # "data"
  BY <1>1 DEF Results, Status
<1>7. r.segments \in Nat /\ r = chain[h]
  BY <1>5 DEF Request
<1> HIDE DEF r
<1>8. /\ \A g \in Slot \ {h} : reported'[g] = reported[g] /\ second'[g] = second[g]
      /\ reported'[h] = IF Third(r) = "status" THEN result ELSE reported[h]
      /\ second'[h] = IF Third(r) = "segment" THEN result ELSE second[h]
      /\ second' \in [Slot -> Status \cup {"data"}]
  BY <1>1, <1>3, <1>6, StatusNow DEF StatusInv
<1>9. reported[h] = "stale" /\ second[h] = "data"
  BY <1>3, <1>4, StatusNow DEF StatusInv, Marks
<1>10. /\ reported'[h] # "stale" <=> r.segments = 1
       /\ second'[h] # "data" <=> r.segments > 1
  BY <1>6, <1>7, <1>8, <1>9 DEF Third
<1> QED
  BY <1>2, <1>4, <1>7, <1>8, <1>10 DEF StatusInv, Marks

LEMMA CollectKeepsStatus ==
  ASSUME BlkInv, StatusInv, Collect
  PROVE  StatusInv'
<1> DEFINE h == Done[1]
<1>1. /\ chain' = [chain EXCEPT ![h] = NoRequest]
      /\ reported' = [reported EXCEPT ![h] = "stale"]
      /\ second' = [second EXCEPT ![h] = "data"]
  BY DEF Collect
<1>2. On /\ On' /\ Done' = Tail(Done) /\ Done # <<>>
  BY CollectKeepsMode, CollectKeepsData DEF BlkInv, TypeAndMode, RingsAndData
<1>3. h \in Slot /\ Served = Served' \cup {h} /\ h \notin Served'
  <2>1. Done \in Seq(Slot) /\ Once(Done) /\ h \in Slot
    BY <1>2, StatusNow, FirstAndLast DEF InFlight
  <2>2. Places(Done) = Places(Tail(Done)) \cup {h} /\ h \notin Places(Tail(Done))
    BY <1>2, <2>1, PlacesChange
  <2> QED
    BY <1>2, <2>1, <2>2 DEF Served, Places
<1> HIDE DEF h
<1>4. /\ \A g \in Slot \ {h} : /\ chain'[g] = chain[g] /\ reported'[g] = reported[g]
                               /\ second'[g] = second[g]
      /\ reported'[h] = "stale" /\ second'[h] = "data"
      /\ second' \in [Slot -> Status \cup {"data"}]
  BY <1>1, <1>3, StatusNow DEF StatusInv
<1> QED
  BY <1>3, <1>4 DEF StatusInv, Marks

LEMMA StepsKeepStatusInv ==
  ASSUME BlkInv, StatusInv, [Next]_vars
  PROVE  StatusInv'
<1>0. TypeAndMode /\ RingInv
  BY DEF BlkInv, TypeAndMode
<1>1. CASE Setup \/ Ready
  <2>1. ~On /\ (On' => Ready)
    BY <1>0, <1>1, SetupKeepsMode, ReadyKeepsMode
  <2>2. Ready => Done' = <<>>
    BY <1>0, ReadyStartsData DEF BlkInv, RingsAndData
  <2>3. Served = {} /\ Served' = {}
    BY <2>1, <2>2 DEF Served, Places
  <2> QED
    BY <1>1, <2>3, StatusStays DEF Setup, Ready, blkVars
<1>2. CASE Reset
  <2>1. ~On'
    BY <1>0, <1>2, ResetKeepsMode
  <2> QED
    BY <1>2, <2>1 DEF Reset, StatusInv, Marks, Served
<1>3. CASE \E r \in Requests : Submit(r)
  BY <1>3, SubmitKeepsStatus
<1>4. CASE ServeRequest /\ UNCHANGED driverOnly
  BY <1>4, ServeKeepsStatus
<1>5. CASE Collect
  BY <1>5, CollectKeepsStatus
<1>6. CASE Notify \/ (StopServing /\ UNCHANGED driverOnly) \/ Interrupt \/ Isr \/ Finish
  <2>1. On /\ On'
    BY <1>0, <1>6, NotifyKeepsMode, StopKeepsMode, HandlerKeepsMode
  <2>2. UNCHANGED <<used, last_used, reported, second, chain>> /\ queues'[0].size = queues[0].size
    <3>1. CASE StopServing /\ UNCHANGED driverOnly
      BY <1>0, <3>1, StopKeepsMode DEF StopServing, driverOnly
    <3>2. CASE Notify \/ Interrupt \/ Isr \/ Finish
      BY <3>2 DEF Notify, QueueNotify, Interrupt, Isr, InterruptAck, Finish, virtioVars, blkVars
    <3> QED
      BY <1>6, <3>1, <3>2
  <2>3. Served' = Served
    BY <2>1, <2>2 DEF Served, Places, Done, Size
  <2> QED
    BY <2>2, <2>3, StatusStays
<1>7. CASE UNCHANGED vars
  <2>1. Served' = Served /\ UNCHANGED <<reported, second, chain>>
    BY <1>7 DEF vars, Served, Places, Done, Size, On, virtioVars, blkVars, driverOnly
  <2> QED
    BY <2>1, StatusStays
<1> QED
  BY <1>1, <1>2, <1>3, <1>4, <1>5, <1>6, <1>7 DEF Next, Serve

(* Of every request, whatever its segments: its status byte is written if  *)
(* it has one, never if it has none, and over its second if it has more    *)
(* (virtio_blk.c:76-86, 146-151).                                          *)
THEOREM StatusByteLands == Spec => []StatusLands
<1>1. BlkInv /\ StatusInv => StatusLands
  <2> SUFFICES ASSUME BlkInv, StatusInv
               PROVE  StatusLands
    OBVIOUS
  <2>1. CASE ~On
    BY <2>1, RingsWhenOff DEF StatusLands, StatusInv, Marks, Served
  <2>2. CASE On
    <3>1. DoneWhenReady = Done
      BY <2>2, RingsNow DEF BlkInv
    <3>2. \A h \in Slot : h \in Served <=> \E k \in DOMAIN DoneWhenReady : Done[k] = h
      BY <2>2, <3>1 DEF Served, Places
    <3> QED
      BY <3>2 DEF StatusLands, StatusInv, Marks
  <2> QED
    BY <2>1, <2>2
<1>2. BlkInv /\ StatusInv /\ [Next]_vars => StatusInv'
  BY StepsKeepStatusInv
<1>3. Spec => []StatusInv
  BY <1>2, InitStatusInv, DeviceCorrect, PTL DEF Spec
<1> QED
  BY <1>1, <1>3, DeviceCorrect, PTL

-----------------------------------------------------------------------------
(* Every step is a step of the queue of requests, or none.                 *)
LEMMA StepRefinesFifo ==
  ASSUME BlkInv, BlkInv', [Next]_vars
  PROVE  [Fifo!Next]_<<Heads(0), DoneWhenReady>>
<1>1. On => DoneWhenReady = Done
  BY RingsNow DEF BlkInv
<1>2. On' => DoneWhenReady' = Done'
  BY RingsAfter DEF BlkInv
<1>3. CASE UNCHANGED vars
  BY <1>3, StutterKeepsBlkInv
<1>4. CASE Next
  <2>1. ASSUME Setup PROVE UNCHANGED <<Heads(0), DoneWhenReady>>
    <3>1. ~On /\ ~On'
      BY <2>1, SetupKeepsMode DEF BlkInv, TypeAndMode
    <3> QED
      BY <3>1, RingsWhenOff, RingsWhenOffAfter
  <2>2. ASSUME Ready, Heads(0)' = <<>>, Done' = <<>>
        PROVE  UNCHANGED <<Heads(0), DoneWhenReady>>
    <3>1. ~On /\ On'
      BY <2>2, ReadyKeepsMode DEF BlkInv, TypeAndMode
    <3> QED
      BY <1>2, <2>2, <3>1, RingsWhenOff
  <2>3. ASSUME Reset PROVE Fifo!Reset
    <3>1. ~On'
      BY <2>3, ResetKeepsMode DEF BlkInv, TypeAndMode
    <3> QED
      BY <3>1, RingsWhenOffAfter DEF Fifo!Reset
  <2>4. ASSUME On, On', Done' = Done,
               NEW h \in Slot, h \notin Busy, Heads(0)' = Append(Heads(0), h)
        PROVE  Fifo!Submit(h)
    <3>1. h \notin Places(Heads(0)) /\ h \notin Places(Done)
      BY <2>4 DEF BlkInv, RingInv, InFlight
    <3> QED
      BY <1>1, <1>2, <2>4, <3>1 DEF Fifo!Submit, Fifo!Held, Places
  <2>5. ASSUME On, On', Heads(0) # <<>>, Heads(0)' = Tail(Heads(0)),
               Done' = Append(Done, Heads(0)[1])
        PROVE  Fifo!Serve
    <3>1. Head(Heads(0)) = Heads(0)[1]
      BY <2>5, RingSequences, FirstAndLast DEF BlkInv
    <3> QED
      BY <1>1, <1>2, <2>5, <3>1 DEF Fifo!Serve
  <2>6. ASSUME On, On', Done # <<>>, Done' = Tail(Done), Heads(0)' = Heads(0)
        PROVE  Fifo!Collect
    BY <1>1, <1>2, <2>6 DEF Fifo!Collect
  <2>7. ASSUME On, On', UNCHANGED <<Heads(0), Done>>
        PROVE  UNCHANGED <<Heads(0), DoneWhenReady>>
    BY <1>1, <1>2, <2>7
  <2> QED
    BY <1>4, <2>1, <2>2, <2>3, <2>4, <2>5, <2>6, <2>7, StepsKeepBlkInv DEF Fifo!Next
<1> QED
  BY <1>3, <1>4

(* The rings implement the queue of requests: each is served once, in the  *)
(* order they were made available, handed back once, in that order, and    *)
(* none survives a reset, also when the 16-bit indices wrap                *)
(* (virtio_get_avail, virtio_put_used, virtio_mmio_write).                 *)
THEOREM RingsImplementFifo == Spec => ImplementsFifo
<1>1. Init => Fifo!Init
  <2>1. Init => ~On
    BY DEF Init, On
  <2> QED
    BY <2>1, InitBlkInv, RingsWhenOff DEF Fifo!Init
<1>2. BlkInv /\ BlkInv' /\ [Next]_vars => [Fifo!Next]_<<Heads(0), DoneWhenReady>>
  BY StepRefinesFifo
<1> QED
  BY DeviceCorrect, <1>1, <1>2, PTL DEF Spec, ImplementsFifo, Fifo!Spec

=============================================================================
