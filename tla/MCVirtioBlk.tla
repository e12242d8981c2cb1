----------------------------- MODULE MCVirtioBlk ----------------------------
(* Queues of one and two entries, indices that wrap after four, one-sector *)
(* disk of two values; requests of no, one and two data segments.          *)
EXTENDS VirtioBlkDriver
Req(t, n, v) == [type |-> t, segments |-> n, value |-> v]
MCRequests ==
  {Req("in", 1, 0), Req("out", 1, 0), Req("out", 1, 1), Req("other", 1, 0), Req("flush", 0, 0),
   Req("in", 2, 0), Req("out", 2, 1)}
=============================================================================
