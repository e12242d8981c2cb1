----------------------------- MODULE MCAppleNvme ----------------------------
(* One pair of I/O queues: submission rings of three entries, completion   *)
(* rings of four, two commands in flight on each queue.  The commands are  *)
(* not counted: the rings wrap.                                            *)
EXTENDS AppleNvmeDriver, TLC
MCSymmetry == Permutations(Cid)
=============================================================================
