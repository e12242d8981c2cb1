------------------------------ MODULE VirtioBlk -----------------------------
(***************************************************************************)
(* The virtio block device, devices/virtio-blk/virtio_blk.c, over the      *)
(* transport: one queue, served to its end in every notification, a        *)
(* request per step.                                                       *)
(*                                                                         *)
(* A request is a chain of descriptors: a header, then its data segments,  *)
(* then a status byte.  The device takes the second descriptor for the     *)
(* data and the third for the status, whatever they are.  The disk is one  *)
(* sector, which the first segment of a read or a write holds.             *)
(***************************************************************************)
EXTENDS VirtioMmio

CONSTANTS
  Value,     (* contents of a sector                                       *)
  ReadOnly   (* blk->read_only                                             *)

ASSUME BlkConstants == ReadOnly \in BOOLEAN /\ NumQueues = 1

Kind == {"in", "out", "flush", "other"}
Request == [type : Kind, segments : Nat, value : Value]
Status == {"stale", "ok", "ioerr", "unsupp"}

VARIABLES
  disk,     (* the backing file                                            *)
  chain,    (* guest RAM: the request at each head                         *)
  buffer,   (* guest RAM: its first data segment                           *)
  second,   (* guest RAM: the byte its second data segment begins with     *)
  reported, (* guest RAM: its status byte                                  *)
  serving   (* blk_process_request is in its loop                          *)

blkVars == <<disk, chain, buffer, second, reported, serving>>

(* How serving a request can end, by its type.                             *)
Results(r) ==
  CASE r.type = "in"    -> {"ok", "ioerr"}
    [] r.type = "out"   -> IF ReadOnly THEN {"ioerr"} ELSE {"ok", "ioerr"}
    [] r.type = "flush" -> {"ok"}
    [] OTHER            -> {"unsupp"}

DiskAfterLost(d, r, result) == {d}
(* The disk after a request: a failed write may have reached it.           *)
DiskAfter(d, r, result) ==
  IF r.type # "out" \/ ReadOnly THEN {d}
  ELSE IF result = "ok" THEN {r.value} ELSE {d, r.value}

(* What the chain has where the device takes its status byte to be.        *)
ThirdOrSecond(r) == IF r.segments <= 1 THEN "status" ELSE "segment"
Third(r) ==
  IF r.segments = 0 THEN "none" ELSE IF r.segments = 1 THEN "status" ELSE "segment"

-----------------------------------------------------------------------------
(* blk_process_request, on VIRTIO_MMIO_QUEUE_NOTIFY in any device status.  *)
QueueNotify ==
  /\ ~serving /\ serving' = TRUE
  /\ UNCHANGED <<disk, chain, buffer, second, reported, virtioVars, gicVars>>

(* One turn of the loop, up to virtio_put_used.                            *)
CanServe == Heads(0) # <<>> /\ HasDesc(0, Heads(0)[1])

ServeRequest ==
  /\ serving /\ CanServe
  /\ LET h == Heads(0)[1]
         r == chain[h]
     IN  \E result \in Results(r) :
           /\ disk' \in DiskAfter(disk, r, result)
           /\ buffer' = IF r.type = "in" /\ result = "ok"
                        THEN [buffer EXCEPT ![h] = disk] ELSE buffer
           /\ reported' = IF Third(r) = "status" THEN [reported EXCEPT ![h] = result]
                          ELSE reported
           /\ second' = IF Third(r) = "segment" THEN [second EXCEPT ![h] = result]
                        ELSE second
           /\ used' = PutUsed(0, h)
  /\ queues' = Fetched(0)
  /\ UNCHANGED <<status, queue_sel, int_status, avail, chain, serving, gicVars>>

(* The loop ends when nothing is available, or with a head that names no   *)
(* descriptor, which is taken and not handed back.                         *)
StopServing ==
  /\ serving /\ ~CanServe
  /\ queues' = IF Heads(0) = <<>> THEN queues ELSE Fetched(0)
  /\ RaiseInterrupt
  /\ serving' = FALSE
  /\ UNCHANGED <<status, queue_sel, avail, used, disk, chain, buffer, second, reported>>

=============================================================================
