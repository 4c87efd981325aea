------------------------------- MODULE Virtio -------------------------------
(***************************************************************************)
(* The block driver (virtio.c) and the device it drives: one virtqueue, one*)
(* request at a time, completion by polling.  The device runs beside the   *)
(* driver: it may take a request as soon as the available index has moved, *)
(* and the driver sees a request completed when the used index has moved.  *)
(*                                                                         *)
(* Every slot of the available ring holds 0, the one value the driver ever *)
(* stores there and what memory holds at boot, so it does not matter that  *)
(* the driver stores one slot further than the device looks.  The driver   *)
(* never reads the status byte: a sector beyond the end of the disk leaves *)
(* the buffer, or the disk, as it is.                                      *)
(***************************************************************************)
EXTENDS Naturals

CONSTANTS
    IdxMod      \* 2^16: the indexes of the rings are uint16_t

ASSUME VirtioAssumption == IdxMod \in Nat /\ IdxMod > 1

VARIABLES
    blk,        \* the queue, the request and where driver and device are
    disk,       \* disk[s]: what sector s holds
    mem         \* mem[b]: what the kernel's sector buffer b holds

virtioVars == <<blk, disk, mem>>

NoRequest == [type |-> "none", sector |-> 0, buf |-> "none"]

\* The rings as virtio_blk_queue_init leaves them: pages of zeroes.
QueueInit ==
    [req |-> NoRequest, avail |-> 0, used |-> 0, original |-> 0,
     driver |-> "idle", seen |-> 0, device |-> "wait"]

\* After virtio_dev_init: virtio_blk_init has read one sector, to look at its
\* signature.
BlkInit == blk = [QueueInit EXCEPT !.avail = 1, !.seen = 1, !.used = 1]

Idle == blk.driver = "idle"

\* virtio_blk_read_sector and virtio_blk_write_sector up to the descriptors:
\* the used index is saved before the command is built.
Posted(type, sector, buf) ==
    [blk EXCEPT !.req = [type |-> type, sector |-> sector, buf |-> buf],
                !.original = blk.used, !.driver = "built"]

\* virtio_blk_cmd makes the chain available.
Publish ==
    /\ blk.driver = "built"
    /\ blk' = [blk EXCEPT !.avail = (@ + 1) % IdxMod, !.driver = "notify"]
    /\ UNCHANGED <<disk, mem>>

\* Fault: the used index is looked up after the device was told.
NotifiedLate == [blk EXCEPT !.driver = "poll", !.original = blk.used]

Notified == [blk EXCEPT !.driver = "poll"]

Notify ==
    /\ blk.driver = "notify"
    /\ blk' = Notified
    /\ UNCHANGED <<disk, mem>>

Completed == blk.used # blk.original

\* The polling loop ends.
Poll ==
    /\ blk.driver = "poll"
    /\ Completed
    /\ blk' = [blk EXCEPT !.driver = "idle", !.req = NoRequest]
    /\ UNCHANGED <<disk, mem>>

-----------------------------------------------------------------------------
(* The device.                                                             *)

Take ==
    /\ blk.device = "wait"
    /\ blk.seen # blk.avail
    /\ blk' = [blk EXCEPT !.seen = (@ + 1) % IdxMod, !.device = "busy"]
    /\ UNCHANGED <<disk, mem>>

Transfer ==
    /\ blk.device = "busy"
    /\ LET r == blk.req IN
         /\ mem' = IF r.type = "in" /\ r.sector \in DOMAIN disk
                   THEN [mem EXCEPT ![r.buf] = disk[r.sector]] ELSE mem
         /\ disk' = IF r.type = "out" /\ r.sector \in DOMAIN disk
                    THEN [disk EXCEPT ![r.sector] = mem[r.buf]] ELSE disk
    /\ blk' = [blk EXCEPT !.device = "done"]

Complete ==
    /\ blk.device = "done"
    /\ blk' = [blk EXCEPT !.used = (@ + 1) % IdxMod, !.device = "wait"]
    /\ UNCHANGED <<disk, mem>>

Driver == Publish \/ Notify \/ Poll
Device == Take \/ Transfer \/ Complete

=============================================================================
