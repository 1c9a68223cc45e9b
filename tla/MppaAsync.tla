------------------------------ MODULE MppaAsync ------------------------------
(***************************************************************************)
(* The part of the Kalray MPPA asynchronous API that opal relies on: jobs  *)
(* handed to the DMA engine of a compute cluster, and the events on which  *)
(* the cluster waits for them.  External code, modelled from its use in    *)
(* src/opal/src_bare_async and from src/doc/Asynchronous.pdf:              *)
(*                                                                         *)
(*  - a put or a get returns at once and leaves a pending job; its event   *)
(*    holds the ticket of that job, so a second call on the same event     *)
(*    forgets the first ticket;                                            *)
(*  - an event waits for LOCAL completion: the data of a get has arrived,  *)
(*    the local buffer of a put may be reused (section 2, Operation        *)
(*    Completion).  The effect of a put in the remote segment comes later  *)
(*    and only a fence would wait for it: opal calls no fence;             *)
(*  - gets are unordered, whether or not they address the same segment     *)
(*    (section 2, Memory Consistency).                                     *)
(*                                                                         *)
(* A job is identified by what it was asked: the operation, the local      *)
(* buffer, the block of the lattice, and the time step that asked it.  An  *)
(* event is the job it holds the ticket of.                                *)
(***************************************************************************)
EXTENDS Integers

(* A pending mppa_async_get_* into local buffer buf.                       *)
Get(buf, cube, step) ==
  [op |-> "get", buf |-> buf, cube |-> cube, step |-> step]

(* A pending mppa_async_put_* from local buffer buf.                       *)
Put(buf, cube, step) ==
  [op |-> "put", buf |-> buf, cube |-> cube, step |-> step]

(* The value of an event no call has used yet.                             *)
NoTicket == [op |-> "none", buf |-> 0, cube |-> 0, step |-> 0]

(* mppa_async_event_wait(event) returns: the job whose ticket the event    *)
(* holds is locally complete.                                              *)
Complete(jobs, event) == event \notin jobs

(* The pending jobs that touch local buffer buf.                           *)
GetsInto(jobs, buf) == {j \in jobs : j.op = "get" /\ j.buf = buf}
PutsFrom(jobs, buf) == {j \in jobs : j.op = "put" /\ j.buf = buf}
=============================================================================
