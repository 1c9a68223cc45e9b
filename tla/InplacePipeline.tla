--------------------------- MODULE InplacePipeline ---------------------------
(***************************************************************************)
(* task_routine_opal_compute of the in-place build                         *)
(* (src/opal/src_bare_async/cluster/compute_inplace.c), on ONE compute     *)
(* cluster, for ONE time step.                                             *)
(*                                                                         *)
(* As in ComputePipeline the PEs sweep the cubes of the cluster and PE0    *)
(* alone talks to the DMA engine, but there is one ring of buffers only:   *)
(* a cube is updated in the buffer it was fetched into (TwoWall models     *)
(* how), put from there, and the next get goes to the same buffer.         *)
(* Cubes are numbered as in ComputePipeline.                               *)
(***************************************************************************)
EXTENDS MppaAsync, FiniteSets

CONSTANTS
  Depth,        \* ASYNC_PIPELINE_DEPTH
  NbCubes,      \* NB_CUBES_PER_CLUSTER
  HasTrailing,  \* cid < NB_CUBES_TRAILING
  PE0,          \* the PE whose pid is 0
  Clients       \* the NB_CLIENTS other PEs

ASSUME DepthAssumption    == Depth \in Nat \ {0}
ASSUME NbCubesAssumption  == NbCubes \in Nat
ASSUME TrailingAssumption == HasTrailing \in BOOLEAN
ASSUME PEAssumption       == PE0 \notin Clients

VARIABLES
  pc,      \* where each PE is in task_routine_opal_compute
  cube,    \* icube of each PE
  jobs,    \* jobs of the DMA engine that are not locally complete
  getEv,   \* async_events_get
  putEv,   \* async_events_put
  src,     \* async_buffers_src[ibuf]: the cube in it, the planes updated
  sent     \* what the DMA engine has read for the put of each cube

vars == <<pc, cube, jobs, getEv, putEv, src, sent>>
-----------------------------------------------------------------------------
PEs       == Clients \cup {PE0}
Slots     == 0 .. Depth - 1
Kernel    == 0 .. NbCubes - 1
TrailCube == NbCubes + 1
OwnCubes  == IF HasTrailing THEN Kernel \cup {TrailCube} ELSE Kernel

(* ibuf, next_ibuf and trailing_ibuf.                                      *)
Slot(k) == k % Depth

(* A buffer with cube k in it, whose planes of the PEs in s are updated;   *)
(* the one at the start of the program, and of a cube not yet sent.        *)
Content(k, s) == [cube |-> k, updated |-> s]
Nothing       == Content(-1, {})
GetOf(k)      == Get(Slot(k), k, 0)
PutOf(k)      == Put(Slot(k), k, 0)

(* min(ASYNC_PIPELINE_DEPTH, NB_CUBES_PER_CLUSTER)                         *)
NbPrefetched == IF Depth < NbCubes THEN Depth ELSE NbCubes

(* Seeded faults.  Each is what a plausible slip in the code would make of *)
(* the definition it is named after; no behaviour of Spec uses them.       *)
Fault_WaitsPut(k)   == FALSE
Fault_NextCube(k)   == IF k + 2 < NbCubes THEN k + 1 ELSE TrailCube
Fault_Arrived(p)    == p # PE0 \/ pc[p] \in {"enter", "leave"}

FirstCube    == IF NbCubes > 0 THEN 0 ELSE TrailCube
NextCube(k)  == IF k + 1 < NbCubes THEN k + 1 ELSE TrailCube
ClientAt(k)  == IF k < NbCubes \/ HasTrailing THEN "enter" ELSE "done"
ClientAfter(k) == IF k = TrailCube THEN "done" ELSE ClientAt(NextCube(k))

Init ==
  /\ pc    = [p \in PEs |-> IF p = PE0 THEN "prologue" ELSE ClientAt(FirstCube)]
  /\ cube  = [p \in PEs |-> FirstCube]
  /\ jobs  = {}
  /\ getEv = [s \in Slots |-> NoTicket]
  /\ putEv = [s \in Slots |-> NoTicket]
  /\ src   = [s \in Slots |-> Nothing]
  /\ sent  = [k \in OwnCubes |-> Nothing]

Goto(p, label) == pc' = [pc EXCEPT ![p] = label]
-----------------------------------------------------------------------------
(* PROLOGUE: PE0 enqueues the first gets, one per buffer.                  *)
Prologue ==
  /\ pc[PE0] = "prologue"
  /\ jobs'  = {GetOf(k) : k \in 0 .. NbPrefetched - 1}
  /\ getEv' = [s \in Slots |-> IF s < NbPrefetched THEN GetOf(s) ELSE NoTicket]
  /\ Goto(PE0, IF NbCubes > 0 THEN "wait" ELSE "epilogue")
  /\ UNCHANGED <<cube, putEv, src, sent>>

(* PE0 waits for the cube's arrival, and for nothing else.                 *)
WaitGet ==
  /\ pc[PE0] = "wait"
  /\ Complete(jobs, getEv[Slot(cube[PE0])])
  /\ Goto(PE0, "enter")
  /\ UNCHANGED <<cube, jobs, getEv, putEv, src, sent>>

(* PE0 goes to cube icube + 1, or out of the loop.                         *)
Advance(k) ==
  /\ cube' = [cube EXCEPT ![PE0] = NextCube(k)]
  /\ Goto(PE0, IF NextCube(k) \in Kernel THEN "wait" ELSE "epilogue")

(* The guard under which PE0 enqueues the get of cube k + Depth.           *)
Prefetches(k) == NbCubes - k > Depth - 1

(* After the collision PE0 puts the cube back.                             *)
PutCube ==
  LET k == cube[PE0] IN
  /\ pc[PE0] = "post"
  /\ k \in Kernel
  /\ jobs'  = jobs \cup {PutOf(k)}
  /\ putEv' = [putEv EXCEPT ![Slot(k)] = PutOf(k)]
  /\ IF Prefetches(k) THEN Goto(PE0, "refill") /\ UNCHANGED cube
                      ELSE Advance(k)
  /\ UNCHANGED <<getEv, src, sent>>

(* Before it enqueues the next get into the buffer it waits for the put    *)
(* whose ticket async_events_put[next_ibuf] holds, from the second turn of *)
(* the ring on.                                                            *)
WaitsPut(k) == k > Depth - 1

GetNext ==
  LET k == cube[PE0]
      g == Get(Slot(k), k + Depth, 0)
  IN
  /\ pc[PE0] = "refill"
  /\ WaitsPut(k) => Complete(jobs, putEv[Slot(k)])
  /\ jobs'  = jobs \cup {g}
  /\ getEv' = [getEv EXCEPT ![Slot(k)] = g]
  /\ Advance(k)
  /\ UNCHANGED <<putEv, src, sent>>

(* EPILOGUE: PE0 waits for the last put of every buffer.                   *)
LastPuts == {putEv[s] : s \in 0 .. NbPrefetched - 1}

Epilogue ==
  /\ pc[PE0] = "epilogue"
  /\ \A e \in LastPuts : Complete(jobs, e)
  /\ Goto(PE0, IF HasTrailing THEN "trailing" ELSE "done")
  /\ UNCHANGED <<cube, jobs, getEv, putEv, src, sent>>

(* The trailing cube is fetched and put by blocking calls.                 *)
TrailingGet ==
  /\ pc[PE0] = "trailing"
  /\ jobs' = jobs \cup {GetOf(TrailCube)}
  /\ Goto(PE0, "trailing_get")
  /\ UNCHANGED <<cube, getEv, putEv, src, sent>>

TrailingGetReturns ==
  /\ pc[PE0] = "trailing_get"
  /\ Complete(jobs, GetOf(TrailCube))
  /\ Goto(PE0, "enter")
  /\ UNCHANGED <<cube, jobs, getEv, putEv, src, sent>>

TrailingPut ==
  /\ pc[PE0] = "post"
  /\ cube[PE0] = TrailCube
  /\ jobs' = jobs \cup {PutOf(TrailCube)}
  /\ Goto(PE0, "trailing_put")
  /\ UNCHANGED <<cube, getEv, putEv, src, sent>>

TrailingPutReturns ==
  /\ pc[PE0] = "trailing_put"
  /\ Complete(jobs, PutOf(TrailCube))
  /\ Goto(PE0, "done")
  /\ UNCHANGED <<cube, jobs, getEv, putEv, src, sent>>
-----------------------------------------------------------------------------
(* local_barrier, before and after collide_cube.                           *)
Arrived(p) == pc[p] \in {"enter", "leave"}

LocalBarrier ==
  /\ \A p \in PEs : Arrived(p)
  /\ pc' = [p \in PEs |->
              IF pc[p] = "enter" THEN "collide"
              ELSE IF p = PE0 THEN "post" ELSE ClientAfter(cube[p])]
  /\ cube' = [p \in PEs |->
                IF pc[p] = "leave" /\ p # PE0 THEN NextCube(cube[p])
                ELSE cube[p]]
  /\ UNCHANGED <<jobs, getEv, putEv, src, sent>>

(* collide_cube: PE p updates its plane of the buffer in place.            *)
Collide(p) ==
  LET s == Slot(cube[p]) IN
  /\ pc[p] = "collide"
  /\ src' = [src EXCEPT ![s] = Content(@.cube, @.updated \cup {p})]
  /\ Goto(p, "leave")
  /\ UNCHANGED <<cube, jobs, getEv, putEv, sent>>

(* The join and mppa_rpc_barrier_all: the step is over.                    *)
AllDone  == \A p \in PEs : pc[p] = "done"
Finished == AllDone /\ jobs = {} /\ UNCHANGED vars
-----------------------------------------------------------------------------
(* The data of a get arrives in its local buffer; the DMA engine reads the *)
(* local buffer of a put.  The cluster puts its cubes in increasing order  *)
(* and puts are ordered between themselves (src/doc/Asynchronous.pdf,      *)
(* section 2): the engine reads the lowest one first.                      *)
GetArrives(j) ==
  /\ j.op = "get"
  /\ jobs' = jobs \ {j}
  /\ src'  = [src EXCEPT ![j.buf] = Content(j.cube, {})]
  /\ UNCHANGED <<pc, cube, getEv, putEv, sent>>

PutSent(j) ==
  /\ j.op = "put"
  /\ \A i \in jobs : i.op = "put" => j.cube <= i.cube
  /\ jobs' = jobs \ {j}
  /\ sent' = [sent EXCEPT ![j.cube] = src[j.buf]]
  /\ UNCHANGED <<pc, cube, getEv, putEv, src>>

PE0Step ==
  \/ Prologue
  \/ WaitGet
  \/ PutCube
  \/ GetNext
  \/ Epilogue
  \/ TrailingGet
  \/ TrailingGetReturns
  \/ TrailingPut
  \/ TrailingPutReturns

Dma == \E j \in jobs : GetArrives(j) \/ PutSent(j)

Next ==
  \/ PE0Step
  \/ LocalBarrier
  \/ \E p \in PEs : Collide(p)
  \/ Finished
  \/ Dma

Spec == Init /\ [][Next]_vars

(* Each PE has a core of its own, and the DMA engine serves every job.     *)
Fairness ==
  /\ WF_vars(PE0Step)
  /\ WF_vars(LocalBarrier)
  /\ \A p \in PEs : WF_vars(Collide(p))
  /\ WF_vars(Dma)

FairSpec == Spec /\ Fairness
-----------------------------------------------------------------------------
(***************************************************************************)
(* Properties.                                                             *)
(***************************************************************************)
Labels == {"prologue", "wait", "enter", "collide", "leave", "post", "refill",
           "epilogue", "trailing", "trailing_get", "trailing_put", "done"}

Gets == [op : {"get"}, buf : Slots, cube : 0 .. TrailCube, step : {0}]
Puts == [op : {"put"}, buf : Slots, cube : OwnCubes, step : {0}]
Contents ==
  {Content(k, s) : k \in -1 .. TrailCube, s \in SUBSET PEs}

(* Every variable has its type: no PE handles a cube past the last one and *)
(* the cluster puts only cubes it owns.                                    *)
TypeOK ==
  /\ pc    \in [PEs -> Labels]
  /\ cube  \in [PEs -> Kernel \cup {TrailCube}]
  /\ jobs  \subseteq Gets \cup Puts
  /\ getEv \in [Slots -> Gets \cup {NoTicket}]
  /\ putEv \in [Slots -> Puts \cup {NoTicket}]
  /\ src   \in [Slots -> Contents]
  /\ sent  \in [OwnCubes -> Contents]

(* While a PE is in collide_cube the buffer holds the cube it is updating, *)
(* its own plane not yet updated, and no get is writing there.             *)
CollideOwnsCube ==
  \A p \in PEs : pc[p] = "collide" =>
    /\ src[Slot(cube[p])].cube = cube[p]
    /\ p \notin src[Slot(cube[p])].updated
    /\ GetsInto(jobs, Slot(cube[p])) = {}

(* From the second turn of the ring on, no get is writing a buffer that a  *)
(* put is still reading, and no PE is updating it.  The puts of the first  *)
(* turn are not waited for: see NoGetUnderPut.                             *)
SecondTurnSafe ==
  \A j \in jobs : j.op = "put" /\ j.cube >= Depth =>
    /\ GetsInto(jobs, j.buf) = {}
    /\ \A p \in PEs : pc[p] = "collide" => Slot(cube[p]) # j.buf

(* When the PEs have left the step, the DMA engine has sent each cube of   *)
(* the second turn and after, whole and updated.                           *)
SecondTurnSent ==
  AllDone => \A k \in OwnCubes : k >= Depth => sent[k] = Content(k, PEs)

(* "wait for previous put of next_ibuf" (compute_inplace.c:333), before    *)
(* the next get: no get is writing a buffer that a put is still reading.   *)
NoGetUnderPut ==
  \A j \in jobs : j.op = "put" => GetsInto(jobs, j.buf) = {}

(* In the end each cube of the cluster has been sent, whole and updated.   *)
EveryCubeSent == \A k \in OwnCubes : <>[](sent[k] = Content(k, PEs))

(* It is so of the cubes of the second turn of the ring and after.         *)
LaterCubesSent ==
  \A k \in OwnCubes : k >= Depth => <>[](sent[k] = Content(k, PEs))
=============================================================================
