--------------------------- MODULE ComputePipeline ---------------------------
(***************************************************************************)
(* task_routine_opal_compute of the two-lattice build                      *)
(* (src/opal/src_bare_async/cluster/compute.c), on ONE compute cluster.    *)
(*                                                                         *)
(* The PEs of the cluster sweep the cubes the cluster owns.  A ring of     *)
(* Depth buffers async_buffers_src receives the cubes from the source      *)
(* lattice, a ring of Depth buffers async_buffers_dst holds the updated    *)
(* cubes on their way to the destination lattice.  PE0 alone talks to the  *)
(* DMA engine; the other PEs ("clients") follow it through local_barrier.  *)
(* NbSteps calls of compute_async follow one another, as main.c does.      *)
(*                                                                         *)
(* Cubes are numbered from icube_begin: 0 .. NbCubes-1 are the cubes of    *)
(* the kernel loop, NbCubes is icube_end, the first cube that belongs to   *)
(* somebody else, and TrailCube stands for the trailing cube               *)
(* cid + NB_CLUSTERS*NB_CUBES_PER_CLUSTER.  The content of a buffer is     *)
(* abstracted to the cube and the time step it was read for.               *)
(***************************************************************************)
EXTENDS MppaAsync, FiniteSets

CONSTANTS
  Depth,        \* ASYNC_PIPELINE_DEPTH
  NbCubes,      \* NB_CUBES_PER_CLUSTER
  HasTrailing,  \* cid < NB_CUBES_TRAILING
  PE0,          \* the PE whose pid is 0
  Clients,      \* the NB_CLIENTS other PEs
  NbSteps       \* calls of compute_async (bounds the model)

ASSUME DepthAssumption    == Depth \in Nat \ {0}
ASSUME NbCubesAssumption  == NbCubes \in Nat
ASSUME TrailingAssumption == HasTrailing \in BOOLEAN
ASSUME PEAssumption       == PE0 \notin Clients
ASSUME NbStepsAssumption  == NbSteps \in Nat \ {0}

VARIABLES
  step,    \* the time step of the running compute_async
  pc,      \* where each PE is in task_routine_opal_compute
  cube,    \* icube of each PE
  jobs,    \* jobs of the DMA engine that are not locally complete
  getEv,   \* async_events_get
  putEv,   \* async_events_put
  src,     \* content of each async_buffers_src[ibuf]
  dst,     \* content of each async_buffers_dst[ibuf][zs], zs = pid
  wire,    \* puts locally complete whose effect is not yet visible
  out      \* the cluster's cubes in the two lattices, plane by plane

vars == <<step, pc, cube, jobs, getEv, putEv, src, dst, wire, out>>
-----------------------------------------------------------------------------
PEs       == Clients \cup {PE0}
Slots     == 0 .. Depth - 1
Steps     == 0 .. NbSteps - 1
Kernel    == 0 .. NbCubes - 1
TrailCube == NbCubes + 1
OwnCubes  == IF HasTrailing THEN Kernel \cup {TrailCube} ELSE Kernel

(* ibuf starts at 0 and advances by one modulo Depth with icube; it equals *)
(* NbCubes % Depth after the loop, and trailing_ibuf is the next one.      *)
Slot(k) == k % Depth

(* What a buffer holds once cube k of the lattice of step s is in it.      *)
Content(k, s) == [cube |-> k, step |-> s]
Zeros         == Content(0, -1)
Contents      == {Content(k, s) : k \in 0 .. TrailCube, s \in Steps}
                   \cup {Zeros}

(* Dst of step s: LatticeOdd (1) in the even steps, LatticeEven (0) in the *)
(* odd ones (main.c).                                                      *)
DstOf(s) == (s + 1) % 2

(* min(ASYNC_PIPELINE_DEPTH, NB_CUBES_PER_CLUSTER)                         *)
NbPrefetched == IF Depth < NbCubes THEN Depth ELSE NbCubes

(* Seeded faults.  Each is what a plausible slip in the code would make of *)
(* the definition it is named after; no behaviour of Spec uses them.       *)
Fault_NextCube(k)   == k + 1
Fault_NextCube2(k)  == IF k + 2 < NbCubes THEN k + 1 ELSE TrailCube
Fault_WaitsPut(k)   == k > Depth
Fault_NextSlot(k)   == Slot(k + 1)
Fault_LastPuts      == {putEv[s] : s \in 1 .. NbPrefetched - 1}
Fault_Arrived(p)    == pc[PE0] \in {"enter", "leave"} /\ pc[p] # "wait"

(* The loop "for icube": the cube handled first, the one handled after k   *)
(* (the trailing one comes last), and where a client goes to handle k.     *)
FirstCube    == IF NbCubes > 0 THEN 0 ELSE TrailCube
NextCube(k)  == IF k + 1 < NbCubes THEN k + 1 ELSE TrailCube
ClientAt(k)  == IF k < NbCubes \/ HasTrailing THEN "enter" ELSE "done"
ClientAfter(k) == IF k = TrailCube THEN "done" ELSE ClientAt(NextCube(k))

(* utask_create: every PE starts the routine.                              *)
StartPc == [p \in PEs |-> IF p = PE0 THEN "prologue" ELSE ClientAt(FirstCube)]

Init ==
  /\ step  = 0
  /\ pc    = StartPc
  /\ cube  = [p \in PEs |-> FirstCube]
  /\ jobs  = {}
  /\ getEv = [s \in Slots |-> NoTicket]
  /\ putEv = [s \in Slots |-> NoTicket]
  /\ src   = [s \in Slots |-> Zeros]
  /\ dst   = [s \in Slots |-> [p \in PEs |-> Zeros]]
  /\ wire  = {}
  /\ out   = [l \in 0 .. 1 |-> [k \in OwnCubes |-> [p \in PEs |-> Zeros]]]

Goto(p, label) == pc' = [pc EXCEPT ![p] = label]
-----------------------------------------------------------------------------
(***************************************************************************)
(* PE0.                                                                    *)
(***************************************************************************)

(* PROLOGUE: PE0 enqueues the first gets, one per buffer.                  *)
Prologue ==
  /\ pc[PE0] = "prologue"
  /\ jobs'  = jobs \cup {Get(Slot(k), k, step) : k \in 0 .. NbPrefetched - 1}
  /\ getEv' = [s \in Slots |->
                 IF s < NbPrefetched THEN Get(s, s, step) ELSE getEv[s]]
  /\ Goto(PE0, IF NbCubes > 0 THEN "wait" ELSE "epilogue")
  /\ UNCHANGED <<step, cube, putEv, src, dst, wire, out>>

(* PE0 waits for the cube's arrival and, from the second turn of the ring  *)
(* on, for the previous put of the buffer the collision will write to.     *)
WaitsPut(k) == k > Depth - 1

WaitBuffers ==
  LET k == cube[PE0] IN
  /\ pc[PE0] = "wait"
  /\ Complete(jobs, getEv[Slot(k)])
  /\ WaitsPut(k) => Complete(jobs, putEv[Slot(k)])
  /\ Goto(PE0, "enter")
  /\ UNCHANGED <<step, cube, jobs, getEv, putEv, src, dst, wire, out>>

(* The guard under which PE0 enqueues the get of cube k + Depth, and the   *)
(* buffer it goes to (next_ibuf = ibuf).                                   *)
Prefetches(k) == NbCubes - k > Depth - 1
NextSlot(k)   == Slot(k)

(* After the collision PE0 puts the cube back and enqueues the next get    *)
(* into the source buffer that has just been used.                         *)
PutCube ==
  LET k == cube[PE0]
      s == Slot(k)
      n == NextSlot(k)
      g == Get(n, k + Depth, step)
  IN
  /\ pc[PE0] = "post"
  /\ k \in Kernel
  /\ jobs'  = jobs \cup {Put(s, k, step)}
                   \cup (IF Prefetches(k) THEN {g} ELSE {})
  /\ putEv' = [putEv EXCEPT ![s] = Put(s, k, step)]
  /\ getEv' = IF Prefetches(k) THEN [getEv EXCEPT ![n] = g] ELSE getEv
  /\ cube'  = [cube EXCEPT ![PE0] = NextCube(k)]
  /\ Goto(PE0, IF NextCube(k) \in Kernel THEN "wait" ELSE "epilogue")
  /\ UNCHANGED <<step, src, dst, wire, out>>

(* EPILOGUE: PE0 waits for the last put of every buffer.                   *)
LastPuts == {putEv[s] : s \in 0 .. NbPrefetched - 1}

Epilogue ==
  /\ pc[PE0] = "epilogue"
  /\ \A e \in LastPuts : Complete(jobs, e)
  /\ Goto(PE0, IF HasTrailing THEN "trailing" ELSE "done")
  /\ UNCHANGED <<step, cube, jobs, getEv, putEv, src, dst, wire, out>>

(* The trailing cube is fetched and put by blocking calls (event NULL):    *)
(* the call is made, then returns when the job is locally complete.        *)
TrailingGet ==
  /\ pc[PE0] = "trailing"
  /\ jobs' = jobs \cup {Get(Slot(TrailCube), TrailCube, step)}
  /\ Goto(PE0, "trailing_get")
  /\ UNCHANGED <<step, cube, getEv, putEv, src, dst, wire, out>>

TrailingGetReturns ==
  /\ pc[PE0] = "trailing_get"
  /\ Complete(jobs, Get(Slot(TrailCube), TrailCube, step))
  /\ Goto(PE0, "enter")
  /\ UNCHANGED <<step, cube, jobs, getEv, putEv, src, dst, wire, out>>

TrailingPut ==
  /\ pc[PE0] = "post"
  /\ cube[PE0] = TrailCube
  /\ jobs' = jobs \cup {Put(Slot(TrailCube), TrailCube, step)}
  /\ Goto(PE0, "trailing_put")
  /\ UNCHANGED <<step, cube, getEv, putEv, src, dst, wire, out>>

TrailingPutReturns ==
  /\ pc[PE0] = "trailing_put"
  /\ Complete(jobs, Put(Slot(TrailCube), TrailCube, step))
  /\ Goto(PE0, "done")
  /\ UNCHANGED <<step, cube, jobs, getEv, putEv, src, dst, wire, out>>
-----------------------------------------------------------------------------
(***************************************************************************)
(* Every PE.                                                               *)
(***************************************************************************)

(* local_barrier: nobody leaves before everybody has come.  The barrier is *)
(* the same object (barrier_0) wherever it is called, so it only counts    *)
(* arrivals: "enter" is the call before collide_cube, "leave" the one      *)
(* after it, and a client goes on to its next cube.                        *)
Arrived(p) == pc[p] \in {"enter", "leave"}

LocalBarrier ==
  /\ \A p \in PEs : Arrived(p)
  /\ pc' = [p \in PEs |->
              IF pc[p] = "enter" THEN "collide"
              ELSE IF p = PE0 THEN "post" ELSE ClientAfter(cube[p])]
  /\ cube' = [p \in PEs |->
                IF pc[p] = "leave" /\ p # PE0 THEN NextCube(cube[p])
                ELSE cube[p]]
  /\ UNCHANGED <<step, jobs, getEv, putEv, src, dst, wire, out>>

(* collide_cube: from "collide" to "leave" PE p reads its plane of the     *)
(* source buffer, with the halo around it, and writes its plane of the     *)
(* destination buffer.                                                     *)
Collide(p) ==
  LET s == Slot(cube[p]) IN
  /\ pc[p] = "collide"
  /\ dst' = [dst EXCEPT ![s] = [@ EXCEPT ![p] = src[s]]]
  /\ Goto(p, "leave")
  /\ UNCHANGED <<step, cube, jobs, getEv, putEv, src, wire, out>>

AllDone == \A p \in PEs : pc[p] = "done"

(* The join of the clients and mppa_rpc_barrier_all end compute_async; the *)
(* main loop calls it again for the next step.  Nothing waits for the DMA. *)
NextStep ==
  /\ AllDone
  /\ step + 1 < NbSteps
  /\ step' = step + 1
  /\ pc'   = StartPc
  /\ cube' = [p \in PEs |-> FirstCube]
  /\ UNCHANGED <<jobs, getEv, putEv, src, dst, wire, out>>

(* The last step is over.                                                  *)
Finished == AllDone /\ step = NbSteps - 1 /\ UNCHANGED vars
-----------------------------------------------------------------------------
(***************************************************************************)
(* The DMA engine and the network.                                         *)
(***************************************************************************)

(* The data of a get arrives in its local buffer.                          *)
GetArrives(j) ==
  /\ j.op = "get"
  /\ jobs' = jobs \ {j}
  /\ src'  = [src EXCEPT ![j.buf] = Content(j.cube, j.step)]
  /\ UNCHANGED <<step, pc, cube, getEv, putEv, dst, wire, out>>

(* The local buffer of a put has been read: the put is locally complete.   *)
PutSent(j) ==
  /\ j.op = "put"
  /\ jobs' = jobs \ {j}
  /\ wire' = wire \cup
                {[cube |-> j.cube, step |-> j.step, planes |-> dst[j.buf]]}
  /\ UNCHANGED <<step, pc, cube, getEv, putEv, src, dst, out>>

(* The effect of a put becomes visible in the lattice it was sent to; puts *)
(* to one segment are ordered between themselves.                          *)
PutVisible(w) ==
  /\ \A v \in wire : v.cube = w.cube => v.step >= w.step
  /\ wire' = wire \ {w}
  /\ out'  = [out EXCEPT ![DstOf(w.step)] = [@ EXCEPT ![w.cube] = w.planes]]
  /\ UNCHANGED <<step, pc, cube, jobs, getEv, putEv, src, dst>>

Dma ==
  \/ \E j \in jobs : GetArrives(j) \/ PutSent(j)
  \/ \E w \in wire : PutVisible(w)
-----------------------------------------------------------------------------
PE0Step ==
  \/ Prologue
  \/ WaitBuffers
  \/ PutCube
  \/ Epilogue
  \/ TrailingGet
  \/ TrailingGetReturns
  \/ TrailingPut
  \/ TrailingPutReturns

Next ==
  \/ PE0Step
  \/ LocalBarrier
  \/ \E p \in PEs : Collide(p)
  \/ NextStep
  \/ Finished
  \/ Dma

Spec == Init /\ [][Next]_vars

(* The PEs run, the barrier releases, the clusters meet again, and the DMA *)
(* engine serves every job: each PE has its own core, and the hardware     *)
(* processes every posted transfer.                                        *)
Fairness ==
  /\ WF_vars(PE0Step)
  /\ WF_vars(LocalBarrier)
  /\ \A p \in PEs : WF_vars(Collide(p))
  /\ WF_vars(NextStep)
  /\ WF_vars(Dma)

FairSpec == Spec /\ Fairness
-----------------------------------------------------------------------------
(***************************************************************************)
(* Properties.                                                             *)
(***************************************************************************)
PE0Labels == {"prologue", "wait", "enter", "collide", "leave", "post",
              "epilogue", "trailing", "trailing_get", "trailing_put", "done"}
ClientLabels == {"enter", "collide", "leave", "done"}

Gets == [op : {"get"}, buf : Slots, cube : 0 .. TrailCube, step : Steps]
Puts == [op : {"put"}, buf : Slots, cube : OwnCubes, step : Steps]

(* Every variable has its type.  No PE handles a cube past the last one,   *)
(* and the cluster puts only cubes it owns.                                *)
TypeOK ==
  /\ step  \in Steps
  /\ pc    \in [PEs -> PE0Labels]
  /\ \A p \in Clients : pc[p] \in ClientLabels
  /\ cube  \in [PEs -> Kernel \cup {TrailCube}]
  /\ jobs  \subseteq Gets \cup Puts
  /\ getEv \in [Slots -> Gets \cup {NoTicket}]
  /\ putEv \in [Slots -> Puts \cup {NoTicket}]
  /\ src   \in [Slots -> Contents]
  /\ dst   \in [Slots -> [PEs -> Contents]]
  /\ wire  \subseteq [cube : OwnCubes, step : Steps, planes : [PEs -> Contents]]
  /\ out   \in [0 .. 1 -> [OwnCubes -> [PEs -> Contents]]]

(* The kernel loop also fetches cube NbCubes (compute.c:343), and nothing   *)
(* waits for that get: it may arrive in a later step, or in the same one   *)
(* when the trailing cube has its buffer.  Alien is what it can leave      *)
(* where cube k of step s should be, Seen what the PEs can find there.     *)
Alien(k, s) ==
  {Content(NbCubes, r) : r \in {r \in 0 .. s :
     /\ NbCubes >= Depth
     /\ Slot(k) = Slot(NbCubes)
     /\ r < s \/ k = TrailCube}}
Seen(k, s) == {Content(k, s)} \cup Alien(k, s)

(* The planes of cube k of step s, each made from what the PE found.       *)
Updated(planes, k, s) == \A p \in PEs : planes[p] \in Seen(k, s)

(* The cube has arrived: while a PE is in collide_cube, the source buffer  *)
(* it reads holds the cube it is computing, as it was at the beginning of  *)
(* this step, and no transfer is writing to that buffer.  The one thing    *)
(* that can be there instead, or still be on its way, is a get of cube     *)
(* NbCubes that nobody waited for.                                         *)
CollideReadsOwnCube ==
  \A p \in PEs : pc[p] = "collide" =>
    /\ src[Slot(cube[p])] \in Seen(cube[p], step)
    /\ \A g \in GetsInto(jobs, Slot(cube[p])) :
         Content(g.cube, g.step) \in Alien(cube[p], step)

(* No put starts before every PE has written its plane, and none of the    *)
(* planes changes before the put is locally complete: what the DMA engine  *)
(* is sending is, plane by plane, what the PEs made of the cube it was     *)
(* asked to send.                                                          *)
PutCarriesWholeCube ==
  \A j \in jobs : j.op = "put" =>
    Updated(dst[j.buf], j.cube, j.step)

(* "wait for previous put of async_buffers_dst before collision which is   *)
(* writing to the same slot" (compute.c:318): no PE is writing a           *)
(* destination buffer that a put is still reading.                         *)
NoWriteUnderPut ==
  \A p \in PEs : pc[p] = "collide" => PutsFrom(jobs, Slot(cube[p])) = {}

(* local_barrier keeps the PEs in lockstep: two PEs in collide_cube are on *)
(* the same cube, and PE0 is not handling the buffers meanwhile.           *)
Lockstep ==
  \A p, q \in PEs : pc[p] = "collide" =>
    /\ pc[q] \in {"collide", "leave"}
    /\ cube[q] = cube[p]

(* When every PE of the cluster has left the step, each cube it owns has   *)
(* been updated, in all planes and for this step, from what the PEs found  *)
(* where the cube should be, and its put is locally complete.              *)
StepComplete ==
  AllDone => \A k \in OwnCubes :
    \/ Updated(out[DstOf(step)][k], k, step)
    \/ \E w \in wire :
         w.cube = k /\ w.step = step /\ Updated(w.planes, k, step)

(* An event is not given a second ticket while the job of its first one is *)
(* pending, so that no wait is lost.  For gets there is one exception, the *)
(* get of cube NbCubes: the prologue of the next step forgets its ticket.  *)
PutTicketKept ==
  [][\A s \in Slots : putEv'[s] # putEv[s] => Complete(jobs, putEv[s])]_vars
GetTicketKept ==
  [][\A s \in Slots : getEv'[s] # getEv[s] =>
       Complete(jobs, getEv[s]) \/ getEv[s].cube = NbCubes]_vars

(* In the end every cube of the cluster holds a result of the last step.   *)
EveryCubeUpdated ==
  \A k \in OwnCubes :
    <>[]Updated(out[DstOf(NbSteps - 1)][k], k, NbSteps - 1)

(* "PE0 waits for cube's arrival" (compute.c:310), taken at its word: what *)
(* a PE computes from is the cube, and nothing arrives there meanwhile.    *)
CubeHasArrived ==
  \A p \in PEs : pc[p] = "collide" =>
    /\ src[Slot(cube[p])] = Content(cube[p], step)
    /\ GetsInto(jobs, Slot(cube[p])) = {}

(* "then enqueues next async_get of the remote 'icube+ASYNC_PIPELINE_DEPTH'*)
(* (if exists)" (compute.c:342): the cluster fetches only cubes it owns.   *)
GetsOnlyOwnCubes == \A j \in jobs : j.op = "get" => j.cube \in OwnCubes
=============================================================================
