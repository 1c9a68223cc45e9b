--------------------------- MODULE MonitorPipeline ---------------------------
(***************************************************************************)
(* task_routine_opal_monitor (src/opal/src_bare_async/cluster/             *)
(* compute_common.c:656) on ONE compute cluster: every Period steps the    *)
(* cluster sweeps its cubes again, reads a cube of the lattice and the     *)
(* velocities it stored at the previous monitoring, stores the new ones in *)
(* place of the old, and adds the squares of the differences up.           *)
(*                                                                         *)
(* The pipeline is the one of ComputePipeline but for what follows: a slot *)
(* has two buffers, async_buffers_src and async_velocity, and the gets of  *)
(* both are given the SAME event; the velocities are put from the buffer   *)
(* they were fetched into; the pixels of the cubes of the picture go       *)
(* through ONE buffer async_bitmap, whatever the slot, on the event of the *)
(* put of the velocities.  Cubes are numbered as in ComputePipeline.       *)
(*                                                                         *)
(* The DMA engine reads the local buffers of puts in the order the puts    *)
(* were posted, and orders no gets (src/doc/Asynchronous.pdf, section 2).  *)
(* The effect of a put on the memory is immediate here: the monitorings    *)
(* are two barriers of the clusters apart.  What arrives in                *)
(* async_buffers_src is not followed, only whether it has arrived.         *)
(***************************************************************************)
EXTENDS Integers, Sequences, SequencesExt

CONSTANTS
  Depth,        \* ASYNC_PIPELINE_DEPTH
  NbCubes,      \* NB_CUBES_PER_CLUSTER
  HasTrailing,  \* cid < NB_CUBES_TRAILING
  Picture,      \* cubes with icubey == NB_CUBES_Y>>1 ({} without Images)
  PE0, Clients, \* as in ComputePipeline
  NbCalls       \* calls of monitor (bounds the model)

ASSUME RingAssumption == /\ Depth \in Nat \ {0}
                         /\ NbCubes \in Nat \ {0}
                         /\ NbCalls \in Nat \ {0}
ASSUME FlagAssumption == HasTrailing \in BOOLEAN
ASSUME PEAssumption   == PE0 \notin Clients

PEs       == Clients \cup {PE0}
Slots     == 0 .. Depth - 1
Kernel    == 0 .. NbCubes - 1
TrailCube == NbCubes + 1
OwnCubes  == IF HasTrailing THEN Kernel \cup {TrailCube} ELSE Kernel
Slot(k)   == k % Depth

VARIABLES
  call,    \* the running call of monitor, from 1
  pc,      \* where each PE is in task_routine_opal_monitor
  cube,    \* icube of each PE
  gets,    \* gets that have not arrived
  puts,    \* puts whose local buffer has not been read, in their order
  getEv,   \* async_events_get
  putEv,   \* async_events_put
  vel,     \* content of each async_velocity[ibuf][zs], zs = pid
  bitmap,  \* content of each async_bitmap[zs]
  delta,   \* what delta_reduce_monocluster[pid] is the sum of
  memory,  \* the cluster's cubes of Velocity, plane by plane
  image    \* the cluster's squares of Bitmap, plane by plane

dma  == <<gets, puts, getEv, putEv>>
data == <<vel, bitmap, delta, memory, image>>
vars == <<call, pc, cube, dma, data>>

(* Cube k of Src, or its velocities, as of the c-th call (0: by init).     *)
Content(k, c) == [cube |-> k, call |-> c]
Nothing       == Content(-1, 0)
Planes(k, c)  == [p \in PEs |-> Content(k, c)]

(* A job: the array it moves, the buffer, the cube, the call that asked.   *)
Job(array, k) == [array |-> array, buf |-> Slot(k), cube |-> k, call |-> call]
NoTicket      == [array |-> "none", buf |-> 0, cube |-> 0, call |-> 0]

(* Seeded faults: what a plausible slip would make of the definition each  *)
(* is named after; no behaviour of Spec uses them.                         *)
Fault_Ticket(k)      == Job("src", k)
Fault_WaitsPut(k)    == FALSE
Fault_Reset          == delta
Fault_NextCube2(k)   == IF k + 2 < NbCubes THEN k + 1 ELSE TrailCube

(* The two gets of cube k, the ticket that their event keeps (the one of   *)
(* the second), and the puts of cube k in the order of the code.           *)
GetsOf(k) == {Job("src", k), Job("vel", k)}
Ticket(k) == Job("vel", k)
PutsOf(k) == IF k \in Picture THEN <<Job("vel", k), Job("bitmap", k)>>
             ELSE <<Job("vel", k)>>

Complete(event) == event \notin gets \cup Range(puts)
-----------------------------------------------------------------------------
NbPrefetched == IF Depth < NbCubes THEN Depth ELSE NbCubes
NextCube(k)  == IF k + 1 < NbCubes THEN k + 1 ELSE TrailCube
StartPc      == [p \in PEs |-> IF p = PE0 THEN "prologue" ELSE "enter"]

(* Every PE begins a call with delta_reduce_monocluster[pid] = 0.0f.       *)
Reset == [p \in PEs |-> {}]

Init ==
  /\ call   = 1
  /\ pc     = StartPc
  /\ cube   = [p \in PEs |-> 0]
  /\ gets   = {}
  /\ puts   = <<>>
  /\ getEv  = [s \in Slots |-> NoTicket]
  /\ putEv  = [s \in Slots |-> NoTicket]
  /\ vel    = [s \in Slots |-> [p \in PEs |-> Nothing]]
  /\ bitmap = [p \in PEs |-> Nothing]
  /\ delta  = [p \in PEs |-> {}]
  /\ memory = [k \in OwnCubes |-> Planes(k, 0)]
  /\ image  = [k \in OwnCubes \cap Picture |-> Planes(k, 0)]

Goto(p, label) == pc' = [pc EXCEPT ![p] = label]

(* PROLOGUE: two gets per buffer, on the one event of the buffer.          *)
Prologue ==
  /\ pc[PE0] = "prologue"
  /\ gets'  = gets \cup UNION {GetsOf(k) : k \in 0 .. NbPrefetched - 1}
  /\ getEv' = [s \in Slots |->
                 IF s < NbPrefetched THEN Ticket(s) ELSE getEv[s]]
  /\ Goto(PE0, "wait")
  /\ UNCHANGED <<call, cube, puts, putEv, data>>

(* PE0 waits for the job whose ticket the event of the slot holds.         *)
WaitGet ==
  /\ pc[PE0] = "wait"
  /\ Complete(getEv[Slot(cube[PE0])])
  /\ Goto(PE0, "enter")
  /\ UNCHANGED <<call, cube, dma, data>>

(* PE0 puts the velocities, and the pixels of a cube of the picture.       *)
PutCube ==
  LET k == cube[PE0] IN
  /\ pc[PE0] = "post"
  /\ k \in Kernel
  /\ puts'  = puts \o PutsOf(k)
  /\ putEv' = [putEv EXCEPT ![Slot(k)] = Last(PutsOf(k))]
  /\ Goto(PE0, "refill")
  /\ UNCHANGED <<call, cube, gets, getEv, data>>

(* It waits for them ("not needed on the first loop"), then enqueues the   *)
(* next gets into the same slot: next_ibuf = ibuf.                         *)
WaitsPut(k)   == k > 0
Prefetches(k) == NbCubes - k > Depth - 1

GetNext ==
  LET k == cube[PE0] IN
  /\ pc[PE0] = "refill"
  /\ WaitsPut(k) => Complete(putEv[Slot(k)])
  /\ IF Prefetches(k)
     THEN /\ gets'  = gets \cup GetsOf(k + Depth)
          /\ getEv' = [getEv EXCEPT ![Slot(k)] = Ticket(k + Depth)]
     ELSE UNCHANGED <<gets, getEv>>
  /\ cube'  = [cube EXCEPT ![PE0] = NextCube(k)]
  /\ Goto(PE0, IF NextCube(k) \in Kernel THEN "wait" ELSE "epilogue")
  /\ UNCHANGED <<call, puts, putEv, data>>

(* EPILOGUE: PE0 waits for the last put of every buffer.                   *)
LastPuts == {putEv[s] : s \in 0 .. NbPrefetched - 1}

Epilogue ==
  /\ pc[PE0] = "epilogue"
  /\ \A e \in LastPuts : Complete(e)
  /\ Goto(PE0, IF HasTrailing THEN "trailing_src" ELSE "done")
  /\ UNCHANGED <<call, cube, dma, data>>

(* The trailing cube goes through blocking calls, one job after the other. *)
TrailingCalls ==
  LET get(label, array, next) ==
        /\ pc[PE0] = label
        /\ gets' = gets \cup {Job(array, TrailCube)}
        /\ Goto(PE0, next)
        /\ UNCHANGED puts
      put(label, array, next) ==
        /\ pc[PE0] = label
        /\ puts' = Append(puts, Job(array, TrailCube))
        /\ Goto(PE0, next)
        /\ UNCHANGED gets
  IN
  /\ \/ get("trailing_src", "src", "returns_src")
     \/ get("trailing_vel", "vel", "returns_vel")
     \/ cube[PE0] = TrailCube /\ put("post", "vel", "returns_put")
     \/ put("trailing_bitmap", "bitmap", "returns_bitmap")
  /\ UNCHANGED <<call, cube, getEv, putEv, data>>

TrailingReturns ==
  LET returns(label, array, next) ==
        pc[PE0] = label /\ Complete(Job(array, TrailCube)) /\ Goto(PE0, next)
  IN
  /\ \/ returns("returns_src", "src", "trailing_vel")
     \/ returns("returns_vel", "vel", "enter")
     \/ returns("returns_put", "vel",
                IF TrailCube \in Picture THEN "trailing_bitmap" ELSE "done")
     \/ returns("returns_bitmap", "bitmap", "done")
  /\ UNCHANGED <<call, cube, dma, data>>
-----------------------------------------------------------------------------
(* local_barrier, before ("enter") and after ("leave") monitor_cube.       *)
Arrived(p) == pc[p] \in {"enter", "leave"}

ClientAfter(k) ==
  IF NextCube(k) \in OwnCubes /\ k # TrailCube THEN "enter" ELSE "done"

LocalBarrier ==
  /\ \A p \in PEs : Arrived(p)
  /\ pc' = [p \in PEs |->
              IF pc[p] = "enter" THEN "monitor"
              ELSE IF p = PE0 THEN "post" ELSE ClientAfter(cube[p])]
  /\ cube' = [p \in PEs |->
                IF pc[p] = "leave" /\ p # PE0 THEN NextCube(cube[p])
                ELSE cube[p]]
  /\ UNCHANGED <<call, dma, data>>

(* monitor_cube: the velocity of a node, from what the source buffer holds *)
(* when this PE computes it for its cube (see SourceHasArrived).           *)
NewVelocity(p) == Content(cube[p], call)

(* PE p adds the variation of its plane to its sum, stores the velocities  *)
(* over the old ones, and draws its line of the picture.                   *)
Monitor(p) ==
  LET s == Slot(cube[p]) IN
  /\ pc[p] = "monitor"
  /\ delta' = [delta EXCEPT ![p] = @ \cup
                 {[of |-> cube[p], old |-> vel[s][p], new |-> NewVelocity(p)]}]
  /\ vel'   = [vel EXCEPT ![s] = [@ EXCEPT ![p] = NewVelocity(p)]]
  /\ bitmap' = IF cube[p] \in Picture
               THEN [bitmap EXCEPT ![p] = NewVelocity(p)] ELSE bitmap
  /\ Goto(p, "leave")
  /\ UNCHANGED <<call, cube, dma, memory, image>>

(* monitor joins the clients; the clusters meet, and meet again in the     *)
(* compute phases before the next monitoring.                              *)
AllDone == \A p \in PEs : pc[p] = "done"

NextCall ==
  /\ AllDone
  /\ call < NbCalls
  /\ call'  = call + 1
  /\ pc'    = StartPc
  /\ cube'  = [p \in PEs |-> 0]
  /\ delta' = Reset
  /\ UNCHANGED <<dma, vel, bitmap, memory, image>>

Finished == AllDone /\ call = NbCalls /\ UNCHANGED vars
-----------------------------------------------------------------------------
(* What a get of velocities brings: of a cube of its own the cluster       *)
(* fetches what it has stored there; nothing is said of cubes of others.   *)
Fetched(j) == IF j.cube \in OwnCubes THEN memory[j.cube] ELSE Planes(j.cube, 0)

GetArrives(j) ==
  /\ gets' = gets \ {j}
  /\ vel'  = IF j.array = "vel" THEN [vel EXCEPT ![j.buf] = Fetched(j)] ELSE vel
  /\ UNCHANGED <<call, pc, cube, puts, getEv, putEv, bitmap, delta, memory,
                 image>>

PutSent ==
  LET j == Head(puts) IN
  /\ puts # <<>>
  /\ puts' = Tail(puts)
  /\ IF j.array = "bitmap"
     THEN image' = [image EXCEPT ![j.cube] = bitmap] /\ UNCHANGED memory
     ELSE memory' = [memory EXCEPT ![j.cube] = vel[j.buf]] /\ UNCHANGED image
  /\ UNCHANGED <<call, pc, cube, gets, getEv, putEv, vel, bitmap, delta>>

Dma == PutSent \/ \E j \in gets : GetArrives(j)

PE0Step ==
  \/ Prologue
  \/ WaitGet
  \/ PutCube
  \/ GetNext
  \/ Epilogue
  \/ TrailingCalls
  \/ TrailingReturns

Next ==
  \/ PE0Step
  \/ LocalBarrier
  \/ \E p \in PEs : Monitor(p)
  \/ NextCall
  \/ Finished
  \/ Dma

Spec == Init /\ [][Next]_vars

-----------------------------------------------------------------------------
(***************************************************************************)
(* Properties.                                                             *)
(***************************************************************************)
Labels == {"prologue", "wait", "enter", "monitor", "leave", "post", "refill",
           "epilogue", "trailing_src", "returns_src", "trailing_vel",
           "returns_vel", "returns_put", "trailing_bitmap", "returns_bitmap",
           "done"}
Contents == {Content(k, c) : k \in 0 .. TrailCube, c \in 0 .. NbCalls}
              \cup {Nothing}

Jobs == [array : {"src", "vel", "bitmap"}, buf : Slots,
         cube : 0 .. TrailCube, call : 1 .. NbCalls]

(* Every variable has its type.                                            *)
TypeOK ==
  /\ call   \in 1 .. NbCalls
  /\ pc     \in [PEs -> Labels]
  /\ cube   \in [PEs -> Kernel \cup {TrailCube}]
  /\ gets   \subseteq Jobs
  /\ puts   \in Seq(Jobs)
  /\ getEv  \in [Slots -> Jobs \cup {NoTicket}]
  /\ putEv  \in [Slots -> Jobs \cup {NoTicket}]
  /\ vel    \in [Slots -> [PEs -> Contents]]
  /\ bitmap \in [PEs -> Contents]
  /\ delta  \in [PEs -> SUBSET [of : OwnCubes, old : Contents, new : Contents]]
  /\ memory \in [OwnCubes -> [PEs -> Contents]]
  /\ image  \in [OwnCubes \cap Picture -> [PEs -> Contents]]

(* The cube whose put may be overtaken by the refill of its slot, and what *)
(* that leaves in memory for the calls that follow.                        *)
Exposed == IF Prefetches(0) THEN {0} ELSE {}
Suspect == IF call = 1 THEN {} ELSE Exposed

(* The kernel loop also fetches the velocities of cube NbCubes, and no one *)
(* waits for that get: it may arrive in a later call, or in the same one   *)
(* when the trailing cube has its buffer.  Alien is what it can leave      *)
(* where the velocities of cube k should be; Old and New are what can be   *)
(* found there before the PEs come to that cube, and after.                *)
Alien(k) ==
  IF /\ NbCubes >= Depth
     /\ Slot(k) = Slot(NbCubes)
     /\ call > 1 \/ k = TrailCube
  THEN {Content(NbCubes, 0)} ELSE {}
Old(k) == {Content(k, call - 1)} \cup Alien(k)
New(k) == {Content(k, call)} \cup Alien(k)

(* A get of velocities that may reach the buffer of cube k untimely.       *)
Untimely(g, k) == g.cube = NbCubes /\ Alien(k) # {}

(* While a PE is in monitor_cube, its plane of async_velocity holds what   *)
(* was stored for this cube, and no get is writing there; the velocities   *)
(* of cube NbCubes are the only ones that can be there instead.            *)
MonitorReadsOwnCube ==
  \A p \in PEs : pc[p] = "monitor" =>
    LET s == Slot(cube[p]) IN
    /\ cube[p] \notin Suspect => vel[s][p] \in Old(cube[p])
    /\ \A g \in gets : g.array = "vel" /\ g.buf = s => Untimely(g, cube[p])

(* "PE0 waits for cube's arrival, others PE too" (compute_common.c:690),   *)
(* taken at its word: while a PE is in monitor_cube nothing is still to    *)
(* arrive in its source buffer.                                            *)
SourceHasArrived ==
  \A p \in PEs : pc[p] = "monitor" =>
    \A g \in gets : g.array = "src" => g.buf # Slot(cube[p])

(* "wait for the previous async put ... before enqueueing the next get ... *)
(* into the same buffer, avoid data-racing" and "This wait is not needed   *)
(* on the first loop, because it is prologue get." (compute_common.c:733,  *)
(* 737): no get is on its way to a buffer of velocities a put still reads. *)
NoGetUnderPut ==
  \A j \in Range(puts) : j.array = "vel" =>
    \A g \in gets : g.array = "vel" => g.buf # j.buf

(* From the second cube on it is so, but for the get of cube NbCubes.      *)
LaterPutsSafe ==
  \A j \in Range(puts) : j.array = "vel" /\ j.cube > 0 =>
    \A g \in gets :
      g.array = "vel" /\ g.buf = j.buf => Untimely(g, j.cube)

(* The same wait protects the only bitmap buffer: no PE draws on it while  *)
(* the DMA engine is sending the pixels of another cube.                   *)
PictureOfOneCube ==
  \A j \in Range(puts) : j.array = "bitmap" =>
    bitmap = Planes(j.cube, j.call)

(* Where the code does not wait, the pixels of cube 0 are exposed to those *)
(* of cube 1, if both are of the picture, and no others are.               *)
Drawn(k) ==
  IF k = 0 /\ 1 \in Kernel \cap Picture
  THEN {Content(0, call), Content(1, call)} ELSE {Content(k, call)}

BitmapKept ==
  \A j \in Range(puts) : j.array = "bitmap" =>
    \A p \in PEs : bitmap[p] \in Drawn(j.cube)

(* When the cluster has monitored all its cubes, the velocities of all of  *)
(* them but the first and the squares of the picture are in memory, in     *)
(* all planes and of this call.                                            *)
MonitorComplete ==
  AllDone => \A p \in PEs :
    /\ \A k \in OwnCubes \ Exposed : memory[k][p] \in New(k)
    /\ \A k \in OwnCubes \cap Picture : image[k][p] \in Drawn(k)

(* What the cluster is about to send to the others is the whole variation: *)
(* each PE has added up, for every cube of the cluster and once each, the  *)
(* difference between this monitoring and what it found of the one before. *)
DeltaExact ==
  AllDone => \A p \in PEs : \A k \in OwnCubes : \E d \in delta[p] :
    /\ {e \in delta[p] : e.of = k} = {d}
    /\ d.new = Content(k, call)
    /\ k \notin Suspect => d.old \in Old(k)
=============================================================================
