------------------------ MODULE ComputePipelineProofs ------------------------
(***************************************************************************)
(* Proofs about ComputePipeline.                                           *)
(*                                                                         *)
(* PhaseInv says where the clients are, given where PE0 is: they are in    *)
(* lockstep.  PutInv says which puts may be pending, given where PE0 is:   *)
(* those of the last Depth cubes, so no two of them share a buffer and     *)
(* none shares the buffer of the collision.  Both hold for every value of  *)
(* the constants.  GetInv says the same of the gets, and which cubes the   *)
(* source buffers hold, up to the get of cube NbCubes, which nobody waits  *)
(* for and which may be pending for several steps.                         *)
(***************************************************************************)
EXTENDS ComputePipeline, ModLemmas

Collision == {"enter", "collide", "leave", "post"}

(* Where PE0 and the clients are with respect to the cube at hand.         *)
PhaseInv ==
  LET k == cube[PE0]
      l == pc[PE0]
  IN
  /\ l = "prologue" => k = FirstCube
  /\ l = "wait" => k \in Kernel
  /\ l \in Collision => k \in Kernel \/ HasTrailing
  /\ l \in {"epilogue", "done"} => k = TrailCube
  /\ l \in {"trailing", "trailing_get", "trailing_put"} =>
       k = TrailCube /\ HasTrailing
  /\ \A p \in Clients :
       /\ l \in {"prologue", "wait", "enter",
                 "epilogue", "trailing", "trailing_get"} =>
            cube[p] = k /\ pc[p] = ClientAt(k)
       /\ l \in {"collide", "leave"} =>
            cube[p] = k /\ pc[p] \in {"collide", "leave"}
       /\ l = "post" => cube[p] = NextCube(k) /\ pc[p] = ClientAfter(k)
       /\ l \in {"trailing_put", "done"} =>
            cube[p] = TrailCube /\ pc[p] = "done"

(* Which puts are pending.                                                 *)
PutInWindow(j) ==
  LET k == cube[PE0]
      l == pc[PE0]
  IN
  /\ j.buf = Slot(j.cube)
  /\ j.step = step
  /\ l \in {"wait", "epilogue", "trailing_put"} \cup Collision
  /\ IF l = "trailing_put"
     THEN j.cube = TrailCube
     ELSE /\ j.cube \in Kernel
          /\ putEv[j.buf] = j
          /\ l = "wait" => j.cube < k /\ k <= j.cube + Depth
          /\ l \in Collision => j.cube < k /\ k < j.cube + Depth
                                /\ k \in Kernel

(* Pending puts are of the last cubes, and events keep to their slot.      *)
PutInv ==
  /\ \A j \in jobs : j.op = "put" => PutInWindow(j)
  /\ \A s \in Slots : putEv[s] = NoTicket \/ putEv[s].buf = s

(* Which gets are pending.                                                 *)
GetInWindow(j) ==
  LET k == cube[PE0]
      l == pc[PE0]
  IN
  /\ j.buf = Slot(j.cube)
  /\ j.step = step
  /\ l # "prologue"
  /\ j.cube = NbCubes => Depth <= NbCubes
  /\ j.cube = TrailCube => l = "trailing_get"
  /\ l = "wait" => k <= j.cube /\ j.cube < k + Depth
  /\ l \in Collision /\ k \in Kernel => k < j.cube /\ j.cube < k + Depth
  /\ k = TrailCube => j.cube \in {NbCubes, TrailCube}

(* The get of cube NbCubes of an earlier step.                             *)
Forgotten(j) ==
  /\ j.buf = Slot(j.cube)
  /\ j.cube = NbCubes /\ Depth <= NbCubes
  /\ j.step < step

(* Cube c has been asked for, and the source buffer holds it as soon as    *)
(* the get is complete.                                                    *)
Fetched(c) ==
  \/ Get(Slot(c), c, step) \in jobs
  \/ src[Slot(c)] \in Seen(c, step)

(* Pending gets are of the next cubes, and what has arrived is in place.   *)
GetInv ==
  LET k == cube[PE0]
      l == pc[PE0]
  IN
  /\ \A j \in jobs : j.op = "get" => GetInWindow(j) \/ Forgotten(j)
  /\ l \in {"wait"} \cup Collision =>
       \A c \in Kernel : k <= c /\ c < k + Depth /\ (l = "post" => c # k) =>
         getEv[Slot(c)] = Get(Slot(c), c, step) /\ Fetched(c)
  /\ k = TrailCube /\ l \in {"trailing_get"} \cup Collision =>
       Fetched(TrailCube)

(* What the destination buffers hold.                                      *)
DstInv ==
  /\ \A p \in PEs : pc[p] = "leave" \/ pc[PE0] = "post" =>
       dst[Slot(cube[PE0])][p] \in Seen(cube[PE0], step)
  /\ \A j \in jobs : j.op = "put" => Updated(dst[j.buf], j.cube, j.step)
-----------------------------------------------------------------------------
(***************************************************************************)
(* Typing of the helpers.                                                  *)
(***************************************************************************)

(* A cube has a buffer, and the first Depth cubes have their own number.   *)
LEMMA SlotType ==
  ASSUME NEW k \in Nat
  PROVE  Slot(k) \in Slots /\ (k < Depth => Slot(k) = k)
BY DepthAssumption, DivMod, ModSmall DEF Slot, Slots

(* The constants are numbers; there is a first step.                       *)
LEMMA ConstantTypes ==
  /\ Depth \in Nat \ {0}
  /\ NbCubes \in Nat
  /\ TrailCube \in Nat /\ TrailCube \notin Kernel
  /\ Kernel \subseteq Nat /\ Kernel \subseteq 0 .. TrailCube
  /\ TrailCube \in 0 .. TrailCube
  /\ OwnCubes \subseteq Kernel \cup {TrailCube}
  /\ OwnCubes \subseteq 0 .. TrailCube
  /\ Kernel \subseteq OwnCubes
  /\ HasTrailing => TrailCube \in OwnCubes
  /\ PE0 \in PEs /\ Clients \subseteq PEs /\ PE0 \notin Clients
  /\ 0 \in Steps /\ Steps \subseteq Nat
  /\ NbPrefetched \in Nat /\ NbPrefetched <= NbCubes /\ NbPrefetched <= Depth
BY DepthAssumption, NbCubesAssumption, TrailingAssumption, PEAssumption,
   NbStepsAssumption
   DEF TrailCube, Kernel, OwnCubes, PEs, Steps, NbPrefetched

(* No PE leaves the range of the cluster's cubes.                          *)
LEMMA CubeTypes ==
  /\ FirstCube \in Kernel \cup {TrailCube}
  /\ \A k \in Kernel \cup {TrailCube} : NextCube(k) \in Kernel \cup {TrailCube}
  /\ \A k \in Kernel \cup {TrailCube} : ClientAt(k) \in {"enter", "done"}
  /\ \A k \in Kernel \cup {TrailCube} : ClientAfter(k) \in {"enter", "done"}
  /\ Zeros \in Contents
  /\ \A k \in 0 .. TrailCube, s \in Steps : Content(k, s) \in Contents
BY NbCubesAssumption, TrailingAssumption
   DEF FirstCube, NextCube, ClientAt, ClientAfter, Kernel, TrailCube,
       Contents, Zeros

(***************************************************************************)
(* Type correctness and lockstep.                                          *)
(***************************************************************************)
TypePhase == TypeOK /\ PhaseInv

(* The step starts well typed, every PE at the first cube.                 *)
LEMMA InitTypePhase == Init => TypePhase
<1> SUFFICES ASSUME Init PROVE TypePhase
  OBVIOUS
<1> USE ConstantTypes, CubeTypes DEF Init
<1>1. TypeOK
  <2>1. pc \in [PEs -> PE0Labels] /\ \A p \in Clients : pc[p] \in ClientLabels
    BY DEF StartPc, PE0Labels, ClientLabels
  <2>. QED  BY <2>1 DEF TypeOK
<1>2. PhaseInv
  BY DEF PhaseInv, StartPc, Collision
<1>. QED  BY <1>1, <1>2 DEF TypePhase

(* Every step keeps the types, and the clients in step with PE0.           *)
LEMMA NextTypePhase == TypePhase /\ [Next]_vars => TypePhase'
<1> SUFFICES ASSUME TypePhase, [Next]_vars PROVE TypePhase'
  OBVIOUS
<1> USE ConstantTypes, CubeTypes
<1> DEFINE k == cube[PE0]
<1>0. TypeOK /\ PhaseInv /\ k \in Kernel \cup {TrailCube} /\ k \in Nat
      /\ Slot(k) \in Slots
  BY SlotType DEF TypePhase, TypeOK
<1>1. ASSUME Prologue PROVE TypePhase'
  <2> USE <1>0, <1>1 DEF Prologue
  <2>1. ASSUME NEW c \in 0 .. NbPrefetched - 1
        PROVE  /\ c \in Slots /\ Slot(c) = c
               /\ Get(Slot(c), c, step) \in Gets
    <3>1. c \in Nat /\ c < Depth /\ c \in 0 .. TrailCube
      BY DEF TrailCube
    <3>2. c \in Slots /\ Slot(c) = c
      BY <3>1, SlotType
    <3>. QED  BY <3>1, <3>2 DEF Gets, Get, TypeOK
  <2>2. TypeOK'
    <3>1. jobs' \subseteq Gets \cup Puts
      BY <2>1 DEF TypeOK
    <3>2. getEv' \in [Slots -> Gets \cup {NoTicket}]
      <4>1. ASSUME NEW s \in Slots, s < NbPrefetched
            PROVE  Get(s, s, step) \in Gets
        <5>1. s \in 0 .. NbPrefetched - 1
          BY <4>1 DEF Slots
        <5>. QED  BY <5>1, <2>1
      <4>. QED  BY <4>1 DEF TypeOK
    <3>3. pc' \in [PEs -> PE0Labels] /\ \A p \in Clients : pc'[p] \in ClientLabels
      BY DEF TypeOK, PE0Labels, Goto
    <3>. QED  BY <3>1, <3>2, <3>3 DEF TypeOK
  <2>3. PhaseInv'
    BY DEF TypeOK, PhaseInv, Goto, Collision, FirstCube, Kernel
  <2>. QED  BY <2>2, <2>3 DEF TypePhase
<1>2. ASSUME WaitBuffers PROVE TypePhase'
  <2> USE <1>0, <1>2 DEF WaitBuffers
  <2>1. TypeOK'
    BY DEF TypeOK, PE0Labels, Goto
  <2>2. PhaseInv'
    BY DEF TypeOK, PhaseInv, Goto, Collision
  <2>. QED  BY <2>1, <2>2 DEF TypePhase
<1>3. ASSUME PutCube PROVE TypePhase'
  <2> USE <1>0, <1>3 DEF PutCube
  <2>1. TypeOK'
    <3>1. Put(Slot(k), k, step) \in Puts
      BY DEF Puts, Put, TypeOK
    <3>2. Prefetches(k) => Get(NextSlot(k), k + Depth, step) \in Gets
      BY DEF Gets, Get, TypeOK, Prefetches, NextSlot, TrailCube
    <3>3. pc' \in [PEs -> PE0Labels] /\ \A p \in Clients : pc'[p] \in ClientLabels
      BY DEF TypeOK, PE0Labels, Goto
    <3>4. cube' \in [PEs -> Kernel \cup {TrailCube}]
      BY DEF TypeOK
    <3>5. jobs' \subseteq Gets \cup Puts
      BY <3>1, <3>2 DEF TypeOK
    <3>6. getEv' \in [Slots -> Gets \cup {NoTicket}]
      BY <3>2 DEF TypeOK
    <3>7. putEv' \in [Slots -> Puts \cup {NoTicket}]
      BY <3>1 DEF TypeOK
    <3>. QED  BY <3>3, <3>4, <3>5, <3>6, <3>7 DEF TypeOK
  <2>2. PhaseInv'
    BY DEF TypeOK, PhaseInv, Goto, Collision, ClientAfter
  <2>. QED  BY <2>1, <2>2 DEF TypePhase
<1>4. ASSUME Epilogue PROVE TypePhase'
  <2> USE <1>0, <1>4 DEF Epilogue
  <2>1. TypeOK'
    BY DEF TypeOK, PE0Labels, Goto
  <2>2. PhaseInv'
    BY DEF TypeOK, PhaseInv, Goto, Collision, ClientAt, Kernel, TrailCube
  <2>. QED  BY <2>1, <2>2 DEF TypePhase
<1>5. ASSUME TrailingGet PROVE TypePhase'
  <2> USE <1>0, <1>5 DEF TrailingGet
  <2>1. TypeOK'
    <3>1. Get(Slot(TrailCube), TrailCube, step) \in Gets
      BY SlotType DEF Gets, Get, TypeOK
    <3>. QED  BY <3>1 DEF TypeOK, PE0Labels, Goto
  <2>2. PhaseInv'
    BY DEF TypeOK, PhaseInv, Goto, Collision
  <2>. QED  BY <2>1, <2>2 DEF TypePhase
<1>6. ASSUME TrailingGetReturns PROVE TypePhase'
  <2> USE <1>0, <1>6 DEF TrailingGetReturns
  <2>1. TypeOK'
    BY DEF TypeOK, PE0Labels, Goto
  <2>2. PhaseInv'
    BY DEF TypeOK, PhaseInv, Goto, Collision
  <2>. QED  BY <2>1, <2>2 DEF TypePhase
<1>7. ASSUME TrailingPut PROVE TypePhase'
  <2> USE <1>0, <1>7 DEF TrailingPut
  <2>0. HasTrailing
    BY DEF PhaseInv, Collision
  <2>1. TypeOK'
    <3>1. Put(Slot(TrailCube), TrailCube, step) \in Puts
      BY <2>0 DEF Puts, Put, TypeOK
    <3>. QED  BY <3>1 DEF TypeOK, PE0Labels, Goto
  <2>2. PhaseInv'
    <3>1. NextCube(TrailCube) = TrailCube /\ ClientAfter(TrailCube) = "done"
      BY DEF NextCube, ClientAfter, TrailCube
    <3>. QED  BY <2>0, <3>1 DEF TypeOK, PhaseInv, Goto, Collision
  <2>. QED  BY <2>1, <2>2 DEF TypePhase
<1>8. ASSUME TrailingPutReturns PROVE TypePhase'
  <2> USE <1>0, <1>8 DEF TrailingPutReturns
  <2>1. TypeOK'
    BY DEF TypeOK, PE0Labels, Goto
  <2>2. PhaseInv'
    BY DEF TypeOK, PhaseInv, Goto, Collision
  <2>. QED  BY <2>1, <2>2 DEF TypePhase
<1>9. ASSUME LocalBarrier PROVE TypePhase'
  <2> USE <1>0, <1>9 DEF LocalBarrier, Arrived
  <2>1. TypeOK'
    <3>1. pc' \in [PEs -> PE0Labels] /\ \A p \in Clients : pc'[p] \in ClientLabels
      BY DEF TypeOK, PE0Labels, ClientLabels
    <3>2. cube' \in [PEs -> Kernel \cup {TrailCube}]
      BY DEF TypeOK
    <3>. QED  BY <3>1, <3>2 DEF TypeOK
  <2>2. PhaseInv'
    <3>1. CASE pc[PE0] = "enter"
      <4>1. \A p \in PEs : pc[p] = "enter" /\ cube[p] = k
        BY <3>1 DEF PhaseInv, TypeOK, PEs, ClientAt
      <4>2. pc' = [p \in PEs |-> "collide"] /\ cube' = cube
        BY <4>1 DEF TypeOK
      <4>. QED  BY <3>1, <4>1, <4>2 DEF PhaseInv, Collision
    <3>2. CASE pc[PE0] = "leave"
      <4>1. \A p \in PEs : pc[p] = "leave" /\ cube[p] = k
        BY <3>2 DEF PhaseInv, TypeOK, PEs
      <4>2. pc'[PE0] = "post" /\ cube'[PE0] = k
        BY <4>1
      <4>3. \A p \in Clients : pc'[p] = ClientAfter(k) /\ cube'[p] = NextCube(k)
        BY <4>1
      <4>. QED  BY <3>2, <4>2, <4>3 DEF PhaseInv, Collision
    <3>. QED  BY <3>1, <3>2
  <2>. QED  BY <2>1, <2>2 DEF TypePhase
<1>10. ASSUME NEW p \in PEs, Collide(p) PROVE TypePhase'
  <2> USE <1>0, <1>10 DEF Collide
  <2>1. TypeOK'
    <3>1. Slot(cube[p]) \in Slots
      BY SlotType DEF TypeOK
    <3>2. dst' \in [Slots -> [PEs -> Contents]]
      BY <3>1 DEF TypeOK
    <3>. QED  BY <3>2 DEF TypeOK, PE0Labels, ClientLabels, Goto
  <2>2. PhaseInv'
    <3>1. pc[PE0] \in {"collide", "leave"}
      BY DEF PhaseInv, TypeOK, PE0Labels, PEs, ClientAt, ClientAfter, Collision
    <3>. QED  BY <3>1 DEF TypeOK, PhaseInv, Goto, Collision
  <2>. QED  BY <2>1, <2>2 DEF TypePhase
<1>11. ASSUME NextStep PROVE TypePhase'
  <2> USE <1>0, <1>11 DEF NextStep
  <2>1. TypeOK'
    <3>1. step' \in Steps
      BY NbStepsAssumption DEF TypeOK, Steps
    <3>2. pc' \in [PEs -> PE0Labels] /\ \A p \in Clients : pc'[p] \in ClientLabels
      BY DEF StartPc, PE0Labels, ClientLabels
    <3>. QED  BY <3>1, <3>2 DEF TypeOK
  <2>2. PhaseInv'
    BY DEF PhaseInv, StartPc, Collision
  <2>. QED  BY <2>1, <2>2 DEF TypePhase
<1>12. ASSUME NEW j \in jobs, GetArrives(j) PROVE TypePhase'
  <2> USE <1>0, <1>12 DEF GetArrives
  <2>1. j \in Gets
    BY DEF TypeOK, Puts
  <2>2. TypeOK'
    BY <2>1 DEF TypeOK, Gets
  <2>3. PhaseInv'
    BY DEF PhaseInv
  <2>. QED  BY <2>2, <2>3 DEF TypePhase
<1>13. ASSUME NEW j \in jobs, PutSent(j) PROVE TypePhase'
  <2> USE <1>0, <1>13 DEF PutSent
  <2>1. j \in Puts
    BY DEF TypeOK, Gets
  <2>2. TypeOK'
    BY <2>1 DEF TypeOK, Puts
  <2>3. PhaseInv'
    BY DEF PhaseInv
  <2>. QED  BY <2>2, <2>3 DEF TypePhase
<1>14. ASSUME NEW w \in wire, PutVisible(w) PROVE TypePhase'
  <2> USE <1>0, <1>14 DEF PutVisible
  <2>1. w \in [cube : OwnCubes, step : Steps, planes : [PEs -> Contents]]
    BY DEF TypeOK
  <2>2. DstOf(w.step) \in 0 .. 1
    BY <2>1, DivMod DEF DstOf
  <2>3. out' \in [0 .. 1 -> [OwnCubes -> [PEs -> Contents]]]
    BY <2>1, <2>2 DEF TypeOK
  <2>4. TypeOK'
    BY <2>3 DEF TypeOK
  <2>5. PhaseInv'
    BY DEF PhaseInv
  <2>. QED  BY <2>4, <2>5 DEF TypePhase
<1>15. CASE UNCHANGED vars
  BY <1>0, <1>15 DEF vars, TypePhase, TypeOK, PhaseInv
<1>. QED
  BY <1>1, <1>2, <1>3, <1>4, <1>5, <1>6, <1>7, <1>8, <1>9, <1>10, <1>11,
     <1>12, <1>13, <1>14, <1>15 DEF Next, PE0Step, Dma, Finished

(* Every variable of the pipeline keeps its type: TypeOK, for every depth, *)
(* number of cubes, of clients and of steps.                               *)
THEOREM TypeCorrect == Spec => []TypeOK
<1>1. TypePhase => TypeOK
  BY DEF TypePhase
<1>. QED  BY InitTypePhase, NextTypePhase, <1>1, PTL DEF Spec

(* local_barrier keeps the PEs of a cluster in lockstep (Lockstep).        *)
THEOREM LockstepHolds == Spec => []Lockstep
<1>1. TypePhase => Lockstep
  <2> SUFFICES ASSUME TypePhase, NEW p \in PEs, NEW q \in PEs,
                      pc[p] = "collide"
               PROVE  pc[q] \in {"collide", "leave"} /\ cube[q] = cube[p]
    BY DEF Lockstep
  <2> USE DEF TypePhase, PhaseInv, TypeOK
  <2>1. pc[PE0] \in {"collide", "leave"}
    BY ConstantTypes, CubeTypes DEF PE0Labels, PEs, ClientAt, ClientAfter, Collision
  <2>. QED  BY <2>1 DEF PEs
<1>. QED  BY InitTypePhase, NextTypePhase, <1>1, PTL DEF Spec
-----------------------------------------------------------------------------
(***************************************************************************)
(* The puts.                                                               *)
(***************************************************************************)

(* Two cubes less than Depth apart have different buffers.                 *)
LEMMA SlotWindow ==
  ASSUME NEW a \in Nat, NEW b \in Nat, a < b + Depth, b < a + Depth,
         Slot(a) = Slot(b)
  PROVE  a = b
BY DepthAssumption, ModWindow DEF Slot

(* The next get goes into the slot that has become free.                   *)
LEMMA SlotShift ==
  ASSUME NEW k \in Nat
  PROVE  Slot(k + Depth) = Slot(k)
BY DepthAssumption, ModShift DEF Slot

(* Gets and puts are different jobs.                                       *)
LEMMA JobTypes ==
  /\ \A b, c, s : Get(b, c, s).op = "get" /\ Put(b, c, s).op = "put"
  /\ \A b, c, s : Get(b, c, s).buf = b /\ Put(b, c, s).buf = b
  /\ \A b, c, s : Get(b, c, s).cube = c /\ Put(b, c, s).cube = c
  /\ \A b, c, s : Get(b, c, s).step = s /\ Put(b, c, s).step = s
  /\ \A j \in Gets : j.op = "get" /\ j = Get(j.buf, j.cube, j.step)
  /\ \A j \in Puts : j.op = "put" /\ j = Put(j.buf, j.cube, j.step)
  /\ NoTicket.op = "none"
BY DEF Get, Put, Gets, Puts, NoTicket

(* Pending puts while PE0 may be in collide_cube: none uses its buffer.    *)
LEMMA NoPutInCollision ==
  ASSUME TypePhase, PutInv, pc[PE0] \in Collision, NEW j \in jobs, j.op = "put"
  PROVE  j.buf # Slot(cube[PE0])
<1>1. PutInWindow(j)
  BY DEF PutInv
<1>2. /\ cube[PE0] \in Kernel /\ j.cube \in Kernel
      /\ j.cube < cube[PE0] /\ cube[PE0] < j.cube + Depth
      /\ j.buf = Slot(j.cube)
  BY <1>1 DEF PutInWindow, Collision
<1>3. cube[PE0] \in Nat /\ j.cube \in Nat /\ Depth \in Nat
  BY <1>2, ConstantTypes
<1>. QED  BY <1>2, <1>3, SlotWindow

(* Nothing is pending at first.                                            *)
LEMMA InitPut == Init => PutInv
<1> SUFFICES ASSUME Init PROVE PutInv
  OBVIOUS
<1>. QED  BY DEF Init, PutInv

(* Every step keeps PutInv: the wait for a slot is for its only put.       *)
LEMMA NextPut == TypePhase /\ PutInv /\ [Next]_vars => PutInv'
<1> SUFFICES ASSUME TypePhase, PutInv, [Next]_vars PROVE PutInv'
  OBVIOUS
<1> USE ConstantTypes
<1> DEFINE k == cube[PE0]
<1>0. /\ TypeOK /\ PhaseInv /\ k \in Kernel \cup {TrailCube} /\ k \in Nat
      /\ Slot(k) \in Slots
  BY SlotType DEF TypePhase, TypeOK
<1>a. TypeOK'
  BY NextTypePhase DEF TypePhase
<1>b. /\ \A j \in jobs : j.op = "put" => PutInWindow(j)
      /\ \A s \in Slots : putEv[s] = NoTicket \/ putEv[s].buf = s
  BY DEF PutInv
<1>1. ASSUME Prologue PROVE PutInv'
  <2> USE <1>0, <1>1 DEF Prologue
  <2>1. \A j \in jobs : j.op # "put"
    BY <1>b DEF PutInWindow, Collision
  <2>2. \A j \in jobs' : j.op # "put"
    BY <2>1, JobTypes
  <2>. QED  BY <2>2, <1>b DEF PutInv
<1>2. ASSUME WaitBuffers PROVE PutInv'
  <2> USE <1>0, <1>2 DEF WaitBuffers
  <2>1. ASSUME NEW j \in jobs', j.op = "put" PROVE PutInWindow(j)'
    <3>1. PutInWindow(j) /\ j \in jobs
      BY <2>1, <1>b
    <3>2. /\ j.buf = Slot(j.cube) /\ j.cube \in Kernel /\ putEv[j.buf] = j
          /\ j.step = step
          /\ j.cube < k /\ k <= j.cube + Depth /\ j.cube \in Nat
      BY <3>1 DEF PutInWindow
    <3>3. k # j.cube + Depth
      <4> SUFFICES ASSUME k = j.cube + Depth PROVE FALSE
        OBVIOUS
      <4>1. WaitsPut(k)
        BY <3>2 DEF WaitsPut
      <4>2. Slot(k) = j.buf
        BY <3>2, SlotShift
      <4>. QED  BY <4>1, <4>2, <3>1, <3>2 DEF Complete
    <3>4. pc'[PE0] = "enter" /\ cube' = cube /\ putEv' = putEv /\ k \in Kernel
      BY DEF Goto, TypeOK, PhaseInv
    <3>. QED  BY <3>2, <3>3, <3>4 DEF PutInWindow, Collision
  <2>. QED  BY <2>1, <1>b DEF PutInv
<1>3. ASSUME PutCube PROVE PutInv'
  <2> USE <1>0, <1>3 DEF PutCube
  <2> DEFINE n == Put(Slot(k), k, step)
  <2>0. /\ pc'[PE0] = (IF NextCube(k) \in Kernel THEN "wait" ELSE "epilogue")
        /\ cube'[PE0] = NextCube(k) /\ putEv'[Slot(k)] = n /\ k \in Kernel
        /\ NextCube(k) \in Kernel => NextCube(k) = k + 1
    BY CubeTypes DEF Goto, TypeOK, NextCube, TrailCube, Kernel
  <2>1. \A j \in jobs' : j.op = "put" => j = n \/ j \in jobs
    BY JobTypes
  <2>2. ASSUME NEW j \in jobs', j.op = "put" PROVE PutInWindow(j)'
    <3>1. CASE j = n
      <4>1. j.buf = Slot(j.cube) /\ j.cube = k /\ j.step = step
        BY <3>1, JobTypes
      <4>. QED  BY <4>1, <3>1, <2>0, CubeTypes DEF PutInWindow, Collision
    <3>2. CASE j \in jobs
      <4>1. PutInWindow(j) /\ j.buf # Slot(k)
        BY <3>2, <2>2, <1>b, NoPutInCollision DEF Collision
      <4>2. /\ j.buf = Slot(j.cube) /\ j.cube \in Kernel /\ putEv[j.buf] = j
            /\ j.step = step
            /\ j.cube < k /\ k < j.cube + Depth /\ j.cube \in Nat
        BY <4>1 DEF PutInWindow, Collision
      <4>3. j.buf \in Slots
        BY <4>2, SlotType
      <4>4. putEv'[j.buf] = j
        BY <4>1, <4>2, <4>3 DEF TypeOK
      <4>. QED  BY <4>2, <4>4, <2>0 DEF PutInWindow, Collision
    <3>. QED  BY <2>1, <2>2, <3>1, <3>2
  <2>3. \A s \in Slots : putEv'[s] = NoTicket \/ putEv'[s].buf = s
    BY <1>b, JobTypes DEF TypeOK
  <2>. QED  BY <2>2, <2>3 DEF PutInv
<1>4. ASSUME Epilogue PROVE PutInv'
  <2> USE <1>0, <1>4 DEF Epilogue
  <2>1. ASSUME NEW j \in jobs, j.op = "put" PROVE FALSE
    <3>1. /\ j.buf = Slot(j.cube) /\ j.cube \in Kernel /\ putEv[j.buf] = j
      BY <2>1, <1>b DEF PutInWindow
    <3>2. j.buf \in 0 .. NbPrefetched - 1
      BY <3>1, SlotType DEF NbPrefetched, Kernel, Slots
    <3>. QED  BY <3>1, <3>2, <2>1 DEF LastPuts, Complete
  <2>. QED  BY <2>1, <1>b DEF PutInv
<1>5. ASSUME TrailingGet PROVE PutInv'
  <2> USE <1>0, <1>5 DEF TrailingGet
  <2>1. \A j \in jobs' : j.op # "put"
    BY <1>b, JobTypes DEF PutInWindow, Collision
  <2>. QED  BY <2>1, <1>b DEF PutInv
<1>6. ASSUME TrailingGetReturns PROVE PutInv'
  <2> USE <1>0, <1>6 DEF TrailingGetReturns
  <2>1. \A j \in jobs : j.op # "put"
    BY <1>b DEF PutInWindow, Collision
  <2>. QED  BY <2>1, <1>b DEF PutInv
<1>7. ASSUME TrailingPut PROVE PutInv'
  <2> USE <1>0, <1>7 DEF TrailingPut
  <2> DEFINE n == Put(Slot(TrailCube), TrailCube, step)
  <2>1. \A j \in jobs : j.op # "put"
    BY <1>b DEF PutInWindow, Collision
  <2>2. \A j \in jobs' : j.op = "put" => j = n
    BY <2>1
  <2>3. pc'[PE0] = "trailing_put"
    BY DEF Goto, TypeOK
  <2>4. PutInWindow(n)'
    BY <2>3, JobTypes DEF PutInWindow
  <2>. QED  BY <2>2, <2>4, <1>b DEF PutInv
<1>8. ASSUME TrailingPutReturns PROVE PutInv'
  <2> USE <1>0, <1>8 DEF TrailingPutReturns
  <2>1. ASSUME NEW j \in jobs, j.op = "put" PROVE FALSE
    <3>1. j.buf = Slot(TrailCube) /\ j.cube = TrailCube
      BY <2>1, <1>b DEF PutInWindow
    <3>2. j \in Puts /\ j.step = step
      BY <2>1, <1>b, JobTypes DEF PutInWindow, TypeOK
    <3>. QED  BY <3>1, <3>2, <2>1, JobTypes DEF Complete
  <2>. QED  BY <2>1, <1>b DEF PutInv
<1>9. ASSUME LocalBarrier PROVE PutInv'
  <2> USE <1>0, <1>9 DEF LocalBarrier, Arrived
  <2>1. /\ pc[PE0] \in Collision /\ pc'[PE0] \in Collision
        /\ cube'[PE0] = cube[PE0]
    BY DEF Collision
  <2>. QED  BY <2>1, <1>b DEF PutInv, PutInWindow, Collision
<1>10. ASSUME NEW p \in PEs, Collide(p) PROVE PutInv'
  <2> USE <1>0, <1>10 DEF Collide
  <2>1. pc[PE0] \in Collision => pc'[PE0] \in Collision
    BY DEF Goto, TypeOK, Collision
  <2>2. pc[PE0] \notin Collision => pc'[PE0] = pc[PE0]
    BY DEF Goto, TypeOK, Collision
  <2>. QED  BY <2>1, <2>2, <1>b DEF PutInv, PutInWindow, Collision
<1>11. ASSUME NextStep PROVE PutInv'
  <2> USE <1>0, <1>11 DEF NextStep
  <2>1. pc[PE0] = "done"
    BY DEF AllDone
  <2>2. \A j \in jobs : j.op # "put"
    BY <2>1, <1>b DEF PutInWindow, Collision
  <2>. QED  BY <2>2, <1>b DEF PutInv
<1>12. ASSUME NEW j \in jobs, GetArrives(j) PROVE PutInv'
  BY <1>12, <1>b DEF GetArrives, PutInv, PutInWindow
<1>13. ASSUME NEW j \in jobs, PutSent(j) PROVE PutInv'
  BY <1>13, <1>b DEF PutSent, PutInv, PutInWindow
<1>14. ASSUME NEW w \in wire, PutVisible(w) PROVE PutInv'
  BY <1>14, <1>b DEF PutVisible, PutInv, PutInWindow
<1>15. CASE UNCHANGED vars
  BY <1>15, <1>b DEF vars, PutInv, PutInWindow
<1>. QED
  BY <1>1, <1>2, <1>3, <1>4, <1>5, <1>6, <1>7, <1>8, <1>9, <1>10, <1>11,
     <1>12, <1>13, <1>14, <1>15 DEF Next, PE0Step, Dma, Finished

(* The destination buffers: no PE ever writes one that a put is still      *)
(* reading (NoWriteUnderPut), whatever the order in which the DMA engine   *)
(* serves the jobs, for every depth and number of cubes, steps and PEs.    *)
THEOREM NoWriteUnderPutHolds == Spec => []NoWriteUnderPut
<1>1. TypePhase /\ PutInv => NoWriteUnderPut
  <2> SUFFICES ASSUME TypePhase, PutInv, NEW p \in PEs, pc[p] = "collide"
               PROVE  PutsFrom(jobs, Slot(cube[p])) = {}
    BY DEF NoWriteUnderPut
  <2>1. pc[PE0] \in {"collide", "leave"} /\ cube[p] = cube[PE0]
    BY ConstantTypes, CubeTypes
       DEF TypePhase, PhaseInv, TypeOK, PE0Labels, PEs, ClientAt,
           ClientAfter, Collision
  <2>. QED  BY <2>1, NoPutInCollision DEF PutsFrom, Collision
<1>. QED
  BY InitTypePhase, NextTypePhase, InitPut, NextPut, <1>1, PTL DEF Spec

(* No put event is given a new ticket while the job of its old one is      *)
(* pending (PutTicketKept): every put of the kernel loop is waited for.    *)
THEOREM PutTicketKeptHolds == Spec => PutTicketKept
<1> DEFINE Kept == \A s \in Slots : putEv'[s] # putEv[s] => Complete(jobs, putEv[s])
<1>1. TypePhase /\ PutInv /\ [Next]_vars => [Kept]_vars
  <2> SUFFICES ASSUME TypePhase, PutInv, Next, NEW s \in Slots,
                      putEv'[s] # putEv[s], putEv[s] \in jobs
               PROVE  FALSE
    BY DEF Complete
  <2>1. PutCube
    BY DEF Next, PE0Step, Dma, Prologue, WaitBuffers, Epilogue, TrailingGet,
           TrailingGetReturns, TrailingPut, TrailingPutReturns, LocalBarrier,
           Collide, NextStep, Finished, GetArrives, PutSent, PutVisible, vars
  <2>2. s = Slot(cube[PE0]) /\ pc[PE0] = "post"
    BY <2>1 DEF PutCube, TypePhase, TypeOK
  <2>3. putEv[s].op = "put" /\ putEv[s].buf = s
    BY JobTypes DEF PutInv, TypePhase, TypeOK
  <2>. QED  BY <2>2, <2>3, NoPutInCollision DEF Collision
<1>. QED
  BY InitTypePhase, NextTypePhase, InitPut, NextPut, <1>1, PTL
     DEF Spec, PutTicketKept
-----------------------------------------------------------------------------
(***************************************************************************)
(* The gets.                                                               *)
(***************************************************************************)

(* A pending get is a get, of a cube and a step.                           *)
LEMMA GetTypes ==
  ASSUME TypeOK, NEW j \in jobs, j.op = "get"
  PROVE  /\ j \in Gets /\ j = Get(j.buf, j.cube, j.step)
         /\ j.cube \in Nat /\ j.step \in Nat /\ j.buf \in Slots
<1>1. j \in Gets
  BY JobTypes DEF TypeOK
<1>2. j.cube \in 0 .. TrailCube /\ j.step \in Steps /\ j.buf \in Slots
  BY <1>1 DEF Gets
<1>3. \A c \in 0 .. TrailCube, s \in Steps : c \in Nat /\ s \in Nat
  BY NbCubesAssumption, NbStepsAssumption DEF TrailCube, Steps
<1>5. j.cube \in Nat /\ j.step \in Nat
  BY <1>2, <1>3
<1>4. j = Get(j.buf, j.cube, j.step)
  BY <1>1, JobTypes
<1>. QED  BY <1>1, <1>2, <1>4, <1>5

(* Two cubes of the window that starts at k have different buffers.        *)
LEMMA WindowSlots ==
  ASSUME NEW k \in Nat, NEW a \in Nat, NEW b \in Nat,
         k <= a, a < k + Depth, k <= b, b < k + Depth, Slot(a) = Slot(b)
  PROVE  a = b
<1>1. a < b + Depth /\ b < a + Depth
  BY DepthAssumption
<1>. QED  BY <1>1, SlotWindow

(* What a cube's own get brings, and what a forgotten one may.             *)
LEMMA SeenTypes ==
  /\ \A c, s : Content(c, s) \in Seen(c, s)
  /\ \A c, s : Alien(c, s) \subseteq Seen(c, s)
  /\ \A c, s, r \in Nat : Depth <= NbCubes /\ Slot(c) = Slot(NbCubes) /\ r < s =>
       Content(NbCubes, r) \in Alien(c, s)
  /\ \A s \in Nat : Depth <= NbCubes /\ Slot(TrailCube) = Slot(NbCubes) =>
       Content(NbCubes, s) \in Alien(TrailCube, s)
BY DepthAssumption, NbCubesAssumption DEF Seen, Alien

(* Nothing has been fetched at first.                                      *)
LEMMA InitGet == Init => GetInv
<1>. QED  BY DEF Init, GetInv, StartPc, PEs, Collision

(* A pending get that arrives does not take away what Fetched says.        *)
LEMMA ArrivesFetched ==
  ASSUME TypePhase, NEW j \in jobs, GetArrives(j), NEW c \in Nat, Fetched(c),
         Slot(c) = j.buf => Content(j.cube, j.step) \in Seen(c, step)
  PROVE  Fetched(c)'
<1>1. j \in Gets
  BY JobTypes DEF TypePhase, TypeOK, GetArrives
<1>2. src'[j.buf] = Content(j.cube, j.step) /\ step' = step
  BY <1>1 DEF GetArrives, TypePhase, TypeOK, Gets
<1>3. CASE Slot(c) = j.buf
  BY <1>2, <1>3 DEF Fetched
<1>4. CASE Slot(c) # j.buf
  <2>1. src'[Slot(c)] = src[Slot(c)]
    BY <1>4, <1>1, SlotType DEF GetArrives, TypePhase, TypeOK, Gets
  <2>2. Get(Slot(c), c, step) # j
    BY <1>4, JobTypes
  <2>. QED  BY <2>1, <2>2, <1>2 DEF Fetched, GetArrives
<1>. QED  BY <1>3, <1>4

(* Every step keeps GetInv.                                                *)
LEMMA NextGet == TypePhase /\ GetInv /\ [Next]_vars => GetInv'
<1> SUFFICES ASSUME TypePhase, GetInv, [Next]_vars PROVE GetInv'
  OBVIOUS
<1> USE ConstantTypes
<1> DEFINE k == cube[PE0]
           l == pc[PE0]
<1>0. /\ TypeOK /\ PhaseInv /\ k \in Kernel \cup {TrailCube} /\ k \in Nat
      /\ Slot(k) \in Slots
  BY SlotType DEF TypePhase, TypeOK
<1>a. TypeOK' /\ PhaseInv'
  BY NextTypePhase DEF TypePhase
<1>s. /\ step \in Steps /\ Steps \subseteq Nat /\ step \in Nat
      /\ step' = step \/ step' = step + 1
  BY <1>0 DEF TypeOK, Next, PE0Step, Dma, Prologue, WaitBuffers, PutCube, Epilogue,
     TrailingGet, TrailingGetReturns, TrailingPut, TrailingPutReturns, LocalBarrier,
     Collide, NextStep, Finished, GetArrives, PutSent, PutVisible, vars
<1>f. \A j \in jobs : j.op = "get" => j \in Gets /\ j.step \in Nat /\ j.cube \in Nat
  BY <1>0, GetTypes
<1>g. \A j \in jobs : j.op = "get" /\ Forgotten(j) => Forgotten(j)'
  BY <1>s, <1>f DEF Forgotten
<1>b. /\ \A j \in jobs : j.op = "get" => GetInWindow(j) \/ Forgotten(j)
      /\ l \in {"wait"} \cup Collision =>
           \A c \in Kernel : k <= c /\ c < k + Depth /\ (l = "post" => c # k) =>
             getEv[Slot(c)] = Get(Slot(c), c, step) /\ Fetched(c)
      /\ k = TrailCube /\ l \in {"trailing_get"} \cup Collision =>
           Fetched(TrailCube)
  BY DEF GetInv
<1>1. ASSUME Prologue PROVE GetInv'
  <2> USE <1>0, <1>1 DEF Prologue
  <2>0. /\ k = FirstCube /\ cube' = cube /\ step' = step
        /\ pc'[PE0] = (IF NbCubes > 0 THEN "wait" ELSE "epilogue")
    BY DEF PhaseInv, Goto, TypeOK
  <2>1. ASSUME NEW j \in jobs', j.op = "get", ~Forgotten(j)' PROVE GetInWindow(j)'
    <3>1. j \notin jobs
      BY <2>1, <1>b, <1>g DEF GetInWindow
    <3>2. PICK c \in 0 .. NbPrefetched - 1 : j = Get(Slot(c), c, step)
      BY <3>1, <2>1
    <3>3. /\ j.buf = Slot(c) /\ j.cube = c /\ j.step = step
          /\ c \in Nat /\ c < NbCubes /\ c < Depth /\ NbCubes > 0
      BY <3>2, JobTypes
    <3>4. FirstCube = 0 /\ c # TrailCube /\ c # NbCubes /\ 0 # TrailCube
      BY <3>3 DEF FirstCube, TrailCube
    <3>. QED  BY <2>0, <3>3, <3>4 DEF GetInWindow, Collision
  <2>2. ASSUME NEW c \in Kernel, k <= c, c < k + Depth, NbCubes > 0
        PROVE  /\ getEv'[Slot(c)] = Get(Slot(c), c, step)
               /\ Get(Slot(c), c, step) \in jobs'
    <3>1. k = 0 /\ c \in Nat /\ c < NbCubes /\ c < Depth
      BY <2>0, <2>2 DEF FirstCube, Kernel
    <3>2. c \in 0 .. NbPrefetched - 1
      BY <3>1 DEF NbPrefetched
    <3>3. Slot(c) = c /\ c \in Slots
      BY <3>1, SlotType
    <3>. QED  BY <3>2, <3>3
  <2>3. pc'[PE0] = "wait" => NbCubes > 0
    BY <2>0
  <2>. QED  BY <2>0, <2>1, <2>2, <2>3 DEF GetInv, Fetched, Collision
<1>2. ASSUME WaitBuffers PROVE GetInv'
  <2> USE <1>0, <1>2 DEF WaitBuffers
  <2>0. /\ k \in Kernel /\ pc'[PE0] = "enter"
        /\ k # TrailCube
    BY DEF PhaseInv, Goto, TypeOK
  <2>1. Get(Slot(k), k, step) \notin jobs
    BY <2>0, <1>b DEF Complete
  <2>2. ASSUME NEW j \in jobs, j.op = "get", ~Forgotten(j)' PROVE GetInWindow(j)'
    <3>1. GetInWindow(j) /\ k <= j.cube /\ j.cube < k + Depth
      BY <2>2, <1>b, <1>g DEF GetInWindow
    <3>2. j = Get(j.buf, j.cube, j.step) /\ j.cube \in Nat
      BY <2>2, JobTypes DEF TypeOK, Gets, Puts
    <3>3. j.cube # k
      BY <3>1, <3>2, <2>1, <2>2 DEF GetInWindow
    <3>4. k < j.cube
      BY <3>1, <3>2, <3>3
    <3>. QED  BY <3>1, <3>4, <2>0 DEF GetInWindow, Collision
  <2>. QED  BY <2>0, <2>2, <1>b DEF GetInv, Fetched, Collision
<1>3. ASSUME PutCube PROVE GetInv'
  <2> USE <1>0, <1>3 DEF PutCube
  <2> DEFINE g == Get(Slot(k), k + Depth, step)
  <2>0. /\ pc'[PE0] = (IF NextCube(k) \in Kernel THEN "wait" ELSE "epilogue")
        /\ cube'[PE0] = NextCube(k) /\ k \in Kernel /\ step' = step
        /\ src' = src
    BY CubeTypes DEF Goto, TypeOK
  <2>1. /\ NextCube(k) \in Kernel => NextCube(k) = k + 1
        /\ NextCube(k) \notin Kernel => NextCube(k) = TrailCube /\ k + 1 = NbCubes
        /\ k # TrailCube /\ k \in Nat /\ k < NbCubes
    BY <2>0 DEF NextCube, TrailCube, Kernel
  <2>2. Slot(k + Depth) = Slot(k) /\ k + Depth \in Nat
    BY <1>0, SlotShift
  <2>3. g.buf = Slot(k) /\ g.cube = k + Depth /\ g.step = step /\ g.op = "get"
    BY JobTypes
  <2>4. ASSUME NEW j \in jobs', j.op = "get", ~Forgotten(j)' PROVE GetInWindow(j)'
    <3>1. j \in jobs \/ (j = g /\ Prefetches(k))
      BY <2>4, JobTypes DEF NextSlot
    <3>2. CASE j \in jobs
      <4>1. /\ GetInWindow(j) /\ k < j.cube /\ j.cube < k + Depth
            /\ j.cube # TrailCube
        BY <3>2, <2>0, <2>4, <1>b, <1>g DEF GetInWindow, Collision
      <4>2. j.cube \in Nat /\ j.cube <= NbCubes
        BY <3>2, <2>4, <4>1, JobTypes DEF TypeOK, Gets, TrailCube
      <4>3. NextCube(k) = TrailCube => j.cube = NbCubes
        BY <4>1, <4>2, <2>1 DEF Kernel
      <4>. QED  BY <4>1, <4>2, <4>3, <2>0, <2>1 DEF GetInWindow, Collision
    <3>3. CASE j = g /\ Prefetches(k)
      <4>1. k + Depth <= NbCubes
        BY <3>3, <2>1 DEF Prefetches
      <4>2. k + Depth # TrailCube /\ (k + Depth = NbCubes => Depth <= NbCubes)
        BY <4>1, <2>1 DEF TrailCube
      <4>3. NextCube(k) = TrailCube => k + Depth = NbCubes
        BY <4>1, <2>1 DEF Kernel
      <4>. QED
        BY <3>3, <4>1, <4>2, <4>3, <2>0, <2>1, <2>2, <2>3
           DEF GetInWindow, Collision
    <3>. QED  BY <3>1, <3>2, <3>3
  <2>5. ASSUME NextCube(k) \in Kernel, NEW c \in Kernel,
               k + 1 <= c, c < k + 1 + Depth
        PROVE  getEv'[Slot(c)] = Get(Slot(c), c, step) /\ Fetched(c)'
    <3>0. c \in Nat /\ c < NbCubes /\ Slot(c) \in Slots
      BY SlotType DEF Kernel
    <3>1. CASE c = k + Depth
      <4>1. Prefetches(k)
        BY <3>0, <3>1, <2>1 DEF Prefetches
      <4>2. Get(Slot(c), c, step) = g
        BY <3>1, <2>2
      <4>. QED  BY <4>1, <4>2, <2>0, <2>2, <3>1 DEF Fetched, NextSlot, TypeOK
    <3>2. CASE c # k + Depth
      <4>1. k <= c /\ c < k + Depth /\ c # k
        BY <3>0, <3>2, <2>1, <2>5
      <4>2. Slot(c) # Slot(k)
        BY <4>1, <3>0, <2>1, WindowSlots
      <4>3. getEv[Slot(c)] = Get(Slot(c), c, step) /\ Fetched(c)
        BY <4>1, <2>0, <1>b DEF Collision
      <4>4. getEv'[Slot(c)] = getEv[Slot(c)]
        BY <4>2, <3>0 DEF NextSlot, TypeOK
      <4>. QED  BY <4>3, <4>4, <2>0 DEF Fetched
    <3>. QED  BY <3>1, <3>2
  <2>. QED  BY <2>0, <2>1, <2>4, <2>5 DEF GetInv, Collision
<1>4. ASSUME Epilogue PROVE GetInv'
  <2> USE <1>0, <1>4 DEF Epilogue
  <2>1. pc'[PE0] \in {"trailing", "done"} /\ k = TrailCube /\ cube' = cube
    BY DEF Goto, TypeOK, PhaseInv
  <2>2. ASSUME NEW j \in jobs, j.op = "get", ~Forgotten(j)' PROVE GetInWindow(j)'
    BY <2>1, <2>2, <1>b, <1>g DEF GetInWindow, Collision
  <2>. QED  BY <2>1, <2>2, <1>b DEF GetInv, Collision
<1>5. ASSUME TrailingGet PROVE GetInv'
  <2> USE <1>0, <1>5 DEF TrailingGet
  <2>1. pc'[PE0] = "trailing_get" /\ k = TrailCube /\ cube' = cube
    BY DEF Goto, TypeOK, PhaseInv
  <2>2. ASSUME NEW j \in jobs', j.op = "get", ~Forgotten(j)' PROVE GetInWindow(j)'
    <3>1. CASE j \in jobs
      BY <3>1, <2>1, <2>2, <1>b, <1>g DEF GetInWindow, Collision
    <3>2. CASE j = Get(Slot(TrailCube), TrailCube, step)
      <4>1. j.buf = Slot(j.cube) /\ j.step = step /\ j.cube = TrailCube
        BY <3>2, JobTypes
      <4>2. TrailCube # NbCubes
        BY DEF TrailCube
      <4>. QED  BY <4>1, <4>2, <2>1 DEF GetInWindow, Collision
    <3>. QED  BY <3>1, <3>2
  <2>. QED  BY <2>1, <2>2 DEF GetInv, Fetched, Collision
<1>6. ASSUME TrailingGetReturns PROVE GetInv'
  <2> USE <1>0, <1>6 DEF TrailingGetReturns
  <2>1. pc'[PE0] = "enter" /\ k = TrailCube /\ cube' = cube
    BY DEF Goto, TypeOK, PhaseInv
  <2>2. ASSUME NEW j \in jobs, j.op = "get", ~Forgotten(j)' PROVE GetInWindow(j)'
    <3>1. GetInWindow(j) /\ j \in Gets /\ j = Get(j.buf, j.cube, j.step)
      BY <2>2, <1>b, <1>g, JobTypes DEF TypeOK
    <3>2. j.cube # TrailCube
      BY <3>1 DEF GetInWindow, Complete
    <3>. QED  BY <3>1, <3>2, <2>1 DEF GetInWindow, Collision
  <2>3. \A c \in Kernel : ~(k <= c)
    BY <2>1 DEF Kernel, TrailCube
  <2>. QED  BY <2>1, <2>2, <2>3, <1>b DEF GetInv, Fetched, Collision
<1>7. ASSUME TrailingPut PROVE GetInv'
  <2> USE <1>0, <1>7 DEF TrailingPut
  <2>1. pc'[PE0] = "trailing_put" /\ k = TrailCube /\ cube' = cube
    BY DEF Goto, TypeOK
  <2>2. \A j \in jobs' : j.op = "get" => j \in jobs
    BY JobTypes
  <2>3. ASSUME NEW j \in jobs', j.op = "get", ~Forgotten(j)' PROVE GetInWindow(j)'
    BY <2>1, <2>2, <2>3, <1>b, <1>g DEF GetInWindow, Collision
  <2>. QED  BY <2>1, <2>3, <1>b DEF GetInv, Collision
<1>8. ASSUME TrailingPutReturns PROVE GetInv'
  <2> USE <1>0, <1>8 DEF TrailingPutReturns
  <2>1. pc'[PE0] = "done" /\ k = TrailCube /\ cube' = cube
    BY DEF Goto, TypeOK, PhaseInv
  <2>2. ASSUME NEW j \in jobs, j.op = "get", ~Forgotten(j)' PROVE GetInWindow(j)'
    BY <2>1, <2>2, <1>b, <1>g DEF GetInWindow, Collision
  <2>. QED  BY <2>1, <2>2, <1>b DEF GetInv, Collision
<1>9. ASSUME LocalBarrier PROVE GetInv'
  <2> USE <1>0, <1>9 DEF LocalBarrier, Arrived
  <2>1. /\ l \in {"enter", "leave"} /\ pc'[PE0] \in {"collide", "post"}
        /\ cube'[PE0] = cube[PE0]
    OBVIOUS
  <2>2. ASSUME NEW j \in jobs, j.op = "get", ~Forgotten(j)' PROVE GetInWindow(j)'
    BY <2>1, <2>2, <1>b, <1>g DEF GetInWindow, Collision
  <2>. QED  BY <2>1, <2>2, <1>b DEF GetInv, Fetched, Collision
<1>10. ASSUME NEW p \in PEs, Collide(p) PROVE GetInv'
  <2> USE <1>0, <1>10 DEF Collide
  <2>1. \/ pc'[PE0] = pc[PE0]
        \/ pc[PE0] = "collide" /\ pc'[PE0] = "leave"
    BY DEF Goto, TypeOK
  <2>2. ASSUME NEW j \in jobs, j.op = "get", ~Forgotten(j)' PROVE GetInWindow(j)'
    BY <2>1, <2>2, <1>b, <1>g DEF GetInWindow, Collision
  <2>. QED  BY <2>1, <2>2, <1>b DEF GetInv, Fetched, Collision
<1>11. ASSUME NextStep PROVE GetInv'
  <2> USE <1>0, <1>11 DEF NextStep
  <2>1. l = "done" /\ k = TrailCube
    BY DEF AllDone, PhaseInv
  <2>2. ASSUME NEW j \in jobs, j.op = "get", ~Forgotten(j) PROVE Forgotten(j)'
    <3>1. j.cube = NbCubes /\ Depth <= NbCubes /\ j.buf = Slot(j.cube) /\ j.step = step
      BY <2>1, <2>2, <1>b DEF GetInWindow
    <3>. QED  BY <3>1, <1>s DEF Forgotten
  <2>3. pc'[PE0] = "prologue"
    BY DEF StartPc
  <2>. QED  BY <2>1, <2>2, <2>3, <1>g DEF GetInv, Collision
<1>12. ASSUME NEW j \in jobs, GetArrives(j) PROVE GetInv'
  <2> USE <1>0, <1>12 DEF GetArrives
  <2>1. /\ GetInWindow(j) \/ Forgotten(j)
        /\ j \in Gets /\ j.cube \in Nat /\ j.step \in Nat /\ j.buf = Slot(j.cube)
    BY <1>b, <1>f DEF GetInWindow, Forgotten
  <2>2. ASSUME Forgotten(j), NEW c \in Nat, Slot(c) = j.buf
        PROVE  Content(j.cube, j.step) \in Seen(c, step)
    BY <2>1, <2>2, <1>s, SeenTypes DEF Forgotten
  <2>3. ASSUME l \in {"wait"} \cup Collision, NEW c \in Kernel,
               k <= c, c < k + Depth, l = "post" => c # k
        PROVE  getEv'[Slot(c)] = Get(Slot(c), c, step) /\ Fetched(c)'
    <3>1. getEv[Slot(c)] = Get(Slot(c), c, step) /\ Fetched(c)
      BY <2>3, <1>b
    <3>2. k \in Kernel /\ c \in Nat
      BY <2>3 DEF Kernel, TrailCube
    <3>3. ASSUME GetInWindow(j), Slot(c) = j.buf
          PROVE  Content(j.cube, j.step) \in Seen(c, step)
      <4>1. k <= j.cube /\ j.cube < k + Depth /\ j.step = step
        BY <2>1, <2>3, <3>2, <3>3 DEF GetInWindow
      <4>2. c = j.cube
        BY <2>1, <2>3, <3>2, <3>3, <4>1, WindowSlots
      <4>. QED  BY <4>1, <4>2, SeenTypes
    <3>4. Fetched(c)'
      BY <3>1, <3>2, <3>3, <2>1, <2>2, ArrivesFetched
    <3>. QED  BY <3>1, <3>4
  <2>4. ASSUME k = TrailCube, l \in {"trailing_get"} \cup Collision
        PROVE  Fetched(TrailCube)'
    <3>1. Fetched(TrailCube)
      BY <2>4, <1>b
    <3>2. ASSUME GetInWindow(j), Slot(TrailCube) = j.buf
          PROVE  Content(j.cube, j.step) \in Seen(TrailCube, step)
      <4>1. /\ j.cube \in {NbCubes, TrailCube} /\ (j.cube = NbCubes => Depth <= NbCubes)
            /\ j.step = step
        BY <2>1, <2>4, <3>2 DEF GetInWindow
      <4>. QED  BY <4>1, <3>2, <2>1, <1>s, SeenTypes
    <3>. QED  BY <3>1, <3>2, <2>1, <2>2, ArrivesFetched
  <2>5. \A i \in jobs' : i.op = "get" => GetInWindow(i)' \/ Forgotten(i)'
    BY <1>b, <1>g DEF GetInWindow
  <2>. QED  BY <2>3, <2>4, <2>5 DEF GetInv
<1>13. ASSUME NEW j \in jobs, PutSent(j) PROVE GetInv'
  <2>1. \A b, c, s : Get(b, c, s) # j
    BY <1>13, JobTypes DEF PutSent
  <2>2. \A i \in jobs' : i.op = "get" => GetInWindow(i)' \/ Forgotten(i)'
    BY <1>13, <1>b, <1>g DEF PutSent, GetInWindow
  <2>. QED  BY <1>13, <2>1, <2>2, <1>b DEF PutSent, GetInv, Fetched
<1>14. ASSUME NEW w \in wire, PutVisible(w) PROVE GetInv'
  <2>1. \A i \in jobs' : i.op = "get" => GetInWindow(i)' \/ Forgotten(i)'
    BY <1>14, <1>b, <1>g DEF PutVisible, GetInWindow
  <2>. QED  BY <1>14, <2>1, <1>b DEF PutVisible, GetInv, Fetched
<1>15. CASE UNCHANGED vars
  <2>1. \A i \in jobs' : i.op = "get" => GetInWindow(i)' \/ Forgotten(i)'
    BY <1>15, <1>b, <1>g DEF vars, GetInWindow
  <2>. QED  BY <1>15, <2>1, <1>b DEF vars, GetInv, Fetched
<1>. QED
  BY <1>1, <1>2, <1>3, <1>4, <1>5, <1>6, <1>7, <1>8, <1>9, <1>10, <1>11,
     <1>12, <1>13, <1>14, <1>15 DEF Next, PE0Step, Dma, Finished

(* During the collision the source buffer is settled.                      *)
LEMMA SourceSettled ==
  ASSUME TypePhase, GetInv, pc[PE0] \in {"collide", "leave"}
  PROVE  /\ src[Slot(cube[PE0])] \in Seen(cube[PE0], step)
         /\ \A g \in GetsInto(jobs, Slot(cube[PE0])) :
              Content(g.cube, g.step) \in Alien(cube[PE0], step)
<1> USE ConstantTypes
<1> DEFINE k == cube[PE0]
<1>0. /\ TypeOK /\ PhaseInv /\ k \in Kernel \cup {TrailCube} /\ k \in Nat
      /\ step \in Nat
  BY DEF TypePhase, TypeOK
<1>1. ASSUME NEW j \in jobs, j.op = "get", j.buf = Slot(k)
      PROVE  Content(j.cube, j.step) \in Alien(k, step) /\ j # Get(Slot(k), k, step)
  <2>1. /\ GetInWindow(j) \/ Forgotten(j)
        /\ j.cube \in Nat /\ j.step \in Nat /\ j.buf = Slot(j.cube)
    BY <1>0, <1>1, GetTypes DEF GetInv, GetInWindow, Forgotten
  <2>2. CASE Forgotten(j)
    <3>1. Content(j.cube, j.step) \in Alien(k, step)
      BY <1>0, <1>1, <2>1, <2>2, SeenTypes DEF Forgotten
    <3>2. j.step # step
      BY <1>0, <2>1, <2>2 DEF Forgotten
    <3>. QED  BY <3>1, <3>2, JobTypes
  <2>3. CASE GetInWindow(j) /\ k \in Kernel
    <3>1. k < j.cube /\ j.cube < k + Depth
      BY <2>3 DEF GetInWindow, Collision
    <3>2. k < j.cube + Depth
      BY <3>1, <2>1, <1>0
    <3>3. Slot(k) = Slot(j.cube)
      BY <2>1, <1>1
    <3>4. k = j.cube
      BY <3>1, <3>2, <3>3, <2>1, <1>0, SlotWindow
    <3>. QED  BY <3>1, <3>4, <1>0
  <2>4. CASE GetInWindow(j) /\ k = TrailCube
    <3>1. j.cube = NbCubes /\ Depth <= NbCubes /\ j.step = step
      BY <2>1, <2>4, <1>0 DEF GetInWindow
    <3>2. NbCubes # TrailCube
      BY DEF TrailCube
    <3>. QED  BY <3>1, <3>2, <2>1, <2>4, <1>0, <1>1, SeenTypes, JobTypes
  <2>. QED  BY <2>1, <2>2, <2>3, <2>4, <1>0
<1>2. Fetched(k)
  <2>1. CASE k \in Kernel
    BY <2>1, <1>0 DEF GetInv, Collision
  <2>2. CASE k = TrailCube
    BY <2>2 DEF GetInv, Collision
  <2>. QED  BY <2>1, <2>2, <1>0
<1>3. src[Slot(k)] \in Seen(k, step)
  BY <1>1, <1>2, JobTypes DEF Fetched
<1>. QED  BY <1>1, <1>3 DEF GetsInto

(* Every PE collides on the cube it is meant to, as it was at the          *)
(* beginning of the step, with no transfer writing to its buffer; the get  *)
(* of cube NbCubes is the only exception, for every depth, number of       *)
(* cubes, of steps and of clients (CollideReadsOwnCube).                   *)
THEOREM CollideReadsOwnCubeHolds == Spec => []CollideReadsOwnCube
<1>1. TypePhase /\ GetInv => CollideReadsOwnCube
  <2> SUFFICES ASSUME TypePhase, GetInv, NEW p \in PEs, pc[p] = "collide"
               PROVE  /\ src[Slot(cube[p])] \in Seen(cube[p], step)
                      /\ \A g \in GetsInto(jobs, Slot(cube[p])) :
                           Content(g.cube, g.step) \in Alien(cube[p], step)
    BY DEF CollideReadsOwnCube
  <2>1. pc[PE0] \in {"collide", "leave"} /\ cube[p] = cube[PE0]
    BY ConstantTypes, CubeTypes
       DEF TypePhase, PhaseInv, TypeOK, PE0Labels, PEs, ClientAt,
           ClientAfter, Collision
  <2>. QED  BY <2>1, SourceSettled
<1>. QED
  BY InitTypePhase, NextTypePhase, InitGet, NextGet, <1>1, PTL DEF Spec
-----------------------------------------------------------------------------
(***************************************************************************)
(* The destination buffers.                                                *)
(***************************************************************************)
LEMMA InitDst == Init => DstInv
<1> SUFFICES ASSUME Init PROVE DstInv
  OBVIOUS
<1>. QED
  BY ConstantTypes, CubeTypes DEF Init, DstInv, StartPc

(* A PE leaves collide_cube only while PE0 is colliding too.               *)
Together ==
  \A p \in PEs : pc[p] \in {"collide", "leave"} =>
    pc[PE0] \in {"collide", "leave"} /\ cube[p] = cube[PE0]

(* PhaseInv says so.                                                       *)
LEMMA LeaveTogether == TypePhase => Together
BY ConstantTypes, CubeTypes
   DEF TypePhase, PhaseInv, TypeOK, PE0Labels, PEs, ClientAt, ClientAfter,
       Collision, Together

(* Every step keeps DstInv: no PE writes a buffer that is being sent.      *)
LEMMA NextDst ==
  TypePhase /\ PutInv /\ GetInv /\ DstInv /\ [Next]_vars => DstInv'
<1> SUFFICES ASSUME TypePhase, PutInv, GetInv, DstInv, [Next]_vars
             PROVE  DstInv'
  OBVIOUS
<1> USE ConstantTypes
<1> DEFINE k == cube[PE0]
<1>0. TypeOK /\ PhaseInv /\ k \in Nat /\ Slot(k) \in Slots
  BY SlotType DEF TypePhase, TypeOK
<1>a. Together /\ Together'
  <2>1. TypePhase'
    BY NextTypePhase
  <2>. QED  BY <2>1, LeaveTogether, PTL
<1>b. /\ \A p \in PEs : pc[p] = "leave" \/ pc[PE0] = "post" =>
           dst[Slot(k)][p] \in Seen(k, step)
      /\ \A j \in jobs : j.op = "put" => Updated(dst[j.buf], j.cube, j.step)
  BY DEF DstInv
<1>1. ASSUME pc'[PE0] \notin {"collide", "leave", "post"}, dst' = dst,
             \A j \in jobs' : j.op = "put" => j \in jobs
      PROVE  DstInv'
  <2>1. \A p \in PEs : pc'[p] # "leave"
    BY <1>1, <1>a DEF Together
  <2>. QED  BY <1>1, <1>b, <2>1 DEF DstInv, Updated
<1>2. ASSUME PutCube PROVE DstInv'
  <2> USE <1>0, <1>2 DEF PutCube
  <2>1. pc'[PE0] \in {"wait", "epilogue"}
    BY DEF Goto, TypeOK
  <2>2. \A p \in PEs : pc'[p] # "leave"
    <3>1. \A p \in Clients : pc'[p] = pc[p] /\ pc[p] \in {"enter", "done"}
      BY CubeTypes DEF Goto, PhaseInv, TypeOK, Collision
    <3>. QED  BY <2>1, <3>1 DEF PEs
  <2>3. Updated(dst[Slot(k)], k, step)
    BY <1>b DEF Updated
  <2>4. ASSUME NEW j \in jobs', j.op = "put"
        PROVE  Updated(dst[j.buf], j.cube, j.step)
    <3>1. j \in jobs \/ j = Put(Slot(k), k, step)
      BY <2>4, JobTypes
    <3>. QED  BY <3>1, <2>3, <2>4, <1>b, JobTypes
  <2>. QED  BY <2>1, <2>2, <2>4 DEF DstInv, Updated
<1>3. ASSUME TrailingPut PROVE DstInv'
  <2> USE <1>0, <1>3 DEF TrailingPut
  <2>1. pc'[PE0] = "trailing_put"
    BY DEF Goto, TypeOK
  <2>2. \A p \in PEs : pc'[p] # "leave"
    <3>1. \A p \in Clients : pc'[p] = pc[p] /\ pc[p] \in {"enter", "done"}
      BY CubeTypes DEF Goto, PhaseInv, TypeOK, Collision
    <3>. QED  BY <2>1, <3>1 DEF PEs
  <2>3. Updated(dst[Slot(k)], k, step)
    BY <1>b DEF Updated
  <2>4. ASSUME NEW j \in jobs', j.op = "put"
        PROVE  Updated(dst[j.buf], j.cube, j.step)
    <3>1. j \in jobs \/ j = Put(Slot(k), k, step)
      BY <2>4
    <3>. QED  BY <3>1, <2>3, <2>4, <1>b, JobTypes
  <2>. QED  BY <2>1, <2>2, <2>4 DEF DstInv, Updated
<1>4. ASSUME LocalBarrier PROVE DstInv'
  <2> USE <1>0, <1>4 DEF LocalBarrier, Arrived
  <2>1. \A p \in PEs : pc'[p] # "leave"
    BY CubeTypes DEF TypeOK
  <2>2. pc'[PE0] = "post" => \A p \in PEs : pc[p] = "leave"
    <3> SUFFICES ASSUME pc'[PE0] = "post", NEW p \in PEs PROVE pc[p] = "leave"
      OBVIOUS
    <3>1. pc[PE0] = "leave"
      OBVIOUS
    <3>2. pc[p] \in {"collide", "leave"}
      BY <3>1 DEF PhaseInv, PEs
    <3>. QED  BY <3>2
  <2>3. cube'[PE0] = k
    OBVIOUS
  <2>. QED  BY <2>1, <2>2, <2>3, <1>b DEF DstInv, Updated
<1>5. ASSUME NEW p \in PEs, Collide(p) PROVE DstInv'
  <2> USE <1>0, <1>5 DEF Collide
  <2>1. pc[PE0] \in {"collide", "leave"} /\ cube[p] = k
    BY <1>a DEF Together
  <2>2. src[Slot(k)] \in Seen(k, step)
    BY <2>1, SourceSettled
  <2>3. pc' = [pc EXCEPT ![p] = "leave"] /\ pc'[PE0] # "post"
    BY <2>1 DEF Goto, TypeOK
  <2>4. /\ dst'[Slot(k)][p] = src[Slot(k)]
        /\ \A q \in PEs \ {p} : dst'[Slot(k)][q] = dst[Slot(k)][q]
        /\ \A s \in Slots \ {Slot(k)} : dst'[s] = dst[s]
    BY <2>1 DEF TypeOK
  <2>5. \A q \in PEs : pc'[q] = "leave" => dst'[Slot(k)][q] \in Seen(k, step)
    BY <2>2, <2>3, <2>4, <1>b DEF TypeOK
  <2>6. ASSUME NEW j \in jobs, j.op = "put" PROVE dst'[j.buf] = dst[j.buf]
    <3>1. j.buf # Slot(k)
      BY <2>1, <2>6, NoPutInCollision DEF Collision
    <3>2. j.buf \in Slots
      BY <2>6 DEF TypeOK, Gets, Puts
    <3>. QED  BY <3>1, <3>2, <2>4
  <2>. QED  BY <2>3, <2>5, <2>6, <1>b DEF DstInv, Updated
<1>6. CASE Dma
  <2> USE <1>6 DEF Dma, GetArrives, PutSent, PutVisible
  <2>1. pc' = pc /\ cube' = cube /\ step' = step /\ dst' = dst /\ jobs' \subseteq jobs
    OBVIOUS
  <2>. QED  BY <2>1, <1>b DEF DstInv, Updated
<1>7. CASE Finished \/ UNCHANGED vars
  BY <1>7, <1>b DEF DstInv, Updated, Finished, vars
<1>8. CASE Prologue
  BY <1>8, <1>0, <1>1, JobTypes DEF Prologue, Goto, TypeOK
<1>9. CASE WaitBuffers \/ Epilogue \/ TrailingGetReturns \/ TrailingPutReturns
  BY <1>9, <1>0, <1>1
     DEF WaitBuffers, Epilogue, TrailingGetReturns, TrailingPutReturns, Goto,
         TypeOK
<1>10. CASE TrailingGet
  BY <1>10, <1>0, <1>1, JobTypes DEF TrailingGet, Goto, TypeOK
<1>11. CASE NextStep
  BY <1>11, <1>1 DEF NextStep, StartPc
<1>. QED
  BY <1>2, <1>3, <1>4, <1>5, <1>6, <1>7, <1>8, <1>9, <1>10, <1>11
     DEF Next, PE0Step

(* A put in progress is sending the cube it was asked to send, every plane *)
(* of it made in this step from what its PE found (PutCarriesWholeCube).   *)
THEOREM PutCarriesWholeCubeHolds == Spec => []PutCarriesWholeCube
<1>1. DstInv => PutCarriesWholeCube
  BY DEF DstInv, PutCarriesWholeCube
<1>. QED
  BY InitTypePhase, NextTypePhase, InitPut, NextPut, InitGet, NextGet, InitDst,
     NextDst, <1>1, PTL DEF Spec
-----------------------------------------------------------------------------
(***************************************************************************)
(* What the cluster has put in this step.                                  *)
(***************************************************************************)
(* PE0 has issued the put of cube c in this step.                          *)
Asked(c) ==
  \/ c \in Kernel /\ c < cube[PE0]
  \/ c = TrailCube /\ pc[PE0] \in {"trailing_put", "done"}

(* A put on its way to the lattice, carrying cube c updated in this step.  *)
Carries(w, c) ==
  w.cube = c /\ w.step = step /\ Updated(w.planes, c, step)

(* The updated cube c is in the DMA engine, on its way, or in the lattice  *)
(* where nothing older can overwrite it any more.                          *)
Sent(c) ==
  \/ Put(Slot(c), c, step) \in jobs
  \/ \E w \in wire : Carries(w, c)
  \/ /\ Updated(out[DstOf(step)][c], c, step)
     /\ \A w \in wire : w.cube = c => w.step = step

(* Whatever is on its way is a whole cube, updated in its step.            *)
WireInv ==
  \A w \in wire : w.step <= step /\ Updated(w.planes, w.cube, w.step)

(* Every cube that has been asked to be put is sent.                       *)
SentInv == \A c \in OwnCubes : Asked(c) => Sent(c)

(* Every step keeps SentInv.                                               *)
LEMMA NextSent ==
  ASSUME TypePhase, PutInv, DstInv, WireInv, SentInv, [Next]_vars
  PROVE  WireInv' /\ SentInv'
<1> USE ConstantTypes
<1> DEFINE k == cube[PE0]
<1>a. step \in Steps /\ Steps \subseteq Nat
  BY DEF TypePhase, TypeOK, Steps
<1>b. \A s \in Steps : DstOf(s) \in 0 .. 1
  BY <1>a DEF DstOf
<1>0. /\ TypeOK /\ PhaseInv /\ k \in Nat /\ Slot(k) \in Slots /\ step \in Nat
      /\ DstOf(step) \in 0 .. 1
  BY <1>a, <1>b, SlotType DEF TypePhase, TypeOK
<1>1. ASSUME step' = step, wire' = wire, out' = out, jobs \subseteq jobs',
             \A c \in OwnCubes : Asked(c)' => Asked(c) \/ Put(Slot(c), c, step) \in jobs'
      PROVE  WireInv' /\ SentInv'
  <2>1. WireInv'
    BY <1>1 DEF WireInv, Updated
  <2>2. ASSUME NEW c \in OwnCubes, Asked(c)' PROVE Sent(c)'
    <3>1. Put(Slot(c), c, step) \in jobs' \/ Sent(c)
      BY <1>1, <2>2 DEF SentInv
    <3>. QED  BY <1>1, <3>1 DEF Sent, Carries, Updated
  <2>. QED  BY <2>1, <2>2 DEF SentInv
<1>2. CASE PutCube
  <2> USE <1>0, <1>2 DEF PutCube
  <2>1. ASSUME NEW c \in OwnCubes, Asked(c)'
        PROVE  Asked(c) \/ Put(Slot(c), c, step) \in jobs'
    <3>1. cube'[PE0] = NextCube(k) /\ pc'[PE0] \in {"wait", "epilogue"} /\ k \in Kernel
      BY DEF TypeOK, Goto
    <3>2. c \in Kernel /\ c < NextCube(k)
      BY <2>1, <3>1 DEF Asked
    <3>3. c < k \/ c = k
      BY <3>1, <3>2 DEF NextCube, Kernel
    <3>. QED  BY <3>2, <3>3 DEF Asked
  <2>. QED  BY <1>1, <2>1
<1>3. CASE TrailingPut
  <2> USE <1>0, <1>3 DEF TrailingPut
  <2>1. ASSUME NEW c \in OwnCubes, Asked(c)'
        PROVE  Asked(c) \/ Put(Slot(c), c, step) \in jobs'
    BY <2>1 DEF Asked
  <2>. QED  BY <1>1, <2>1
<1>4. CASE \/ Prologue \/ WaitBuffers \/ TrailingGet \/ TrailingGetReturns
           \/ TrailingPutReturns
  <2> USE <1>0, <1>4 DEF Prologue, WaitBuffers, TrailingGet, TrailingGetReturns,
        TrailingPutReturns
  <2>1. cube' = cube /\ jobs \subseteq jobs'
    OBVIOUS
  <2>2. pc'[PE0] \in {"trailing_put", "done"} => pc[PE0] = "trailing_put"
    BY DEF Goto, TypeOK
  <2>. QED  BY <1>1, <2>1, <2>2 DEF Asked
<1>5. CASE Epilogue
  <2> USE <1>0, <1>5 DEF Epilogue
  <2>1. pc'[PE0] \in {"trailing_put", "done"} => TrailCube \notin OwnCubes
    BY DEF Goto, TypeOK, OwnCubes
  <2>. QED  BY <1>1, <2>1 DEF Asked
<1>6. CASE LocalBarrier
  <2> USE <1>0, <1>6 DEF LocalBarrier, Arrived
  <2>1. cube'[PE0] = k /\ pc'[PE0] \in {"collide", "post"}
    BY DEF TypeOK
  <2>. QED  BY <1>1, <2>1 DEF Asked
<1>7. ASSUME NEW p \in PEs, Collide(p) PROVE WireInv' /\ SentInv'
  <2> USE <1>0, <1>7 DEF Collide
  <2>1. cube' = cube /\ pc'[PE0] \in {"trailing_put", "done"} => pc[PE0] = pc'[PE0]
    BY DEF Goto, TypeOK
  <2>. QED  BY <1>1, <2>1 DEF Asked
<1>8. CASE NextStep
  <2> USE <1>0, <1>8 DEF NextStep
  <2>1. \A c \in OwnCubes : ~ Asked(c)'
    BY DEF Asked, StartPc, FirstCube, Kernel
  <2>2. \A w \in wire : w.step \in Nat
    BY <1>a DEF TypeOK
  <2>3. WireInv'
    BY <2>2 DEF WireInv, Updated
  <2>. QED  BY <2>1, <2>3 DEF SentInv
<1>9. ASSUME NEW j \in jobs, GetArrives(j) PROVE WireInv' /\ SentInv'
  <2> USE <1>0, <1>9 DEF GetArrives
  <2>1. WireInv'
    BY DEF WireInv, Updated
  <2>2. ASSUME NEW c \in OwnCubes, Asked(c)' PROVE Sent(c)'
    <3>1. Sent(c)
      BY <2>2 DEF SentInv, Asked
    <3>. QED  BY <3>1, JobTypes DEF Sent, Carries, Updated
  <2>. QED  BY <2>1, <2>2 DEF SentInv
<1>10. ASSUME NEW j \in jobs, PutSent(j) PROVE WireInv' /\ SentInv'
  <2> USE <1>0, <1>10 DEF PutSent
  <2> DEFINE w == [cube |-> j.cube, step |-> j.step, planes |-> dst[j.buf]]
  <2>1. j.step = step /\ Updated(dst[j.buf], j.cube, j.step)
    BY DEF PutInv, PutInWindow, DstInv
  <2>2. /\ wire' = wire \cup {w} /\ w.cube = j.cube /\ w.step = step
        /\ Updated(w.planes, j.cube, step)
    BY <2>1
  <2>3. WireInv'
    BY <2>2 DEF WireInv, Updated
  <2>4. ASSUME NEW c \in OwnCubes, Asked(c)' PROVE Sent(c)'
    <3>1. Sent(c)
      BY <2>4 DEF SentInv, Asked
    <3>2. CASE Put(Slot(c), c, step) \in jobs
      <4>1. CASE j = Put(Slot(c), c, step)
        <5>1. c = j.cube
          BY <4>1, JobTypes
        <5>2. Carries(w, c)' /\ w \in wire'
          BY <2>2, <5>1 DEF Carries, Updated
        <5>. QED  BY <5>2 DEF Sent
      <4>2. CASE j # Put(Slot(c), c, step)
        BY <3>2, <4>2 DEF Sent
      <4>. QED  BY <4>1, <4>2
    <3>3. CASE \E v \in wire : Carries(v, c)
      BY <2>2, <3>3 DEF Sent, Carries, Updated
    <3>4. CASE /\ Updated(out[DstOf(step)][c], c, step)
               /\ \A v \in wire : v.cube = c => v.step = step
      BY <2>2, <3>4 DEF Sent, Updated
    <3>. QED  BY <3>1, <3>2, <3>3, <3>4 DEF Sent
  <2>. QED  BY <2>3, <2>4 DEF SentInv
<1>11. ASSUME NEW w \in wire, PutVisible(w) PROVE WireInv' /\ SentInv'
  <2> USE <1>0, <1>11 DEF PutVisible
  <2>0. /\ w.step \in Steps /\ w.cube \in OwnCubes /\ DstOf(w.step) \in 0 .. 1
        /\ Updated(w.planes, w.cube, w.step)
    BY <1>b DEF TypeOK, WireInv
  <2>1. WireInv'
    BY DEF WireInv, Updated
  <2>2. ASSUME NEW c \in OwnCubes, Asked(c)' PROVE Sent(c)'
    <3>1. Sent(c)
      BY <2>2 DEF SentInv, Asked
    <3>2. CASE Put(Slot(c), c, step) \in jobs
      BY <3>2 DEF Sent
    <3>3. CASE \E v \in wire \ {w} : Carries(v, c)
      BY <3>3 DEF Sent, Carries, Updated
    <3>4. CASE Carries(w, c)
      <4>1. Updated(out[DstOf(step)][c], c, step)'
        BY <2>0, <3>4 DEF Carries, TypeOK, Updated
      <4>2. ASSUME NEW v \in wire, v.cube = c PROVE v.step = step
        <5>1. v.step \in Nat /\ v.step <= step
          BY <1>a DEF TypeOK, WireInv
        <5>2. w.cube = c /\ w.step = step
          BY <3>4 DEF Carries
        <5>3. v.step >= w.step
          BY <4>2, <5>2
        <5>. QED  BY <5>1, <5>2, <5>3
      <4>. QED  BY <4>1, <4>2 DEF Sent
    <3>5. CASE /\ Updated(out[DstOf(step)][c], c, step)
               /\ \A v \in wire : v.cube = c => v.step = step
      <4>1. Updated(out[DstOf(step)][c], c, step)'
        <5>1. CASE w.cube = c
          BY <2>0, <3>5, <5>1 DEF TypeOK, Updated
        <5>2. CASE w.cube # c
          BY <2>0, <3>5, <5>2 DEF TypeOK, Updated
        <5>. QED  BY <5>1, <5>2
      <4>. QED  BY <4>1, <3>5 DEF Sent
    <3>. QED  BY <3>1, <3>2, <3>3, <3>4, <3>5 DEF Sent
  <2>. QED  BY <2>1, <2>2 DEF SentInv
<1>12. CASE Finished \/ UNCHANGED vars
  BY <1>1, <1>12 DEF Finished, vars, Asked
<1>. QED
  BY <1>2, <1>3, <1>4, <1>5, <1>6, <1>7, <1>8, <1>9, <1>10, <1>11, <1>12
     DEF Next, PE0Step, Dma

(* When every PE of the cluster has left the step, each cube the cluster   *)
(* owns, the trailing one included, has been updated in all planes and for *)
(* this step, and its put is locally complete: the last waits of           *)
(* compute_async forget no put (StepComplete).                             *)
THEOREM StepCompleteHolds == Spec => []StepComplete
<1>3. Init => WireInv /\ SentInv
  BY ConstantTypes DEF Init, WireInv, SentInv, Asked, StartPc, FirstCube, Kernel
<1>4. TypePhase /\ PutInv /\ DstInv /\ WireInv /\ SentInv /\ [Next]_vars
        => WireInv' /\ SentInv'
  BY NextSent
<1>5. TypePhase /\ PutInv /\ SentInv => StepComplete
  <2> SUFFICES ASSUME TypePhase, PutInv, SentInv, AllDone, NEW c \in OwnCubes
               PROVE  \/ Updated(out[DstOf(step)][c], c, step)
                      \/ \E w \in wire : Carries(w, c)
    BY DEF StepComplete, Carries
  <2> USE ConstantTypes
  <2>1. pc[PE0] = "done" /\ cube[PE0] = TrailCube
    BY DEF AllDone, TypePhase, PhaseInv
  <2>2. Asked(c)
    BY <2>1 DEF Asked, OwnCubes, Kernel, TrailCube
  <2>3. Put(Slot(c), c, step) \notin jobs
    BY <2>1, JobTypes DEF PutInv, PutInWindow, Collision
  <2>. QED  BY <2>2, <2>3 DEF SentInv, Sent
<1>. QED
  BY InitTypePhase, NextTypePhase, InitPut, NextPut, InitGet, NextGet, InitDst,
     NextDst, <1>3, <1>4, <1>5, PTL DEF Spec

(* An event of the ring holds the ticket of a get into its own buffer.     *)
GetEvInv == \A s \in Slots : getEv[s] = NoTicket \/ getEv[s].buf = s

(* No get event is given a new ticket while the job of its old one is      *)
(* pending, over any number of steps, but for the get of cube NbCubes      *)
(* (GetTicketKept): no arrival that PE0 relies on goes unwaited.           *)
THEOREM GetTicketKeptHolds == Spec => GetTicketKept
<1> DEFINE Kept == \A s \in Slots : getEv'[s] # getEv[s] =>
                     Complete(jobs, getEv[s]) \/ getEv[s].cube = NbCubes
<1>2. Init => GetEvInv
  BY DEF Init, GetEvInv
<1>3. TypePhase /\ GetEvInv /\ [Next]_vars => GetEvInv'
  <2> SUFFICES ASSUME TypePhase, GetEvInv, [Next]_vars PROVE GetEvInv'
    OBVIOUS
  <2>1. CASE Prologue
    BY <2>1, JobTypes DEF Prologue, GetEvInv
  <2>2. CASE PutCube
    BY <2>2, JobTypes DEF PutCube, GetEvInv, TypePhase, TypeOK
  <2>3. CASE getEv' = getEv
    BY <2>3 DEF GetEvInv
  <2>. QED
    BY <2>1, <2>2, <2>3 DEF Next, PE0Step, Dma, WaitBuffers, Epilogue, TrailingGet,
       TrailingGetReturns, TrailingPut, TrailingPutReturns, LocalBarrier,
       Collide, NextStep, Finished, GetArrives, PutSent, PutVisible, vars
<1>4. TypePhase /\ GetInv /\ GetEvInv /\ [Next]_vars => [Kept]_vars
  <2> SUFFICES ASSUME TypePhase, GetInv, GetEvInv, Next, NEW s \in Slots,
                      getEv'[s] # getEv[s], getEv[s] \in jobs
               PROVE  getEv[s].cube = NbCubes
    BY DEF Complete
  <2>. USE ConstantTypes
  <2>0. getEv[s].op = "get" /\ getEv[s].buf = s /\ getEv[s].cube \in Nat
    BY JobTypes DEF GetEvInv, TypePhase, TypeOK, Gets
  <2>1. CASE ~GetInWindow(getEv[s])
    BY <2>0, <2>1 DEF GetInv, Forgotten
  <2>2. CASE Prologue
    BY <2>0, <2>2 DEF Prologue, GetInv, GetInWindow, Forgotten
  <2>3. CASE PutCube /\ GetInWindow(getEv[s])
    <3>1. s = Slot(cube[PE0]) /\ pc[PE0] = "post" /\ cube[PE0] \in Kernel
      BY <2>3 DEF PutCube, NextSlot, TypePhase, TypeOK
    <3>2. /\ cube[PE0] < getEv[s].cube /\ getEv[s].cube < cube[PE0] + Depth
          /\ s = Slot(getEv[s].cube)
      BY <2>0, <2>3, <3>1 DEF GetInWindow, Collision
    <3>3. cube[PE0] \in Nat
      BY <3>1 DEF Kernel
    <3>4. cube[PE0] = getEv[s].cube
      BY <2>0, <3>1, <3>2, <3>3, SlotWindow
    <3>. QED  BY <2>0, <3>2, <3>3, <3>4
  <2>. QED
    BY <2>1, <2>2, <2>3 DEF Next, PE0Step, Dma, WaitBuffers, Epilogue, TrailingGet,
       TrailingGetReturns, TrailingPut, TrailingPutReturns, LocalBarrier,
       Collide, NextStep, Finished, GetArrives, PutSent, PutVisible, vars
<1>. QED
  BY InitTypePhase, NextTypePhase, InitGet, NextGet, <1>2, <1>3, <1>4, PTL
     DEF Spec, GetTicketKept
=============================================================================
