------------------------ MODULE InplacePipelineProofs ------------------------
(***************************************************************************)
(* Proofs about InplacePipeline.                                           *)
(*                                                                         *)
(* PhaseInv says where the clients are, given where PE0 is.  GetInv says   *)
(* which gets are pending: they go to the buffers of the cubes that follow *)
(* PE0's, and the buffer of the collision has exactly the planes of the    *)
(* PEs that have left it updated.  PutInv says the same of the puts of the *)
(* second turn of the ring and after.  Those are waited for before their   *)
(* buffer is filled again, so a pending one is the put PE0 has just issued *)
(* or one of a buffer that no get follows in; the puts of the first turn   *)
(* are not (compute_inplace.c:333) and nothing is claimed of them.  GetInv *)
(* needs, as in ComputePipeline, that the get PE0 issues past the end of   *)
(* its range has a buffer of its own: NoStrayGet.                          *)
(***************************************************************************)
EXTENDS InplacePipeline, ModLemmas

Collision == {"enter", "collide", "leave", "post"}
Looping   == {"wait", "refill"} \cup Collision

(* Where PE0 and the clients are with respect to the cube at hand.         *)
PhaseInv ==
  LET k == cube[PE0]
      l == pc[PE0]
  IN
  /\ l = "prologue" => k = FirstCube
  /\ l \in {"wait", "refill"} => k \in Kernel
  /\ l = "refill" => Prefetches(k)
  /\ l \in Collision => k \in Kernel \/ HasTrailing
  /\ l \in {"epilogue", "done"} => k = TrailCube
  /\ l \in {"trailing", "trailing_get", "trailing_put"} =>
       k = TrailCube /\ HasTrailing
  /\ \A p \in Clients :
       /\ l \in {"prologue", "wait", "enter",
                 "epilogue", "trailing", "trailing_get"} =>
            cube[p] = k /\ pc[p] = ClientAt(k)
       /\ l \in {"collide", "leave"} =>
            cube[p] = k /\ pc[p] \in {"collide", "leave"}
       /\ l \in {"post", "refill"} =>
            cube[p] = NextCube(k) /\ pc[p] = ClientAfter(k)
       /\ l \in {"trailing_put", "done"} =>
            cube[p] = TrailCube /\ pc[p] = "done"

TypePhase == TypeOK /\ PhaseInv

(* The get of cube NbCubes, which is issued when NbCubes >= Depth, finds   *)
(* its buffer unused: the trailing cube, if any, has another one.          *)
NoStrayGet == NbCubes < Depth \/ Depth > 1 \/ ~ HasTrailing

(* Which gets are pending.                                                 *)
GetInWindow(j) ==
  LET k == cube[PE0]
      l == pc[PE0]
  IN
  /\ j = GetOf(j.cube)
  /\ l # "prologue"
  /\ j.cube = NbCubes => Depth <= NbCubes
  /\ j.cube = TrailCube => l = "trailing_get"
  /\ l = "wait" => k <= j.cube /\ j.cube < k + Depth
  /\ l \in Looping \ {"wait"} /\ k \in Kernel => k < j.cube /\ j.cube < k + Depth
  /\ k = TrailCube => j.cube \in {NbCubes, TrailCube}

(* Cube c has been asked for, and the buffer holds it, no plane of it      *)
(* updated, as soon as the get is complete.                                *)
Fetched(c) == GetOf(c) \in jobs \/ src[Slot(c)] = Content(c, {})

(* The cubes PE0 will wait for.                                            *)
Awaited(c) ==
  /\ pc[PE0] \in Looping
  /\ cube[PE0] < c \/ (cube[PE0] = c /\ pc[PE0] = "wait")
  /\ c < cube[PE0] + Depth

(* The PEs that have updated their plane of the cube in collision.         *)
Updated == IF pc[PE0] = "post" THEN PEs ELSE {p \in PEs : pc[p] = "leave"}

GetInv ==
  /\ \A j \in jobs : j.op = "get" => GetInWindow(j)
  /\ \A c \in Kernel : Awaited(c) => getEv[Slot(c)] = GetOf(c) /\ Fetched(c)
  /\ pc[PE0] = "trailing_get" => Fetched(TrailCube)
  /\ pc[PE0] \in Collision =>
       src[Slot(cube[PE0])] = Content(cube[PE0], Updated)

(* The put of a cube of the second turn of the ring, or after.             *)
Late(j) == j.op = "put" /\ j.cube >= Depth

(* Which of them are pending: the one PE0 has just issued, and those whose *)
(* buffer it does not fill again in the loop.                              *)
PutInWindow(j) ==
  LET k == cube[PE0]
      l == pc[PE0]
  IN
  /\ j = PutOf(j.cube)
  /\ src[j.buf] = Content(j.cube, PEs)
  /\ l \in Looping \cup {"epilogue", "trailing_put"}
  /\ l \in Collision => k \in Kernel
  /\ IF l = "trailing_put"
     THEN j.cube = TrailCube
     ELSE /\ j.cube \in Kernel
          /\ putEv[j.buf] = j
          /\ \/ l = "refill" /\ j.cube = k
             \/ j.cube < k /\ NbCubes < j.cube + Depth

(* Only the puts named above are pending.                                  *)
PutInv == \A j \in jobs : Late(j) => PutInWindow(j)

(* The put of cube c has been issued.                                      *)
Asked(c) ==
  \/ c \in Kernel /\ (c < cube[PE0] \/ (c = cube[PE0] /\ pc[PE0] = "refill"))
  \/ c = TrailCube /\ pc[PE0] \in {"trailing_put", "done"}

SentInv ==
  \A c \in OwnCubes : c >= Depth /\ Asked(c) =>
    PutOf(c) \in jobs \/ sent[c] = Content(c, PEs)

IInv == TypePhase /\ GetInv /\ PutInv /\ SentInv
-----------------------------------------------------------------------------
(***************************************************************************)
(* Typing of the helpers.                                                  *)
(***************************************************************************)

(* A cube has a buffer, and the first Depth cubes have their own number.   *)
LEMMA SlotType ==
  ASSUME NEW k \in Nat
  PROVE  Slot(k) \in Slots /\ (k < Depth => Slot(k) = k)
BY DepthAssumption, DivMod, ModSmall DEF Slot, Slots

(* Two cubes less than Depth apart have different buffers.                 *)
LEMMA SlotWindow ==
  ASSUME NEW a \in Nat, NEW b \in Nat, a < b + Depth, b < a + Depth,
         Slot(a) = Slot(b)
  PROVE  a = b
BY DepthAssumption, ModWindow DEF Slot

(* next_ibuf is ibuf: cube k + Depth goes to the buffer of cube k.         *)
LEMMA SlotShift ==
  ASSUME NEW k \in Nat
  PROVE  Slot(k + Depth) = Slot(k)
BY DepthAssumption, ModShift DEF Slot

(* The constants are numbers, and the cubes of the cluster too.            *)
LEMMA ConstantTypes ==
  /\ Depth \in Nat \ {0}
  /\ NbCubes \in Nat
  /\ TrailCube \in Nat /\ TrailCube \notin Kernel
  /\ Kernel \subseteq Nat /\ Kernel \subseteq 0 .. TrailCube
  /\ TrailCube \in 0 .. TrailCube /\ NbCubes \in 0 .. TrailCube
  /\ OwnCubes \subseteq Kernel \cup {TrailCube}
  /\ OwnCubes \subseteq 0 .. TrailCube
  /\ Kernel \subseteq OwnCubes
  /\ HasTrailing => TrailCube \in OwnCubes
  /\ PE0 \in PEs /\ Clients \subseteq PEs /\ PE0 \notin Clients
  /\ NbPrefetched \in Nat /\ NbPrefetched <= NbCubes /\ NbPrefetched <= Depth
BY DepthAssumption, NbCubesAssumption, TrailingAssumption, PEAssumption
   DEF TrailCube, Kernel, OwnCubes, PEs, NbPrefetched

(* No PE leaves the range of the cluster's cubes.                          *)
LEMMA CubeTypes ==
  /\ FirstCube \in Kernel \cup {TrailCube}
  /\ \A k \in Kernel \cup {TrailCube} :
       /\ NextCube(k) \in Kernel \cup {TrailCube}
       /\ ClientAt(k) \in {"enter", "done"}
       /\ ClientAfter(k) \in {"enter", "done"}
  /\ Nothing \in Contents
  /\ \A k \in 0 .. TrailCube, s \in SUBSET PEs : Content(k, s) \in Contents
<1>1. \A k \in -1 .. TrailCube, s \in SUBSET PEs : Content(k, s) \in Contents
  BY DEF Contents
<1>2. -1 \in -1 .. TrailCube /\ 0 .. TrailCube \subseteq -1 .. TrailCube
  BY ConstantTypes
<1>3. Nothing \in Contents
  BY <1>1, <1>2 DEF Nothing
<1>. QED
  BY <1>1, <1>2, <1>3, NbCubesAssumption, TrailingAssumption
     DEF FirstCube, NextCube, ClientAt, ClientAfter, Kernel, TrailCube

(* Where PE0 goes after cube k of the loop.                                *)
LEMMA NextCubes ==
  ASSUME NEW k \in Kernel
  PROVE  /\ k \in Nat /\ k < NbCubes /\ k # TrailCube
         /\ NextCube(k) \in Kernel => NextCube(k) = k + 1
         /\ NextCube(k) \notin Kernel => NextCube(k) = TrailCube /\ k + 1 = NbCubes
BY NbCubesAssumption DEF Kernel, NextCube, TrailCube

(* A job is the get or the put of its cube, and these are different.       *)
LEMMA JobTypes ==
  /\ \A c : GetOf(c).op = "get" /\ GetOf(c).cube = c /\ GetOf(c).buf = Slot(c)
  /\ \A c : PutOf(c).op = "put" /\ PutOf(c).cube = c /\ PutOf(c).buf = Slot(c)
  /\ \A c \in 0 .. TrailCube : GetOf(c) \in Gets
  /\ \A c \in OwnCubes : PutOf(c) \in Puts
  /\ \A j \in Gets : j.op = "get" /\ j.buf \in Slots /\ j.cube \in 0 .. TrailCube
  /\ \A j \in Puts : j.op = "put" /\ j.buf \in Slots /\ j.cube \in OwnCubes
<1>1. \A c \in 0 .. TrailCube : Slot(c) \in Slots
  BY ConstantTypes, SlotType
<1>. QED  BY <1>1, ConstantTypes DEF GetOf, PutOf, Get, Put, Gets, Puts

(* GetNext asks for cube k + Depth, in the buffer of cube k.               *)
LEMMA NextGets ==
  ASSUME NEW k \in Nat
  PROVE  Get(Slot(k), k + Depth, 0) = GetOf(k + Depth)
BY SlotShift DEF GetOf

(* collide_cube adds its plane to the updated ones.                        *)
LEMMA CollideEffect ==
  ASSUME TypeOK, NEW p \in PEs, Collide(p), NEW c, NEW u,
         src[Slot(cube[p])] = Content(c, u)
  PROVE  src' = [src EXCEPT ![Slot(cube[p])] = Content(c, u \cup {p})]
<1>1. Content(c, u).cube = c /\ Content(c, u).updated = u
  BY DEF Content
<1>. QED  BY <1>1 DEF Collide

(* PE0 asks for cube k + Depth even if it is the first of somebody else.   *)
LEMMA PrefetchesIf ==
  ASSUME NEW k \in Nat
  PROVE  Prefetches(k) <=> k + Depth <= NbCubes
BY ConstantTypes DEF Prefetches
-----------------------------------------------------------------------------
(***************************************************************************)
(* Type correctness and lockstep.                                          *)
(***************************************************************************)

(* The program starts well typed, every PE at its first cube.              *)
LEMMA InitTypePhase == Init => TypePhase
<1> SUFFICES ASSUME Init PROVE TypePhase
  OBVIOUS
<1> USE ConstantTypes, CubeTypes DEF Init
<1>1. TypeOK
  BY DEF TypeOK, Labels
<1>2. PhaseInv
  BY DEF PhaseInv, Collision
<1>. QED  BY <1>1, <1>2 DEF TypePhase

(* Every step keeps the types, and the clients in step with PE0.           *)
LEMMA NextTypePhase == TypePhase /\ [Next]_vars => TypePhase'
<1> SUFFICES ASSUME TypePhase, [Next]_vars PROVE TypePhase'
  OBVIOUS
<1> USE ConstantTypes, CubeTypes
<1> DEFINE k == cube[PE0]
<1>0. TypeOK /\ PhaseInv /\ k \in Kernel \cup {TrailCube} /\ k \in Nat
      /\ Slot(k) \in Slots
  BY SlotType DEF TypePhase, TypeOK
<1>1. ASSUME Prologue PROVE TypePhase'
  <2> USE <1>0, <1>1 DEF Prologue
  <2>1. \A c \in 0 .. NbPrefetched - 1 : GetOf(c) \in Gets
    BY JobTypes DEF TrailCube
  <2>2. \A s \in Slots : s < NbPrefetched => GetOf(s) \in Gets
    BY <2>1 DEF Slots
  <2>3. TypeOK'
    BY <2>1, <2>2 DEF TypeOK, Labels, Goto
  <2>4. PhaseInv'
    BY DEF TypeOK, PhaseInv, Goto, Collision, FirstCube, Kernel
  <2>. QED  BY <2>3, <2>4 DEF TypePhase
<1>2. ASSUME WaitGet PROVE TypePhase'
  <2> USE <1>0, <1>2 DEF WaitGet
  <2>1. TypeOK'
    BY DEF TypeOK, Labels, Goto
  <2>2. PhaseInv'
    BY DEF TypeOK, PhaseInv, Goto, Collision
  <2>. QED  BY <2>1, <2>2 DEF TypePhase
<1>3. ASSUME PutCube PROVE TypePhase'
  <2> USE <1>0, <1>3 DEF PutCube, Advance
  <2>1. PutOf(k) \in Puts
    BY JobTypes
  <2>2. TypeOK'
    BY <2>1 DEF TypeOK, Labels, Goto
  <2>3. PhaseInv'
    <3>1. CASE Prefetches(k)
      BY <3>1 DEF TypeOK, PhaseInv, Goto, Collision
    <3>2. CASE ~ Prefetches(k)
      BY <3>2 DEF TypeOK, PhaseInv, Goto, Collision, ClientAfter
    <3>. QED  BY <3>1, <3>2
  <2>. QED  BY <2>2, <2>3 DEF TypePhase
<1>4. ASSUME GetNext PROVE TypePhase'
  <2> USE <1>0, <1>4 DEF GetNext, Advance
  <2>1. k \in Kernel /\ GetOf(k + Depth) \in Gets
    <3>1. k \in Kernel /\ Prefetches(k)
      BY DEF PhaseInv
    <3>2. k + Depth \in 0 .. TrailCube
      BY <3>1, PrefetchesIf DEF TrailCube
    <3>. QED  BY <3>1, <3>2, JobTypes
  <2>a. /\ jobs' = jobs \cup {GetOf(k + Depth)}
        /\ getEv' = [getEv EXCEPT ![Slot(k)] = GetOf(k + Depth)]
    BY NextGets
  <2>2. TypeOK'
    <3>1. pc' \in [PEs -> Labels] /\ cube' \in [PEs -> Kernel \cup {TrailCube}]
      BY DEF TypeOK, Labels, Goto
    <3>2. jobs' \subseteq Gets \cup Puts
      BY <2>1, <2>a DEF TypeOK
    <3>3. getEv' \in [Slots -> Gets \cup {NoTicket}]
      BY <2>1, <2>a DEF TypeOK
    <3>. QED  BY <3>1, <3>2, <3>3 DEF TypeOK
  <2>3. PhaseInv'
    BY <2>1 DEF TypeOK, PhaseInv, Goto, Collision, ClientAfter
  <2>. QED  BY <2>2, <2>3 DEF TypePhase
<1>5. ASSUME Epilogue PROVE TypePhase'
  <2> USE <1>0, <1>5 DEF Epilogue
  <2>1. TypeOK'
    BY DEF TypeOK, Labels, Goto
  <2>2. PhaseInv'
    BY DEF TypeOK, PhaseInv, Goto, Collision, ClientAt, Kernel, TrailCube
  <2>. QED  BY <2>1, <2>2 DEF TypePhase
<1>6. ASSUME TrailingGet PROVE TypePhase'
  <2> USE <1>0, <1>6 DEF TrailingGet
  <2>1. TypeOK'
    BY JobTypes DEF TypeOK, Labels, Goto
  <2>2. PhaseInv'
    BY DEF TypeOK, PhaseInv, Goto, Collision
  <2>. QED  BY <2>1, <2>2 DEF TypePhase
<1>7. ASSUME TrailingGetReturns PROVE TypePhase'
  <2> USE <1>0, <1>7 DEF TrailingGetReturns
  <2>1. TypeOK'
    BY DEF TypeOK, Labels, Goto
  <2>2. PhaseInv'
    BY DEF TypeOK, PhaseInv, Goto, Collision
  <2>. QED  BY <2>1, <2>2 DEF TypePhase
<1>8. ASSUME TrailingPut PROVE TypePhase'
  <2> USE <1>0, <1>8 DEF TrailingPut
  <2>0. HasTrailing
    BY DEF PhaseInv, Collision
  <2>1. TypeOK'
    BY <2>0, JobTypes DEF TypeOK, Labels, Goto
  <2>2. PhaseInv'
    <3>1. NextCube(TrailCube) = TrailCube /\ ClientAfter(TrailCube) = "done"
      BY DEF NextCube, ClientAfter, TrailCube
    <3>. QED  BY <2>0, <3>1 DEF TypeOK, PhaseInv, Goto, Collision
  <2>. QED  BY <2>1, <2>2 DEF TypePhase
<1>9. ASSUME TrailingPutReturns PROVE TypePhase'
  <2> USE <1>0, <1>9 DEF TrailingPutReturns
  <2>1. TypeOK'
    BY DEF TypeOK, Labels, Goto
  <2>2. PhaseInv'
    BY DEF TypeOK, PhaseInv, Goto, Collision
  <2>. QED  BY <2>1, <2>2 DEF TypePhase
<1>10. ASSUME LocalBarrier PROVE TypePhase'
  <2> USE <1>0, <1>10 DEF LocalBarrier, Arrived
  <2>1. TypeOK'
    <3>1. pc' \in [PEs -> Labels]
      BY DEF TypeOK, Labels
    <3>2. cube' \in [PEs -> Kernel \cup {TrailCube}]
      BY DEF TypeOK
    <3>. QED  BY <3>1, <3>2 DEF TypeOK
  <2>2. PhaseInv'
    <3>1. CASE pc[PE0] = "enter"
      <4>1. \A p \in PEs : pc[p] = "enter" /\ cube[p] = k
        BY <3>1 DEF PhaseInv, TypeOK, PEs, ClientAt
      <4>2. pc' = [p \in PEs |-> "collide"] /\ cube' = cube
        BY <4>1 DEF TypeOK
      <4>. QED  BY <3>1, <4>1, <4>2 DEF PhaseInv, Collision
    <3>2. CASE pc[PE0] = "leave"
      <4>1. \A p \in PEs : pc[p] = "leave" /\ cube[p] = k
        BY <3>2 DEF PhaseInv, TypeOK, PEs
      <4>2. pc'[PE0] = "post" /\ cube'[PE0] = k
        BY <4>1
      <4>3. \A p \in Clients : pc'[p] = ClientAfter(k) /\ cube'[p] = NextCube(k)
        BY <4>1
      <4>. QED  BY <3>2, <4>2, <4>3 DEF PhaseInv, Collision
    <3>. QED  BY <3>1, <3>2
  <2>. QED  BY <2>1, <2>2 DEF TypePhase
<1>11. ASSUME NEW p \in PEs, Collide(p) PROVE TypePhase'
  <2> USE <1>0, <1>11 DEF Collide
  <2>1. TypeOK'
    <3>1. Slot(cube[p]) \in Slots
      BY SlotType DEF TypeOK
    <3>2. src' \in [Slots -> Contents]
      <4>1. PICK c \in -1 .. TrailCube, u \in SUBSET PEs :
              src[Slot(cube[p])] = Content(c, u)
        BY <3>1 DEF TypeOK, Contents
      <4>2. src' = [src EXCEPT ![Slot(cube[p])] = Content(c, u \cup {p})]
        BY <1>0, <1>11, <4>1, CollideEffect
      <4>3. Content(c, u \cup {p}) \in Contents
        BY DEF Contents
      <4>. QED  BY <3>1, <4>2, <4>3 DEF TypeOK
    <3>3. pc' \in [PEs -> Labels]
      BY DEF TypeOK, Labels, Goto
    <3>. QED  BY <3>2, <3>3 DEF TypeOK
  <2>2. PhaseInv'
    <3>1. pc[PE0] \in {"collide", "leave"}
      BY DEF PhaseInv, TypeOK, Labels, PEs, ClientAt, ClientAfter, Collision
    <3>. QED  BY <3>1 DEF TypeOK, PhaseInv, Goto, Collision
  <2>. QED  BY <2>1, <2>2 DEF TypePhase
<1>12. ASSUME NEW j \in jobs, GetArrives(j) PROVE TypePhase'
  <2> USE <1>0, <1>12 DEF GetArrives
  <2>1. j.cube \in 0 .. TrailCube
    BY JobTypes DEF TypeOK
  <2>2. TypeOK'
    BY <2>1 DEF TypeOK
  <2>3. PhaseInv'
    BY DEF PhaseInv
  <2>. QED  BY <2>2, <2>3 DEF TypePhase
<1>13. ASSUME NEW j \in jobs, PutSent(j) PROVE TypePhase'
  <2> USE <1>0, <1>13 DEF PutSent
  <2>1. j.buf \in Slots
    BY JobTypes DEF TypeOK
  <2>2. TypeOK'
    BY <2>1 DEF TypeOK
  <2>3. PhaseInv'
    BY DEF PhaseInv
  <2>. QED  BY <2>2, <2>3 DEF TypePhase
<1>14. CASE UNCHANGED vars
  BY <1>0, <1>14 DEF vars, TypePhase, TypeOK, PhaseInv
<1>. QED
  BY <1>1, <1>2, <1>3, <1>4, <1>5, <1>6, <1>7, <1>8, <1>9, <1>10, <1>11,
     <1>12, <1>13, <1>14 DEF Next, PE0Step, Dma, Finished

(* Every variable of the in-place pipeline keeps its type, for every depth *)
(* and number of cubes and of clients: no PE handles a cube past the last  *)
(* one, and the cluster puts only cubes it owns.                           *)
THEOREM TypeCorrect == Spec => []TypeOK
<1>1. TypePhase => TypeOK
  BY DEF TypePhase
<1>. QED  BY InitTypePhase, NextTypePhase, <1>1, PTL DEF Spec

(* While a PE is in collide_cube, so is PE0, or it has left it, and every  *)
(* PE is at the same cube.                                                 *)
LEMMA Together ==
  ASSUME TypePhase, NEW p \in PEs, pc[p] = "collide"
  PROVE  /\ pc[PE0] \in {"collide", "leave"}
         /\ \A q \in PEs : pc[q] \in {"collide", "leave"} /\ cube[q] = cube[PE0]
<1> USE DEF TypePhase, PhaseInv, TypeOK
<1>1. pc[PE0] \in {"collide", "leave"}
  BY ConstantTypes, CubeTypes DEF Labels, PEs, ClientAt, ClientAfter, Collision
<1>. QED  BY <1>1 DEF PEs
-----------------------------------------------------------------------------
(***************************************************************************)
(* The gets.                                                               *)
(***************************************************************************)

(* The get past the end of the range and the trailing cube.                *)
LEMMA StraySlot ==
  ASSUME NoStrayGet, HasTrailing, Depth <= NbCubes
  PROVE  Slot(NbCubes) # Slot(TrailCube)
<1>1. Depth > 1 /\ NbCubes \in Nat /\ TrailCube \in Nat
  BY NbCubesAssumption, DepthAssumption DEF NoStrayGet, TrailCube
<1>. QED  BY <1>1, SlotWindow, DepthAssumption DEF TrailCube

(* A pending get is that of a cube, in the buffer of this cube.            *)
LEMMA PendingGet ==
  ASSUME TypePhase, GetInv, NEW j \in jobs, j.op = "get"
  PROVE  /\ GetInWindow(j)
         /\ j = GetOf(j.cube) /\ j.buf = Slot(j.cube) /\ j.buf \in Slots
         /\ j.cube \in Nat /\ j.cube \in 0 .. TrailCube
<1>1. j \in Gets
  BY DEF TypePhase, TypeOK, Puts
<1>2. GetInWindow(j)
  BY DEF GetInv
<1>3. j = GetOf(j.cube)
  BY <1>2 DEF GetInWindow
<1>4. j.buf = Slot(j.cube)
  BY <1>3, JobTypes
<1>. QED  BY <1>1, <1>2, <1>3, <1>4, JobTypes, ConstantTypes

(* While PE0 may be in collide_cube, no get goes to the buffer of its cube.*)
LEMMA GetsMiss ==
  ASSUME NoStrayGet, TypePhase, GetInv, pc[PE0] \in Collision,
         NEW j \in jobs, j.op = "get"
  PROVE  j.buf # Slot(cube[PE0])
<1> DEFINE k == cube[PE0]
<1>1. /\ GetInWindow(j) /\ j.buf = Slot(j.cube) /\ j.cube \in Nat
  BY PendingGet
<1>2. k \in Kernel \/ (k = TrailCube /\ HasTrailing)
  BY ConstantTypes DEF TypePhase, TypeOK, PhaseInv
<1>3. CASE k \in Kernel
  <2>1. k \in Nat /\ k < j.cube /\ j.cube < k + Depth
    BY <1>1, <1>3, ConstantTypes DEF GetInWindow, Looping, Collision
  <2>2. j.cube < k + Depth /\ k < j.cube + Depth /\ k # j.cube
    BY <1>1, <2>1, ConstantTypes
  <2>. QED  BY <1>1, <2>1, <2>2, SlotWindow
<1>4. CASE k = TrailCube /\ HasTrailing
  <2>1. j.cube = NbCubes /\ Depth <= NbCubes
    BY <1>1, <1>4 DEF GetInWindow, Collision
  <2>. QED  BY <1>1, <1>4, <2>1, StraySlot
<1>. QED  BY <1>2, <1>3, <1>4

(* PE0 waits for no cube twice: the cubes of the window have each a buffer.*)
LEMMA AwaitedSlots ==
  ASSUME TypePhase, NEW c \in Kernel, Awaited(c)
  PROVE  /\ c \in Nat /\ c < NbCubes /\ Slot(c) \in Slots
         /\ cube[PE0] \in Kernel /\ cube[PE0] \in Nat
         /\ pc[PE0] # "wait" => Slot(c) # Slot(cube[PE0])
         /\ \A d \in Nat : /\ cube[PE0] <= d /\ d < cube[PE0] + Depth
                           /\ Slot(d) = Slot(c)
                           => d = c
<1> DEFINE k == cube[PE0]
<1>1. c \in Nat /\ c < NbCubes /\ Slot(c) \in Slots
  BY ConstantTypes, SlotType DEF Kernel
<1>2. k \in Kernel /\ k \in Nat
  <2>1. k \in Kernel \cup {TrailCube} /\ (k < c \/ k = c)
    BY ConstantTypes DEF TypePhase, TypeOK, Awaited
  <2>2. k # TrailCube
    BY <1>1, <2>1, ConstantTypes DEF TrailCube
  <2>. QED  BY <2>1, <2>2, ConstantTypes
<1>3. k <= c /\ c < k + Depth /\ (pc[PE0] # "wait" => k # c)
  BY <1>1, <1>2 DEF Awaited
<1> HIDE DEF k
<1>4. ASSUME NEW d \in Nat, k <= d, d < k + Depth, Slot(d) = Slot(c)
      PROVE  d = c
  <2>1. d < c + Depth /\ c < d + Depth
    BY <1>1, <1>2, <1>3, <1>4, ConstantTypes
  <2>. QED  BY <1>1, <1>4, <2>1, SlotWindow
<1>5. k <= k /\ k < k + Depth
  BY <1>2, ConstantTypes
<1>. QED  BY <1>1, <1>2, <1>3, <1>4, <1>5 DEF k

(* Nothing is asked for before the prologue.                               *)
LEMMA InitGet == Init => GetInv
BY ConstantTypes DEF Init, GetInv, Awaited, Looping, Collision

(* No step breaks GetInv, when no get can stray.                           *)
LEMMA NextGet ==
  ASSUME NoStrayGet, TypePhase, GetInv, [Next]_vars
  PROVE  GetInv'
<1> USE ConstantTypes
<1> DEFINE k == cube[PE0]
           l == pc[PE0]
<1>0. /\ TypeOK /\ PhaseInv /\ k \in Kernel \cup {TrailCube} /\ k \in Nat
      /\ Slot(k) \in Slots
  BY SlotType DEF TypePhase, TypeOK
<1>b. /\ \A j \in jobs : j.op = "get" => GetInWindow(j)
      /\ \A c \in Kernel : Awaited(c) => getEv[Slot(c)] = GetOf(c) /\ Fetched(c)
      /\ l = "trailing_get" => Fetched(TrailCube)
      /\ l \in Collision => src[Slot(k)] = Content(k, Updated)
  BY DEF GetInv
<1>1. ASSUME Prologue PROVE GetInv'
  <2> USE <1>0, <1>1 DEF Prologue
  <2>0. /\ k = FirstCube /\ cube' = cube
        /\ pc'[PE0] = (IF NbCubes > 0 THEN "wait" ELSE "epilogue")
    BY DEF PhaseInv, Goto, TypeOK
  <2>1. ASSUME NEW j \in jobs', j.op = "get" PROVE GetInWindow(j)'
    <3>1. PICK c \in 0 .. NbPrefetched - 1 : j = GetOf(c)
      BY <2>1
    <3>2. /\ j.cube = c /\ j = GetOf(j.cube)
          /\ c \in Nat /\ c < NbCubes /\ c < Depth /\ NbCubes > 0
      BY <3>1, JobTypes
    <3>3. FirstCube = 0 /\ c # TrailCube /\ c # NbCubes /\ 0 # TrailCube
      BY <3>2 DEF FirstCube, TrailCube
    <3>. QED  BY <2>0, <3>2, <3>3 DEF GetInWindow, Looping, Collision
  <2>2. ASSUME NEW c \in Kernel, Awaited(c)'
        PROVE  getEv'[Slot(c)] = GetOf(c) /\ GetOf(c) \in jobs'
    <3>1. k = 0 /\ c \in Nat /\ c < NbCubes /\ c < Depth
      BY <2>0, <2>2 DEF FirstCube, Kernel, Awaited, Looping, Collision
    <3>2. c \in 0 .. NbPrefetched - 1
      BY <3>1 DEF NbPrefetched
    <3>3. Slot(c) = c /\ c \in Slots
      BY <3>1, SlotType
    <3>. QED  BY <3>2, <3>3
  <2>. QED  BY <2>0, <2>1, <2>2 DEF GetInv, Fetched, Collision
<1>2. ASSUME WaitGet PROVE GetInv'
  <2> USE <1>0, <1>2 DEF WaitGet
  <2>0. /\ k \in Kernel /\ k # TrailCube
        /\ pc' = [pc EXCEPT ![PE0] = "enter"] /\ pc'[PE0] = "enter"
    BY DEF PhaseInv, Goto, TypeOK
  <2>1. GetOf(k) \notin jobs /\ src[Slot(k)] = Content(k, {})
    <3>1. Awaited(k)
      BY <2>0 DEF Awaited, Looping
    <3>. QED  BY <2>0, <3>1, <1>b DEF Complete, Fetched
  <2>2. ASSUME NEW j \in jobs, j.op = "get" PROVE GetInWindow(j)'
    <3>1. /\ GetInWindow(j) /\ k <= j.cube /\ j.cube < k + Depth
          /\ j = GetOf(j.cube) /\ j.cube \in Nat
      BY <2>2, PendingGet DEF GetInWindow
    <3>2. k < j.cube
      BY <3>1, <2>1
    <3>. QED  BY <3>1, <3>2, <2>0 DEF GetInWindow, Looping, Collision
  <2>3. \A c \in Kernel : Awaited(c)' => Awaited(c)
    BY <2>0 DEF Awaited, Looping
  <2>4. Updated' = {}
    <3>1. \A p \in PEs : pc'[p] # "leave"
      BY <2>0, CubeTypes DEF PhaseInv, PEs, TypeOK
    <3>. QED  BY <2>0, <3>1 DEF Updated
  <2>. QED  BY <2>0, <2>1, <2>2, <2>3, <2>4, <1>b DEF GetInv, Fetched
<1>3. ASSUME PutCube PROVE GetInv'
  <2> USE <1>0, <1>3 DEF PutCube, Advance
  <2>0. /\ k \in Kernel /\ src' = src /\ getEv' = getEv /\ jobs \subseteq jobs'
        /\ IF Prefetches(k)
           THEN pc'[PE0] = "refill" /\ cube'[PE0] = k
           ELSE /\ pc'[PE0] = (IF NextCube(k) \in Kernel THEN "wait" ELSE "epilogue")
                /\ cube'[PE0] = NextCube(k)
    BY DEF Goto, TypeOK
  <2>1. /\ NextCube(k) \in Kernel => NextCube(k) = k + 1
        /\ NextCube(k) \notin Kernel => NextCube(k) = TrailCube /\ k + 1 = NbCubes
        /\ k # TrailCube /\ k \in Nat /\ k < NbCubes
    BY <2>0, NextCubes
  <2>2. ASSUME NEW j \in jobs', j.op = "get" PROVE GetInWindow(j)'
    <3>1. j \in jobs
      BY <2>2, JobTypes
    <3>2. /\ GetInWindow(j) /\ j = GetOf(j.cube) /\ k < j.cube /\ j.cube < k + Depth
          /\ j.cube # TrailCube /\ j.cube \in Nat /\ j.cube <= NbCubes
      BY <2>0, <2>2, <3>1, PendingGet
         DEF GetInWindow, Looping, Collision, TrailCube
    <3>3. NextCube(k) = TrailCube => j.cube = NbCubes
      BY <3>2, <2>1 DEF Kernel
    <3>. QED  BY <3>2, <3>3, <2>0, <2>1 DEF GetInWindow, Looping, Collision
  <2>3. ASSUME NEW c \in Kernel, Awaited(c)' PROVE Awaited(c)
    <3>1. c \in Nat /\ c < NbCubes
      BY DEF Kernel
    <3>2. CASE Prefetches(k)
      BY <3>2, <2>0, <2>3 DEF Awaited, Looping, Collision
    <3>3. CASE ~ Prefetches(k)
      <4>1. NbCubes < k + Depth
        BY <3>3, PrefetchesIf
      <4>2. k < c
        BY <3>1, <3>3, <2>0, <2>1, <2>3 DEF Awaited, Looping, Collision
      <4>. QED  BY <3>1, <4>1, <4>2 DEF Awaited, Looping, Collision
    <3>. QED  BY <3>2, <3>3
  <2>4. pc'[PE0] \notin Collision \cup {"trailing_get"}
    BY <2>0 DEF Collision
  <2>. QED  BY <2>0, <2>2, <2>3, <2>4, <1>b DEF GetInv, Fetched
<1>4. ASSUME GetNext PROVE GetInv'
  <2> USE <1>0, <1>4 DEF GetNext, Advance
  <2>0. /\ k \in Kernel /\ Prefetches(k) /\ src' = src
        /\ pc'[PE0] = (IF NextCube(k) \in Kernel THEN "wait" ELSE "epilogue")
        /\ cube'[PE0] = NextCube(k)
    BY DEF Goto, TypeOK, PhaseInv
  <2>1. /\ NextCube(k) \in Kernel => NextCube(k) = k + 1
        /\ NextCube(k) \notin Kernel => NextCube(k) = TrailCube /\ k + 1 = NbCubes
        /\ k # TrailCube /\ k \in Nat /\ k < NbCubes
        /\ k + Depth <= NbCubes /\ k + Depth \in Nat
    BY <2>0, NextCubes, PrefetchesIf
  <2>2. /\ jobs' = jobs \cup {GetOf(k + Depth)}
        /\ getEv' = [getEv EXCEPT ![Slot(k)] = GetOf(k + Depth)]
        /\ Slot(k + Depth) = Slot(k)
    BY NextGets, SlotShift
  <2>3. ASSUME NEW j \in jobs', j.op = "get" PROVE GetInWindow(j)'
    <3>1. CASE j \in jobs
      <4>1. /\ GetInWindow(j) /\ j = GetOf(j.cube)
            /\ k < j.cube /\ j.cube < k + Depth
            /\ j.cube # TrailCube /\ j.cube \in Nat /\ j.cube <= NbCubes
        BY <2>0, <2>3, <3>1, PendingGet
           DEF GetInWindow, Looping, Collision, TrailCube
      <4>2. NextCube(k) = TrailCube => j.cube = NbCubes
        BY <4>1, <2>1 DEF Kernel
      <4>. QED  BY <4>1, <4>2, <2>0, <2>1 DEF GetInWindow, Looping, Collision
    <3>2. CASE j = GetOf(k + Depth)
      <4>1. j.cube = k + Depth /\ j = GetOf(j.cube)
        BY <3>2, JobTypes
      <4>2. k + Depth # TrailCube /\ (k + Depth = NbCubes => Depth <= NbCubes)
        BY <2>1 DEF TrailCube
      <4>3. NextCube(k) = TrailCube => k + Depth = NbCubes
        BY <2>1 DEF Kernel
      <4>. QED  BY <4>1, <4>2, <4>3, <2>0, <2>1 DEF GetInWindow, Looping, Collision
    <3>. QED  BY <2>2, <3>1, <3>2
  <2>4. ASSUME NEW c \in Kernel, Awaited(c)'
        PROVE  getEv'[Slot(c)] = GetOf(c) /\ Fetched(c)'
    <3>1. c \in Nat /\ c < NbCubes /\ k < c /\ c < k + 1 + Depth
      BY <2>0, <2>1, <2>4 DEF Awaited, Kernel, Looping, Collision
    <3>2. CASE c = k + Depth
      BY <3>2, <2>2 DEF Fetched, TypeOK
    <3>3. CASE c # k + Depth
      <4>1. Awaited(c)
        BY <3>1, <3>3 DEF Awaited, Looping
      <4>2. Slot(c) # Slot(k) /\ Slot(c) \in Slots
        BY <4>1, AwaitedSlots
      <4>3. getEv[Slot(c)] = GetOf(c) /\ Fetched(c)
        BY <4>1, <1>b
      <4>. QED  BY <4>2, <4>3, <2>0, <2>2 DEF Fetched, TypeOK
    <3>. QED  BY <3>2, <3>3
  <2>5. pc'[PE0] \notin Collision \cup {"trailing_get"}
    BY <2>0 DEF Collision
  <2>. QED  BY <2>3, <2>4, <2>5 DEF GetInv
<1>5. ASSUME Epilogue PROVE GetInv'
  <2> USE <1>0, <1>5 DEF Epilogue
  <2>1. pc'[PE0] \in {"trailing", "done"} /\ k = TrailCube /\ cube' = cube
    BY DEF Goto, TypeOK, PhaseInv
  <2>. QED  BY <2>1, <1>b DEF GetInv, GetInWindow, Awaited, Looping, Collision
<1>6. ASSUME TrailingGet PROVE GetInv'
  <2> USE <1>0, <1>6 DEF TrailingGet
  <2>1. pc'[PE0] = "trailing_get" /\ k = TrailCube /\ cube' = cube
    BY DEF Goto, TypeOK, PhaseInv
  <2>2. ASSUME NEW j \in jobs', j.op = "get" PROVE GetInWindow(j)'
    <3>1. CASE j \in jobs
      BY <3>1, <2>1, <2>2, <1>b DEF GetInWindow, Looping, Collision
    <3>2. CASE j = GetOf(TrailCube)
      <4>1. j = GetOf(j.cube) /\ j.cube = TrailCube
        BY <3>2, JobTypes
      <4>2. TrailCube # NbCubes
        BY DEF TrailCube
      <4>. QED  BY <4>1, <4>2, <2>1 DEF GetInWindow, Looping, Collision
    <3>. QED  BY <3>1, <3>2
  <2>. QED  BY <2>1, <2>2 DEF GetInv, Fetched, Awaited, Looping, Collision
<1>7. ASSUME TrailingGetReturns PROVE GetInv'
  <2> USE <1>0, <1>7 DEF TrailingGetReturns
  <2>1. /\ pc' = [pc EXCEPT ![PE0] = "enter"] /\ pc'[PE0] = "enter"
        /\ k = TrailCube /\ cube' = cube /\ HasTrailing
    BY DEF Goto, TypeOK, PhaseInv
  <2>2. ASSUME NEW j \in jobs, j.op = "get" PROVE GetInWindow(j)'
    <3>1. GetInWindow(j) /\ j = GetOf(j.cube)
      BY <2>2, PendingGet
    <3>2. j.cube # TrailCube
      BY <3>1 DEF Complete
    <3>. QED  BY <3>1, <3>2, <2>1 DEF GetInWindow, Looping, Collision
  <2>3. \A c \in Kernel : ~ Awaited(c)'
    BY <2>1 DEF Awaited, Kernel, TrailCube
  <2>4. src[Slot(k)] = Content(k, {})
    BY <2>1, <1>b DEF Fetched, Complete
  <2>5. Updated' = {}
    <3>1. \A p \in PEs : pc'[p] # "leave"
      BY <2>1, CubeTypes DEF PhaseInv, PEs, TypeOK
    <3>. QED  BY <2>1, <3>1 DEF Updated
  <2>. QED  BY <2>1, <2>2, <2>3, <2>4, <2>5 DEF GetInv
<1>8. ASSUME TrailingPut PROVE GetInv'
  <2> USE <1>0, <1>8 DEF TrailingPut
  <2>1. pc'[PE0] = "trailing_put" /\ k = TrailCube /\ cube' = cube
    BY DEF Goto, TypeOK
  <2>2. \A j \in jobs' : j.op = "get" => j \in jobs
    BY JobTypes
  <2>. QED
    BY <2>1, <2>2, <1>b DEF GetInv, GetInWindow, Awaited, Looping, Collision
<1>9. ASSUME TrailingPutReturns PROVE GetInv'
  <2> USE <1>0, <1>9 DEF TrailingPutReturns
  <2>1. pc'[PE0] = "done" /\ k = TrailCube /\ cube' = cube
    BY DEF Goto, TypeOK, PhaseInv
  <2>. QED  BY <2>1, <1>b DEF GetInv, GetInWindow, Awaited, Looping, Collision
<1>10. ASSUME LocalBarrier PROVE GetInv'
  <2> USE <1>0, <1>10 DEF LocalBarrier, Arrived
  <2>1. /\ cube'[PE0] = cube[PE0]
        /\ \/ l = "enter" /\ pc'[PE0] = "collide"
           \/ l = "leave" /\ pc'[PE0] = "post"
    OBVIOUS
  <2>2. Updated' = Updated
    <3>1. CASE l = "enter"
      <4>1. \A p \in PEs : pc[p] = "enter"
        BY <3>1 DEF PhaseInv, TypeOK, PEs, ClientAt
      <4>. QED  BY <3>1, <4>1 DEF Updated
    <3>2. CASE l = "leave"
      <4>1. \A p \in PEs : pc[p] = "leave"
        BY <3>2 DEF PhaseInv, TypeOK, PEs
      <4>. QED  BY <3>2, <4>1 DEF Updated
    <3>. QED  BY <2>1, <3>1, <3>2
  <2>3. \A c \in Kernel : Awaited(c)' => Awaited(c)
    BY <2>1 DEF Awaited, Looping, Collision
  <2>4. \A j \in jobs : j.op = "get" => GetInWindow(j)'
    BY <2>1, <1>b DEF GetInWindow, Looping, Collision
  <2>5. l \in Collision /\ pc'[PE0] # "trailing_get"
    BY <2>1 DEF Collision
  <2>. QED  BY <2>1, <2>2, <2>3, <2>4, <2>5, <1>b DEF GetInv, Fetched
<1>11. ASSUME NEW p \in PEs, Collide(p) PROVE GetInv'
  <2>1. /\ l \in {"collide", "leave"} /\ cube[p] = k
        /\ pc' = [pc EXCEPT ![p] = "leave"] /\ cube' = cube
        /\ jobs' = jobs /\ getEv' = getEv
    BY <1>11, Together DEF Collide, Goto
  <2>2. pc'[PE0] \in {"collide", "leave"}
    BY <2>1, <1>0 DEF TypeOK
  <2>3. src' = [src EXCEPT ![Slot(k)] = Content(k, Updated \cup {p})]
    <3>1. src[Slot(cube[p])] = Content(k, Updated)
      BY <2>1, <1>b DEF Collision
    <3>. QED  BY <1>0, <1>11, <2>1, <3>1, CollideEffect
  <2>4. Updated' = Updated \cup {p}
    BY <2>1, <2>2, <1>0 DEF Updated, TypeOK
  <2>5. ASSUME NEW c \in Kernel, Awaited(c)'
        PROVE  getEv'[Slot(c)] = GetOf(c) /\ Fetched(c)'
    <3>1. Awaited(c)
      BY <2>1, <2>2, <2>5 DEF Awaited, Looping, Collision
    <3>2. Slot(c) \in Slots /\ Slot(c) # Slot(k)
      BY <2>1, <3>1, AwaitedSlots
    <3>. QED  BY <2>1, <2>3, <3>1, <3>2, <1>0, <1>b DEF Fetched, TypeOK
  <2>6. \A j \in jobs : j.op = "get" => GetInWindow(j)'
    BY <2>1, <2>2, <1>b DEF GetInWindow, Looping, Collision
  <2>7. src'[Slot(k)] = Content(k, Updated')
    BY <2>3, <2>4, <1>0 DEF TypeOK
  <2>. QED  BY <2>1, <2>2, <2>5, <2>6, <2>7 DEF GetInv
<1>12. ASSUME NEW j \in jobs, GetArrives(j) PROVE GetInv'
  <2>1. /\ j.op = "get" /\ jobs' = jobs \ {j} /\ pc' = pc /\ cube' = cube
        /\ getEv' = getEv
        /\ src' = [src EXCEPT ![j.buf] = Content(j.cube, {})]
    BY <1>12 DEF GetArrives
  <2>2. /\ GetInWindow(j) /\ j = GetOf(j.cube) /\ j.buf = Slot(j.cube)
        /\ j.buf \in Slots /\ j.cube \in Nat
    BY <2>1, PendingGet
  <2>3. ASSUME NEW c \in Nat, Fetched(c), Slot(c) \in Slots,
               Slot(j.cube) = Slot(c) => j.cube = c
        PROVE  Fetched(c)'
    <3>1. CASE j.cube = c
      BY <3>1, <2>1, <2>2, <1>0 DEF Fetched, TypeOK
    <3>2. CASE Slot(j.cube) # Slot(c)
      <4>1. GetOf(c) # j /\ src'[Slot(c)] = src[Slot(c)]
        BY <3>2, <2>1, <2>2, <2>3, <1>0, JobTypes DEF TypeOK
      <4>. QED  BY <4>1, <2>1, <2>3 DEF Fetched
    <3>. QED  BY <2>3, <3>1, <3>2
  <2>4. ASSUME NEW c \in Kernel, Awaited(c)'
        PROVE  getEv'[Slot(c)] = GetOf(c) /\ Fetched(c)'
    <3>1. Awaited(c) /\ l \in Looping
      BY <2>1, <2>4 DEF Awaited
    <3>2. /\ c \in Nat /\ Slot(c) \in Slots /\ k \in Kernel
          /\ \A d \in Nat : k <= d /\ d < k + Depth /\ Slot(d) = Slot(c) => d = c
      BY <3>1, AwaitedSlots
    <3>3. k <= j.cube /\ j.cube < k + Depth
      BY <2>2, <3>1, <3>2, <1>0 DEF GetInWindow
    <3>. QED  BY <2>1, <2>2, <2>3, <3>1, <3>2, <3>3, <1>b
  <2>5. ASSUME l = "trailing_get" PROVE Fetched(TrailCube)'
    <3>1. k = TrailCube /\ HasTrailing /\ Slot(TrailCube) \in Slots
      BY <2>5, <1>0 DEF PhaseInv
    <3>2. j.cube = TrailCube \/ (j.cube = NbCubes /\ Depth <= NbCubes)
      BY <2>2, <3>1 DEF GetInWindow
    <3>3. Slot(j.cube) = Slot(TrailCube) => j.cube = TrailCube
      BY <3>1, <3>2, StraySlot
    <3>. QED  BY <2>3, <2>5, <3>1, <3>3, <1>b
  <2>6. ASSUME l \in Collision PROVE src'[Slot(k)] = src[Slot(k)]
    BY <2>1, <2>2, <2>6, <1>0, GetsMiss DEF TypeOK
  <2>7. \A i \in jobs' : i.op = "get" => GetInWindow(i)'
    BY <2>1, <1>b DEF GetInWindow
  <2>8. Updated' = Updated
    BY <2>1 DEF Updated
  <2>. QED  BY <2>1, <2>4, <2>5, <2>6, <2>7, <2>8, <1>b DEF GetInv
<1>13. ASSUME NEW j \in jobs, PutSent(j) PROVE GetInv'
  <2>1. /\ j.op = "put" /\ jobs' = jobs \ {j} /\ pc' = pc /\ cube' = cube
        /\ getEv' = getEv /\ src' = src
    BY <1>13 DEF PutSent
  <2>2. \A c : GetOf(c) # j
    BY <2>1, JobTypes
  <2>3. /\ \A c : Fetched(c) => Fetched(c)'
        /\ \A c : Awaited(c)' => Awaited(c)
        /\ Updated' = Updated
        /\ \A i \in jobs' : i.op = "get" => GetInWindow(i)'
    BY <2>1, <2>2, <1>b DEF Fetched, Awaited, Updated, GetInWindow
  <2>. QED  BY <2>1, <2>3, <1>b DEF GetInv
<1>14. CASE UNCHANGED vars
  BY <1>14, <1>b DEF vars, GetInv, GetInWindow, Fetched, Awaited, Updated
<1>. QED
  BY <1>1, <1>2, <1>3, <1>4, <1>5, <1>6, <1>7, <1>8, <1>9, <1>10, <1>11,
     <1>12, <1>13, <1>14 DEF Next, PE0Step, Dma, Finished

(* When no get can stray, a PE in collide_cube updates the cube that was   *)
(* fetched for it, its own plane once, and no transfer writes to its       *)
(* buffer, for every depth, number of cubes and of clients                 *)
(* (CollideOwnsCube).                                                      *)
THEOREM CollideOwnsCubeHolds ==
  ASSUME NoStrayGet
  PROVE  Spec => []CollideOwnsCube
<1>1. TypePhase /\ GetInv /\ [Next]_vars => GetInv'
  BY NextGet
<1>2. TypePhase /\ GetInv => CollideOwnsCube
  <2> SUFFICES ASSUME TypePhase, GetInv, NEW p \in PEs, pc[p] = "collide"
               PROVE  /\ src[Slot(cube[p])].cube = cube[p]
                      /\ p \notin src[Slot(cube[p])].updated
                      /\ GetsInto(jobs, Slot(cube[p])) = {}
    BY DEF CollideOwnsCube
  <2>1. pc[PE0] \in {"collide", "leave"} /\ cube[p] = cube[PE0]
    BY Together
  <2>2. src[Slot(cube[p])] = Content(cube[p], Updated) /\ p \notin Updated
    BY <2>1 DEF GetInv, Collision, Updated
  <2>3. GetsInto(jobs, Slot(cube[p])) = {}
    BY <2>1, GetsMiss DEF GetsInto, Collision
  <2>. QED  BY <2>2, <2>3 DEF Content
<1>. QED  BY InitTypePhase, NextTypePhase, InitGet, <1>1, <1>2, PTL DEF Spec
-----------------------------------------------------------------------------
(***************************************************************************)
(* The puts of the second turn of the ring and after.                      *)
(***************************************************************************)

(* A pending put is that of a cube, from the buffer of this cube.          *)
LEMMA PendingPut ==
  ASSUME TypePhase, PutInv, NEW j \in jobs, Late(j)
  PROVE  /\ PutInWindow(j)
         /\ j = PutOf(j.cube) /\ j.buf = Slot(j.cube) /\ j.buf \in Slots
         /\ j.cube \in Nat /\ j.cube \in OwnCubes /\ j.cube >= Depth
<1>1. j \in Puts
  BY DEF TypePhase, TypeOK, Gets, Late
<1>2. PutInWindow(j)
  BY DEF PutInv
<1>3. j = PutOf(j.cube)
  BY <1>2 DEF PutInWindow
<1>4. j.buf = Slot(j.cube)
  BY <1>3, JobTypes
<1>. QED  BY <1>1, <1>2, <1>3, <1>4, JobTypes, ConstantTypes DEF Late

(* It shares its buffer with no pending get: the next get was posted after *)
(* it had been sent, or never.                                             *)
LEMMA GetsApart ==
  ASSUME NoStrayGet, TypePhase, GetInv, PutInv,
         NEW j \in jobs, Late(j), NEW g \in jobs, g.op = "get"
  PROVE  g.buf # j.buf
<1> DEFINE k == cube[PE0]
           l == pc[PE0]
<1>1. /\ PutInWindow(j) /\ j.buf = Slot(j.cube) /\ j.cube \in Nat
      /\ GetInWindow(g) /\ g.buf = Slot(g.cube) /\ g.cube \in Nat
      /\ k \in Kernel \cup {TrailCube} /\ PhaseInv
  BY PendingPut, PendingGet, ConstantTypes DEF TypePhase, TypeOK
<1>2. CASE l = "trailing_put"
  <2>1. j.cube = TrailCube /\ HasTrailing /\ g.cube = NbCubes /\ Depth <= NbCubes
    BY <1>1, <1>2 DEF PutInWindow, GetInWindow, PhaseInv
  <2>. QED  BY <1>1, <2>1, StraySlot
<1>3. CASE l # "trailing_put"
  <2>1. /\ j.cube \in Kernel /\ l \in Looping \cup {"epilogue"}
        /\ \/ l = "refill" /\ j.cube = k
           \/ j.cube < k /\ NbCubes < j.cube + Depth
    BY <1>1, <1>3 DEF PutInWindow
  <2>2. g.cube <= NbCubes /\ g.cube \in 0 .. TrailCube
    <3>1. g.cube # TrailCube /\ g.cube \in 0 .. TrailCube
      BY <1>1, <2>1, PendingGet DEF GetInWindow, Looping, Collision
    <3>. QED  BY <3>1, ConstantTypes DEF TrailCube
  <2>3. j.cube < g.cube /\ g.cube < j.cube + Depth
    <3>1. CASE l = "refill" /\ j.cube = k
      BY <1>1, <2>1, <3>1 DEF GetInWindow, Looping
    <3>2. CASE /\ j.cube < k /\ NbCubes < j.cube + Depth
               /\ k \in Kernel
      <4>1. k \in Nat /\ k # TrailCube /\ j.cube < k
        BY <2>1, <3>2, ConstantTypes
      <4>2. l \in Looping
        BY <1>1, <2>1, <4>1 DEF PhaseInv
      <4>3. k <= g.cube
        BY <1>1, <3>2, <4>1, <4>2 DEF GetInWindow
      <4>. QED  BY <1>1, <2>2, <3>2, <4>1, <4>3, ConstantTypes
    <3>3. CASE /\ NbCubes < j.cube + Depth
               /\ k = TrailCube
      <4>1. g.cube = NbCubes /\ j.cube < NbCubes
        BY <1>1, <2>1, <2>2, <3>3, ConstantTypes
           DEF GetInWindow, Kernel, TrailCube
      <4>. QED  BY <3>3, <4>1
    <3>. QED  BY <1>1, <2>1, <3>1, <3>2, <3>3
  <2>4. g.cube < j.cube + Depth /\ j.cube < g.cube + Depth /\ g.cube # j.cube
    BY <1>1, <2>3, ConstantTypes
  <2>. QED  BY <1>1, <2>4, SlotWindow
<1>. QED  BY <1>2, <1>3

(* Nor with the collision.                                                 *)
LEMMA PutsMiss ==
  ASSUME TypePhase, PutInv, pc[PE0] \in Collision, NEW j \in jobs, Late(j)
  PROVE  /\ cube[PE0] \in Kernel /\ j.cube \in Kernel /\ putEv[j.buf] = j
         /\ j.cube < cube[PE0] /\ NbCubes < j.cube + Depth
         /\ j.buf # Slot(cube[PE0])
<1>1. /\ PutInWindow(j) /\ j.buf = Slot(j.cube) /\ j.cube \in Nat
  BY PendingPut
<1>2. /\ cube[PE0] \in Kernel /\ j.cube \in Kernel /\ putEv[j.buf] = j
      /\ j.cube < cube[PE0] /\ NbCubes < j.cube + Depth
  BY <1>1 DEF PutInWindow, Collision
<1>3. /\ cube[PE0] \in Nat
      /\ cube[PE0] < j.cube + Depth /\ j.cube < cube[PE0] + Depth
  BY <1>1, <1>2, ConstantTypes DEF Kernel
<1>. QED  BY <1>1, <1>2, <1>3, SlotWindow

(* No put has been issued before the first cube.                           *)
LEMMA InitPut == Init => PutInv
BY DEF Init, PutInv

(* No step breaks PutInv, when no get can stray.                           *)
LEMMA NextPut ==
  ASSUME NoStrayGet, TypePhase, GetInv, PutInv, [Next]_vars
  PROVE  PutInv'
<1> USE ConstantTypes
<1> DEFINE k == cube[PE0]
           l == pc[PE0]
<1>0. /\ TypeOK /\ PhaseInv /\ k \in Kernel \cup {TrailCube} /\ k \in Nat
      /\ Slot(k) \in Slots
  BY SlotType DEF TypePhase, TypeOK
<1>b. \A j \in jobs : Late(j) => PutInWindow(j)
  BY DEF PutInv
<1>c. \A c : ~ Late(GetOf(c))
  BY JobTypes DEF Late
<1>1. ASSUME Prologue PROVE PutInv'
  BY <1>1, <1>c DEF Prologue, PutInv, Late
<1>2. ASSUME WaitGet PROVE PutInv'
  <2>1. l = "wait" /\ k \in Kernel /\ pc'[PE0] = "enter"
    BY <1>2, <1>0 DEF WaitGet, PhaseInv, Goto, TypeOK
  <2>2. cube' = cube /\ jobs' = jobs /\ src' = src /\ putEv' = putEv
    BY <1>2 DEF WaitGet
  <2>. QED
    BY <2>1, <2>2, <1>b DEF PutInv, PutInWindow, Late, Looping, Collision
<1>3. ASSUME PutCube PROVE PutInv'
  <2> USE <1>0, <1>3 DEF PutCube, Advance
  <2>0. /\ k \in Kernel /\ src' = src /\ jobs' = jobs \cup {PutOf(k)}
        /\ putEv' = [putEv EXCEPT ![Slot(k)] = PutOf(k)]
        /\ IF Prefetches(k)
           THEN pc'[PE0] = "refill" /\ cube'[PE0] = k
           ELSE /\ pc'[PE0] = (IF NextCube(k) \in Kernel THEN "wait" ELSE "epilogue")
                /\ cube'[PE0] = NextCube(k)
    BY DEF Goto, TypeOK
  <2>1. /\ NextCube(k) \in Kernel => NextCube(k) = k + 1
        /\ NextCube(k) \notin Kernel => NextCube(k) = TrailCube /\ k + 1 = NbCubes
        /\ k \in Nat /\ k < NbCubes
    BY <2>0, NextCubes
  <2>a. /\ pc'[PE0] \in {"refill", "wait", "epilogue"}
        /\ k <= cube'[PE0]
        /\ \/ pc'[PE0] = "refill" /\ cube'[PE0] = k
           \/ k < cube'[PE0] /\ NbCubes < k + Depth
    BY <2>0, <2>1, PrefetchesIf DEF TrailCube
  <2>2. ASSUME NEW j \in jobs', Late(j) PROVE PutInWindow(j)'
    <3>1. CASE j = PutOf(k)
      <4>1. j.cube = k /\ j.buf = Slot(k)
        BY <3>1, JobTypes
      <4>2. src[j.buf] = Content(k, PEs)
        BY <4>1 DEF GetInv, Updated, Collision
      <4>3. putEv'[j.buf] = j
        BY <2>0, <3>1, <4>1 DEF TypeOK
      <4>4. pc'[PE0] \notin Collision /\ pc'[PE0] # "trailing_put"
        BY <2>a DEF Collision
      <4>5. pc'[PE0] \in Looping \cup {"epilogue", "trailing_put"}
        BY <2>a DEF Looping
      <4>. QED
        BY <3>1, <4>1, <4>2, <4>3, <4>4, <4>5, <2>0, <2>a DEF PutInWindow
    <3>2. CASE j \in jobs
      <4>1. /\ PutInWindow(j) /\ j.cube \in Kernel /\ putEv[j.buf] = j
            /\ j.cube < k /\ NbCubes < j.cube + Depth /\ j.buf # Slot(k)
            /\ j.buf \in Slots /\ j.cube \in Nat
        BY <2>2, <3>2, PutsMiss, PendingPut DEF Collision
      <4>2. putEv'[j.buf] = j
        BY <2>0, <4>1 DEF TypeOK
      <4>3. j.cube < cube'[PE0]
        BY <2>0, <2>1, <4>1 DEF TrailCube
      <4>4. pc'[PE0] \notin Collision /\ pc'[PE0] # "trailing_put"
        BY <2>a DEF Collision
      <4>5. pc'[PE0] \in Looping \cup {"epilogue", "trailing_put"}
        BY <2>a DEF Looping
      <4>. QED  BY <4>1, <4>2, <4>3, <4>4, <4>5, <2>0 DEF PutInWindow
    <3>. QED  BY <2>0, <2>2, <3>1, <3>2
  <2>. QED  BY <2>2 DEF PutInv, Late
<1>4. ASSUME GetNext PROVE PutInv'
  <2> USE <1>0, <1>4 DEF GetNext, Advance
  <2>0. /\ k \in Kernel /\ l = "refill" /\ src' = src /\ putEv' = putEv
        /\ pc'[PE0] = (IF NextCube(k) \in Kernel THEN "wait" ELSE "epilogue")
        /\ cube'[PE0] = NextCube(k)
    BY DEF Goto, TypeOK, PhaseInv
  <2>1. /\ NextCube(k) \in Kernel => NextCube(k) = k + 1
        /\ NextCube(k) \notin Kernel => NextCube(k) = TrailCube /\ k + 1 = NbCubes
        /\ k \in Nat /\ k < NbCubes
    BY <2>0, NextCubes
  <2>2. jobs' = jobs \cup {GetOf(k + Depth)}
    BY NextGets
  <2>3. ASSUME NEW j \in jobs', Late(j) PROVE PutInWindow(j)'
    <3>1. j \in jobs
      BY <2>2, <2>3, <1>c
    <3>2. /\ PutInWindow(j) /\ j.buf = Slot(j.cube) /\ j.cube \in Nat
          /\ j.cube \in Kernel /\ putEv[j.buf] = j /\ j.cube >= Depth
      BY <2>0, <2>3, <3>1, PendingPut DEF PutInWindow
    <3>3. j.cube # k
      <4> SUFFICES ASSUME j.cube = k PROVE FALSE
        OBVIOUS
      <4>1. WaitsPut(k)
        BY <3>2 DEF WaitsPut
      <4>. QED  BY <3>1, <3>2, <4>1 DEF Complete
    <3>4. j.cube < k /\ NbCubes < j.cube + Depth
      BY <3>2, <3>3, <2>0 DEF PutInWindow
    <3>5. j.cube < cube'[PE0]
      BY <2>0, <2>1, <3>2, <3>4 DEF TrailCube
    <3>. QED
      BY <3>2, <3>4, <3>5, <2>0 DEF PutInWindow, Looping, Collision
  <2>. QED  BY <2>3 DEF PutInv, Late
<1>5. ASSUME Epilogue PROVE PutInv'
  <2> USE <1>0, <1>5 DEF Epilogue
  <2>1. ASSUME NEW j \in jobs, Late(j) PROVE FALSE
    <3>1. /\ j.buf = Slot(j.cube) /\ j.cube \in Kernel /\ putEv[j.buf] = j
          /\ j.buf \in Slots /\ j.cube >= Depth
      BY <2>1, PendingPut DEF PutInWindow
    <3>2. j.buf \in 0 .. NbPrefetched - 1
      BY <3>1 DEF NbPrefetched, Kernel, Slots
    <3>. QED  BY <3>1, <3>2, <2>1 DEF LastPuts, Complete
  <2>. QED  BY <2>1 DEF PutInv, Late
<1>6. ASSUME TrailingGet \/ TrailingGetReturns PROVE PutInv'
  <2>1. \A j \in jobs : ~ Late(j)
    BY <1>6, <1>b DEF TrailingGet, TrailingGetReturns, PutInWindow, Looping,
       Collision
  <2>2. jobs' \subseteq jobs \cup {GetOf(TrailCube)}
    BY <1>6 DEF TrailingGet, TrailingGetReturns
  <2>. QED  BY <2>1, <2>2, <1>c DEF PutInv, Late
<1>7. ASSUME TrailingPut PROVE PutInv'
  <2> USE <1>0, <1>7 DEF TrailingPut
  <2>1. \A j \in jobs : ~ Late(j)
    BY PutsMiss DEF Collision
  <2>2. PutOf(TrailCube).cube = TrailCube /\ PutOf(TrailCube).buf = Slot(TrailCube)
    BY JobTypes
  <2>3. src[Slot(TrailCube)] = Content(TrailCube, PEs)
    BY DEF GetInv, Updated, Collision
  <2>4. pc'[PE0] = "trailing_put" /\ src' = src
    BY DEF Goto, TypeOK
  <2>5. PutInWindow(PutOf(TrailCube))'
    BY <2>2, <2>3, <2>4 DEF PutInWindow, Collision
  <2>. QED  BY <2>1, <2>5 DEF PutInv, Late
<1>8. ASSUME TrailingPutReturns PROVE PutInv'
  <2>1. l = "trailing_put" /\ PutOf(TrailCube) \notin jobs /\ jobs' = jobs
    BY <1>8 DEF TrailingPutReturns, Complete
  <2>2. \A j \in jobs : ~ Late(j)
    BY <2>1, <1>b DEF PutInWindow
  <2>. QED  BY <2>1, <2>2 DEF PutInv, Late
<1>9. ASSUME LocalBarrier PROVE PutInv'
  <2>1. /\ cube'[PE0] = k /\ l \in Collision /\ pc'[PE0] \in Collision
        /\ jobs' = jobs /\ src' = src /\ putEv' = putEv
    BY <1>9 DEF LocalBarrier, Arrived, Collision
  <2>. QED  BY <2>1, <1>b DEF PutInv, PutInWindow, Late, Looping, Collision
<1>10. ASSUME NEW p \in PEs, Collide(p) PROVE PutInv'
  <2>1. /\ l \in {"collide", "leave"} /\ cube[p] = k /\ cube' = cube
        /\ jobs' = jobs /\ putEv' = putEv
        /\ \A s \in Slots : s # Slot(k) => src'[s] = src[s]
    BY <1>0, <1>10, Together DEF Collide, TypeOK
  <2>2. pc'[PE0] \in Collision /\ l \in Collision
    BY <1>0, <1>10, <2>1 DEF Collide, Goto, TypeOK, Collision
  <2>3. ASSUME NEW j \in jobs, Late(j) PROVE PutInWindow(j)'
    <3>1. PutInWindow(j) /\ j.buf # Slot(k) /\ j.buf \in Slots /\ k \in Kernel
          /\ j.cube \in Kernel /\ putEv[j.buf] = j
          /\ j.cube < k /\ NbCubes < j.cube + Depth
      BY <2>2, <2>3, PutsMiss, PendingPut
    <3>2. src'[j.buf] = src[j.buf]
      BY <2>1, <3>1
    <3>3. j = PutOf(j.cube) /\ src[j.buf] = Content(j.cube, PEs)
      BY <3>1 DEF PutInWindow
    <3>. QED
      BY <2>1, <2>2, <3>1, <3>2, <3>3 DEF PutInWindow, Looping, Collision
  <2>. QED  BY <2>1, <2>3 DEF PutInv, Late
<1>11. ASSUME NEW g \in jobs, GetArrives(g) PROVE PutInv'
  <2>1. /\ g.op = "get" /\ jobs' = jobs \ {g} /\ pc' = pc /\ cube' = cube
        /\ putEv' = putEv
        /\ \A s \in Slots : s # g.buf => src'[s] = src[s]
    BY <1>0, <1>11 DEF GetArrives, TypeOK
  <2>2. ASSUME NEW j \in jobs, Late(j) PROVE PutInWindow(j)'
    <3>1. PutInWindow(j) /\ j.buf \in Slots /\ g.buf # j.buf
      BY <2>1, <2>2, PendingPut, GetsApart
    <3>2. src'[j.buf] = src[j.buf]
      BY <2>1, <3>1
    <3>. QED  BY <2>1, <3>1, <3>2 DEF PutInWindow
  <2>. QED  BY <2>1, <2>2 DEF PutInv, Late
<1>12. ASSUME NEW j \in jobs, PutSent(j) PROVE PutInv'
  BY <1>12, <1>b DEF PutSent, PutInv, PutInWindow, Late
<1>13. CASE UNCHANGED vars
  BY <1>13, <1>b DEF vars, PutInv, PutInWindow, Late
<1>. QED
  BY <1>1, <1>2, <1>3, <1>4, <1>5, <1>6, <1>7, <1>8, <1>9, <1>10, <1>11,
     <1>12, <1>13 DEF Next, PE0Step, Dma, Finished

(* When no get can stray, from the second turn of the ring on no get is on *)
(* its way to a buffer a put is still reading, and no PE is updating it,   *)
(* whatever the order in which the DMA engine serves gets and puts         *)
(* (SecondTurnSafe).                                                       *)
THEOREM SecondTurnSafeHolds ==
  ASSUME NoStrayGet
  PROVE  Spec => []SecondTurnSafe
<1>1. TypePhase /\ GetInv /\ [Next]_vars => GetInv'
  BY NextGet
<1>2. TypePhase /\ GetInv /\ PutInv /\ [Next]_vars => PutInv'
  BY NextPut
<1>3. TypePhase /\ GetInv /\ PutInv => SecondTurnSafe
  <2> SUFFICES ASSUME TypePhase, GetInv, PutInv, NEW j \in jobs, Late(j)
               PROVE  /\ GetsInto(jobs, j.buf) = {}
                      /\ \A p \in PEs : pc[p] = "collide" => Slot(cube[p]) # j.buf
    BY DEF SecondTurnSafe, Late
  <2>1. GetsInto(jobs, j.buf) = {}
    BY GetsApart DEF GetsInto
  <2>2. ASSUME NEW p \in PEs, pc[p] = "collide" PROVE Slot(cube[p]) # j.buf
    <3>1. pc[PE0] \in Collision /\ cube[p] = cube[PE0]
      BY <2>2, Together DEF Collision
    <3>. QED  BY <3>1, PutsMiss
  <2>. QED  BY <2>1, <2>2
<1>. QED
  BY InitTypePhase, NextTypePhase, InitGet, InitPut, <1>1, <1>2, <1>3, PTL
     DEF Spec
-----------------------------------------------------------------------------
(***************************************************************************)
(* What has been sent.                                                     *)
(***************************************************************************)

(* A put of the second turn sends the whole updated cube.                  *)
LEMMA NextSent ==
  ASSUME TypePhase, PutInv, SentInv, [Next]_vars
  PROVE  SentInv'
<1> USE ConstantTypes
<1> DEFINE k == cube[PE0]
           l == pc[PE0]
<1>0. TypeOK /\ PhaseInv /\ k \in Kernel \cup {TrailCube} /\ k \in Nat
  BY DEF TypePhase, TypeOK
<1>1. ASSUME sent' = sent, jobs \subseteq jobs',
             \A c \in OwnCubes : Asked(c)' => Asked(c) \/ PutOf(c) \in jobs'
      PROVE  SentInv'
  BY <1>1 DEF SentInv
<1>2. CASE PutCube
  <2> USE <1>0, <1>2 DEF PutCube, Advance
  <2>1. /\ k \in Kernel /\ PutOf(k) \in jobs'
        /\ pc'[PE0] \in {"refill", "wait", "epilogue"}
        /\ \/ cube'[PE0] = k
           \/ cube'[PE0] = NextCube(k) /\ pc'[PE0] # "refill"
    BY DEF Goto, TypeOK
  <2>a. NextCube(k) \in Nat
    BY <2>1, CubeTypes
  <2>2. ASSUME NEW c \in OwnCubes, Asked(c)' PROVE Asked(c) \/ PutOf(c) \in jobs'
    <3>1. c \in Kernel /\ c <= cube'[PE0] /\ c \in Nat
      BY <2>1, <2>a, <2>2 DEF Asked
    <3>2. c < k \/ c = k
      BY <2>1, <2>2, <3>1, NextCubes DEF Asked, Kernel
    <3>. QED  BY <2>1, <3>1, <3>2 DEF Asked
  <2>. QED  BY <1>1, <2>2
<1>3. CASE GetNext
  <2> USE <1>0, <1>3 DEF GetNext, Advance
  <2>1. /\ k \in Kernel /\ l = "refill" /\ cube'[PE0] = NextCube(k)
        /\ pc'[PE0] \in {"wait", "epilogue"}
    BY DEF Goto, TypeOK, PhaseInv
  <2>2. ASSUME NEW c \in OwnCubes, Asked(c)' PROVE Asked(c)
    <3>1. c \in Kernel /\ c < NextCube(k) /\ c \in Nat
      BY <2>1, <2>2 DEF Asked
    <3>2. c < k \/ c = k
      BY <2>1, <3>1, NextCubes DEF Kernel
    <3>. QED  BY <2>1, <3>1, <3>2 DEF Asked
  <2>. QED  BY <1>1, <2>2
<1>4. CASE TrailingPut
  <2>1. cube'[PE0] = k /\ pc'[PE0] = "trailing_put" /\ PutOf(TrailCube) \in jobs'
    BY <1>0, <1>4 DEF TrailingPut, Goto, TypeOK
  <2>2. sent' = sent /\ jobs \subseteq jobs'
    BY <1>4 DEF TrailingPut
  <2>. QED  BY <1>1, <2>1, <2>2 DEF Asked
<1>5. CASE \/ Prologue \/ WaitGet \/ TrailingGet \/ TrailingGetReturns
           \/ TrailingPutReturns
  <2> USE <1>0, <1>5 DEF Prologue, WaitGet, TrailingGet, TrailingGetReturns,
        TrailingPutReturns
  <2>1. cube' = cube /\ sent' = sent
    OBVIOUS
  <2>2. /\ pc'[PE0] \in {"trailing_put", "done"} => l = "trailing_put"
        /\ pc'[PE0] # "refill"
    BY DEF Goto, TypeOK
  <2>3. \A c \in OwnCubes : Asked(c)' => Asked(c)
    BY <2>1, <2>2 DEF Asked
  <2>4. CASE ~ Prologue
    BY <1>1, <2>1, <2>3, <2>4
  <2>5. CASE Prologue
    <3>1. \A c \in OwnCubes : ~ Asked(c)'
      BY <2>5, <2>1, <2>2 DEF Asked, PhaseInv, FirstCube, Kernel
    <3>. QED  BY <3>1 DEF SentInv
  <2>. QED  BY <2>4, <2>5
<1>6. CASE Epilogue
  <2>1. cube' = cube /\ sent' = sent /\ jobs' = jobs
    BY <1>6 DEF Epilogue
  <2>2. /\ pc'[PE0] \in {"trailing_put", "done"} => TrailCube \notin OwnCubes
        /\ pc'[PE0] # "refill"
    BY <1>0, <1>6 DEF Epilogue, Goto, TypeOK, OwnCubes
  <2>. QED  BY <1>1, <2>1, <2>2 DEF Asked
<1>7. CASE LocalBarrier
  <2>1. /\ cube'[PE0] = k /\ pc'[PE0] \in {"collide", "post"}
        /\ sent' = sent /\ jobs' = jobs
    BY <1>7 DEF LocalBarrier, Arrived
  <2>. QED  BY <1>1, <2>1 DEF Asked
<1>8. ASSUME NEW p \in PEs, Collide(p) PROVE SentInv'
  <2>1. /\ cube' = cube /\ sent' = sent /\ jobs' = jobs
        /\ pc'[PE0] = l \/ pc'[PE0] = "leave"
    BY <1>0, <1>8 DEF Collide, Goto, TypeOK
  <2>. QED  BY <1>1, <2>1 DEF Asked
<1>9. ASSUME NEW j \in jobs, GetArrives(j) PROVE SentInv'
  <2>1. /\ cube' = cube /\ sent' = sent /\ jobs' = jobs \ {j} /\ pc' = pc
        /\ \A c : PutOf(c) # j
    BY <1>9, JobTypes DEF GetArrives
  <2>. QED  BY <2>1 DEF SentInv, Asked
<1>10. ASSUME NEW j \in jobs, PutSent(j) PROVE SentInv'
  <2>1. /\ cube' = cube /\ jobs' = jobs \ {j} /\ pc' = pc /\ j.op = "put"
        /\ sent' = [sent EXCEPT ![j.cube] = src[j.buf]]
    BY <1>10 DEF PutSent
  <2>2. ASSUME NEW c \in OwnCubes, c >= Depth, Asked(c)'
        PROVE  PutOf(c) \in jobs' \/ sent'[c] = Content(c, PEs)
    <3>1. PutOf(c) \in jobs \/ sent[c] = Content(c, PEs)
      BY <2>1, <2>2 DEF SentInv, Asked
    <3>2. CASE j.cube = c
      <4>1. src[j.buf] = Content(c, PEs)
        BY <2>1, <2>2, <3>2 DEF PutInv, PutInWindow, Late
      <4>. QED  BY <2>1, <3>2, <4>1, <1>0 DEF TypeOK
    <3>3. CASE j.cube # c
      <4>1. PutOf(c) # j /\ sent'[c] = sent[c]
        BY <2>1, <3>3, <1>0, JobTypes DEF TypeOK
      <4>. QED  BY <2>1, <3>1, <4>1
    <3>. QED  BY <3>2, <3>3
  <2>. QED  BY <2>2 DEF SentInv
<1>11. CASE UNCHANGED vars
  BY <1>11 DEF vars, SentInv, Asked
<1>. QED
  BY <1>2, <1>3, <1>4, <1>5, <1>6, <1>7, <1>8, <1>9, <1>10, <1>11
     DEF Next, PE0Step, Dma, Finished

(* When no get can stray and the PEs have left the step, the DMA engine    *)
(* has sent each cube of the second turn and after, the trailing one       *)
(* included, whole and updated (SecondTurnSent): the last waits forget no  *)
(* put of them.                                                            *)
THEOREM SecondTurnSentHolds ==
  ASSUME NoStrayGet
  PROVE  Spec => []SecondTurnSent
<1>1. TypePhase /\ GetInv /\ [Next]_vars => GetInv'
  BY NextGet
<1>2. TypePhase /\ GetInv /\ PutInv /\ [Next]_vars => PutInv'
  BY NextPut
<1>3. Init => SentInv
  BY ConstantTypes DEF Init, SentInv, Asked, FirstCube, Kernel
<1>4. TypePhase /\ PutInv /\ SentInv /\ [Next]_vars => SentInv'
  BY NextSent
<1>5. TypePhase /\ PutInv /\ SentInv => SecondTurnSent
  <2> SUFFICES ASSUME TypePhase, PutInv, SentInv, AllDone,
                      NEW c \in OwnCubes, c >= Depth
               PROVE  sent[c] = Content(c, PEs)
    BY DEF SecondTurnSent
  <2>1. pc[PE0] = "done" /\ cube[PE0] = TrailCube
    BY ConstantTypes DEF AllDone, TypePhase, PhaseInv
  <2>2. Asked(c)
    BY <2>1, ConstantTypes DEF Asked, Kernel, TrailCube
  <2>3. PutOf(c) \notin jobs
    BY <2>1, JobTypes DEF PutInv, PutInWindow, Looping, Collision, Late
  <2>. QED  BY <2>2, <2>3 DEF SentInv
<1>. QED
  BY InitTypePhase, NextTypePhase, InitGet, InitPut, <1>1, <1>2, <1>3, <1>4,
     <1>5, PTL DEF Spec
=============================================================================
