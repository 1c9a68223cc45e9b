------------------------ MODULE MonitorPipelineProofs ------------------------
(***************************************************************************)
(* Proofs about MonitorPipeline.                                           *)
(*                                                                         *)
(* PhaseInv says where the clients are, given where PE0 is.  GetsInv says  *)
(* which gets of velocities may be pending, in whatever order gets arrive: *)
(* those of the cubes that PE0 is yet to come to, whose tickets the events *)
(* hold, and the get of cube NbCubes, which nobody waits for.  What the    *)
(* buffers of velocities hold follows (VelInv).  The puts leave in order,  *)
(* so that a wait for the newest empties the queue: only the puts of the   *)
(* cube at hand, or of the first one, which the code does not wait for,    *)
(* can be pending (PutsInv).  MemoryInv and DeltaInv say what has become   *)
(* of the cubes that are done; together this is MonInv.  DrawInv adds      *)
(* their pixels.                                                           *)
(***************************************************************************)
EXTENDS MonitorPipeline, SequenceTheorems, ModLemmas

(* Where PE0 is when it is at the trailing cube, after it has put it, and  *)
(* in the loop over the cubes.                                             *)
Trailing == {"trailing_src", "returns_src", "trailing_vel", "returns_vel",
             "returns_put", "trailing_bitmap", "returns_bitmap"}
Cleared  == {"returns_put", "trailing_bitmap", "returns_bitmap", "done"}
Looping  == {"wait", "enter", "monitor", "leave", "post", "refill"}

(* Where a client waits when PE0 comes to cube k.                          *)
ClientAt(k) == IF k \in OwnCubes THEN "enter" ELSE "done"

(* Where PE0 and the clients are with respect to the cube at hand.         *)
PhaseInv ==
  LET k == cube[PE0]
      l == pc[PE0]
  IN
  /\ l = "prologue" => k = 0
  /\ l \in {"wait", "refill"} => k \in Kernel
  /\ l \in {"enter", "monitor", "leave", "post"} => k \in OwnCubes
  /\ l \in {"epilogue", "done"} => k = TrailCube
  /\ l \in Trailing => k = TrailCube /\ HasTrailing
  /\ \A p \in Clients :
       /\ l \in {"prologue", "wait", "enter", "epilogue", "trailing_src",
                 "returns_src", "trailing_vel", "returns_vel"} =>
            cube[p] = k /\ pc[p] = ClientAt(k)
       /\ l \in {"monitor", "leave"} =>
            cube[p] = k /\ pc[p] \in {"monitor", "leave"}
       /\ l \in {"post", "refill"} =>
            cube[p] = NextCube(k) /\ pc[p] = ClientAfter(k)
       /\ l \in Cleared => cube[p] = TrailCube /\ pc[p] = "done"

TypePhase == TypeOK /\ PhaseInv

(* A get of velocities that can be pending: of this call, for a cube that  *)
(* PE0 is yet to come to.                                                  *)
GetInWindow(j) ==
  LET k == cube[PE0]
      l == pc[PE0]
  IN
  /\ j.buf = Slot(j.cube)
  /\ j.call = call
  /\ l # "prologue"
  /\ j.cube = NbCubes => Depth <= NbCubes
  /\ j.cube = TrailCube => l = "returns_vel"
  /\ l = "wait" => k <= j.cube /\ j.cube < k + Depth
  /\ k \in Kernel /\ l # "wait" => k < j.cube /\ j.cube < k + Depth
  /\ k = TrailCube => j.cube \in {NbCubes, TrailCube}

(* The get of cube NbCubes of an earlier call.                             *)
Forgotten(j) ==
  /\ j.buf = Slot(j.cube)
  /\ j.cube = NbCubes /\ Depth <= NbCubes
  /\ j.call < call

(* The event of a slot has the ticket of its next cube.                    *)
TicketInv ==
  LET k == cube[PE0]
      l == pc[PE0]
  IN
  k \in Kernel /\ l # "prologue" => \A c \in Kernel :
    (k < c \/ (c = k /\ l = "wait")) /\ c < k + Depth =>
      getEv[Slot(c)] = Job("vel", c)

GetsInv ==
  /\ \A j \in gets : j.array = "vel" => GetInWindow(j) \/ Forgotten(j)
  /\ TicketInv

(* PE p has added the variation of its plane of cube c to its sum; PE0 has *)
(* asked for the velocities of cube c to be put; and for its pixels, which *)
(* for the trailing cube is later.                                         *)
HasMonitored(p) ==
  \/ pc[PE0] \in {"monitor", "leave"} /\ pc[p] = "leave"
  \/ pc[PE0] \in {"post", "refill"} \cup Cleared
Summed(p, c)  == c < cube[PE0] \/ (c = cube[PE0] /\ HasMonitored(p))
Asked(c)      ==
  c < cube[PE0] \/ (c = cube[PE0] /\ pc[PE0] \in {"refill"} \cup Cleared)
AskedImage(c) ==
  Asked(c) /\ (pc[PE0] \in {"returns_put", "trailing_bitmap"} => c # TrailCube)

(* The buffer of cube c is for its velocities: they have been asked for,   *)
(* and no get of another cube has been posted to that buffer since.        *)
Holds(c) ==
  LET k == cube[PE0]
      l == pc[PE0]
  IN
  \/ /\ c \in Kernel
     /\ (k \in Kernel /\ l # "prologue") \/ l = "epilogue"
     /\ c < k + Depth
     /\ k <= c \/ NbCubes < Depth
  \/ /\ c = TrailCube /\ k = TrailCube
     /\ l \in {"returns_vel", "enter", "monitor", "leave", "post",
               "returns_put", "trailing_bitmap", "returns_bitmap"}

(* What that buffer has, when they have come.                              *)
VelInv ==
  \A c \in OwnCubes : Holds(c) =>
    \/ Job("vel", c) \in gets
    \/ \A p \in PEs :
         IF Summed(p, c) THEN vel[Slot(c)][p] \in New(c)
         ELSE c \notin Suspect => vel[Slot(c)][p] \in Old(c)

(* The last put asked for cube k.                                          *)
NewestOf(k) == Job(IF k \in Picture THEN "bitmap" ELSE "vel", k)
(* The newest put, if one is pending.                                      *)
Newest ==
  LET k == cube[PE0]
      l == pc[PE0]
  IN
  IF l = "refill" THEN NewestOf(k)
  ELSE IF l = "returns_put" THEN Job("vel", k)
  ELSE IF l = "returns_bitmap" THEN Job("bitmap", k)
  ELSE NewestOf(0)

(* A put that can be pending.                                              *)
PutInWindow(j) ==
  LET k == cube[PE0]
      l == pc[PE0]
  IN
  /\ j = Job(j.array, j.cube)
  /\ j.array = "vel" \/ (j.array = "bitmap" /\ j.cube \in Picture)
  /\ j.cube \in OwnCubes
  /\ \/ j.cube = k /\ l \in {"refill", "returns_put", "returns_bitmap"}
     \/ j.cube = 0 /\ k = 1 /\ l \in Looping /\ 1 \in Kernel
     \/ j.cube = 0 /\ l = "epilogue" /\ NbCubes = 1

(* Nothing else is pending, and the events have the newest put's ticket.   *)
PutsInv ==
  LET k == cube[PE0]
      l == pc[PE0]
  IN
  /\ \A j \in Range(puts) : PutInWindow(j)
  /\ puts # <<>> => Last(puts) = Newest
  /\ l = "refill" => putEv[Slot(k)] = NewestOf(k)
  /\ l = "epilogue" /\ NbCubes = 1 => putEv[0] = NewestOf(0)
  /\ l \in {"trailing_bitmap", "returns_bitmap"} => TrailCube \in Picture

(* What has become of the cubes, and of the sums, before PE0's cube.       *)
MemoryInv ==
  \A c \in OwnCubes :
    IF Asked(c)
    THEN c \notin Exposed =>
           \/ Job("vel", c) \in Range(puts)
           \/ \A p \in PEs : memory[c][p] \in New(c)
    ELSE c \notin Suspect => \A p \in PEs : memory[c][p] \in Old(c)

(* Each PE has one term for each cube that it has summed.                  *)
DeltaInv ==
  \A p \in PEs :
    /\ \A d \in delta[p] :
         /\ Summed(p, d.of)
         /\ d.new = Content(d.of, call)
         /\ d.of \notin Suspect => d.old \in Old(d.of)
    /\ \A d, e \in delta[p] : d.of = e.of => d = e
    /\ \A c \in OwnCubes : Summed(p, c) => \E d \in delta[p] : d.of = c

MonInv ==
  /\ TypePhase
  /\ GetsInv
  /\ VelInv
  /\ PutsInv
  /\ MemoryInv
  /\ DeltaInv

(* What the PEs have drawn of PE0's cube; what has become of the others.   *)
DrawnInv ==
  cube[PE0] \in Picture /\ pc[PE0] # "done" =>
    \A p \in PEs : HasMonitored(p) => bitmap[p] = Content(cube[PE0], call)

ImageInv ==
  \A c \in OwnCubes \cap Picture : AskedImage(c) =>
    \/ Job("bitmap", c) \in Range(puts)
    \/ \A p \in PEs : image[c][p] \in Drawn(c)

DrawInv == DrawnInv /\ BitmapKept /\ ImageInv
-----------------------------------------------------------------------------
(***************************************************************************)
(* The queue of the puts.                                                  *)
(***************************************************************************)

(* Two jobs are posted behind the others.                                  *)
LEMMA AppendTwo ==
  ASSUME NEW S, NEW s \in Seq(S), NEW a \in S, NEW b \in S
  PROVE  /\ s \o <<a, b>> \in Seq(S)
         /\ Len(s \o <<a, b>>) = Len(s) + 2
         /\ \A i \in 1 .. Len(s) : (s \o <<a, b>>)[i] = s[i]
         /\ (s \o <<a, b>>)[Len(s) + 1] = a
         /\ (s \o <<a, b>>)[Len(s) + 2] = b
<1>1. <<a, b>> \in Seq(S) /\ Len(<<a, b>>) = 2 /\ <<a, b>>[1] = a /\ <<a, b>>[2] = b
  OBVIOUS
<1>. QED  BY <1>1, ConcatProperties

(* What is in a queue has a place in it.                                   *)
LEMMA InQueue ==
  ASSUME NEW S, NEW s \in Seq(S)
  PROVE  \A e : e \in Range(s) <=> \E i \in 1 .. Len(s) : s[i] = e
BY DEF Range

(* One job is posted behind the others.                                    *)
LEMMA QueueAppend ==
  ASSUME NEW S, NEW s \in Seq(S), NEW a \in S
  PROVE  /\ Range(Append(s, a)) = Range(s) \cup {a}
         /\ Last(Append(s, a)) = a /\ Append(s, a) # <<>>
<1> DEFINE n == Len(s)
           t == Append(s, a)
<1>1. /\ t \in Seq(S) /\ Len(t) = n + 1 /\ n \in Nat
      /\ \A i \in 1 .. n : t[i] = s[i]
      /\ t[n + 1] = a
  BY AppendProperties, LenProperties
<1>2. Last(t) = a /\ t # <<>>
  BY <1>1 DEF Last
<1>3. \A e : e \in Range(t) <=> e \in Range(s) \cup {a}
  <2>1. \A i \in 1 .. n + 1 : i \in 1 .. n \/ i = n + 1
    BY <1>1
  <2>2. 1 .. n \subseteq 1 .. n + 1 /\ n + 1 \in 1 .. n + 1
    BY <1>1
  <2> HIDE DEF t
  <2>3. \A e : e \in Range(t) <=> \E i \in 1 .. n + 1 : t[i] = e
    BY <1>1, InQueue
  <2>4. \A e : e \in Range(s) <=> \E i \in 1 .. n : s[i] = e
    BY InQueue
  <2>. QED  BY <1>1, <2>1, <2>2, <2>3, <2>4
<1>. QED  BY <1>2, <1>3

(* The last job of a queue that is not empty is in it.                     *)
LEMMA LastInQueue ==
  ASSUME NEW S, NEW s \in Seq(S), s # <<>>
  PROVE  Last(s) \in Range(s) /\ Head(s) \in Range(s) /\ Head(s) \in S
<1>1. Len(s) \in Nat /\ Len(s) > 0
  BY EmptySeq, LenProperties
<1>2. Len(s) \in 1 .. Len(s) /\ 1 \in 1 .. Len(s)
  BY <1>1
<1>3. Last(s) = s[Len(s)] /\ Head(s) = s[1]
  BY DEF Last
<1>4. s[1] \in S
  BY <1>2, ElementOfSeq
<1>. QED  BY <1>2, <1>3, <1>4, InQueue

(* When the head leaves, the others, and the last one, stay.               *)
LEMMA QueueTail ==
  ASSUME NEW S, NEW s \in Seq(S), s # <<>>
  PROVE  /\ Tail(s) \in Seq(S)
         /\ Range(s) = {Head(s)} \cup Range(Tail(s))
         /\ Tail(s) # <<>> => Last(Tail(s)) = Last(s)
<1> DEFINE n == Len(s)
           t == Tail(s)
<1>1. /\ t \in Seq(S) /\ Len(t) = n - 1 /\ n \in Nat /\ n > 0
      /\ \A i \in 1 .. n - 1 : t[i] = s[i + 1]
      /\ Head(s) = s[1]
  BY HeadTailProperties, EmptySeq, LenProperties
<1>2. ASSUME t # <<>> PROVE Last(t) = Last(s)
  <2>1. Len(t) > 0
    BY <1>1, <1>2, EmptySeq, LenProperties
  <2>2. n - 1 \in 1 .. n - 1 /\ (n - 1) + 1 = n
    BY <1>1, <2>1
  <2>. QED  BY <1>1, <2>2 DEF Last
<1>3. \A e : e \in Range(s) <=> e \in {Head(s)} \cup Range(t)
  <2> HIDE DEF t
  <2>1. \A i \in 1 .. n : i = 1 \/ (i - 1 \in 1 .. n - 1 /\ (i - 1) + 1 = i)
    BY <1>1
  <2>2. 1 \in 1 .. n /\ \A i \in 1 .. n - 1 : i + 1 \in 1 .. n
    BY <1>1
  <2>3. \A e : e \in Range(t) <=> \E i \in 1 .. n - 1 : t[i] = e
    BY <1>1, InQueue
  <2>4. \A e : e \in Range(s) <=> \E i \in 1 .. n : s[i] = e
    BY InQueue
  <2>5. ASSUME NEW i \in 1 .. n PROVE s[i] \in {Head(s)} \cup Range(t)
    <3>1. CASE i = 1
      BY <1>1, <3>1
    <3>2. CASE i # 1
      <4>1. i - 1 \in 1 .. n - 1 /\ t[i - 1] = s[i]
        BY <1>1, <2>1, <3>2
      <4>. QED  BY <2>3, <4>1
    <3>. QED  BY <3>1, <3>2
  <2>6. ASSUME NEW i \in 1 .. n - 1 PROVE t[i] \in Range(s)
    BY <1>1, <2>2, <2>4
  <2>7. Head(s) \in Range(s)
    BY <1>1, <2>2, <2>4
  <2>. QED  BY <2>3, <2>4, <2>5, <2>6, <2>7
<1>. QED  BY <1>1, <1>2, <1>3
-----------------------------------------------------------------------------
(***************************************************************************)
(* Typing of the helpers.                                                  *)
(***************************************************************************)

(* A cube has a buffer, and the first Depth cubes have their own number.   *)
LEMMA SlotType ==
  ASSUME NEW k \in Nat
  PROVE  Slot(k) \in Slots /\ (k < Depth => Slot(k) = k)
<1>1. Depth \in Nat \ {0}
  BY RingAssumption
<1>2. k % Depth \in 0 .. Depth - 1
  BY <1>1, DivMod
<1>3. k < Depth => k % Depth = k
  BY <1>1, ModSmall
<1>. QED  BY <1>2, <1>3 DEF Slot, Slots

(* Two cubes less than Depth apart have different buffers.                 *)
LEMMA SlotWindow ==
  ASSUME NEW a \in Nat, NEW b \in Nat, a < b + Depth, b < a + Depth,
         Slot(a) = Slot(b)
  PROVE  a = b
BY RingAssumption, ModWindow DEF Slot

(* next_ibuf is ibuf: cube k + Depth goes to the buffer of cube k.         *)
LEMMA SlotShift ==
  ASSUME NEW k \in Nat
  PROVE  Slot(k + Depth) = Slot(k)
BY RingAssumption, ModShift DEF Slot

(* The constants are numbers, and the cubes of the cluster too.            *)
LEMMA ConstantTypes ==
  /\ Depth \in Nat \ {0}
  /\ NbCubes \in Nat \ {0}
  /\ NbCalls \in Nat \ {0}
  /\ TrailCube \in Nat /\ TrailCube \notin Kernel
  /\ TrailCube = NbCubes + 1
  /\ Kernel \subseteq Nat /\ Kernel \subseteq 0 .. TrailCube /\ 0 \in Kernel
  /\ TrailCube \in 0 .. TrailCube /\ NbCubes \in 0 .. TrailCube
  /\ OwnCubes \subseteq Kernel \cup {TrailCube}
  /\ OwnCubes \subseteq 0 .. TrailCube /\ OwnCubes \subseteq Nat
  /\ Kernel \subseteq OwnCubes
  /\ HasTrailing => TrailCube \in OwnCubes
  /\ ~ HasTrailing => TrailCube \notin OwnCubes
  /\ PE0 \in PEs /\ Clients \subseteq PEs /\ PE0 \notin Clients
  /\ PEs = Clients \cup {PE0}
  /\ NbPrefetched \in Nat /\ NbPrefetched <= NbCubes /\ NbPrefetched <= Depth
  /\ NbPrefetched >= 1
  /\ NbPrefetched = NbCubes \/ NbPrefetched = Depth
BY RingAssumption, FlagAssumption, PEAssumption
   DEF TrailCube, Kernel, OwnCubes, PEs, NbPrefetched

(* No PE leaves the range of the cluster's cubes.                          *)
LEMMA CubeTypes ==
  ASSUME NEW k \in Kernel \cup {TrailCube}
  PROVE  /\ NextCube(k) \in Kernel \cup {TrailCube}
         /\ ClientAt(k) \in {"enter", "done"}
         /\ ClientAfter(k) \in {"enter", "done"}
         /\ k \in Kernel => ClientAfter(k) = ClientAt(NextCube(k))
         /\ NextCube(TrailCube) = TrailCube /\ ClientAfter(TrailCube) = "done"
BY ConstantTypes DEF NextCube, ClientAfter, ClientAt, Kernel, TrailCube

(* Where PE0 goes after cube k of the loop.                                *)
LEMMA NextCubes ==
  ASSUME NEW k \in Kernel
  PROVE  /\ k \in Nat /\ k < NbCubes /\ k # TrailCube
         /\ NextCube(k) \in Kernel => NextCube(k) = k + 1
         /\ NextCube(k) \notin Kernel =>
              NextCube(k) = TrailCube /\ k + 1 = NbCubes
BY RingAssumption DEF Kernel, NextCube, TrailCube

(* The contents of the buffers and of the memory.                          *)
LEMMA ContentTypes ==
  /\ Nothing \in Contents
  /\ \A k \in 0 .. TrailCube, c \in 0 .. NbCalls : Content(k, c) \in Contents
  /\ \A k \in 0 .. TrailCube, c \in 0 .. NbCalls : Planes(k, c) \in [PEs -> Contents]
BY DEF Contents, Planes

(* The jobs of this call.                                                  *)
LEMMA JobTypes ==
  ASSUME call \in 1 .. NbCalls
  PROVE  \A a \in {"src", "vel", "bitmap"}, k \in 0 .. TrailCube : Job(a, k) \in Jobs
<1>1. \A k \in 0 .. TrailCube : Slot(k) \in Slots
  BY ConstantTypes, SlotType
<1>. QED  BY <1>1 DEF Job, Jobs

(* A job is what it was made of.                                           *)
LEMMA JobFields ==
  ASSUME NEW a, NEW k
  PROVE  /\ Job(a, k).array = a
         /\ Job(a, k).buf = Slot(k)
         /\ Job(a, k).cube = k
         /\ Job(a, k).call = call
BY DEF Job

(* The get that PE0 posts after cube k, if any.                            *)
LEMMA PrefetchesIf ==
  ASSUME NEW k \in Nat
  PROVE  Prefetches(k) <=> k + Depth <= NbCubes
BY ConstantTypes DEF Prefetches

(* The puts of a cube: its velocities and, in the picture, its pixels.     *)
LEMMA PostPuts ==
  ASSUME NEW k \in 0 .. TrailCube, call \in 1 .. NbCalls, puts \in Seq(Jobs)
  PROVE  /\ puts \o PutsOf(k) \in Seq(Jobs)
         /\ Last(PutsOf(k)) = Job(IF k \in Picture THEN "bitmap" ELSE "vel", k)
         /\ Head(PutsOf(k)) = Job("vel", k)
<1>1. Job("vel", k) \in Jobs /\ Job("bitmap", k) \in Jobs
  BY JobTypes
<1>2. PutsOf(k) \in Seq(Jobs)
  BY <1>1 DEF PutsOf
<1>3. CASE k \in Picture
  BY <1>1, <1>2, <1>3, ConcatProperties DEF Last, PutsOf
<1>4. CASE k \notin Picture
  BY <1>1, <1>2, <1>4, ConcatProperties DEF Last, PutsOf
<1>. QED  BY <1>3, <1>4

-----------------------------------------------------------------------------
(***************************************************************************)
(* Type correctness and lockstep.                                          *)
(***************************************************************************)

(* The call starts well typed, every PE at the first cube.                 *)
LEMMA InitTypePhase == Init => TypePhase
<1> SUFFICES ASSUME Init PROVE TypePhase
  OBVIOUS
<1> USE ConstantTypes DEF Init
<1>1. TypeOK
  <2>1. \A c \in 0 .. TrailCube : Planes(c, 0) \in [PEs -> Contents]
    BY ContentTypes
  <2>2. memory \in [OwnCubes -> [PEs -> Contents]]
    BY <2>1
  <2>3. image \in [OwnCubes \cap Picture -> [PEs -> Contents]]
    BY <2>1
  <2>4. gets \subseteq Jobs /\ puts \in Seq(Jobs)
    BY EmptySeq
  <2>5. delta \in [PEs -> SUBSET [of : OwnCubes, old : Contents, new : Contents]]
    OBVIOUS
  <2>6. vel \in [Slots -> [PEs -> Contents]]
    BY ContentTypes
  <2>7. pc \in [PEs -> Labels] /\ call \in 1 .. NbCalls
    BY DEF Labels, StartPc
  <2>. QED  BY <2>2, <2>3, <2>4, <2>5, <2>6, <2>7, ContentTypes DEF TypeOK
<1>2. PhaseInv
  BY DEF PhaseInv, StartPc, ClientAt, Trailing, Cleared
<1>. QED  BY <1>1, <1>2 DEF TypePhase

(* What a get brings has the type of the buffer it is for.                 *)
LEMMA FetchedTypes ==
  ASSUME TypeOK, NEW j \in Jobs
  PROVE  Fetched(j) \in [PEs -> Contents]
<1>1. j.cube \in 0 .. TrailCube /\ 0 \in 0 .. NbCalls
  BY ConstantTypes DEF Jobs
<1>2. Planes(j.cube, 0) \in [PEs -> Contents]
  BY <1>1, ContentTypes
<1>. QED  BY <1>2 DEF Fetched, TypeOK

(* PE p stores its plane over the velocities of the slot.                  *)
LEMMA StoreTypes ==
  ASSUME NEW v \in [Slots -> [PEs -> Contents]], NEW s \in Slots,
         NEW p \in PEs, NEW x \in Contents
  PROVE  /\ [v EXCEPT ![s] = [@ EXCEPT ![p] = x]] \in [Slots -> [PEs -> Contents]]
         /\ \A t \in Slots, q \in PEs :
              [v EXCEPT ![s] = [@ EXCEPT ![p] = x]][t][q] =
                IF t = s /\ q = p THEN x ELSE v[t][q]
<1>1. [v[s] EXCEPT ![p] = x] \in [PEs -> Contents]
  OBVIOUS
<1>. QED  BY <1>1

(* A PE in monitor_cube is at a cube of the cluster, and so is PE0.        *)
LEMMA Together ==
  ASSUME TypePhase, NEW p \in PEs, pc[p] = "monitor"
  PROVE  /\ pc[PE0] \in {"monitor", "leave"}
         /\ cube[p] = cube[PE0] /\ cube[p] \in OwnCubes
         /\ \A q \in PEs : pc[q] \in {"monitor", "leave"} /\ cube[q] = cube[PE0]
<1> USE DEF TypePhase, PhaseInv, TypeOK
<1>1. pc[PE0] \in {"monitor", "leave"}
  BY ConstantTypes, CubeTypes DEF Labels, Trailing, Cleared
<1>. QED  BY <1>1, ConstantTypes

(* What a get does when it arrives.                                        *)
LEMMA GetArrivesEffect ==
  ASSUME NEW j, GetArrives(j)
  PROVE  /\ gets' = gets \ {j}
         /\ j.array = "vel" => vel' = [vel EXCEPT ![j.buf] = Fetched(j)]
         /\ j.array # "vel" => vel' = vel
         /\ UNCHANGED <<call, pc, cube, puts, getEv, putEv, bitmap, delta,
                        memory, image>>
BY DEF GetArrives

(* What a put does when it leaves.                                         *)
LEMMA PutSentEffect ==
  ASSUME PutSent
  PROVE  LET j == Head(puts) IN
         /\ puts # <<>> /\ puts' = Tail(puts)
         /\ j.array = "bitmap" => /\ image' = [image EXCEPT ![j.cube] = bitmap]
                                  /\ memory' = memory
         /\ j.array # "bitmap" => /\ memory' = [memory EXCEPT ![j.cube] = vel[j.buf]]
                                  /\ image' = image
         /\ UNCHANGED <<call, pc, cube, gets, getEv, putEv, vel, bitmap,
                        delta>>
BY DEF PutSent

(* Every step keeps the types, and the clients in step with PE0.           *)
LEMMA NextTypePhase == TypePhase /\ [Next]_vars => TypePhase'
<1> SUFFICES ASSUME TypePhase, [Next]_vars PROVE TypePhase'
  OBVIOUS
<1> USE ConstantTypes
<1> DEFINE k == cube[PE0]
<1>0. /\ TypeOK /\ PhaseInv
      /\ k \in Kernel \cup {TrailCube} /\ k \in 0 .. TrailCube /\ k \in Nat
      /\ Slot(k) \in Slots
  BY SlotType DEF TypePhase, TypeOK
<1> USE DEF Trailing, Cleared
<1>1. ASSUME Prologue PROVE TypePhase'
  <2> USE <1>0, <1>1 DEF Prologue, data
  <2>1. gets' \subseteq Jobs
    <3>1. \A c \in 0 .. NbPrefetched - 1 : c \in 0 .. TrailCube
      OBVIOUS
    <3>2. \A c \in 0 .. NbPrefetched - 1 : GetsOf(c) \subseteq Jobs
      BY <3>1, JobTypes DEF TypeOK, GetsOf
    <3>. QED  BY <3>2 DEF TypeOK
  <2>2. getEv' \in [Slots -> Jobs \cup {NoTicket}]
    <3> USE DEF Ticket
    <3>1. \A s \in Slots : s < NbPrefetched => Job("vel", s) \in Jobs
      BY JobTypes DEF TypeOK, Slots
    <3>. QED  BY <3>1 DEF TypeOK
  <2>3. TypeOK'
    BY <2>1, <2>2 DEF TypeOK, Labels, Goto
  <2>4. PhaseInv'
    BY DEF TypeOK, PhaseInv, Goto
  <2>. QED  BY <2>3, <2>4 DEF TypePhase
<1>2. ASSUME WaitGet PROVE TypePhase'
  <2> USE <1>0, <1>2 DEF WaitGet, data, dma
  <2>1. TypeOK'
    BY DEF TypeOK, Labels, Goto
  <2>2. PhaseInv'
    BY DEF TypeOK, PhaseInv, Goto
  <2>. QED  BY <2>1, <2>2 DEF TypePhase
<1>3. ASSUME PutCube PROVE TypePhase'
  <2> USE <1>0, <1>3 DEF PutCube, data
  <2>1. puts' \in Seq(Jobs)
    BY PostPuts DEF TypeOK
  <2>2. putEv' \in [Slots -> Jobs \cup {NoTicket}]
    <3>a. \A a \in {"vel", "bitmap"} : Job(a, k) \in Jobs
      BY JobTypes DEF TypeOK
    <3>b. Last(PutsOf(k)) = Job("vel", k) \/ Last(PutsOf(k)) = Job("bitmap", k)
      BY PostPuts DEF TypeOK
    <3>1. Last(PutsOf(k)) \in Jobs
      BY <3>a, <3>b
    <3>. QED  BY <3>1 DEF TypeOK
  <2>3. TypeOK'
    BY <2>1, <2>2 DEF TypeOK, Labels, Goto
  <2>4. PhaseInv'
    BY DEF TypeOK, PhaseInv, Goto
  <2>. QED  BY <2>3, <2>4 DEF TypePhase
<1>4. ASSUME GetNext PROVE TypePhase'
  <2> USE <1>0, <1>4 DEF GetNext, data
  <2>0. k \in Kernel /\ NextCube(k) \in Kernel \cup {TrailCube}
    BY CubeTypes DEF PhaseInv
  <2>1. gets' \subseteq Jobs /\ getEv' \in [Slots -> Jobs \cup {NoTicket}]
    <3>1. CASE Prefetches(k)
      <4>1. k + Depth \in 0 .. TrailCube
        BY <3>1, PrefetchesIf
      <4>2. Job("src", k + Depth) \in Jobs /\ Job("vel", k + Depth) \in Jobs
        BY <4>1, JobTypes DEF TypeOK
      <4>3. getEv' = [getEv EXCEPT ![Slot(k)] = Job("vel", k + Depth)]
        BY <3>1 DEF Ticket
      <4>. QED  BY <3>1, <4>2, <4>3 DEF GetsOf, TypeOK
    <3>2. CASE ~ Prefetches(k)
      BY <3>2 DEF TypeOK
    <3>. QED  BY <3>1, <3>2
  <2>2. TypeOK'
    BY <2>0, <2>1 DEF TypeOK, Labels, Goto
  <2>3. PhaseInv'
    <3>1. ClientAfter(k) = ClientAt(NextCube(k)) /\ NextCube(k) \in Kernel \cup {TrailCube}
      BY <2>0, CubeTypes
    <3>. QED  BY <2>0, <3>1 DEF TypeOK, PhaseInv, Goto
  <2>. QED  BY <2>2, <2>3 DEF TypePhase
<1>5. ASSUME Epilogue PROVE TypePhase'
  <2> USE <1>0, <1>5 DEF Epilogue, data, dma
  <2>1. TypeOK'
    BY DEF TypeOK, Labels, Goto
  <2>2. PhaseInv'
    BY DEF TypeOK, PhaseInv, Goto, ClientAt
  <2>. QED  BY <2>1, <2>2 DEF TypePhase
<1>6. ASSUME TrailingCalls PROVE TypePhase'
  <2> USE <1>0, <1>6 DEF TrailingCalls, data
  <2>1. \A a \in {"src", "vel", "bitmap"} : Job(a, TrailCube) \in Jobs
    BY JobTypes DEF TypeOK
  <2>2. gets' \subseteq Jobs /\ puts' \in Seq(Jobs)
    <3>1. \A a \in {"src", "vel", "bitmap"} :
            /\ gets \cup {Job(a, TrailCube)} \subseteq Jobs
            /\ Append(puts, Job(a, TrailCube)) \in Seq(Jobs)
      BY <2>1, AppendProperties DEF TypeOK
    <3>. QED  BY <3>1 DEF TypeOK
  <2>3. TypeOK'
    BY <2>2 DEF TypeOK, Labels, Goto
  <2>4. PhaseInv'
    BY CubeTypes DEF TypeOK, PhaseInv, Goto
  <2>. QED  BY <2>3, <2>4 DEF TypePhase
<1>7. ASSUME TrailingReturns PROVE TypePhase'
  <2> USE <1>0, <1>7 DEF TrailingReturns, data, dma
  <2>1. TypeOK'
    <3>1. pc' \in [PEs -> Labels]
      BY DEF TypeOK, Labels, Goto
    <3>. QED  BY <3>1 DEF TypeOK
  <2>2. PhaseInv'
    BY DEF TypeOK, PhaseInv, Goto
  <2>. QED  BY <2>1, <2>2 DEF TypePhase
<1>8. ASSUME LocalBarrier PROVE TypePhase'
  <2> USE <1>0, <1>8 DEF LocalBarrier, Arrived, data, dma
  <2>1. TypeOK'
    <3>1. pc' \in [PEs -> Labels]
      BY DEF TypeOK, Labels, ClientAfter
    <3>2. cube' \in [PEs -> Kernel \cup {TrailCube}]
      BY CubeTypes DEF TypeOK
    <3>. QED  BY <3>1, <3>2 DEF TypeOK
  <2>2. PhaseInv'
    <3>1. CASE pc[PE0] = "enter"
      <4>1. \A p \in PEs : pc[p] = "enter" /\ cube[p] = k
        BY <3>1 DEF PhaseInv, TypeOK, ClientAt
      <4>2. pc' = [p \in PEs |-> "monitor"] /\ cube' = cube
        BY <4>1 DEF TypeOK
      <4>. QED  BY <3>1, <4>1, <4>2 DEF PhaseInv
    <3>2. CASE pc[PE0] = "leave"
      <4>1. \A p \in PEs : pc[p] = "leave" /\ cube[p] = k
        BY <3>2 DEF PhaseInv, TypeOK
      <4>2. pc'[PE0] = "post" /\ cube'[PE0] = k
        BY <4>1
      <4>3. \A p \in Clients : pc'[p] = ClientAfter(k) /\ cube'[p] = NextCube(k)
        BY <4>1
      <4>. QED  BY <3>2, <4>2, <4>3 DEF PhaseInv
    <3>. QED  BY <3>1, <3>2
  <2>. QED  BY <2>1, <2>2 DEF TypePhase
<1>9. ASSUME NEW p \in PEs, Monitor(p) PROVE TypePhase'
  <2> USE <1>0, <1>9 DEF Monitor
  <2>0. /\ pc[PE0] \in {"monitor", "leave"}
        /\ cube[p] = k /\ k \in OwnCubes
    BY Together
  <2>1. NewVelocity(p) \in Contents /\ vel[Slot(k)][p] \in Contents
    <3>1. k \in 0 .. TrailCube /\ call \in 0 .. NbCalls
      BY <2>0 DEF TypeOK
    <3>2. NewVelocity(p) \in Contents
      BY <2>0, <3>1, ContentTypes DEF NewVelocity
    <3>. QED  BY <2>0, <3>2 DEF TypeOK
  <2>2. vel' \in [Slots -> [PEs -> Contents]]
    BY <2>0, <2>1, StoreTypes DEF TypeOK
  <2>3. delta' \in [PEs -> SUBSET [of : OwnCubes, old : Contents, new : Contents]]
    BY <2>0, <2>1 DEF TypeOK
  <2>4. bitmap' \in [PEs -> Contents] /\ pc' \in [PEs -> Labels]
    BY <2>1 DEF TypeOK, Labels, Goto
  <2>5. TypeOK'
    BY <2>2, <2>3, <2>4 DEF TypeOK, dma
  <2>6. PhaseInv'
    BY <2>0 DEF TypeOK, PhaseInv, Goto
  <2>. QED  BY <2>5, <2>6 DEF TypePhase
<1>10. ASSUME NextCall PROVE TypePhase'
  <2> USE <1>0, <1>10 DEF NextCall, dma
  <2>1. TypeOK'
    <3>1. delta' \in [PEs -> SUBSET [of : OwnCubes, old : Contents, new : Contents]]
      BY DEF Reset
    <3>2. call' \in 1 .. NbCalls
      BY DEF TypeOK
    <3>. QED  BY <3>1, <3>2 DEF TypeOK, Labels, StartPc
  <2>2. PhaseInv'
    BY DEF PhaseInv, StartPc, ClientAt
  <2>. QED  BY <2>1, <2>2 DEF TypePhase
<1>11. ASSUME NEW j \in gets, GetArrives(j) PROVE TypePhase'
  <2>1. j \in Jobs /\ j.buf \in Slots /\ Fetched(j) \in [PEs -> Contents]
    BY <1>0, FetchedTypes DEF TypeOK, Jobs
  <2>2. vel' \in [Slots -> [PEs -> Contents]]
    <3>1. vel \in [Slots -> [PEs -> Contents]]
      BY <1>0 DEF TypeOK
    <3>. QED  BY <1>11, <2>1, <3>1, GetArrivesEffect
  <2>3. TypeOK'
    BY <1>0, <1>11, <2>2, GetArrivesEffect DEF TypeOK
  <2>4. PhaseInv'
    BY <1>0, <1>11, GetArrivesEffect DEF PhaseInv
  <2>. QED  BY <2>3, <2>4 DEF TypePhase
<1>12. ASSUME PutSent PROVE TypePhase'
  <2> DEFINE j == Head(puts)
  <2>1. puts # <<>> /\ puts \in Seq(Jobs)
    BY <1>0, <1>12, PutSentEffect DEF TypeOK
  <2>2. j \in Jobs /\ Tail(puts) \in Seq(Jobs)
    BY <2>1, HeadTailProperties
  <2>3. vel[j.buf] \in [PEs -> Contents] /\ bitmap \in [PEs -> Contents]
    BY <1>0, <2>2 DEF TypeOK, Jobs
  <2> HIDE DEF j
  <2>4. /\ memory' \in [OwnCubes -> [PEs -> Contents]]
        /\ image' \in [OwnCubes \cap Picture -> [PEs -> Contents]]
    <3>1. /\ memory \in [OwnCubes -> [PEs -> Contents]]
          /\ image \in [OwnCubes \cap Picture -> [PEs -> Contents]]
      BY <1>0 DEF TypeOK
    <3>2. CASE j.array = "bitmap"
      <4>1. image' = [image EXCEPT ![j.cube] = bitmap] /\ memory' = memory
        BY <1>12, <3>2, PutSentEffect DEF j
      <4>. QED  BY <2>3, <3>1, <4>1
    <3>3. CASE j.array # "bitmap"
      <4>1. memory' = [memory EXCEPT ![j.cube] = vel[j.buf]] /\ image' = image
        BY <1>12, <3>3, PutSentEffect DEF j
      <4>. QED  BY <2>3, <3>1, <4>1
    <3>. QED  BY <3>2, <3>3
  <2>5. TypeOK'
    BY <1>0, <1>12, <2>2, <2>4, PutSentEffect DEF TypeOK
  <2>6. PhaseInv'
    BY <1>0, <1>12, PutSentEffect DEF PhaseInv
  <2>. QED  BY <2>5, <2>6 DEF TypePhase
<1>13. CASE UNCHANGED vars
  BY <1>0, <1>13 DEF vars, dma, data, TypePhase, TypeOK, PhaseInv
<1>. QED
  BY <1>1, <1>2, <1>3, <1>4, <1>5, <1>6, <1>7, <1>8, <1>9, <1>10, <1>11,
     <1>12, <1>13 DEF Next, PE0Step, Dma, Finished

(* Every variable of the monitoring keeps its type, for every depth,       *)
(* number of cubes, of clients and of calls, in whatever order gets        *)
(* arrive: no PE handles a cube past the last one, or sums one of others.  *)
THEOREM TypeCorrect == Spec => []TypeOK
<1>1. TypePhase => TypeOK
  BY DEF TypePhase
<1>. QED  BY InitTypePhase, NextTypePhase, <1>1, PTL DEF Spec
-----------------------------------------------------------------------------
(***************************************************************************)
(* Which gets of velocities are pending.                                   *)
(***************************************************************************)

(* Where PE0 is in the cubes, and the cubes below it.                      *)
LEMMA CubeNumber ==
  ASSUME TypePhase
  PROVE  /\ cube[PE0] \in Kernel \cup {TrailCube} /\ cube[PE0] \in Nat
         /\ cube[PE0] \in 0 .. TrailCube /\ Slot(cube[PE0]) \in Slots
         /\ call \in 1 .. NbCalls /\ call \in Nat
<1>1. cube[PE0] \in Kernel \cup {TrailCube} /\ call \in 1 .. NbCalls
  BY ConstantTypes DEF TypePhase, TypeOK
<1>2. /\ Kernel \subseteq Nat /\ Kernel \subseteq 0 .. TrailCube
      /\ TrailCube \in Nat /\ TrailCube \in 0 .. TrailCube /\ NbCalls \in Nat
  BY ConstantTypes
<1>3. cube[PE0] \in Nat /\ cube[PE0] \in 0 .. TrailCube
  BY <1>1, <1>2
<1>4. call \in Nat
  BY <1>1, <1>2
<1>. QED  BY <1>1, <1>3, <1>4, SlotType

(* A pending get is a job of a cube and of a call.                         *)
LEMMA GetJob ==
  ASSUME TypePhase, NEW j \in gets
  PROVE  /\ j \in Jobs /\ j.cube \in Nat /\ j.call \in Nat /\ j.buf \in Slots
         /\ j.cube <= TrailCube /\ j.call > 0
         /\ j.array = "vel" /\ GetInWindow(j) => j = Job("vel", j.cube)
<1>1. j \in Jobs /\ TrailCube \in Nat
  BY ConstantTypes DEF TypePhase, TypeOK
<1>2. /\ j.cube \in 0 .. TrailCube /\ j.call \in 1 .. NbCalls
      /\ j.buf \in Slots
      /\ j = [array |-> j.array, buf |-> j.buf, cube |-> j.cube, call |-> j.call]
  BY <1>1 DEF Jobs
<1>3. j.array = "vel" /\ GetInWindow(j) => j = Job("vel", j.cube)
  BY <1>2 DEF GetInWindow, Job
<1>. QED  BY <1>1, <1>2, <1>3

(* The blocking calls: what each posts, and where PE0 is after it.         *)
LEMMA TrailingCallsEffect ==
  ASSUME TypePhase, TrailingCalls
  PROVE  /\ cube[PE0] = TrailCube /\ HasTrailing
         /\ UNCHANGED <<call, cube, getEv, putEv, data>>
         /\ \A p \in Clients : pc'[p] = pc[p]
         /\ \/ /\ pc[PE0] = "trailing_src" /\ pc'[PE0] = "returns_src"
               /\ gets' = gets \cup {Job("src", TrailCube)} /\ puts' = puts
            \/ /\ pc[PE0] = "trailing_vel" /\ pc'[PE0] = "returns_vel"
               /\ gets' = gets \cup {Job("vel", TrailCube)} /\ puts' = puts
            \/ /\ pc[PE0] = "post" /\ pc'[PE0] = "returns_put"
               /\ puts' = Append(puts, Job("vel", TrailCube)) /\ gets' = gets
            \/ /\ pc[PE0] = "trailing_bitmap" /\ pc'[PE0] = "returns_bitmap"
               /\ puts' = Append(puts, Job("bitmap", TrailCube)) /\ gets' = gets
<1> USE ConstantTypes DEF TrailingCalls
<1>1. pc \in [PEs -> Labels] /\ PhaseInv
  BY DEF TypePhase, TypeOK
<1>2. cube[PE0] = TrailCube /\ HasTrailing
  BY <1>1 DEF PhaseInv, Trailing
<1>3. \A p \in Clients : pc'[p] = pc[p]
  BY <1>1 DEF Goto
<1>. QED  BY <1>1, <1>2, <1>3 DEF Goto

(* And what the return of each waits for.                                  *)
LEMMA TrailingReturnsEffect ==
  ASSUME TypePhase, TrailingReturns
  PROVE  /\ cube[PE0] = TrailCube /\ HasTrailing
         /\ UNCHANGED <<call, cube, dma, data>>
         /\ \A p \in Clients : pc'[p] = pc[p]
         /\ \/ /\ pc[PE0] = "returns_src" /\ pc'[PE0] = "trailing_vel"
               /\ Complete(Job("src", TrailCube))
            \/ /\ pc[PE0] = "returns_vel" /\ pc'[PE0] = "enter"
               /\ Complete(Job("vel", TrailCube))
            \/ /\ pc[PE0] = "returns_put" /\ Complete(Job("vel", TrailCube))
               /\ pc'[PE0] = IF TrailCube \in Picture THEN "trailing_bitmap" ELSE "done"
            \/ /\ pc[PE0] = "returns_bitmap" /\ pc'[PE0] = "done"
               /\ Complete(Job("bitmap", TrailCube))
<1> USE ConstantTypes DEF TrailingReturns
<1>1. pc \in [PEs -> Labels] /\ PhaseInv
  BY DEF TypePhase, TypeOK
<1>2. cube[PE0] = TrailCube /\ HasTrailing
  BY <1>1 DEF PhaseInv, Trailing
<1>3. \A p \in Clients : pc'[p] = pc[p]
  BY <1>1 DEF Goto
<1>. QED  BY <1>1, <1>2, <1>3 DEF Goto

(* Nothing has been asked for at first.                                    *)
LEMMA InitGets == Init => GetsInv
BY ConstantTypes DEF Init, GetsInv, TicketInv, StartPc

(* Every step keeps GetsInv, in whatever order gets arrive.                *)
LEMMA NextGets ==
  ASSUME TypePhase, TypePhase', GetsInv, [Next]_vars
  PROVE  GetsInv'
<1> DEFINE k == cube[PE0]
           l == pc[PE0]
           T == TrailCube
<1>0. /\ TypeOK /\ PhaseInv /\ k \in Kernel \cup {T} /\ k \in Nat
      /\ Slot(k) \in Slots /\ PE0 \in PEs /\ Depth \in Nat \ {0}
      /\ T = NbCubes + 1 /\ NbCubes \in Nat \ {0} /\ T \notin Kernel
      /\ Kernel = 0 .. NbCubes - 1
      /\ pc \in [PEs -> Labels] /\ cube \in [PEs -> Kernel \cup {T}]
  BY CubeNumber, ConstantTypes DEF TypePhase, TypeOK, Kernel
<1>s. call \in Nat /\ (call' = call \/ (NextCall /\ call' = call + 1))
  <2>1. \A i : GetArrives(i) => call' = call
    BY GetArrivesEffect
  <2>2. PutSent => call' = call
    BY PutSentEffect
  <2>3. PE0Step \/ LocalBarrier \/ UNCHANGED vars => call' = call
    BY DEF PE0Step, Prologue, WaitGet, PutCube, GetNext, Epilogue, TrailingCalls,
           TrailingReturns, LocalBarrier, vars
  <2>4. \A p \in PEs : Monitor(p) => call' = call
    BY DEF Monitor
  <2>5. NextCall => call' = call + 1
    BY DEF NextCall
  <2>. QED  BY <2>1, <2>2, <2>3, <2>4, <2>5, CubeNumber DEF Next, Dma, Finished
<1>a. ASSUME call' = call PROVE \A a, c : Job(a, c)' = Job(a, c)
  BY <1>a DEF Job
<1>f. \A j \in gets : Forgotten(j) => Forgotten(j)'
  BY <1>s, GetJob DEF Forgotten
<1>b. /\ \A j \in gets : j.array = "vel" => GetInWindow(j) \/ Forgotten(j)
      /\ TicketInv
  BY DEF GetsInv
<1>c. ASSUME UNCHANGED <<call, getEv>>, cube'[PE0] = k, gets' \subseteq gets,
             l \notin {"prologue", "wait", "returns_vel"},
             pc'[PE0] \notin {"prologue", "wait"}
      PROVE  GetsInv'
  <2>1. \A j \in gets' : j.array = "vel" => GetInWindow(j)' \/ Forgotten(j)'
    BY <1>b, <1>c, <1>f DEF GetInWindow
  <2>2. TicketInv'
    BY <1>a, <1>b, <1>c DEF TicketInv
  <2>. QED  BY <2>1, <2>2 DEF GetsInv
<1>d. ASSUME UNCHANGED <<call, pc, cube, getEv>>, gets' \subseteq gets
      PROVE  GetsInv'
  <2>1. \A j \in gets' : j.array = "vel" => GetInWindow(j)' \/ Forgotten(j)'
    BY <1>b, <1>d, <1>f DEF GetInWindow
  <2>2. TicketInv'
    BY <1>a, <1>b, <1>d DEF TicketInv
  <2>. QED  BY <2>1, <2>2 DEF GetsInv
<1>1. ASSUME Prologue PROVE GetsInv'
  <2>1. /\ l = "prologue" /\ k = 0 /\ pc'[PE0] = "wait" /\ cube'[PE0] = 0
        /\ call' = call
        /\ gets' = gets \cup UNION {GetsOf(c) : c \in 0 .. NbPrefetched - 1}
        /\ getEv' = [s \in Slots |->
                       IF s < NbPrefetched THEN Ticket(s) ELSE getEv[s]]
    BY <1>0, <1>1 DEF Prologue, Goto, PhaseInv, data
  <2>2. \A a, c : Job(a, c)' = Job(a, c)
    BY <1>a, <2>1
  <2>3. ASSUME NEW j \in gets', j.array = "vel", ~ Forgotten(j)'
        PROVE  GetInWindow(j)'
    <3>1. j \notin gets
      BY <1>b, <1>f, <2>1, <2>3 DEF GetInWindow
    <3>2. PICK c \in 0 .. NbPrefetched - 1 : j \in GetsOf(c)
      BY <2>1, <3>1
    <3>3. j = Job("vel", c)
      BY <2>3, <3>2, JobFields DEF GetsOf
    <3>4. c \in Nat /\ c < NbCubes /\ c < Depth
      BY <3>2, ConstantTypes
    <3>5. c # T /\ c # NbCubes /\ 0 # T
      BY <1>0, <3>4
    <3>. QED  BY <1>0, <2>1, <3>3, <3>4, <3>5, JobFields DEF GetInWindow
  <2>4. ASSUME NEW c \in Kernel, c < Depth PROVE getEv'[Slot(c)] = Job("vel", c)
    <3>1. c \in Nat /\ c < NbCubes
      BY <1>0
    <3>2. Slot(c) = c /\ c \in Slots
      BY <2>4, <3>1, SlotType
    <3>3. c < NbPrefetched
      BY <2>4, <3>1, ConstantTypes
    <3>. QED  BY <2>1, <3>2, <3>3 DEF Ticket
  <2>5. TicketInv'
    <3>1. \A c \in Kernel : c < cube'[PE0] + Depth => c < Depth
      BY <1>0, <2>1
    <3>. QED  BY <2>1, <2>2, <2>4, <3>1 DEF TicketInv
  <2>. QED  BY <2>3, <2>5 DEF GetsInv
<1>2. ASSUME WaitGet PROVE GetsInv'
  <2>1. /\ l = "wait" /\ k \in Kernel /\ pc'[PE0] = "enter" /\ cube'[PE0] = k
        /\ UNCHANGED <<call, gets, getEv>> /\ Complete(getEv[Slot(k)])
    BY <1>0, <1>2 DEF WaitGet, Goto, PhaseInv, dma
  <2>2. Job("vel", k) \notin gets
    <3>1. getEv[Slot(k)] = Job("vel", k)
      BY <1>0, <1>b, <2>1 DEF TicketInv
    <3>. QED  BY <2>1, <3>1 DEF Complete
  <2>3. ASSUME NEW j \in gets, j.array = "vel", ~ Forgotten(j)'
        PROVE  GetInWindow(j)'
    <3>1. GetInWindow(j)
      BY <1>b, <1>f, <2>3
    <3>2. j = Job("vel", j.cube) /\ j.cube \in Nat
      BY <2>3, <3>1, GetJob
    <3>3. k <= j.cube /\ j.cube < k + Depth /\ j.cube # k
      BY <2>1, <2>2, <3>1, <3>2 DEF GetInWindow
    <3>4. k < j.cube
      BY <1>0, <3>2, <3>3
    <3>. QED  BY <1>0, <2>1, <3>1, <3>3, <3>4 DEF GetInWindow
  <2>4. TicketInv'
    BY <1>a, <1>b, <2>1 DEF TicketInv
  <2>. QED  BY <2>1, <2>3, <2>4 DEF GetsInv
<1>3. ASSUME PutCube PROVE GetsInv'
  <2>1. /\ l = "post" /\ pc'[PE0] = "refill" /\ cube'[PE0] = k
        /\ UNCHANGED <<call, gets, getEv>>
    BY <1>0, <1>3 DEF PutCube, Goto
  <2>. QED  BY <1>c, <2>1
<1>4. ASSUME GetNext PROVE GetsInv'
  <2> DEFINE m == NextCube(k)
  <2>1. /\ l = "refill" /\ k \in Kernel /\ cube'[PE0] = m /\ call' = call
        /\ pc'[PE0] = IF m \in Kernel THEN "wait" ELSE "epilogue"
    BY <1>0, <1>4, CubeTypes DEF GetNext, Goto, PhaseInv
  <2>2. /\ Prefetches(k) => /\ gets' = gets \cup GetsOf(k + Depth)
                            /\ getEv' = [getEv EXCEPT ![Slot(k)] = Ticket(k + Depth)]
        /\ ~ Prefetches(k) => UNCHANGED <<gets, getEv>>
    BY <1>4 DEF GetNext
  <2>3. /\ m \in Kernel => m = k + 1
        /\ m \notin Kernel => m = T /\ k + 1 = NbCubes
        /\ k < NbCubes
    BY <2>1, NextCubes
  <2>4. /\ \A a, c : Job(a, c)' = Job(a, c)
        /\ getEv \in [Slots -> Jobs \cup {NoTicket}]
    BY <1>0, <1>a, <2>1 DEF TypeOK
  <2>5. Slot(k + Depth) = Slot(k) /\ (Prefetches(k) <=> k + Depth <= NbCubes)
    BY <1>0, SlotShift, PrefetchesIf
  <2> HIDE DEF m
  <2>6. ASSUME NEW j \in gets', j.array = "vel", ~ Forgotten(j)'
        PROVE  GetInWindow(j)'
    <3>1. j \in gets \/ (Prefetches(k) /\ j = Job("vel", k + Depth))
      BY <2>2, <2>6, JobFields DEF GetsOf
    <3>2. CASE j \in gets
      <4>1. GetInWindow(j) /\ j.cube \in Nat /\ j.cube <= T
        BY <1>b, <1>f, <2>6, <3>2, GetJob
      <4>2. k < j.cube /\ j.cube < k + Depth /\ j.cube # T
        BY <2>1, <4>1 DEF GetInWindow
      <4>3. m \in Kernel => m <= j.cube /\ j.cube < m + Depth /\ m # T
        BY <1>0, <2>3, <4>1, <4>2
      <4>4. m \notin Kernel => j.cube = NbCubes
        BY <1>0, <2>3, <4>1, <4>2
      <4>. QED  BY <2>1, <2>3, <4>1, <4>2, <4>3, <4>4 DEF GetInWindow
    <3>3. CASE Prefetches(k) /\ j = Job("vel", k + Depth)
      <4>1. /\ k + Depth <= NbCubes /\ k + Depth # T
            /\ k + Depth = NbCubes => Depth <= NbCubes
        BY <1>0, <2>5, <3>3
      <4>2. m \in Kernel => m <= k + Depth /\ k + Depth < m + Depth /\ m # T
        BY <1>0, <2>3
      <4>3. m \notin Kernel => k + Depth = NbCubes
        BY <1>0, <2>3, <4>1
      <4>4. /\ j.buf = Slot(k + Depth) /\ j.cube = k + Depth /\ j.call = call
        BY <3>3, JobFields
      <4>. QED  BY <2>1, <2>3, <4>1, <4>2, <4>3, <4>4 DEF GetInWindow
    <3>. QED  BY <3>1, <3>2, <3>3
  <2>7. ASSUME m \in Kernel, NEW c \in Kernel, m <= c, c < m + Depth
        PROVE  getEv'[Slot(c)] = Job("vel", c)
    <3>0. c \in Nat /\ c < NbCubes /\ m = k + 1
      BY <1>0, <2>3, <2>7
    <3>1. CASE c = k + Depth
      <4>1. Prefetches(k)
        BY <1>0, <2>5, <3>0, <3>1
      <4>. QED  BY <1>0, <2>2, <2>4, <2>5, <3>1, <4>1 DEF Ticket
    <3>2. CASE c # k + Depth
      <4>1. k < c /\ c < k + Depth
        BY <1>0, <2>7, <3>0, <3>2
      <4>2. Slot(c) # Slot(k) /\ Slot(c) \in Slots
        <5>1. k < c + Depth
          BY <1>0, <4>1, <3>0
        <5>. QED  BY <1>0, <3>0, <4>1, <5>1, SlotWindow, SlotType
      <4>3. getEv[Slot(c)] = Job("vel", c)
        BY <1>b, <2>1, <4>1 DEF TicketInv
      <4>4. getEv'[Slot(c)] = getEv[Slot(c)]
        BY <2>2, <2>4, <4>2
      <4>. QED  BY <4>3, <4>4
    <3>. QED  BY <3>1, <3>2
  <2>8. TicketInv'
    <3>1. \A c \in Kernel : m < c \/ c = m => m <= c
      BY <1>0, <2>3
    <3>. QED  BY <2>1, <2>4, <2>7, <3>1 DEF TicketInv
  <2>. QED  BY <2>6, <2>8 DEF GetsInv
<1>5. ASSUME Epilogue PROVE GetsInv'
  <2>1. /\ l = "epilogue" /\ pc'[PE0] \in {"trailing_src", "done"}
        /\ cube'[PE0] = k /\ UNCHANGED <<call, gets, getEv>>
    BY <1>0, <1>5 DEF Epilogue, Goto, dma
  <2>. QED  BY <1>c, <2>1
<1>6. ASSUME TrailingCalls PROVE GetsInv'
  <2>1. k = T /\ cube'[PE0] = T /\ UNCHANGED <<call, getEv>>
    BY <1>6, TrailingCallsEffect
  <2>2. CASE l \in {"post", "trailing_bitmap"}
    <3>1. gets' = gets /\ pc'[PE0] \in {"returns_put", "returns_bitmap"}
      BY <1>6, <2>2, TrailingCallsEffect
    <3>. QED  BY <1>c, <2>1, <2>2, <3>1
  <2>3. CASE l \in {"trailing_src", "trailing_vel"}
    <3>1. \/ pc'[PE0] = "returns_src" /\ gets' = gets \cup {Job("src", T)}
          \/ pc'[PE0] = "returns_vel" /\ gets' = gets \cup {Job("vel", T)}
      BY <1>6, <2>3, TrailingCallsEffect
    <3>2. ASSUME NEW j \in gets', j.array = "vel", ~ Forgotten(j)'
          PROVE  GetInWindow(j)'
      <4>1. CASE j \in gets
        <5>1. GetInWindow(j)
          BY <1>b, <1>f, <3>2, <4>1
        <5>2. j.cube # T
          BY <2>3, <5>1 DEF GetInWindow
        <5>. QED  BY <1>0, <2>1, <2>3, <3>1, <5>1, <5>2 DEF GetInWindow
      <4>2. CASE j \notin gets
        <5>1. pc'[PE0] = "returns_vel" /\ j = Job("vel", T)
          BY <3>1, <3>2, <4>2, JobFields
        <5>2. T # NbCubes
          BY <1>0
        <5>. QED  BY <1>0, <2>1, <5>1, <5>2, JobFields DEF GetInWindow
      <4>. QED  BY <4>1, <4>2
    <3>3. TicketInv'
      BY <1>0, <2>1 DEF TicketInv
    <3>. QED  BY <3>2, <3>3 DEF GetsInv
  <2>. QED  BY <1>6, <2>2, <2>3, TrailingCallsEffect
<1>7. ASSUME TrailingReturns PROVE GetsInv'
  <2>1. k = T /\ cube'[PE0] = T /\ UNCHANGED <<call, gets, getEv>>
    BY <1>7, TrailingReturnsEffect DEF dma
  <2>2. CASE l # "returns_vel"
    <3>1. /\ l \notin {"prologue", "wait"}
          /\ pc'[PE0] \in {"trailing_vel", "trailing_bitmap", "done"}
      BY <1>7, <2>2, TrailingReturnsEffect
    <3>. QED  BY <1>c, <2>1, <2>2, <3>1
  <2>3. CASE l = "returns_vel"
    <3>1. pc'[PE0] = "enter" /\ Complete(Job("vel", T))
      BY <1>7, <2>3, TrailingReturnsEffect
    <3>2. ASSUME NEW j \in gets, j.array = "vel", ~ Forgotten(j)'
          PROVE  GetInWindow(j)'
      <4>1. GetInWindow(j) /\ j = Job("vel", j.cube)
        BY <1>b, <1>f, <3>2, GetJob
      <4>2. j.cube # T
        BY <3>1, <4>1 DEF Complete
      <4>. QED  BY <1>0, <2>1, <2>3, <3>1, <4>1, <4>2 DEF GetInWindow
    <3>3. TicketInv'
      BY <1>0, <2>1 DEF TicketInv
    <3>. QED  BY <2>1, <3>2, <3>3 DEF GetsInv
  <2>. QED  BY <2>2, <2>3
<1>8. ASSUME LocalBarrier PROVE GetsInv'
  <2>1. /\ UNCHANGED <<call, gets, getEv>> /\ cube'[PE0] = k
        /\ l \in {"enter", "leave"} /\ pc'[PE0] \in {"monitor", "post"}
    BY <1>0, <1>8 DEF LocalBarrier, Arrived, dma
  <2>. QED  BY <1>c, <2>1
<1>9. ASSUME NEW p \in PEs, Monitor(p) PROVE GetsInv'
  <2>1. /\ l \in {"monitor", "leave"} /\ pc'[PE0] \in {l, "leave"}
        /\ UNCHANGED <<call, cube, gets, getEv>>
    BY <1>0, <1>9, Together DEF Monitor, Goto, dma
  <2>. QED  BY <1>c, <2>1
<1>10. ASSUME NextCall PROVE GetsInv'
  <2>1. /\ l = "done" /\ k = T /\ pc'[PE0] = "prologue" /\ call' = call + 1
        /\ gets' = gets
    BY <1>0, <1>10 DEF NextCall, AllDone, StartPc, PhaseInv, dma
  <2>2. ASSUME NEW j \in gets, j.array = "vel" PROVE Forgotten(j)'
    <3>1. CASE Forgotten(j)
      BY <1>f, <3>1
    <3>2. CASE GetInWindow(j)
      <4>1. /\ j.cube = NbCubes /\ Depth <= NbCubes /\ j.buf = Slot(j.cube)
            /\ j.call = call
        BY <1>0, <2>1, <3>2 DEF GetInWindow
      <4>. QED  BY <1>s, <2>1, <4>1 DEF Forgotten
    <3>. QED  BY <1>b, <2>2, <3>1, <3>2
  <2>3. TicketInv'
    BY <2>1 DEF TicketInv
  <2>. QED  BY <2>1, <2>2, <2>3 DEF GetsInv
<1>11. ASSUME NEW j \in gets, GetArrives(j) PROVE GetsInv'
  BY <1>d, <1>11, GetArrivesEffect
<1>12. ASSUME PutSent PROVE GetsInv'
  BY <1>d, <1>12, PutSentEffect
<1>13. CASE UNCHANGED vars
  BY <1>d, <1>13 DEF vars, dma
<1>. QED
  BY <1>1, <1>2, <1>3, <1>4, <1>5, <1>6, <1>7, <1>8, <1>9, <1>10, <1>11,
     <1>12, <1>13 DEF Next, PE0Step, Dma, Finished

-----------------------------------------------------------------------------
(***************************************************************************)
(* Which cubes are summed, and whose velocities are asked to be put.       *)
(***************************************************************************)
Asks == pc[PE0] = "post" /\ pc'[PE0] \in {"refill", "returns_put"}

(* A PE leaves monitor_cube: its plane of PE0's cube is summed.            *)
LEMMA MonitorProgress ==
  ASSUME TypePhase, NEW q \in PEs, Monitor(q)
  PROVE  /\ UNCHANGED <<call, cube, dma, memory, image>>
         /\ cube[q] = cube[PE0] /\ cube[PE0] \in OwnCubes
         /\ pc[PE0] \in {"monitor", "leave"} /\ pc'[PE0] \in {"monitor", "leave"}
         /\ ~ HasMonitored(q)
         /\ \A p \in PEs : HasMonitored(p)' <=> HasMonitored(p) \/ p = q
         /\ \A p \in PEs, c \in OwnCubes :
              Summed(p, c)' <=> Summed(p, c) \/ (p = q /\ c = cube[PE0])
         /\ \A c \in OwnCubes : Asked(c)' <=> Asked(c)
<1>1. /\ pc[PE0] \in {"monitor", "leave"}
      /\ cube[q] = cube[PE0] /\ cube[PE0] \in OwnCubes
      /\ \A p \in PEs : pc[p] \in {"monitor", "leave"}
  BY Together DEF Monitor
<1>2. /\ UNCHANGED <<call, cube, dma, memory, image>>
      /\ pc[q] = "monitor" /\ pc' = [pc EXCEPT ![q] = "leave"]
      /\ pc \in [PEs -> Labels]
  BY DEF Monitor, Goto, TypePhase, TypeOK
<1>3. PE0 \in PEs
  BY ConstantTypes
<1>4. pc'[PE0] \in {"monitor", "leave"}
  BY <1>1, <1>2, <1>3
<1>5. ~ HasMonitored(q)
  BY <1>1, <1>2 DEF HasMonitored, Cleared
<1>6. \A p \in PEs : HasMonitored(p)' <=> HasMonitored(p) \/ p = q
  BY <1>1, <1>2, <1>4 DEF HasMonitored, Cleared
<1>7. \A p \in PEs, c \in OwnCubes :
        Summed(p, c)' <=> Summed(p, c) \/ (p = q /\ c = cube[PE0])
  BY <1>2, <1>6 DEF Summed
<1>8. \A c \in OwnCubes : Asked(c)' <=> Asked(c)
  BY <1>1, <1>2, <1>4 DEF Asked, Cleared
<1>. QED  BY <1>1, <1>2, <1>4, <1>5, <1>6, <1>7, <1>8

(* No other step of a call changes what is summed, and only the posting of *)
(* a put what is asked.                                                    *)
LEMMA Progress ==
  ASSUME TypePhase, PE0Step \/ LocalBarrier \/ Dma \/ UNCHANGED vars
  PROVE  /\ UNCHANGED <<call, delta, bitmap>>
         /\ \A p \in PEs, c \in OwnCubes : Summed(p, c)' <=> Summed(p, c)
         /\ \A c \in OwnCubes :
              Asked(c)' <=> Asked(c) \/ (Asks /\ c = cube[PE0])
<1> DEFINE k == cube[PE0]
           l == pc[PE0]
           Same == /\ UNCHANGED <<call, delta, bitmap>>
                   /\ \A p \in PEs, c \in OwnCubes : Summed(p, c)' <=> Summed(p, c)
                   /\ \A c \in OwnCubes :
                        Asked(c)' <=> Asked(c) \/ (Asks /\ c = k)
<1>0. /\ PhaseInv /\ TypeOK /\ k \in Nat /\ k \in Kernel \cup {TrailCube}
      /\ pc \in [PEs -> Labels] /\ cube \in [PEs -> Kernel \cup {TrailCube}]
  BY CubeNumber DEF TypePhase, TypeOK
<1>1. /\ PE0 \in PEs /\ Clients \subseteq PEs /\ OwnCubes \subseteq Nat
      /\ TrailCube \in Nat /\ OwnCubes \subseteq 0 .. TrailCube
      /\ ~ HasTrailing => TrailCube \notin OwnCubes
      /\ OwnCubes \subseteq Kernel \cup {TrailCube}
  BY ConstantTypes
<1>2. ASSUME Prologue PROVE Same
  <2>1. /\ l = "prologue" /\ pc'[PE0] = "wait" /\ UNCHANGED <<cube, call, delta, bitmap>>
    BY <1>0, <1>1, <1>2 DEF Prologue, Goto, data
  <2>. QED  BY <2>1 DEF Summed, HasMonitored, Asked, Asks, Cleared
<1>3. ASSUME WaitGet PROVE Same
  <2>1. /\ l = "wait" /\ pc'[PE0] = "enter" /\ UNCHANGED <<cube, call, delta, bitmap>>
    BY <1>0, <1>1, <1>3 DEF WaitGet, Goto, data
  <2>. QED  BY <2>1 DEF Summed, HasMonitored, Asked, Asks, Cleared
<1>4. ASSUME PutCube PROVE Same
  <2>1. /\ l = "post" /\ pc'[PE0] = "refill" /\ UNCHANGED <<cube, call, delta, bitmap>>
    BY <1>0, <1>1, <1>4 DEF PutCube, Goto, data
  <2>. QED  BY <2>1 DEF Summed, HasMonitored, Asked, Asks, Cleared
<1>5. ASSUME GetNext PROVE Same
  <2>1. /\ l = "refill" /\ pc'[PE0] \in {"wait", "epilogue"} /\ k \in Kernel
        /\ cube'[PE0] = NextCube(k) /\ UNCHANGED <<call, delta, bitmap>>
    BY <1>0, <1>1, <1>5 DEF GetNext, Goto, data, PhaseInv
  <2>2. \A c \in OwnCubes : c < NextCube(k) <=> c <= k
    <3>1. k < NbCubes /\ NbCubes \in Nat /\ TrailCube = NbCubes + 1
          /\ Kernel = 0 .. NbCubes - 1
      BY <2>1, NextCubes, ConstantTypes DEF Kernel
    <3>2. CASE NextCube(k) \in Kernel
      <4>1. NextCube(k) = k + 1
        BY <2>1, <3>2, NextCubes
      <4>. QED  BY <1>0, <1>1, <4>1
    <3>3. CASE NextCube(k) \notin Kernel
      <4>1. NextCube(k) = TrailCube /\ k + 1 = NbCubes
        BY <2>1, <3>3, NextCubes
      <4>. QED  BY <1>0, <1>1, <3>1, <4>1
    <3>. QED  BY <3>2, <3>3
  <2>3. \A p \in PEs, c \in OwnCubes : Summed(p, c) <=> c <= k
    BY <1>0, <1>1, <2>1 DEF Summed, HasMonitored
  <2>4. \A p \in PEs, c \in OwnCubes : Summed(p, c)' <=> c < NextCube(k)
    BY <2>1 DEF Summed, HasMonitored, Cleared
  <2>5. \A c \in OwnCubes : Asked(c) <=> c <= k
    <3>1. \A c \in OwnCubes : Asked(c) <=> c < k \/ c = k
      BY <2>1 DEF Asked, Cleared
    <3>. QED  BY <1>0, <1>1, <3>1
  <2>6. \A c \in OwnCubes : Asked(c)' <=> c < NextCube(k)
    BY <2>1 DEF Asked, Cleared
  <2>. QED  BY <2>1, <2>2, <2>3, <2>4, <2>5, <2>6 DEF Asks
<1>6. ASSUME Epilogue PROVE Same
  <2>1. /\ l = "epilogue" /\ UNCHANGED <<cube, call, delta, bitmap>> /\ k = TrailCube
        /\ pc'[PE0] = IF HasTrailing THEN "trailing_src" ELSE "done"
    BY <1>0, <1>1, <1>6 DEF Epilogue, Goto, data, PhaseInv
  <2>2. CASE HasTrailing
    BY <2>1, <2>2 DEF Summed, HasMonitored, Asked, Asks, Cleared
  <2>3. CASE ~ HasTrailing
    BY <1>1, <2>1, <2>3 DEF Summed, HasMonitored, Asked, Asks, Cleared
  <2>. QED  BY <2>2, <2>3
<1>7. ASSUME TrailingCalls PROVE Same
  <2>1. UNCHANGED <<cube, call, delta, bitmap>>
    BY <1>7, TrailingCallsEffect DEF data
  <2>2. \/ l = "trailing_src" /\ pc'[PE0] = "returns_src"
        \/ l = "trailing_vel" /\ pc'[PE0] = "returns_vel"
        \/ l = "post" /\ pc'[PE0] = "returns_put"
        \/ l = "trailing_bitmap" /\ pc'[PE0] = "returns_bitmap"
    BY <1>7, TrailingCallsEffect
  <2>. QED  BY <2>1, <2>2 DEF Summed, HasMonitored, Asked, Asks, Cleared
<1>8. ASSUME TrailingReturns PROVE Same
  <2>1. UNCHANGED <<cube, call, delta, bitmap>>
    BY <1>8, TrailingReturnsEffect DEF data
  <2>2. \/ l = "returns_src" /\ pc'[PE0] = "trailing_vel"
        \/ l = "returns_vel" /\ pc'[PE0] = "enter"
        \/ l \in {"returns_put", "returns_bitmap"} /\ pc'[PE0] \in {"trailing_bitmap", "done"}
    BY <1>8, TrailingReturnsEffect
  <2>. QED  BY <2>1, <2>2 DEF Summed, HasMonitored, Asked, Asks, Cleared
<1>9. ASSUME LocalBarrier PROVE Same
  <2>1. UNCHANGED <<call, delta, bitmap>> /\ cube'[PE0] = k
    BY <1>1, <1>9 DEF LocalBarrier, data
  <2>2. CASE l = "enter"
    <3>1. \A p \in PEs : pc[p] = "enter"
      BY <1>0, <1>1, <1>9, <2>2, ConstantTypes DEF LocalBarrier, Arrived, PhaseInv, ClientAt
    <3>2. \A p \in PEs : pc'[p] = "monitor"
      BY <1>9, <3>1 DEF LocalBarrier
    <3>. QED  BY <1>1, <2>1, <2>2, <3>2 DEF Summed, HasMonitored, Asked, Asks, Cleared
  <2>3. CASE l = "leave"
    <3>1. \A p \in PEs : pc[p] = "leave"
      BY <1>0, <1>1, <1>9, <2>3, ConstantTypes DEF LocalBarrier, Arrived, PhaseInv
    <3>2. pc'[PE0] = "post"
      BY <1>1, <1>9, <2>3 DEF LocalBarrier
    <3>. QED  BY <2>1, <2>3, <3>1, <3>2 DEF Summed, HasMonitored, Asked, Asks, Cleared
  <2>. QED  BY <1>1, <1>9, <2>2, <2>3 DEF LocalBarrier, Arrived
<1>10. ASSUME UNCHANGED <<call, pc, cube, delta, bitmap>> PROVE Same
  BY <1>10 DEF Summed, HasMonitored, Asked, Asks
<1>11. ASSUME Dma \/ UNCHANGED vars PROVE Same
  BY <1>10, <1>11, PutSentEffect, GetArrivesEffect DEF Dma, vars, data
<1>. QED
  BY <1>2, <1>3, <1>4, <1>5, <1>6, <1>7, <1>8, <1>9, <1>11 DEF PE0Step
-----------------------------------------------------------------------------
(***************************************************************************)
(* The velocities.                                                         *)
(***************************************************************************)

(* While the velocities of a cube that has a buffer are still to come, it  *)
(* is not summed, nor put.                                                 *)
LEMMA NotPending ==
  ASSUME TypePhase, GetsInv, NEW c \in OwnCubes, Holds(c),
         Job("vel", c) \in gets
  PROVE  /\ ~ Asked(c) /\ \A p \in PEs : ~ Summed(p, c)
         /\ c = cube[PE0] => pc[PE0] \in {"wait", "returns_vel"}
<1> DEFINE k == cube[PE0]
           l == pc[PE0]
<1>1. /\ k \in Nat /\ call \in Nat /\ c \in Nat /\ k \in Kernel \cup {TrailCube}
      /\ TrailCube \notin Kernel /\ NbCubes \notin Kernel /\ PhaseInv
  BY CubeNumber, ConstantTypes DEF TypePhase, Kernel
<1>2. Job("vel", c).array = "vel" /\ Job("vel", c).cube = c
      /\ Job("vel", c).call = call
  BY JobFields
<1>3. GetInWindow(Job("vel", c))
  <2>1. ~ Forgotten(Job("vel", c))
    BY <1>1, <1>2 DEF Forgotten
  <2>. QED  BY <1>2, <2>1 DEF GetsInv
<1>4. CASE k \in Kernel
  <2>1. l = "wait" => k <= c
    BY <1>2, <1>3 DEF GetInWindow
  <2>2. l # "wait" => k < c
    BY <1>2, <1>3, <1>4 DEF GetInWindow
  <2>3. ~ (c < k) /\ (c = k => l = "wait")
    BY <1>1, <2>1, <2>2
  <2>. QED  BY <2>3 DEF Asked, Summed, HasMonitored, Cleared
<1>5. CASE k = TrailCube
  <2>1. c \in {NbCubes, TrailCube}
    BY <1>2, <1>3, <1>5 DEF GetInWindow
  <2>2. c = TrailCube
    BY <1>1, <2>1 DEF Holds
  <2>3. l = "returns_vel"
    BY <1>2, <1>3, <2>2 DEF GetInWindow
  <2>. QED  BY <1>1, <1>5, <2>2, <2>3 DEF Asked, Summed, HasMonitored, Cleared
<1>. QED  BY <1>1, <1>4, <1>5

(* A get of velocities on its way to that buffer is the cube's own, or the *)
(* one of cube NbCubes.                                                    *)
LEMMA Arrives ==
  ASSUME TypePhase, GetsInv, NEW c \in OwnCubes, Holds(c),
         NEW j \in gets, j.array = "vel", j.buf = Slot(c)
  PROVE  \/ j = Job("vel", c)
         \/ j.cube = NbCubes /\ Content(NbCubes, 0) \in Alien(c)
<1> DEFINE k == cube[PE0]
           l == pc[PE0]
<1>1. /\ k \in Nat /\ call \in Nat /\ c \in Nat /\ k \in Kernel \cup {TrailCube}
      /\ TrailCube \notin Kernel /\ NbCubes \notin Kernel
      /\ c \in Kernel \cup {TrailCube}
      /\ NbCubes \in Nat \ {0} /\ Depth \in Nat \ {0} /\ TrailCube = NbCubes + 1
      /\ Kernel = 0 .. NbCubes - 1 /\ call > 0
  BY CubeNumber, ConstantTypes DEF Kernel
<1>2. j.cube \in Nat /\ j.call \in Nat /\ j.call > 0 /\ j.cube <= TrailCube
  BY GetJob
<1>p. PhaseInv
  BY DEF TypePhase
<1>3. ASSUME j.cube = NbCubes, Depth <= NbCubes, call > 1 \/ c = TrailCube,
             j.buf = Slot(j.cube)
      PROVE  Content(NbCubes, 0) \in Alien(c)
  <2>1. Slot(c) = Slot(NbCubes)
    BY <1>3
  <2>2. NbCubes >= Depth
    BY <1>1, <1>3
  <2>. QED  BY <1>3, <2>1, <2>2 DEF Alien
<1>4. CASE Forgotten(j)
  <2>1. call > 1
    BY <1>1, <1>2, <1>4 DEF Forgotten
  <2>. QED  BY <1>3, <1>4, <2>1 DEF Forgotten
<1>5. CASE GetInWindow(j)
  <2>1. j = Job("vel", j.cube) /\ j.buf = Slot(j.cube)
        /\ (j.cube = NbCubes => Depth <= NbCubes)
    BY <1>5, GetJob DEF GetInWindow
  <2>2. j.cube = c => j = Job("vel", c)
    BY <2>1
  <2>3. CASE c = TrailCube
    <3>1. k = TrailCube
      BY <1>1, <2>3 DEF Holds
    <3>2. j.cube \in {NbCubes, TrailCube}
      BY <1>5, <3>1 DEF GetInWindow
    <3>. QED  BY <1>3, <2>1, <2>2, <2>3, <3>2
  <2>4. CASE c \in Kernel /\ k \in Kernel
    <3>1. k <= j.cube /\ j.cube < k + Depth
      BY <1>1, <1>2, <1>5, <2>4 DEF GetInWindow
    <3>2. c < k + Depth /\ (k <= c \/ NbCubes < Depth)
      BY <1>1, <2>4 DEF Holds
    <3>3. CASE k <= c
      <4>1. c < j.cube + Depth /\ j.cube < c + Depth
        BY <1>1, <1>2, <3>1, <3>2, <3>3
      <4>2. c = j.cube
        BY <1>1, <1>2, <2>1, <4>1, SlotWindow
      <4>. QED  BY <2>2, <4>2
    <3>4. CASE NbCubes < Depth
      <4>1. j.cube # NbCubes
        BY <1>1, <2>1, <3>4
      <4>2. j.cube # TrailCube
        <5>1. j.cube = TrailCube => l = "returns_vel"
          BY <1>5 DEF GetInWindow
        <5>2. l = "returns_vel" => k = TrailCube
          BY <1>p DEF PhaseInv, Trailing
        <5>. QED  BY <1>1, <2>4, <5>1, <5>2
      <4>3. j.cube < Depth /\ c < Depth
        BY <1>1, <1>2, <2>4, <3>4, <4>1, <4>2
      <4>4. c < j.cube + Depth /\ j.cube < c + Depth
        BY <1>1, <1>2, <4>3
      <4>5. c = j.cube
        BY <1>1, <1>2, <2>1, <4>4, SlotWindow
      <4>. QED  BY <2>2, <4>5
    <3>. QED  BY <3>2, <3>3, <3>4
  <2>5. CASE c \in Kernel /\ k = TrailCube
    <3>1. l = "epilogue" /\ (k <= c \/ NbCubes < Depth)
      BY <1>1, <2>5 DEF Holds
    <3>2. NbCubes < Depth
      BY <1>1, <2>5, <3>1
    <3>3. j.cube = NbCubes
      BY <1>5, <2>5, <3>1 DEF GetInWindow
    <3>. QED  BY <1>1, <2>1, <3>2, <3>3
  <2>. QED  BY <1>1, <2>3, <2>4, <2>5
<1>. QED  BY <1>4, <1>5 DEF GetsInv

(* Two cubes that have a buffer have different ones.                       *)
LEMMA HeldSlots ==
  ASSUME TypePhase, NEW a \in OwnCubes, NEW b \in OwnCubes, Holds(a), Holds(b),
         Slot(a) = Slot(b)
  PROVE  a = b
<1> DEFINE k == cube[PE0]
<1>1. /\ k \in Nat /\ a \in Nat /\ b \in Nat /\ k \in Kernel \cup {TrailCube}
      /\ TrailCube \notin Kernel /\ Depth \in Nat \ {0} /\ NbCubes \in Nat \ {0}
      /\ Kernel = 0 .. NbCubes - 1
  BY CubeNumber, ConstantTypes DEF Kernel
<1>p. pc[PE0] = "epilogue" => k = TrailCube
  BY DEF TypePhase, PhaseInv
<1>2. CASE a \notin Kernel \/ b \notin Kernel
  BY <1>1, <1>2 DEF Holds
<1>3. CASE a \in Kernel /\ b \in Kernel
  <2>1. /\ a < k + Depth /\ b < k + Depth
        /\ k <= a \/ NbCubes < Depth
        /\ k <= b \/ NbCubes < Depth
    BY <1>1, <1>3 DEF Holds
  <2>2. a < b + Depth /\ b < a + Depth
    BY <1>1, <1>3, <2>1
  <2>. QED  BY <1>1, <2>2, SlotWindow
<1>. QED  BY <1>2, <1>3

(* PE0's cube has its buffer while the PEs are in monitor_cube.            *)
LEMMA HeldHere ==
  ASSUME TypePhase, pc[PE0] \in {"enter", "monitor", "leave", "post", "refill"}
  PROVE  cube[PE0] \in OwnCubes /\ Holds(cube[PE0])
<1>1. cube[PE0] \in OwnCubes
  BY ConstantTypes DEF TypePhase, PhaseInv
<1>2. /\ cube[PE0] \in Nat /\ Depth \in Nat \ {0}
      /\ cube[PE0] \in Kernel \cup {TrailCube}
  BY CubeNumber, ConstantTypes
<1>3. pc[PE0] = "refill" => cube[PE0] \in Kernel
  BY DEF TypePhase, PhaseInv
<1>4. cube[PE0] < cube[PE0] + Depth /\ cube[PE0] <= cube[PE0]
  BY <1>2
<1>. QED  BY <1>1, <1>2, <1>3, <1>4 DEF Holds

(* A step of PE0 gives a cube its buffer by posting the get of its         *)
(* velocities, and writes no buffer itself.                                *)
LEMMA HoldsStays ==
  ASSUME TypePhase, PE0Step \/ LocalBarrier
  PROVE  /\ \A c \in OwnCubes : Holds(c)' => Holds(c) \/ Job("vel", c) \in gets'
         /\ gets \subseteq gets' /\ vel' = vel
<1> DEFINE k == cube[PE0]
           l == pc[PE0]
           T == TrailCube
           Stays == /\ \A c \in OwnCubes :
                         Holds(c)' => Holds(c) \/ Job("vel", c) \in gets'
                    /\ gets \subseteq gets' /\ vel' = vel
<1>0. /\ k \in Nat /\ k \in Kernel \cup {T} /\ PE0 \in PEs /\ T \in Nat
      /\ T \notin Kernel /\ Kernel = 0 .. NbCubes - 1 /\ T = NbCubes + 1
      /\ NbCubes \in Nat \ {0} /\ Depth \in Nat \ {0} /\ OwnCubes \subseteq Nat
      /\ OwnCubes \subseteq Kernel \cup {T} /\ T # 0
  BY CubeNumber, ConstantTypes DEF Kernel
<1>1. /\ PhaseInv /\ pc \in [PEs -> Labels] /\ cube \in [PEs -> Kernel \cup {T}]
  BY DEF TypePhase, TypeOK
<1>2. ASSUME cube'[PE0] = k, vel' = vel, gets \subseteq gets',
             l # "prologue" /\ l # "epilogue", pc'[PE0] # "epilogue",
             k = T => l \in {"returns_vel", "enter", "monitor", "leave", "post",
                             "returns_put", "trailing_bitmap"}
      PROVE  Stays
  BY <1>2 DEF Holds
<1>3. ASSUME cube'[PE0] = T, vel' = vel, gets \subseteq gets',
             pc'[PE0] \in {"trailing_src", "returns_src", "trailing_vel", "done"}
      PROVE  Stays
  BY <1>0, <1>3 DEF Holds
<1>4. CASE Prologue
  <2>1. /\ k = 0 /\ cube'[PE0] = 0 /\ pc'[PE0] = "wait" /\ vel' = vel
        /\ gets' = gets \cup UNION {GetsOf(c) : c \in 0 .. NbPrefetched - 1}
    <3>1. l = "prologue" /\ k = 0
      BY <1>1, <1>4 DEF Prologue, PhaseInv
    <3>. QED  BY <1>0, <1>1, <1>4, <3>1 DEF Prologue, Goto, data
  <2>2. ASSUME NEW c \in OwnCubes, Holds(c)' PROVE Job("vel", c) \in gets'
    <3>1. c \in Kernel /\ c < cube'[PE0] + Depth
      BY <1>0, <2>1, <2>2 DEF Holds
    <3>2. c < NbCubes /\ c < Depth /\ c \in Nat
      BY <1>0, <2>1, <3>1
    <3>3. c \in 0 .. NbPrefetched - 1
      BY <3>2, ConstantTypes
    <3>4. Job("vel", c) \in GetsOf(c)
      BY DEF GetsOf
    <3>. QED  BY <2>1, <3>3, <3>4
  <2>. QED  BY <2>1, <2>2
<1>5. CASE WaitGet
  <2>1. /\ l = "wait" /\ pc'[PE0] = "enter" /\ UNCHANGED <<cube, gets, vel>>
        /\ k \in Kernel
    BY <1>0, <1>1, <1>5 DEF WaitGet, Goto, PhaseInv, dma, data
  <2>. QED  BY <1>0, <1>2, <2>1
<1>6. CASE PutCube
  <2>1. /\ l = "post" /\ pc'[PE0] = "refill" /\ UNCHANGED <<cube, gets, vel>>
    BY <1>0, <1>1, <1>6 DEF PutCube, Goto, data
  <2>. QED  BY <1>2, <2>1
<1>7. CASE GetNext
  <2> DEFINE m == NextCube(k)
  <2>1. /\ l = "refill" /\ k \in Kernel /\ cube'[PE0] = m
        /\ pc'[PE0] = IF m \in Kernel THEN "wait" ELSE "epilogue"
    BY <1>0, <1>1, <1>7 DEF GetNext, Goto, PhaseInv
  <2>2. /\ vel' = vel /\ gets \subseteq gets'
        /\ Prefetches(k) => gets' = gets \cup GetsOf(k + Depth)
    BY <1>7 DEF GetNext, data
  <2>3. /\ m \in Kernel => m = k + 1
        /\ m \notin Kernel => m = T /\ k + 1 = NbCubes
    BY <2>1, NextCubes
  <2>4. k < NbCubes /\ (Prefetches(k) <=> k + Depth <= NbCubes)
    BY <1>0, <2>1, PrefetchesIf
  <2> HIDE DEF m
  <2>5. ASSUME NEW c \in OwnCubes, Holds(c)'
        PROVE  Holds(c) \/ Job("vel", c) \in gets'
    <3>1. CASE m \in Kernel
      <4>1. /\ c \in Kernel /\ c < m + Depth /\ (m <= c \/ NbCubes < Depth)
        BY <1>0, <2>1, <2>5, <3>1 DEF Holds
      <4>2. c \in Nat /\ c < NbCubes /\ m = k + 1
        BY <1>0, <2>3, <3>1, <4>1
      <4>3. CASE c = k + Depth
        <5>1. Prefetches(k)
          BY <1>0, <2>4, <4>2, <4>3
        <5>2. Job("vel", c) \in GetsOf(k + Depth)
          BY <4>3 DEF GetsOf
        <5>. QED  BY <2>2, <5>1, <5>2
      <4>4. CASE c # k + Depth
        <5>1. c < k + Depth /\ (k <= c \/ NbCubes < Depth)
          BY <1>0, <4>1, <4>2, <4>4
        <5>. QED  BY <2>1, <4>1, <5>1 DEF Holds
      <4>. QED  BY <4>3, <4>4
    <3>2. CASE m \notin Kernel
      <4>1. m = T /\ pc'[PE0] = "epilogue" /\ cube'[PE0] = T
        BY <2>1, <2>3, <3>2
      <4>2. c \in Kernel /\ (T <= c \/ NbCubes < Depth)
        BY <1>0, <2>5, <4>1 DEF Holds
      <4>3. c < k + Depth /\ NbCubes < Depth
        BY <1>0, <4>2
      <4>. QED  BY <2>1, <4>2, <4>3 DEF Holds
    <3>. QED  BY <3>1, <3>2
  <2>. QED  BY <2>2, <2>5
<1>8. CASE Epilogue
  <2>1. /\ k = T /\ cube'[PE0] = T /\ pc'[PE0] \in {"trailing_src", "done"}
        /\ UNCHANGED <<gets, vel>>
    BY <1>0, <1>1, <1>8 DEF Epilogue, Goto, PhaseInv, dma, data
  <2>. QED  BY <1>3, <2>1
<1>9. CASE TrailingCalls
  <2>1. k = T /\ cube'[PE0] = T /\ vel' = vel /\ gets \subseteq gets'
    BY <1>9, TrailingCallsEffect DEF data
  <2>2. CASE l \in {"post", "trailing_bitmap"}
    <3>1. pc'[PE0] \in {"returns_put", "returns_bitmap"}
      BY <1>9, <2>2, TrailingCallsEffect
    <3>. QED  BY <1>2, <2>1, <2>2, <3>1
  <2>3. CASE l = "trailing_src"
    <3>1. pc'[PE0] = "returns_src"
      BY <1>9, <2>3, TrailingCallsEffect
    <3>. QED  BY <1>3, <2>1, <3>1
  <2>4. CASE l = "trailing_vel"
    <3>1. pc'[PE0] = "returns_vel" /\ Job("vel", T) \in gets'
      BY <1>9, <2>4, TrailingCallsEffect
    <3>2. \A c \in OwnCubes : Holds(c)' => c = T
      BY <1>0, <2>1, <3>1 DEF Holds
    <3>. QED  BY <2>1, <3>1, <3>2
  <2>. QED  BY <1>9, <2>2, <2>3, <2>4, TrailingCallsEffect
<1>10. CASE TrailingReturns
  <2>1. k = T /\ cube'[PE0] = T /\ UNCHANGED <<vel, gets>>
    BY <1>10, TrailingReturnsEffect DEF dma, data
  <2>2. CASE l \in {"returns_vel", "returns_put"} /\ pc'[PE0] # "done"
    <3>1. pc'[PE0] \in {"enter", "trailing_bitmap"}
      BY <1>10, <2>2, TrailingReturnsEffect
    <3>. QED  BY <1>2, <2>1, <2>2, <3>1
  <2>3. CASE l \notin {"returns_vel", "returns_put"} \/ pc'[PE0] = "done"
    <3>1. pc'[PE0] \in {"trailing_vel", "done"}
      BY <1>10, <2>3, TrailingReturnsEffect
    <3>. QED  BY <1>3, <2>1, <3>1
  <2>. QED  BY <2>2, <2>3
<1>11. CASE LocalBarrier
  <2>1. /\ UNCHANGED <<gets, vel>> /\ cube'[PE0] = k
        /\ l \in {"enter", "leave"} /\ pc'[PE0] \in {"monitor", "post"}
    BY <1>0, <1>1, <1>11 DEF LocalBarrier, Arrived, dma, data
  <2>. QED  BY <1>2, <2>1
<1>. QED
  BY <1>4, <1>5, <1>6, <1>7, <1>8, <1>9, <1>10, <1>11 DEF PE0Step

(* Every step keeps VelInv, in whatever order gets arrive.                 *)
LEMMA NextVel ==
  ASSUME TypePhase, GetsInv, VelInv, MemoryInv, [Next]_vars
  PROVE  VelInv'
<1> DEFINE k == cube[PE0]
           Right(c, p) == IF Summed(p, c) THEN vel[Slot(c)][p] \in New(c)
                          ELSE c \notin Suspect => vel[Slot(c)][p] \in Old(c)
<1>0. /\ OwnCubes \subseteq Nat /\ k \in Nat /\ \A c \in OwnCubes : Slot(c) \in Slots
      /\ vel \in [Slots -> [PEs -> Contents]] /\ NbCubes \notin OwnCubes
  <2>1. /\ OwnCubes \subseteq Nat /\ k \in Nat
        /\ vel \in [Slots -> [PEs -> Contents]]
    BY CubeNumber, ConstantTypes DEF TypePhase, TypeOK
  <2>2. NbCubes \notin OwnCubes
    BY RingAssumption DEF OwnCubes, Kernel, TrailCube
  <2>. QED  BY <2>1, <2>2, SlotType
<1>a. \A c \in OwnCubes : Holds(c) =>
        Job("vel", c) \in gets \/ \A p \in PEs : Right(c, p)
  BY DEF VelInv
<1>b. ASSUME call' = call
      PROVE  /\ Suspect' = Suspect
             /\ \A c : Job("vel", c)' = Job("vel", c)
             /\ \A c : New(c)' = New(c) /\ Old(c)' = Old(c)
  BY <1>b DEF Suspect, Job, New, Old, Alien, Content
<1>c. ASSUME call' = call, gets \subseteq gets', vel' = vel,
             \A p \in PEs, c \in OwnCubes : Summed(p, c)' <=> Summed(p, c),
             \A c \in OwnCubes : Holds(c)' => Holds(c) \/ Job("vel", c) \in gets'
      PROVE  VelInv'
  <2>1. ASSUME NEW c \in OwnCubes, Holds(c)'
        PROVE  \/ Job("vel", c) \in gets'
               \/ \A p \in PEs :
                    IF Summed(p, c)' THEN vel'[Slot(c)][p] \in New(c)
                    ELSE c \notin Suspect => vel'[Slot(c)][p] \in Old(c)
    <3>1. CASE Job("vel", c) \in gets'
      BY <3>1
    <3>2. CASE Job("vel", c) \notin gets'
      <4>1. Holds(c) /\ Job("vel", c) \notin gets
        BY <1>c, <2>1, <3>2
      <4>2. \A p \in PEs : Right(c, p)
        BY <1>a, <4>1
      <4>. QED  BY <1>c, <4>2
    <3>. QED  BY <3>1, <3>2
  <2>. QED  BY <1>b, <1>c, <2>1 DEF VelInv
<1>1. ASSUME PE0Step \/ LocalBarrier PROVE VelInv'
  <2>1. /\ call' = call
        /\ \A p \in PEs, c \in OwnCubes : Summed(p, c)' <=> Summed(p, c)
    BY <1>1, Progress
  <2>. QED  BY <1>1, <1>c, <2>1, HoldsStays
<1>2. ASSUME PutSent \/ UNCHANGED vars PROVE VelInv'
  <2>1. /\ call' = call
        /\ \A p \in PEs, c \in OwnCubes : Summed(p, c)' <=> Summed(p, c)
    BY <1>2, Progress DEF Dma
  <2>2. UNCHANGED <<pc, cube, gets, vel>>
    BY <1>2, PutSentEffect DEF vars, dma, data
  <2>3. \A c : Holds(c)' <=> Holds(c)
    BY <2>2 DEF Holds
  <2>. QED  BY <1>c, <2>1, <2>2, <2>3
<1>3. ASSUME NEW j \in gets, GetArrives(j) PROVE VelInv'
  <2>1. /\ UNCHANGED <<call, pc, cube, memory>> /\ gets' = gets \ {j}
        /\ j.array = "vel" => vel' = [vel EXCEPT ![j.buf] = Fetched(j)]
        /\ j.array # "vel" => vel' = vel
    BY <1>3, GetArrivesEffect
  <2>2. /\ \A p \in PEs, c \in OwnCubes : Summed(p, c)' <=> Summed(p, c)
    BY <1>3, Progress DEF Dma
  <2>3. \A c : Holds(c)' <=> Holds(c)
    BY <2>1 DEF Holds
  <2> SUFFICES ASSUME NEW c \in OwnCubes, Holds(c), Job("vel", c) \notin gets',
                      NEW p \in PEs
               PROVE  IF Summed(p, c) THEN vel'[Slot(c)][p] \in New(c)
                      ELSE c \notin Suspect => vel'[Slot(c)][p] \in Old(c)
    BY <1>b, <2>1, <2>2, <2>3 DEF VelInv
  <2>4. CASE j = Job("vel", c)
    <3>1. j.array = "vel" /\ j.buf = Slot(c) /\ j.cube = c
      BY <2>4, JobFields
    <3>2. Fetched(j) = memory[c]
      BY <3>1 DEF Fetched
    <3>3. vel'[Slot(c)] = memory[c]
      BY <1>0, <2>1, <3>1, <3>2
    <3>4. ~ Asked(c) /\ ~ Summed(p, c)
      BY <2>4, NotPending
    <3>5. c \notin Suspect => memory[c][p] \in Old(c)
      BY <3>4 DEF MemoryInv
    <3>. QED  BY <3>3, <3>4, <3>5
  <2>5. CASE j # Job("vel", c)
    <3>1. Right(c, p)
      BY <1>a, <2>1, <2>5
    <3>2. CASE j.array # "vel"
      BY <2>1, <3>1, <3>2
    <3>3. CASE j.array = "vel" /\ j.buf # Slot(c)
      <4>1. vel'[Slot(c)] = vel[Slot(c)]
        BY <1>0, <2>1, <3>3
      <4>. QED  BY <3>1, <4>1
    <3>4. CASE j.array = "vel" /\ j.buf = Slot(c)
      <4>1. j.cube = NbCubes /\ Content(NbCubes, 0) \in Alien(c)
        BY <2>5, <3>4, Arrives
      <4>2. Fetched(j) = Planes(NbCubes, 0)
        BY <1>0, <4>1 DEF Fetched
      <4>3. vel'[Slot(c)][p] = Content(NbCubes, 0)
        BY <1>0, <2>1, <3>4, <4>2 DEF Planes
      <4>. QED  BY <4>1, <4>3 DEF New, Old
    <3>. QED  BY <3>2, <3>3, <3>4
  <2>. QED  BY <2>4, <2>5
<1>4. ASSUME NEW q \in PEs, Monitor(q) PROVE VelInv'
  <2>1. /\ UNCHANGED <<call, cube, gets>> /\ cube[q] = k /\ k \in OwnCubes
        /\ pc[PE0] \in {"monitor", "leave"} /\ pc'[PE0] \in {"monitor", "leave"}
        /\ \A p \in PEs, c \in OwnCubes :
              Summed(p, c)' <=> Summed(p, c) \/ (p = q /\ c = k)
    BY <1>4, MonitorProgress DEF dma
  <2>2. \A c : Holds(c)' <=> Holds(c)
    BY <2>1 DEF Holds
  <2>3. Holds(k) /\ Slot(k) \in Slots
    BY <1>0, <2>1, HeldHere
  <2>4. NewVelocity(q) = Content(k, call)
    BY <2>1 DEF NewVelocity
  <2>5. NewVelocity(q) \in Contents
    BY <2>1, <2>4, CubeNumber, ConstantTypes, ContentTypes
  <2>6. vel' = [vel EXCEPT ![Slot(k)] = [@ EXCEPT ![q] = NewVelocity(q)]]
    BY <1>4, <2>1 DEF Monitor
  <2> SUFFICES ASSUME NEW c \in OwnCubes, Holds(c), Job("vel", c) \notin gets,
                      NEW p \in PEs
               PROVE  IF Summed(p, c)' THEN vel'[Slot(c)][p] \in New(c)
                      ELSE c \notin Suspect => vel'[Slot(c)][p] \in Old(c)
    BY <1>b, <2>1, <2>2 DEF VelInv
  <2>7. vel'[Slot(c)][p] = IF Slot(c) = Slot(k) /\ p = q THEN NewVelocity(q)
                           ELSE vel[Slot(c)][p]
    BY <1>0, <2>3, <2>5, <2>6, StoreTypes
  <2>8. CASE p = q /\ c = k
    BY <2>1, <2>4, <2>7, <2>8 DEF New
  <2>9. CASE ~ (p = q /\ c = k)
    <3>1. ~ (Slot(c) = Slot(k) /\ p = q)
      BY <2>1, <2>3, <2>9, HeldSlots
    <3>2. Right(c, p)
      BY <1>a
    <3>. QED  BY <2>1, <2>7, <2>9, <3>1, <3>2
  <2>. QED  BY <2>8, <2>9
<1>5. ASSUME NextCall PROVE VelInv'
  <2>1. pc'[PE0] = "prologue" /\ cube'[PE0] = 0 /\ TrailCube # 0
    BY <1>5, ConstantTypes DEF NextCall, StartPc
  <2>. QED  BY <2>1 DEF VelInv, Holds
<1>. QED
  BY <1>1, <1>2, <1>3, <1>4, <1>5 DEF Next, Dma, Finished
-----------------------------------------------------------------------------
(***************************************************************************)
(* The puts, which leave in the order they were posted.                    *)
(***************************************************************************)

(* The queue with the puts of a cube, with one more, and without its head. *)
LEMMA PutsPosted ==
  ASSUME NEW k \in 0 .. TrailCube, call \in 1 .. NbCalls, puts \in Seq(Jobs)
  PROVE  LET new == puts \o PutsOf(k) IN
         /\ Range(new) = Range(puts) \cup {Job("vel", k)} \cup
              (IF k \in Picture THEN {Job("bitmap", k)} ELSE {})
         /\ new # <<>> /\ Last(new) = NewestOf(k)
         /\ Last(PutsOf(k)) = NewestOf(k)
<1>1. Job("vel", k) \in Jobs /\ Job("bitmap", k) \in Jobs /\ Len(puts) \in Nat
  BY JobTypes, LenProperties
<1>2. CASE k \in Picture
  <2> DEFINE a == Job("vel", k)
             b == Job("bitmap", k)
             new == puts \o <<a, b>>
             n == Len(puts)
  <2>1. PutsOf(k) = <<a, b>> /\ NewestOf(k) = b
    BY <1>2 DEF PutsOf, NewestOf
  <2> HIDE DEF a, b
  <2>2. /\ new \in Seq(Jobs) /\ Len(new) = n + 2
        /\ \A i \in 1 .. n : new[i] = puts[i]
        /\ new[n + 1] = a /\ new[n + 2] = b
    BY <1>1, AppendTwo DEF a, b
  <2>3. Last(new) = b /\ Last(<<a, b>>) = b /\ new # <<>>
    BY <1>1, <2>2 DEF Last
  <2> HIDE DEF new
  <2>4. \A e : e \in Range(new) <=> e \in Range(puts) \cup {a} \cup {b}
    <3>1. \A i \in 1 .. n + 2 : i \in 1 .. n \/ i = n + 1 \/ i = n + 2
      BY <1>1
    <3>2. 1 .. n \subseteq 1 .. n + 2 /\ n + 1 \in 1 .. n + 2 /\ n + 2 \in 1 .. n + 2
      BY <1>1
    <3>3. \A e : e \in Range(new) <=> \E i \in 1 .. n + 2 : new[i] = e
      BY <2>2, InQueue
    <3>4. \A e : e \in Range(puts) <=> \E i \in 1 .. n : puts[i] = e
      BY InQueue
    <3>. QED  BY <2>2, <3>1, <3>2, <3>3, <3>4
  <2>. QED  BY <1>2, <2>1, <2>3, <2>4 DEF new, a, b
<1>3. CASE k \notin Picture
  <2> DEFINE a == Job("vel", k)
  <2>1. PutsOf(k) = <<a>> /\ NewestOf(k) = a /\ puts \o <<a>> = Append(puts, a)
    BY <1>1, <1>3, AppendIsConcat DEF PutsOf, NewestOf
  <2>2. Last(<<a>>) = a
    BY DEF Last
  <2> HIDE DEF a
  <2>3. /\ Range(Append(puts, a)) = Range(puts) \cup {a}
        /\ Last(Append(puts, a)) = a /\ Append(puts, a) # <<>>
    BY <1>1, QueueAppend DEF a
  <2>. QED  BY <1>3, <2>1, <2>2, <2>3 DEF a
<1>. QED  BY <1>2, <1>3

(* Nothing is in an empty queue.                                           *)
LEMMA EmptyQueue == Range(<<>>) = {}
BY DEF Range

(* Where no put can be pending there is none.                              *)
LEMMA NoPuts ==
  ASSUME TypePhase, PutsInv,
         pc[PE0] \notin {"refill", "returns_put", "returns_bitmap"},
         ~ (cube[PE0] = 1 /\ pc[PE0] \in Looping /\ 1 \in Kernel),
         ~ (pc[PE0] = "epilogue" /\ NbCubes = 1)
  PROVE  puts = <<>>
<1>1. puts \in Seq(Jobs)
  BY DEF TypePhase, TypeOK
<1> SUFFICES ASSUME puts # <<>> PROVE FALSE
  OBVIOUS
<1>2. Last(puts) \in Range(puts)
  BY <1>1, LastInQueue
<1>. QED  BY <1>2 DEF PutsInv, PutInWindow

(* Puts leave in order: when the newest one has left, all have.            *)
LEMMA NewestLeft ==
  ASSUME TypePhase, PutsInv, Complete(Newest)
  PROVE  puts = <<>>
<1>1. puts \in Seq(Jobs)
  BY DEF TypePhase, TypeOK
<1> SUFFICES ASSUME puts # <<>> PROVE FALSE
  OBVIOUS
<1>2. Last(puts) \in Range(puts)
  BY <1>1, LastInQueue
<1>. QED  BY <1>2 DEF PutsInv, Complete

(* Every step keeps PutsInv, in whatever order gets arrive.                *)
LEMMA NextPuts ==
  ASSUME TypePhase, PutsInv, [Next]_vars
  PROVE  PutsInv'
<1> DEFINE k == cube[PE0]
           l == pc[PE0]
           T == TrailCube
<1>0. /\ PhaseInv /\ k \in Nat /\ k \in Kernel \cup {T} /\ k \in 0 .. T
      /\ T = NbCubes + 1 /\ NbCubes \in Nat \ {0} /\ T # 1
      /\ puts \in Seq(Jobs) /\ call \in 1 .. NbCalls
      /\ pc \in [PEs -> Labels] /\ PE0 \in PEs
      /\ cube \in [PEs -> Kernel \cup {T}]
      /\ putEv \in [Slots -> Jobs \cup {NoTicket}]
      /\ 0 \in Kernel /\ Kernel \subseteq OwnCubes
  <2>1. /\ PhaseInv /\ k \in Nat /\ k \in Kernel \cup {T}
        /\ puts \in Seq(Jobs) /\ call \in 1 .. NbCalls
        /\ pc \in [PEs -> Labels] /\ PE0 \in PEs
        /\ cube \in [PEs -> Kernel \cup {T}]
        /\ putEv \in [Slots -> Jobs \cup {NoTicket}]
    BY CubeNumber, ConstantTypes DEF TypePhase, TypeOK
  <2>2. /\ T = NbCubes + 1 /\ NbCubes \in Nat \ {0} /\ T # 1
        /\ 0 \in Kernel /\ Kernel \subseteq OwnCubes
    BY ConstantTypes
  <2>3. k \in 0 .. T
    BY <2>1, ConstantTypes
  <2>. QED  BY <2>1, <2>2, <2>3
<1>a. ASSUME call' = call PROVE \A a, c : Job(a, c)' = Job(a, c)
  BY <1>a DEF Job
<1>b. ASSUME UNCHANGED <<call, puts, putEv>>, cube'[PE0] = k,
             {l, pc'[PE0]} \subseteq {"wait", "enter", "monitor", "leave", "post"}
      PROVE  PutsInv'
  <2>1. \A a, c : Job(a, c)' = Job(a, c)
    BY <1>a, <1>b
  <2>2. \A j \in Range(puts) : PutInWindow(j)'
    BY <1>b, <2>1 DEF PutsInv, PutInWindow, Looping
  <2>3. Newest' = Newest
    BY <1>b, <2>1 DEF Newest, NewestOf
  <2>. QED  BY <1>b, <2>2, <2>3 DEF PutsInv
<1>c. ASSUME puts' = <<>>,
             pc'[PE0] \notin {"refill", "trailing_bitmap", "returns_bitmap"},
             ~ (pc'[PE0] = "epilogue" /\ NbCubes = 1)
      PROVE  PutsInv'
  BY <1>c, EmptyQueue DEF PutsInv
<1>1. ASSUME Prologue PROVE PutsInv'
  <2>1. l = "prologue" /\ k = 0 /\ pc'[PE0] = "wait" /\ puts' = puts
    BY <1>0, <1>1 DEF Prologue, Goto, PhaseInv
  <2>2. puts = <<>>
    BY <2>1, NoPuts
  <2>. QED  BY <1>c, <2>1, <2>2
<1>2. ASSUME WaitGet PROVE PutsInv'
  <2>1. /\ l = "wait" /\ pc'[PE0] = "enter" /\ cube'[PE0] = k
        /\ UNCHANGED <<call, puts, putEv>>
    BY <1>0, <1>2 DEF WaitGet, Goto, dma
  <2>. QED  BY <1>b, <2>1
<1>3. ASSUME PutCube PROVE PutsInv'
  <2>1. /\ l = "post" /\ k \in Kernel /\ pc'[PE0] = "refill" /\ cube'[PE0] = k
        /\ call' = call /\ puts' = puts \o PutsOf(k)
        /\ putEv' = [putEv EXCEPT ![Slot(k)] = Last(PutsOf(k))]
    BY <1>0, <1>3 DEF PutCube, Goto
  <2>2. \A a, c : Job(a, c)' = Job(a, c)
    BY <1>a, <2>1
  <2>3. /\ Range(puts') = Range(puts) \cup {Job("vel", k)} \cup
             (IF k \in Picture THEN {Job("bitmap", k)} ELSE {})
        /\ puts' # <<>> /\ Last(puts') = NewestOf(k)
        /\ Last(PutsOf(k)) = NewestOf(k)
    BY <1>0, <2>1, PutsPosted
  <2>4. ASSUME NEW j \in Range(puts') PROVE PutInWindow(j)'
    <3>1. CASE j \in Range(puts)
      <4>1. PutInWindow(j)
        BY <3>1 DEF PutsInv
      <4>. QED  BY <2>1, <2>2, <4>1 DEF PutInWindow, Looping
    <3>2. CASE j = Job("vel", k)
      BY <1>0, <2>1, <2>2, <3>2, JobFields DEF PutInWindow
    <3>3. CASE k \in Picture /\ j = Job("bitmap", k)
      BY <1>0, <2>1, <2>2, <3>3, JobFields DEF PutInWindow
    <3>. QED  BY <2>3, <2>4, <3>1, <3>2, <3>3
  <2>5. Newest' = NewestOf(k) /\ NewestOf(k)' = NewestOf(k)
    BY <2>1, <2>2 DEF Newest, NewestOf
  <2>6. putEv'[Slot(k)] = NewestOf(k)
    BY <1>0, <2>1, <2>3, SlotType
  <2>. QED  BY <2>1, <2>3, <2>4, <2>5, <2>6 DEF PutsInv
<1>4. ASSUME GetNext PROVE PutsInv'
  <2>1. /\ l = "refill" /\ k \in Kernel /\ cube'[PE0] = NextCube(k)
        /\ pc'[PE0] = IF NextCube(k) \in Kernel THEN "wait" ELSE "epilogue"
        /\ UNCHANGED <<call, puts, putEv>>
        /\ k > 0 => Complete(putEv[Slot(k)])
    BY <1>0, <1>4 DEF GetNext, Goto, PhaseInv, WaitsPut
  <2>2. /\ NextCube(k) \in Kernel => NextCube(k) = k + 1
        /\ NextCube(k) \notin Kernel => NextCube(k) = T /\ k + 1 = NbCubes
    BY <2>1, NextCubes
  <2>3. CASE k > 0
    <3>1. puts = <<>>
      BY <2>1, <2>3, NewestLeft DEF PutsInv, Newest
    <3>2. pc'[PE0] = "epilogue" => NbCubes # 1
      BY <1>0, <2>1, <2>2, <2>3
    <3>. QED  BY <1>c, <2>1, <3>1, <3>2
  <2>4. CASE k = 0
    <3>1. \A a, c : Job(a, c)' = Job(a, c)
      BY <1>a, <2>1
    <3>2. \/ pc'[PE0] = "wait" /\ cube'[PE0] = 1 /\ 1 \in Kernel
          \/ pc'[PE0] = "epilogue" /\ NbCubes = 1
      BY <1>0, <2>1, <2>2, <2>4
    <3>3. ASSUME NEW j \in Range(puts) PROVE PutInWindow(j)'
      <4>1. PutInWindow(j) /\ j.cube = 0
        BY <2>1, <2>4 DEF PutsInv, PutInWindow
      <4>. QED  BY <3>1, <3>2, <4>1 DEF PutInWindow, Looping
    <3>4. Newest' = NewestOf(0) /\ Newest = NewestOf(0) /\ NewestOf(0)' = NewestOf(0)
      BY <2>1, <2>4, <3>1, <3>2 DEF Newest, NewestOf
    <3>5. putEv[0] = NewestOf(0)
      <4>1. Slot(0) = 0
        BY ConstantTypes, SlotType
      <4>. QED  BY <2>1, <2>4, <4>1 DEF PutsInv
    <3>. QED  BY <2>1, <3>2, <3>3, <3>4, <3>5 DEF PutsInv
  <2>. QED  BY <1>0, <2>3, <2>4
<1>5. ASSUME Epilogue PROVE PutsInv'
  <2>1. /\ l = "epilogue" /\ k = T /\ pc'[PE0] \in {"trailing_src", "done"}
        /\ UNCHANGED <<call, puts, putEv>>
        /\ \A e \in LastPuts : Complete(e)
    BY <1>0, <1>5 DEF Epilogue, Goto, PhaseInv, dma
  <2>2. CASE NbCubes = 1
    <3>1. putEv[0] \in LastPuts
      BY ConstantTypes DEF LastPuts
    <3>2. putEv[0] = Newest
      BY <2>1, <2>2 DEF PutsInv, Newest
    <3>3. puts = <<>>
      BY <2>1, <3>1, <3>2, NewestLeft
    <3>. QED  BY <1>c, <2>1, <3>3
  <2>3. CASE NbCubes # 1
    <3>1. puts = <<>>
      BY <1>0, <2>1, <2>3, NoPuts
    <3>. QED  BY <1>c, <2>1, <3>1
  <2>. QED  BY <2>2, <2>3
<1>6. ASSUME TrailingCalls PROVE PutsInv'
  <2>1. k = T /\ HasTrailing /\ cube'[PE0] = T /\ UNCHANGED <<call, putEv>>
    BY <1>6, TrailingCallsEffect
  <2>2. l \in {"trailing_src", "trailing_vel", "post", "trailing_bitmap"}
    BY <1>6, TrailingCallsEffect
  <2>3. puts = <<>>
    BY <1>0, <2>1, <2>2, NoPuts
  <2>4. CASE l \in {"trailing_src", "trailing_vel"}
    <3>1. puts' = puts /\ pc'[PE0] \in {"returns_src", "returns_vel"}
      BY <1>6, <2>4, TrailingCallsEffect
    <3>. QED  BY <1>c, <2>3, <3>1
  <2>5. ASSUME NEW a \in {"vel", "bitmap"}, puts' = Append(puts, Job(a, T)),
               pc'[PE0] = IF a = "vel" THEN "returns_put" ELSE "returns_bitmap",
               a = "bitmap" => T \in Picture
        PROVE  PutsInv'
    <3>1. T \in OwnCubes /\ Job(a, T) \in Jobs
      BY <1>0, <2>1, ConstantTypes, JobTypes
    <3>2. /\ Range(puts') = Range(puts) \cup {Job(a, T)}
          /\ Last(puts') = Job(a, T)
      BY <1>0, <2>5, <3>1, QueueAppend
    <3>3. \A b, c : Job(b, c)' = Job(b, c)
      BY <1>a, <2>1
    <3>4. ASSUME NEW j \in Range(puts') PROVE PutInWindow(j)'
      <4>1. j = Job(a, T)
        BY <2>3, <3>2, EmptyQueue
      <4>. QED  BY <2>1, <2>5, <3>1, <3>3, <4>1, JobFields DEF PutInWindow
    <3>5. Newest' = Job(a, T)
      BY <2>1, <2>5, <3>3 DEF Newest
    <3>. QED  BY <2>5, <3>2, <3>4, <3>5 DEF PutsInv
  <2>6. CASE l = "post"
    BY <1>6, <2>5, <2>6, TrailingCallsEffect
  <2>7. CASE l = "trailing_bitmap"
    BY <1>6, <2>5, <2>7, TrailingCallsEffect DEF PutsInv
  <2>. QED  BY <2>2, <2>4, <2>6, <2>7
<1>7. ASSUME TrailingReturns PROVE PutsInv'
  <2>1. k = T /\ UNCHANGED <<call, puts, putEv>>
    BY <1>7, TrailingReturnsEffect DEF dma
  <2>2. CASE l \in {"returns_src", "returns_vel"}
    <3>1. pc'[PE0] \in {"trailing_vel", "enter"}
      BY <1>7, <2>2, TrailingReturnsEffect
    <3>2. puts = <<>>
      BY <1>0, <2>1, <2>2, NoPuts
    <3>. QED  BY <1>c, <2>1, <3>1, <3>2
  <2>3. CASE l = "returns_put"
    <3>1. /\ Complete(Job("vel", T))
          /\ pc'[PE0] = IF T \in Picture THEN "trailing_bitmap" ELSE "done"
      BY <1>7, <2>3, TrailingReturnsEffect
    <3>2. Newest = Job("vel", T)
      BY <2>1, <2>3 DEF Newest
    <3>3. puts = <<>>
      BY <3>1, <3>2, NewestLeft
    <3>. QED  BY <2>1, <3>1, <3>3, EmptyQueue DEF PutsInv
  <2>4. CASE l = "returns_bitmap"
    <3>1. Complete(Job("bitmap", T)) /\ pc'[PE0] = "done"
      BY <1>7, <2>4, TrailingReturnsEffect
    <3>2. Newest = Job("bitmap", T)
      BY <2>1, <2>4 DEF Newest
    <3>3. puts = <<>>
      BY <3>1, <3>2, NewestLeft
    <3>. QED  BY <1>c, <2>1, <3>1, <3>3
  <2>. QED  BY <1>7, <2>2, <2>3, <2>4, TrailingReturnsEffect
<1>8. ASSUME LocalBarrier PROVE PutsInv'
  <2>1. UNCHANGED <<call, puts, putEv>> /\ cube'[PE0] = k
    BY <1>0, <1>8 DEF LocalBarrier, dma
  <2>2. l \in {"enter", "leave"} /\ pc'[PE0] \in {"monitor", "post"}
    BY <1>0, <1>8 DEF LocalBarrier, Arrived
  <2>. QED  BY <1>b, <2>1, <2>2
<1>9. ASSUME NEW p \in PEs, Monitor(p) PROVE PutsInv'
  <2>1. /\ UNCHANGED <<call, puts, putEv>> /\ cube'[PE0] = k
        /\ l \in {"monitor", "leave"} /\ pc'[PE0] \in {"monitor", "leave"}
    BY <1>9, MonitorProgress DEF dma
  <2>. QED  BY <1>b, <2>1
<1>10. ASSUME NextCall PROVE PutsInv'
  <2>1. l = "done" /\ pc'[PE0] = "prologue" /\ puts' = puts
    BY <1>0, <1>10 DEF NextCall, AllDone, StartPc, dma
  <2>2. puts = <<>>
    BY <2>1, NoPuts DEF Looping
  <2>. QED  BY <1>c, <2>1, <2>2
<1>11. ASSUME UNCHANGED <<call, pc, cube, putEv>>,
              Range(puts') \subseteq Range(puts),
              puts' # <<>> => puts # <<>> /\ Last(puts') = Last(puts)
       PROVE  PutsInv'
  <2>1. \A a, c : Job(a, c)' = Job(a, c)
    BY <1>a, <1>11
  <2>2. \A j \in Range(puts') : PutInWindow(j)'
    BY <1>11, <2>1 DEF PutsInv, PutInWindow
  <2>3. Newest' = Newest /\ \A c : NewestOf(c)' = NewestOf(c)
    BY <1>11, <2>1 DEF Newest, NewestOf
  <2>. QED  BY <1>11, <2>2, <2>3 DEF PutsInv
<1>12. ASSUME PutSent PROVE PutsInv'
  <2>1. /\ puts # <<>> /\ puts' = Tail(puts)
        /\ UNCHANGED <<call, pc, cube, putEv>>
    BY <1>12, PutSentEffect
  <2>. QED  BY <1>0, <1>11, <2>1, QueueTail
<1>13. ASSUME \/ \E i \in gets : GetArrives(i)
              \/ UNCHANGED vars
       PROVE  PutsInv'
  BY <1>11, <1>13, GetArrivesEffect DEF vars, dma
<1>. QED
  BY <1>1, <1>2, <1>3, <1>4, <1>5, <1>6, <1>7, <1>8, <1>9, <1>10, <1>12,
     <1>13 DEF Next, PE0Step, Dma, Finished

(* The cluster's first cube is exposed if its slot is refilled.            *)
LEMMA ExposedIf ==
  /\ Exposed \subseteq {0}
  /\ 0 \notin Exposed => NbCubes < Depth
<1>1. 0 \in Nat /\ Depth \in Nat /\ NbCubes \in Nat
  BY ConstantTypes
<1>2. Prefetches(0) <=> Depth <= NbCubes
  BY <1>1, PrefetchesIf
<1>. QED  BY <1>1, <1>2 DEF Exposed

(* What leaves the queue is a put of a cube that has been asked.           *)
LEMMA SentAsked ==
  ASSUME TypePhase, PutsInv, NEW j \in Range(puts)
  PROVE  /\ j.cube \in OwnCubes /\ Asked(j.cube)
         /\ j.array = "vel" => j = Job("vel", j.cube)
         /\ j.array # "vel" => j = Job("bitmap", j.cube) /\ j.cube \in Picture
<1>1. PutInWindow(j)
  BY DEF PutsInv
<1>2. pc[PE0] = "epilogue" => cube[PE0] = TrailCube
  BY DEF TypePhase, PhaseInv
<1>3. TrailCube > 0
  BY ConstantTypes
<1>4. Asked(j.cube)
  BY <1>1, <1>2, <1>3 DEF PutInWindow, Asked, Cleared
<1>. QED  BY <1>1, <1>4 DEF PutInWindow

(* The buffer a put reads has what the PEs have stored there for its cube, *)
(* unless the cube is exposed.                                             *)
LEMMA Kept ==
  ASSUME TypePhase, GetsInv, VelInv, PutsInv, NEW j \in Range(puts),
         j.array = "vel", j.cube \notin Exposed, NEW p \in PEs
  PROVE  vel[j.buf][p] \in New(j.cube)
<1> DEFINE k == cube[PE0]
           l == pc[PE0]
           c == j.cube
<1>1. /\ c \in OwnCubes /\ Asked(c) /\ j = Job("vel", c)
  BY SentAsked
<1>2. j.buf = Slot(c) /\ PutInWindow(j)
  BY <1>1, JobFields DEF PutsInv
<1>3. Holds(c)
  <2>1. CASE c = k /\ l = "refill"
    BY <2>1, HeldHere
  <2>2. CASE c = k /\ l \in {"returns_put", "returns_bitmap"}
    <3>1. k = TrailCube
      BY <2>2 DEF TypePhase, PhaseInv, Trailing
    <3>. QED  BY <2>2, <3>1 DEF Holds
  <2>3. CASE c = 0 /\ k = 1 /\ l \in Looping /\ 1 \in Kernel
    <3>1. NbCubes < Depth /\ 0 \in Kernel /\ l # "prologue" /\ 0 < 1 + Depth
      BY <2>3, ExposedIf, ConstantTypes DEF Looping
    <3>. QED  BY <2>3, <3>1 DEF Holds
  <2>4. CASE c = 0 /\ l = "epilogue"
    <3>1. NbCubes < Depth /\ 0 \in Kernel /\ k = TrailCube
      BY <2>4, ExposedIf, ConstantTypes DEF TypePhase, PhaseInv
    <3>2. 0 < k + Depth
      BY <3>1, ConstantTypes
    <3>. QED  BY <2>4, <3>1, <3>2 DEF Holds
  <2>. QED  BY <1>2, <2>1, <2>2, <2>3, <2>4 DEF PutInWindow
<1>4. Job("vel", c) \notin gets
  BY <1>1, <1>3, NotPending
<1>5. Summed(p, c)
  BY <1>1 DEF Asked, Summed, HasMonitored
<1>. QED  BY <1>1, <1>2, <1>3, <1>4, <1>5 DEF VelInv
-----------------------------------------------------------------------------
(***************************************************************************)
(* The memory, the sums, and the invariant.                                *)
(***************************************************************************)

(* Only the steps that put a cube ask for its velocities, and only PutSent *)
(* takes a put out of the queue.                                           *)
LEMMA PutsGrow ==
  ASSUME TypePhase, PE0Step \/ LocalBarrier \/ UNCHANGED vars
         \/ (\E i \in gets : GetArrives(i))
  PROVE  /\ UNCHANGED <<call, memory, image>>
         /\ Range(puts) \subseteq Range(puts')
         /\ Asks => /\ Job("vel", cube[PE0]) \in Range(puts')
                    /\ cube[PE0] \in Picture \cap Kernel =>
                         Job("bitmap", cube[PE0]) \in Range(puts')
         /\ pc[PE0] = "trailing_bitmap" /\ pc'[PE0] = "returns_bitmap" =>
              Job("bitmap", TrailCube) \in Range(puts')
<1> DEFINE k == cube[PE0]
           l == pc[PE0]
           T == TrailCube
           Grows == /\ UNCHANGED <<call, memory, image>>
                    /\ Range(puts) \subseteq Range(puts')
                    /\ Asks => /\ Job("vel", k) \in Range(puts')
                               /\ k \in Picture \cap Kernel =>
                                    Job("bitmap", k) \in Range(puts')
                    /\ l = "trailing_bitmap" /\ pc'[PE0] = "returns_bitmap" =>
                         Job("bitmap", T) \in Range(puts')
<1>0. /\ k \in 0 .. T /\ puts \in Seq(Jobs) /\ call \in 1 .. NbCalls
      /\ pc \in [PEs -> Labels] /\ PE0 \in PEs /\ T \notin Kernel
  <2>1. /\ k \in Kernel \cup {T} /\ puts \in Seq(Jobs) /\ call \in 1 .. NbCalls
        /\ pc \in [PEs -> Labels]
    BY CubeNumber DEF TypePhase, TypeOK
  <2>. QED  BY <2>1, ConstantTypes
<1>1. ASSUME PutCube PROVE Grows
  <2>1. /\ l = "post" /\ puts' = puts \o PutsOf(k) /\ UNCHANGED <<call, memory, image>>
    BY <1>1 DEF PutCube, data
  <2>2. Range(puts') = Range(puts) \cup {Job("vel", k)} \cup
             (IF k \in Picture THEN {Job("bitmap", k)} ELSE {})
    BY <1>0, <2>1, PutsPosted
  <2>. QED  BY <2>1, <2>2
<1>2. ASSUME TrailingCalls PROVE Grows
  <2>1. UNCHANGED <<call, memory, image>> /\ k = T
    BY <1>2, TrailingCallsEffect DEF data
  <2>2. \A a \in {"vel", "bitmap"} : Job(a, T) \in Jobs
    BY <1>0, ConstantTypes, JobTypes
  <2>3. \A a \in {"vel", "bitmap"} :
          puts' = Append(puts, Job(a, T)) => Range(puts') = Range(puts) \cup {Job(a, T)}
    BY <1>0, <2>2, QueueAppend
  <2>4. CASE l = "post"
    <3>1. puts' = Append(puts, Job("vel", T))
      BY <1>2, <2>4, TrailingCallsEffect
    <3>. QED  BY <1>0, <2>1, <2>3, <2>4, <3>1
  <2>5. CASE l = "trailing_bitmap"
    <3>1. puts' = Append(puts, Job("bitmap", T))
      BY <1>2, <2>5, TrailingCallsEffect
    <3>. QED  BY <2>1, <2>3, <2>5, <3>1 DEF Asks
  <2>6. CASE l \notin {"post", "trailing_bitmap"}
    <3>1. puts' = puts
      BY <1>2, <2>6, TrailingCallsEffect
    <3>. QED  BY <2>1, <2>6, <3>1 DEF Asks
  <2>. QED  BY <2>4, <2>5, <2>6
<1>3. ASSUME UNCHANGED <<call, memory, image, puts>>,
             l \notin {"post", "trailing_bitmap"} \/ pc' = pc
      PROVE  Grows
  BY <1>3 DEF Asks
<1>4. ASSUME \/ Prologue \/ WaitGet \/ GetNext \/ Epilogue \/ LocalBarrier
             \/ UNCHANGED vars \/ \E i \in gets : GetArrives(i)
      PROVE  Grows
  <2>1. UNCHANGED <<call, memory, image, puts>>
    BY <1>4, GetArrivesEffect
       DEF Prologue, WaitGet, GetNext, Epilogue, LocalBarrier, vars, dma, data
  <2>2. l \notin {"post", "trailing_bitmap"} \/ pc' = pc
    BY <1>0, <1>4, GetArrivesEffect
       DEF Prologue, WaitGet, GetNext, Epilogue, LocalBarrier, Arrived, vars
  <2>. QED  BY <1>3, <2>1, <2>2
<1>5. ASSUME TrailingReturns PROVE Grows
  <2>1. UNCHANGED <<call, memory, image, puts>> /\ l \notin {"post", "trailing_bitmap"}
    BY <1>5, TrailingReturnsEffect DEF dma, data
  <2>. QED  BY <1>3, <2>1
<1>. QED  BY <1>1, <1>2, <1>4, <1>5 DEF PE0Step

(* Every step keeps MemoryInv.                                             *)
LEMMA NextMemory ==
  ASSUME TypePhase, GetsInv, VelInv, PutsInv, MemoryInv, [Next]_vars
  PROVE  MemoryInv'
<1> DEFINE k == cube[PE0]
           l == pc[PE0]
<1>0. /\ puts \in Seq(Jobs) /\ memory \in [OwnCubes -> [PEs -> Contents]]
      /\ call \in 1 .. NbCalls
  BY DEF TypePhase, TypeOK
<1>1. ASSUME UNCHANGED <<call, memory>>, Range(puts) \subseteq Range(puts'),
             \A c \in OwnCubes : Asked(c)' <=> Asked(c) \/ (Asks /\ c = k),
             Asks => Job("vel", k) \in Range(puts')
      PROVE  MemoryInv'
  <2>1. Suspect' = Suspect /\ \A c : New(c)' = New(c) /\ Old(c)' = Old(c)
    BY <1>1 DEF Suspect, New, Old, Alien, Content
  <2>2. \A c : Job("vel", c)' = Job("vel", c)
    BY <1>1 DEF Job
  <2>3. ASSUME NEW c \in OwnCubes
        PROVE  IF Asked(c)'
               THEN c \notin Exposed =>
                      \/ Job("vel", c) \in Range(puts')
                      \/ \A p \in PEs : memory[c][p] \in New(c)
               ELSE c \notin Suspect => \A p \in PEs : memory[c][p] \in Old(c)
    BY <1>1 DEF MemoryInv
  <2>. QED  BY <1>1, <2>1, <2>2, <2>3 DEF MemoryInv
<1>2. ASSUME PE0Step \/ LocalBarrier \/ UNCHANGED vars
             \/ (\E i \in gets : GetArrives(i))
      PROVE  MemoryInv'
  <2>1. \A c \in OwnCubes : Asked(c)' <=> Asked(c) \/ (Asks /\ c = k)
    BY <1>2, Progress DEF Dma
  <2>. QED  BY <1>1, <1>2, <2>1, PutsGrow
<1>3. ASSUME NEW q \in PEs, Monitor(q) PROVE MemoryInv'
  <2>1. /\ UNCHANGED <<call, memory, puts>> /\ l \in {"monitor", "leave"}
        /\ \A c \in OwnCubes : Asked(c)' <=> Asked(c)
    BY <1>3, MonitorProgress DEF dma
  <2>2. ~ Asks
    BY <2>1 DEF Asks
  <2>. QED  BY <1>1, <2>1, <2>2
<1>4. ASSUME PutSent PROVE MemoryInv'
  <2> DEFINE j == Head(puts)
  <2>1. /\ puts # <<>> /\ puts' = Tail(puts) /\ UNCHANGED <<call, pc, cube>>
        /\ j.array = "bitmap" => memory' = memory
        /\ j.array # "bitmap" => memory' = [memory EXCEPT ![j.cube] = vel[j.buf]]
    BY <1>4, PutSentEffect
  <2>2. Range(puts) = {j} \cup Range(puts') /\ j \in Range(puts)
    BY <1>0, <2>1, QueueTail
  <2>3. /\ j.cube \in OwnCubes /\ Asked(j.cube)
        /\ j.array = "vel" => j = Job("vel", j.cube)
        /\ j.array # "vel" => j = Job("bitmap", j.cube)
    BY <2>2, SentAsked
  <2>4. \A c \in OwnCubes : Asked(c)' <=> Asked(c)
    BY <2>1 DEF Asked
  <2>5. \A c : Job("vel", c)' = Job("vel", c)
    BY <2>1 DEF Job
  <2>a. Suspect' = Suspect /\ \A c : New(c)' = New(c) /\ Old(c)' = Old(c)
    BY <2>1 DEF Suspect, New, Old, Alien, Content
  <2> HIDE DEF j
  <2> SUFFICES ASSUME NEW c \in OwnCubes
               PROVE  IF Asked(c)
                      THEN c \notin Exposed =>
                             \/ Job("vel", c) \in Range(puts')
                             \/ \A p \in PEs : memory'[c][p] \in New(c)
                      ELSE c \notin Suspect =>
                             \A p \in PEs : memory'[c][p] \in Old(c)
    BY <2>4, <2>5, <2>a DEF MemoryInv
  <2>6. CASE j.array # "vel"
    <3>1. j.array = "bitmap"
      BY <2>3, <2>6, JobFields
    <3>2. Job("vel", c) # j
      BY <3>1, JobFields
    <3>. QED  BY <2>1, <2>2, <3>1, <3>2 DEF MemoryInv
  <2>7. CASE j.array = "vel" /\ c # j.cube
    <3>1. memory'[c] = memory[c]
      BY <1>0, <2>1, <2>7
    <3>2. Job("vel", c) # j
      BY <2>7, JobFields
    <3>. QED  BY <2>2, <3>1, <3>2 DEF MemoryInv
  <2>8. CASE j.array = "vel" /\ c = j.cube
    <3>1. memory'[c] = vel[j.buf]
      BY <1>0, <2>1, <2>8
    <3>2. c \notin Exposed => \A p \in PEs : vel[j.buf][p] \in New(c)
      BY <2>2, <2>8, Kept
    <3>. QED  BY <2>3, <2>8, <3>1, <3>2
  <2>. QED  BY <2>6, <2>7, <2>8
<1>5. ASSUME NextCall PROVE MemoryInv'
  <2>1. /\ l = "done" /\ k = TrailCube /\ UNCHANGED memory /\ call' = call + 1
        /\ pc'[PE0] = "prologue" /\ cube'[PE0] = 0
    BY <1>5, ConstantTypes DEF NextCall, AllDone, StartPc, TypePhase, PhaseInv
  <2>2. puts = <<>>
    BY <2>1, NoPuts DEF Looping
  <2>3. \A c \in OwnCubes : c \in Nat /\ (c < TrailCube \/ c = TrailCube)
    BY ConstantTypes
  <2>4. \A c \in OwnCubes : Asked(c)
    BY <2>1, <2>3 DEF Asked, Cleared
  <2>5. \A c \in OwnCubes : ~ Asked(c)'
    BY <2>1, <2>3 DEF Asked, Cleared
  <2>6. ASSUME NEW c \in OwnCubes, c \notin Exposed, NEW p \in PEs
        PROVE  memory[c][p] \in Old(c)'
    <3>1. memory[c][p] \in New(c)
      BY <2>2, <2>4, <2>6, EmptyQueue DEF MemoryInv
    <3>2. Alien(c) \subseteq Alien(c)' /\ Content(c, call) = Content(c, call' - 1)
      BY <1>0, <2>1 DEF Alien, Content
    <3>. QED  BY <3>1, <3>2 DEF New, Old
  <2>7. Suspect' = Exposed /\ call' - 1 = call
    <3>1. call' # 1 /\ call' - 1 = call
      BY <1>0, <2>1
    <3>. QED  BY <3>1 DEF Suspect
  <2>. QED  BY <2>1, <2>5, <2>6, <2>7 DEF MemoryInv
<1>. QED
  BY <1>2, <1>3, <1>4, <1>5 DEF Next, Dma, Finished

(* Every step keeps DeltaInv.                                              *)
LEMMA NextDelta ==
  ASSUME TypePhase, GetsInv, VelInv, DeltaInv, [Next]_vars
  PROVE  DeltaInv'
<1> DEFINE k == cube[PE0]
           l == pc[PE0]
<1>0. /\ delta \in [PEs -> SUBSET [of : OwnCubes, old : Contents, new : Contents]]
      /\ k \in Nat /\ OwnCubes \subseteq Nat /\ PE0 \in PEs
  BY CubeNumber, ConstantTypes DEF TypePhase, TypeOK
<1>1. ASSUME UNCHANGED <<call, delta>>,
             \A p \in PEs, c \in OwnCubes : Summed(p, c)' <=> Summed(p, c)
      PROVE  DeltaInv'
  <2>1. /\ Suspect' = Suspect
        /\ \A c : Old(c)' = Old(c) /\ Content(c, call)' = Content(c, call)
    BY <1>1 DEF Suspect, Old, Alien, Content
  <2>2. \A p \in PEs : \A d \in delta[p] : d.of \in OwnCubes
    BY <1>0
  <2>. QED  BY <1>1, <2>1, <2>2 DEF DeltaInv
<1>2. ASSUME PE0Step \/ LocalBarrier \/ Dma \/ UNCHANGED vars PROVE DeltaInv'
  BY <1>1, <1>2, Progress
<1>3. ASSUME NEW q \in PEs, Monitor(q) PROVE DeltaInv'
  <2>1. /\ UNCHANGED call /\ cube[q] = k /\ k \in OwnCubes
        /\ l \in {"monitor", "leave"} /\ ~ HasMonitored(q)
        /\ \A p \in PEs, c \in OwnCubes :
              Summed(p, c)' <=> Summed(p, c) \/ (p = q /\ c = k)
    BY <1>3, MonitorProgress
  <2>2. Holds(k) /\ Job("vel", k) \notin gets
    <3>1. Holds(k)
      BY <2>1, HeldHere
    <3>. QED  BY <2>1, <3>1, NotPending
  <2>3. ~ Summed(q, k)
    BY <1>0, <2>1 DEF Summed
  <2> DEFINE new == [of |-> k, old |-> vel[Slot(k)][q], new |-> NewVelocity(q)]
  <2>4. delta' = [delta EXCEPT ![q] = @ \cup {new}]
    BY <1>3, <2>1 DEF Monitor
  <2>5. NewVelocity(q) = Content(k, call)
    BY <2>1 DEF NewVelocity
  <2>6. k \notin Suspect => vel[Slot(k)][q] \in Old(k)
    BY <2>1, <2>2, <2>3 DEF VelInv
  <2>7. /\ new.of = k /\ new.new = Content(k, call)
        /\ k \notin Suspect => new.old \in Old(k)
    BY <2>5, <2>6
  <2> HIDE DEF new
  <2>8. /\ Suspect' = Suspect
        /\ \A c : Old(c)' = Old(c) /\ Content(c, call)' = Content(c, call)
    BY <2>1 DEF Suspect, Old, Alien, Content
  <2> SUFFICES ASSUME NEW p \in PEs
               PROVE  /\ \A d \in delta'[p] :
                           /\ Summed(p, d.of)'
                           /\ d.new = Content(d.of, call)
                           /\ d.of \notin Suspect => d.old \in Old(d.of)
                      /\ \A d, e \in delta'[p] : d.of = e.of => d = e
                      /\ \A c \in OwnCubes :
                           Summed(p, c)' => \E d \in delta'[p] : d.of = c
    BY <2>8 DEF DeltaInv
  <2>9. /\ \A d \in delta[p] : d.of \in OwnCubes /\ Summed(p, d.of)
        /\ \A d \in delta[p] : d.new = Content(d.of, call)
        /\ \A d \in delta[p] : d.of \notin Suspect => d.old \in Old(d.of)
        /\ \A d, e \in delta[p] : d.of = e.of => d = e
        /\ \A c \in OwnCubes : Summed(p, c) => \E d \in delta[p] : d.of = c
    BY <1>0 DEF DeltaInv
  <2>10. CASE p = q
    <3>1. delta'[p] = delta[p] \cup {new}
      BY <1>0, <2>4, <2>10
    <3>2. \A d \in delta[p] : d.of # k
      BY <2>3, <2>9, <2>10
    <3>. QED  BY <2>1, <2>7, <2>9, <2>10, <3>1, <3>2
  <2>11. CASE p # q
    <3>1. delta'[p] = delta[p]
      BY <1>0, <2>4, <2>11
    <3>. QED  BY <2>1, <2>9, <2>11, <3>1
  <2>. QED  BY <2>10, <2>11
<1>4. ASSUME NextCall PROVE DeltaInv'
  <2>1. /\ pc'[PE0] = "prologue" /\ cube'[PE0] = 0 /\ delta' = [p \in PEs |-> {}]
    BY <1>0, <1>4 DEF NextCall, StartPc, Reset
  <2>2. \A p \in PEs, c \in OwnCubes : ~ Summed(p, c)'
    BY <1>0, <2>1 DEF Summed, HasMonitored, Cleared
  <2>. QED  BY <2>1, <2>2 DEF DeltaInv
<1>. QED
  BY <1>2, <1>3, <1>4 DEF Next, Finished
-----------------------------------------------------------------------------
(***************************************************************************)
(* The pixels.                                                             *)
(***************************************************************************)

(* In a call PE0 only goes forward, until it is done.                      *)
LEMMA GoesForward ==
  ASSUME TypePhase, PE0Step \/ LocalBarrier \/ Dma \/ UNCHANGED vars
  PROVE  /\ cube'[PE0] >= cube[PE0]
         /\ pc[PE0] = "done" => pc'[PE0] = "done"
<1> DEFINE k == cube[PE0]
<1>0. /\ PhaseInv /\ k \in Nat /\ k \in Kernel \cup {TrailCube} /\ PE0 \in PEs
      /\ cube \in [PEs -> Kernel \cup {TrailCube}]
  BY CubeNumber, ConstantTypes DEF TypePhase, TypeOK
<1>1. CASE GetNext
  <2>1. /\ pc[PE0] = "refill" /\ k \in Kernel /\ cube'[PE0] = NextCube(k)
    BY <1>0, <1>1 DEF GetNext, PhaseInv
  <2>2. NextCube(k) = k + 1 \/ (NextCube(k) = TrailCube /\ k + 1 = NbCubes)
    BY <2>1, NextCubes
  <2>3. TrailCube = NbCubes + 1
    BY ConstantTypes
  <2>. QED  BY <1>0, <2>1, <2>2, <2>3
<1>2. CASE LocalBarrier
  BY <1>0, <1>2 DEF LocalBarrier, Arrived
<1>3. CASE TrailingCalls
  BY <1>0, <1>3, TrailingCallsEffect
<1>4. CASE TrailingReturns
  BY <1>0, <1>4, TrailingReturnsEffect
<1>5. CASE Prologue \/ WaitGet \/ PutCube \/ Epilogue
  BY <1>0, <1>5 DEF Prologue, WaitGet, PutCube, Epilogue
<1>6. CASE Dma \/ UNCHANGED vars
  <2>1. UNCHANGED <<pc, cube>>
    BY <1>6, PutSentEffect, GetArrivesEffect DEF Dma, vars
  <2>. QED  BY <1>0, <2>1
<1>. QED
  BY <1>1, <1>2, <1>3, <1>4, <1>5, <1>6 DEF PE0Step

(* Every step keeps DrawnInv: what a PE has drawn of PE0's cube stays.     *)
LEMMA NextDrawn ==
  ASSUME MonInv, TypePhase', DrawnInv, [Next]_vars
  PROVE  DrawnInv'
<1> DEFINE k == cube[PE0]
           l == pc[PE0]
<1>0. /\ TypePhase /\ k \in Nat /\ PE0 \in PEs /\ bitmap \in [PEs -> Contents]
      /\ OwnCubes \subseteq Nat
  BY CubeNumber, ConstantTypes DEF MonInv, TypePhase, TypeOK
<1>1. ASSUME PE0Step \/ LocalBarrier \/ Dma \/ UNCHANGED vars PROVE DrawnInv'
  <2> DEFINE m == cube'[PE0]
  <2>1. /\ UNCHANGED <<call, bitmap>>
        /\ \A p \in PEs, c \in OwnCubes : Summed(p, c)' <=> Summed(p, c)
    BY <1>0, <1>1, Progress
  <2>2. m >= k /\ (l = "done" => pc'[PE0] = "done")
    BY <1>0, <1>1, GoesForward
  <2> SUFFICES ASSUME pc'[PE0] # "done", m \in Picture,
                      NEW p \in PEs, HasMonitored(p)'
               PROVE  bitmap[p] = Content(m, call)
    BY <2>1 DEF DrawnInv, Content
  <2>3. m \in OwnCubes
    <3>1. PhaseInv'
      BY DEF TypePhase
    <3>2. pc'[PE0] \in {"monitor", "leave", "post", "refill", "returns_put",
                        "trailing_bitmap", "returns_bitmap"}
      BY DEF HasMonitored, Cleared
    <3>3. \/ pc'[PE0] \in {"monitor", "leave", "post"} /\ m \in OwnCubes
          \/ pc'[PE0] = "refill" /\ m \in Kernel
          \/ m = TrailCube /\ HasTrailing
      BY <3>1, <3>2 DEF PhaseInv, Trailing
    <3>. QED  BY <3>3, ConstantTypes
  <2>4. Summed(p, m)
    <3>1. \A c \in OwnCubes : c = m => Summed(p, c)'
      BY DEF Summed
    <3>. QED  BY <2>1, <2>3, <3>1
  <2>5. m = k /\ HasMonitored(p)
    <3>1. m \in Nat
      BY <1>0, <2>3
    <3>2. ~ (m < k)
      BY <1>0, <2>2, <3>1
    <3>. QED  BY <2>4, <3>2 DEF Summed
  <2>. QED  BY <2>2, <2>5 DEF DrawnInv
<1>2. ASSUME NEW q \in PEs, Monitor(q) PROVE DrawnInv'
  <2>1. /\ UNCHANGED <<call, cube>> /\ cube[q] = k /\ k \in OwnCubes
        /\ l \in {"monitor", "leave"}
        /\ \A p \in PEs : HasMonitored(p)' <=> HasMonitored(p) \/ p = q
    BY <1>0, <1>2, MonitorProgress
  <2>3. NewVelocity(q) = Content(k, call)
    BY <2>1 DEF NewVelocity
  <2>4. k \in Picture => bitmap' = [bitmap EXCEPT ![q] = Content(k, call)]
    BY <1>2, <2>1, <2>3 DEF Monitor
  <2> SUFFICES ASSUME k \in Picture, NEW p \in PEs, HasMonitored(p) \/ p = q
               PROVE  bitmap'[p] = Content(k, call)
    BY <2>1 DEF DrawnInv, Content
  <2>5. CASE p = q
    BY <1>0, <2>4, <2>5
  <2>6. CASE p # q
    <3>1. bitmap[p] = Content(k, call)
      BY <2>1, <2>6 DEF DrawnInv
    <3>. QED  BY <1>0, <2>4, <2>6, <3>1
  <2>. QED  BY <2>5, <2>6
<1>3. ASSUME NextCall PROVE DrawnInv'
  <2>1. pc'[PE0] = "prologue"
    BY <1>0, <1>3 DEF NextCall, StartPc
  <2>. QED  BY <2>1 DEF DrawnInv, HasMonitored, Cleared
<1>. QED
  BY <1>1, <1>2, <1>3 DEF Next, Finished

(* Every step keeps BitmapKept: only the first cube's put is still pending *)
(* when a next cube is drawn.                                              *)
LEMMA NextSending ==
  ASSUME MonInv, DrawnInv, BitmapKept, [Next]_vars
  PROVE  BitmapKept'
<1> DEFINE k == cube[PE0]
           l == pc[PE0]
           T == TrailCube
<1>0. /\ TypePhase /\ PhaseInv /\ PutsInv /\ puts \in Seq(Jobs)
      /\ call \in 1 .. NbCalls /\ k \in 0 .. T /\ PE0 \in PEs
      /\ bitmap \in [PEs -> Contents]
  <2>1. /\ TypePhase /\ PhaseInv /\ PutsInv /\ puts \in Seq(Jobs)
        /\ call \in 1 .. NbCalls /\ k \in Kernel \cup {T}
        /\ bitmap \in [PEs -> Contents]
    BY CubeNumber DEF MonInv, TypePhase, TypeOK
  <2>. QED  BY <2>1, ConstantTypes
<1>d. ASSUME call' = call PROVE \A c : Drawn(c)' = Drawn(c)
  BY <1>d DEF Drawn, Content
<1>1. ASSUME UNCHANGED <<call, bitmap>>, Range(puts') \subseteq Range(puts)
      PROVE  BitmapKept'
  BY <1>1, <1>d DEF BitmapKept
<1>2. ASSUME UNCHANGED <<call, bitmap>>, k \in Picture, l \in {"post", "trailing_bitmap"},
             \A j \in Range(puts') : \/ j \in Range(puts) \/ j.array = "vel"
                                     \/ j = Job("bitmap", k)
      PROVE  BitmapKept'
  <2>1. \A p \in PEs : HasMonitored(p)
    BY <1>2 DEF HasMonitored, Cleared
  <2>2. \A p \in PEs : bitmap[p] \in Drawn(k)
    <3>1. \A p \in PEs : bitmap[p] = Content(k, call)
      BY <1>2, <2>1 DEF DrawnInv
    <3>. QED  BY <3>1 DEF Drawn
  <2>3. ASSUME NEW j \in Range(puts'), j.array = "bitmap", NEW p \in PEs
        PROVE  bitmap[p] \in Drawn(j.cube)
    BY <1>2, <2>2, <2>3, JobFields DEF BitmapKept
  <2>. QED  BY <1>2, <1>d, <2>3 DEF BitmapKept
<1>3. ASSUME PutCube PROVE BitmapKept'
  <2>1. /\ UNCHANGED <<call, bitmap>> /\ l = "post"
        /\ puts' = puts \o PutsOf(k)
    BY <1>3 DEF PutCube, data
  <2>2. Range(puts') = Range(puts) \cup {Job("vel", k)} \cup
             (IF k \in Picture THEN {Job("bitmap", k)} ELSE {})
    BY <1>0, <2>1, PutsPosted
  <2>3. Job("vel", k).array = "vel"
    BY JobFields
  <2>4. CASE k \in Picture
    BY <1>2, <2>1, <2>2, <2>3, <2>4
  <2>5. CASE k \notin Picture
    <3>1. Range(puts') = Range(puts) \cup {Job("vel", k)}
      BY <2>2, <2>5
    <3>. QED  BY <1>d, <2>1, <2>3, <3>1 DEF BitmapKept
  <2>. QED  BY <2>4, <2>5
<1>4. ASSUME TrailingCalls PROVE BitmapKept'
  <2>1. UNCHANGED <<call, bitmap>> /\ k = T
    BY <1>0, <1>4, TrailingCallsEffect DEF data
  <2>2. \A a \in {"vel", "bitmap"} : Job(a, T) \in Jobs /\ Job(a, T).array = a
    BY <1>0, ConstantTypes, JobTypes, JobFields
  <2>3. CASE puts' = puts
    BY <1>1, <2>1, <2>3
  <2>4. CASE puts' = Append(puts, Job("vel", T))
    <3>1. Range(puts') = Range(puts) \cup {Job("vel", T)}
      BY <1>0, <2>2, <2>4, QueueAppend
    <3>. QED  BY <1>d, <2>1, <2>2, <3>1 DEF BitmapKept
  <2>5. CASE l = "trailing_bitmap" /\ puts' = Append(puts, Job("bitmap", T))
    <3>1. Range(puts') = Range(puts) \cup {Job("bitmap", T)}
      BY <1>0, <2>2, <2>5, QueueAppend
    <3>2. T \in Picture
      BY <1>0, <2>5 DEF PutsInv
    <3>. QED  BY <1>2, <2>1, <2>5, <3>1, <3>2
  <2>. QED  BY <1>0, <1>4, <2>3, <2>4, <2>5, TrailingCallsEffect
<1>5. ASSUME NEW q \in PEs, Monitor(q) PROVE BitmapKept'
  <2>1. /\ UNCHANGED <<call, puts>> /\ cube[q] = k /\ l \in {"monitor", "leave"}
    BY <1>0, <1>5, MonitorProgress DEF dma
  <2>2. ASSUME NEW j \in Range(puts), j.array = "bitmap", NEW p \in PEs
        PROVE  bitmap'[p] \in Drawn(j.cube)
    <3>1. bitmap[p] \in Drawn(j.cube)
      BY <2>2 DEF BitmapKept
    <3>2. CASE k \in Picture
      <4>1. PutInWindow(j)
        BY <1>0 DEF PutsInv
      <4>2. j.cube = 0 /\ k = 1 /\ 1 \in Kernel
        BY <2>1, <2>2, <4>1 DEF PutInWindow
      <4>3. bitmap' = [bitmap EXCEPT ![q] = Content(1, call)]
        BY <1>5, <2>1, <3>2, <4>2 DEF Monitor, NewVelocity
      <4>4. Content(1, call) \in Drawn(0)
        BY <3>2, <4>2 DEF Drawn
      <4>. QED  BY <1>0, <3>1, <4>2, <4>3, <4>4
    <3>3. CASE k \notin Picture
      BY <1>5, <2>1, <3>1, <3>3 DEF Monitor
    <3>. QED  BY <3>2, <3>3
  <2>. QED  BY <1>d, <2>1, <2>2 DEF BitmapKept
<1>6. ASSUME PutSent PROVE BitmapKept'
  <2>1. puts # <<>> /\ puts' = Tail(puts) /\ UNCHANGED <<call, bitmap>>
    BY <1>6, PutSentEffect
  <2>. QED  BY <1>0, <1>1, <2>1, QueueTail
<1>7. ASSUME \/ Prologue \/ WaitGet \/ GetNext \/ Epilogue \/ TrailingReturns
             \/ LocalBarrier \/ UNCHANGED vars
             \/ \E i \in gets : GetArrives(i)
      PROVE  BitmapKept'
  <2>1. UNCHANGED <<call, puts, bitmap>>
    BY <1>0, <1>7, GetArrivesEffect, TrailingReturnsEffect
       DEF Prologue, WaitGet, GetNext, Epilogue, LocalBarrier, vars, dma, data
  <2>. QED  BY <1>1, <2>1
<1>8. ASSUME NextCall PROVE BitmapKept'
  <2>1. l = "done" /\ puts' = puts
    BY <1>0, <1>8 DEF NextCall, AllDone, dma
  <2>2. puts = <<>>
    BY <1>0, <2>1, NoPuts DEF Looping
  <2>. QED  BY <2>1, <2>2, EmptyQueue DEF BitmapKept
<1>. QED
  BY <1>3, <1>4, <1>5, <1>6, <1>7, <1>8 DEF Next, PE0Step, Dma, Finished

(* A cube's pixels are asked to be put by posting the put.                 *)
LEMMA ImageAsked ==
  ASSUME TypePhase, NEW c \in OwnCubes \cap Picture,
         PE0Step \/ LocalBarrier \/ UNCHANGED vars
         \/ (\E i \in gets : GetArrives(i)),
         AskedImage(c)'
  PROVE  AskedImage(c) \/ Job("bitmap", c) \in Range(puts')
<1> DEFINE k == cube[PE0]
           l == pc[PE0]
           T == TrailCube
<1>0. /\ PhaseInv /\ PE0 \in PEs /\ pc \in [PEs -> Labels]
      /\ c \in Kernel \cup {T} /\ T \notin Kernel
  BY ConstantTypes DEF TypePhase, TypeOK
<1>1. Asked(c) \/ (Asks /\ c = k)
  BY Progress DEF AskedImage, Dma
<1>2. /\ Asks => (k \in Picture \cap Kernel => Job("bitmap", k) \in Range(puts'))
      /\ l = "trailing_bitmap" /\ pc'[PE0] = "returns_bitmap" =>
           Job("bitmap", T) \in Range(puts')
  BY PutsGrow
<1>3. pc'[PE0] \in {"returns_put", "trailing_bitmap"} => c # T
  BY DEF AskedImage
<1>4. CASE Asks /\ c = k
  <2>1. CASE c \in Kernel
    BY <1>2, <1>4, <2>1
  <2>2. CASE c = T
    <3>1. pc'[PE0] = "refill" /\ l = "post" /\ k = T
      BY <1>3, <1>4, <2>2 DEF Asks
    <3>2. ~ PutCube
      BY <1>0, <3>1 DEF PutCube
    <3>3. ~ TrailingCalls /\ ~ TrailingReturns
      BY <3>1, TrailingCallsEffect, TrailingReturnsEffect
    <3>4. ~ (Prologue \/ WaitGet \/ GetNext \/ Epilogue \/ LocalBarrier)
      BY <1>0, <3>1 DEF Prologue, WaitGet, GetNext, Epilogue, LocalBarrier, Arrived
    <3>5. ~ (UNCHANGED vars \/ \E i \in gets : GetArrives(i))
      BY <3>1, GetArrivesEffect DEF vars
    <3>. QED  BY <3>2, <3>3, <3>4, <3>5 DEF PE0Step
  <2>. QED  BY <1>0, <2>1, <2>2
<1>5. CASE Asked(c) /\ ~ AskedImage(c)
  <2>1. c = T /\ l \in {"returns_put", "trailing_bitmap"}
    BY <1>5 DEF AskedImage
  <2>2. CASE TrailingCalls
    <3>1. l = "trailing_bitmap" /\ pc'[PE0] = "returns_bitmap"
      BY <2>1, <2>2, TrailingCallsEffect
    <3>. QED  BY <1>2, <2>1, <3>1
  <2>3. CASE TrailingReturns
    <3>1. pc'[PE0] = IF T \in Picture THEN "trailing_bitmap" ELSE "done"
      BY <2>1, <2>3, TrailingReturnsEffect
    <3>. QED  BY <1>3, <2>1, <3>1
  <2>4. ~ (Prologue \/ WaitGet \/ PutCube \/ GetNext \/ Epilogue \/ LocalBarrier)
    BY <1>0, <2>1 DEF Prologue, WaitGet, PutCube, GetNext, Epilogue, LocalBarrier,
                      Arrived
  <2>5. CASE UNCHANGED vars \/ \E i \in gets : GetArrives(i)
    <3>1. pc' = pc
      BY <2>5, GetArrivesEffect DEF vars
    <3>. QED  BY <1>3, <2>1, <3>1
  <2>. QED  BY <2>2, <2>3, <2>4, <2>5 DEF PE0Step
<1>. QED  BY <1>1, <1>4, <1>5

(* Every step keeps ImageInv.                                              *)
LEMMA NextImage ==
  ASSUME MonInv, BitmapKept, ImageInv, [Next]_vars
  PROVE  ImageInv'
<1> DEFINE k == cube[PE0]
           l == pc[PE0]
<1>0. /\ TypePhase /\ PutsInv /\ puts \in Seq(Jobs) /\ PE0 \in PEs
      /\ image \in [OwnCubes \cap Picture -> [PEs -> Contents]]
  BY ConstantTypes DEF MonInv, TypePhase, TypeOK
<1>1. ASSUME UNCHANGED <<call, image>>, Range(puts) \subseteq Range(puts'),
             \A c \in OwnCubes \cap Picture :
                AskedImage(c)' => AskedImage(c) \/ Job("bitmap", c) \in Range(puts')
      PROVE  ImageInv'
  <2>1. \A c : Job("bitmap", c)' = Job("bitmap", c) /\ Drawn(c)' = Drawn(c)
    BY <1>1 DEF Job, Drawn, Content
  <2>. QED  BY <1>1, <2>1 DEF ImageInv
<1>2. ASSUME PE0Step \/ LocalBarrier \/ UNCHANGED vars
             \/ (\E i \in gets : GetArrives(i))
      PROVE  ImageInv'
  BY <1>0, <1>1, <1>2, PutsGrow, ImageAsked
<1>3. ASSUME NEW q \in PEs, Monitor(q) PROVE ImageInv'
  <2>1. /\ UNCHANGED <<call, image, puts>>
        /\ l \in {"monitor", "leave"} /\ pc'[PE0] \in {"monitor", "leave"}
        /\ \A c \in OwnCubes : Asked(c)' <=> Asked(c)
    BY <1>0, <1>3, MonitorProgress DEF dma
  <2>2. \A c \in OwnCubes \cap Picture : AskedImage(c)' => AskedImage(c)
    BY <2>1 DEF AskedImage
  <2>. QED  BY <1>1, <2>1, <2>2
<1>4. ASSUME PutSent PROVE ImageInv'
  <2> DEFINE j == Head(puts)
  <2>1. /\ puts # <<>> /\ puts' = Tail(puts) /\ UNCHANGED <<call, pc, cube>>
        /\ j.array = "bitmap" => image' = [image EXCEPT ![j.cube] = bitmap]
        /\ j.array # "bitmap" => image' = image
    BY <1>4, PutSentEffect
  <2>2. Range(puts) = {j} \cup Range(puts') /\ j \in Range(puts)
    BY <1>0, <2>1, QueueTail
  <2>3. /\ j.array = "vel" => j = Job("vel", j.cube)
        /\ j.array # "vel" => j = Job("bitmap", j.cube) /\ j.cube \in Picture
        /\ j.cube \in OwnCubes
    BY <1>0, <2>2, SentAsked
  <2>4. \A c : AskedImage(c)' <=> AskedImage(c)
    BY <2>1 DEF AskedImage, Asked
  <2>5. \A c : Job("bitmap", c)' = Job("bitmap", c) /\ Drawn(c)' = Drawn(c)
    BY <2>1 DEF Job, Drawn, Content
  <2> HIDE DEF j
  <2> SUFFICES ASSUME NEW c \in OwnCubes \cap Picture, AskedImage(c)
               PROVE  \/ Job("bitmap", c) \in Range(puts')
                      \/ \A p \in PEs : image'[c][p] \in Drawn(c)
    BY <2>4, <2>5 DEF ImageInv
  <2>6. CASE j.array = "vel"
    <3>1. Job("bitmap", c) # j
      BY <2>6, JobFields
    <3>. QED  BY <2>1, <2>2, <2>6, <3>1 DEF ImageInv
  <2>7. CASE j.array # "vel" /\ c # j.cube
    <3>1. Job("bitmap", c) # j /\ j.array = "bitmap"
      BY <2>3, <2>7, JobFields
    <3>2. image'[c] = image[c]
      BY <1>0, <2>1, <2>3, <2>7, <3>1
    <3>. QED  BY <2>2, <3>1, <3>2 DEF ImageInv
  <2>8. CASE j.array # "vel" /\ c = j.cube
    <3>1. j.array = "bitmap"
      BY <2>3, <2>8, JobFields
    <3>2. image'[c] = bitmap
      BY <1>0, <2>1, <2>8, <3>1
    <3>3. \A p \in PEs : bitmap[p] \in Drawn(c)
      BY <2>2, <2>8, <3>1 DEF BitmapKept
    <3>. QED  BY <3>2, <3>3
  <2>. QED  BY <2>6, <2>7, <2>8
<1>5. ASSUME NextCall PROVE ImageInv'
  <2>1. pc'[PE0] = "prologue" /\ cube'[PE0] = 0
    BY <1>0, <1>5 DEF NextCall, StartPc
  <2>2. \A c \in OwnCubes : ~ Asked(c)'
    BY <2>1, ConstantTypes DEF Asked, Cleared
  <2>. QED  BY <2>2 DEF ImageInv, AskedImage
<1>. QED
  BY <1>2, <1>3, <1>4, <1>5 DEF Next, Dma, Finished
-----------------------------------------------------------------------------
(***************************************************************************)
(* The theorems.                                                           *)
(***************************************************************************)

(* The first call starts with nothing in flight, asked or summed.          *)
LEMMA InitMon == Init => MonInv /\ DrawInv
<1> SUFFICES ASSUME Init PROVE MonInv /\ DrawInv
  OBVIOUS
<1>1. TypePhase /\ GetsInv
  BY InitTypePhase, InitGets
<1>2. /\ pc[PE0] = "prologue" /\ cube[PE0] = 0 /\ gets = {} /\ puts = <<>>
      /\ call = 1 /\ \A p \in PEs : delta[p] = {}
      /\ \A c \in OwnCubes : memory[c] = Planes(c, 0)
      /\ OwnCubes \subseteq Nat
  BY ConstantTypes DEF Init, StartPc
<1>4. VelInv
  <2>1. TrailCube # 0
    BY ConstantTypes
  <2>. QED  BY <1>2, <2>1 DEF VelInv, Holds
<1>5. PutsInv
  BY <1>2, EmptyQueue DEF PutsInv
<1>6. \A p \in PEs, c \in OwnCubes : ~ Summed(p, c) /\ ~ Asked(c)
  BY <1>2 DEF Summed, Asked, HasMonitored, Cleared
<1>7. MemoryInv
  <2>1. PE0 \in PEs
    BY ConstantTypes
  <2>2. \A c \in OwnCubes, p \in PEs : memory[c][p] = Content(c, 0)
    BY <1>2 DEF Planes
  <2>3. call - 1 = 0
    BY <1>2
  <2>4. \A c \in OwnCubes, p \in PEs : memory[c][p] \in Old(c)
    BY <2>2, <2>3 DEF Old
  <2>. QED  BY <1>6, <2>1, <2>4 DEF MemoryInv
<1>8. DeltaInv
  BY <1>2, <1>6 DEF DeltaInv
<1>9. DrawInv
  <2>1. \A p \in PEs : ~ HasMonitored(p)
    BY <1>2 DEF HasMonitored, Cleared
  <2>2. \A c \in OwnCubes : ~ AskedImage(c)
    BY <1>6, ConstantTypes DEF AskedImage
  <2>. QED  BY <1>2, <2>1, <2>2, EmptyQueue DEF DrawInv, DrawnInv, BitmapKept, ImageInv
<1>. QED  BY <1>1, <1>4, <1>5, <1>7, <1>8, <1>9 DEF MonInv

(* Every step keeps the invariant.                                         *)
LEMMA NextMon ==
  ASSUME MonInv, [Next]_vars
  PROVE  MonInv'
<1>1. TypePhase'
  BY NextTypePhase DEF MonInv
<1>2. GetsInv'
  BY <1>1, NextGets DEF MonInv
<1>3. VelInv'
  BY NextVel DEF MonInv
<1>4. PutsInv'
  BY NextPuts DEF MonInv
<1>5. MemoryInv'
  BY NextMemory DEF MonInv
<1>6. DeltaInv'
  BY NextDelta DEF MonInv
<1>. QED  BY <1>1, <1>2, <1>3, <1>4, <1>5, <1>6 DEF MonInv

(* In whatever order the gets arrive, a PE in monitor_cube finds in its    *)
(* plane of async_velocity what was stored for this cube, though           *)
(* async_events_get keeps only the second of the two tickets, and no get   *)
(* is writing there; but for a cube exposed to the wait that the code      *)
(* leaves out, and for the get of cube NbCubes that nobody waits for.      *)
THEOREM MonitorReadsOwnCubeHolds == Spec => []MonitorReadsOwnCube
<1>1. MonInv => MonitorReadsOwnCube
  <2> SUFFICES ASSUME MonInv, NEW p \in PEs, pc[p] = "monitor"
               PROVE  LET s == Slot(cube[p]) IN
                      /\ cube[p] \notin Suspect => vel[s][p] \in Old(cube[p])
                      /\ \A g \in gets :
                           g.array = "vel" /\ g.buf = s => Untimely(g, cube[p])
    BY DEF MonitorReadsOwnCube
  <2> USE DEF MonInv
  <2> DEFINE k == cube[PE0]
  <2>1. pc[PE0] \in {"monitor", "leave"} /\ cube[p] = k /\ k \in OwnCubes
    BY Together
  <2>2. Holds(k)
    BY <2>1, HeldHere
  <2>3. Job("vel", k) \notin gets
    BY <2>1, <2>2, NotPending
  <2>4. k \in Nat
    BY CubeNumber
  <2>5. ~ Summed(p, k)
    BY <2>1, <2>4 DEF Summed, HasMonitored, Cleared
  <2>6. k \notin Suspect => vel[Slot(k)][p] \in Old(k)
    BY <2>1, <2>2, <2>3, <2>5 DEF VelInv
  <2>7. ASSUME NEW g \in gets, g.array = "vel", g.buf = Slot(k)
        PROVE  Untimely(g, k)
    BY <2>1, <2>2, <2>3, <2>7, Arrives DEF Untimely
  <2>. QED  BY <2>1, <2>6, <2>7
<1>. QED  BY InitMon, NextMon, <1>1, PTL DEF Spec

(* The wait that the code makes from the second cube on is enough: but for *)
(* the get of cube NbCubes, no get is on its way to a buffer of velocities *)
(* whose put has not been read.                                            *)
THEOREM LaterPutsSafeHolds == Spec => []LaterPutsSafe
<1>1. MonInv => LaterPutsSafe
  <2> SUFFICES ASSUME MonInv, NEW j \in Range(puts), j.array = "vel",
                      j.cube > 0, NEW g \in gets, g.array = "vel",
                      g.buf = j.buf
               PROVE  Untimely(g, j.cube)
    BY DEF LaterPutsSafe
  <2> USE DEF MonInv
  <2> DEFINE k == cube[PE0]
  <2>1. /\ j.cube \in OwnCubes /\ Asked(j.cube) /\ j = Job("vel", j.cube)
    BY SentAsked
  <2>2. j.buf = Slot(j.cube)
    BY <2>1, JobFields
  <2>3. j.cube # 0
    <3>1. j.cube \in Nat /\ j.cube > 0
      BY <2>1, ConstantTypes
    <3>. QED  BY <3>1
  <2>4. Holds(j.cube)
    <3>1. j.cube = k /\ pc[PE0] \in {"refill", "returns_put", "returns_bitmap"}
      BY <2>3 DEF PutsInv, PutInWindow
    <3>2. CASE pc[PE0] = "refill"
      BY <3>1, <3>2, HeldHere
    <3>3. CASE pc[PE0] \in {"returns_put", "returns_bitmap"}
      <4>1. k = TrailCube
        BY <3>3 DEF TypePhase, PhaseInv, Trailing
      <4>. QED  BY <3>1, <3>3, <4>1 DEF Holds
    <3>. QED  BY <3>1, <3>2, <3>3
  <2>5. Job("vel", j.cube) \notin gets
    BY <2>1, <2>4, NotPending
  <2>. QED  BY <2>1, <2>2, <2>4, <2>5, Arrives DEF Untimely
<1>. QED  BY InitMon, NextMon, <1>1, PTL DEF Spec

(* And what the cluster sends to the others is the whole variation: when   *)
(* its PEs are done each has one term for every cube of the cluster, the   *)
(* difference between this monitoring and what the one before has left.    *)
THEOREM DeltaExactHolds == Spec => []DeltaExact
<1>1. MonInv => DeltaExact
  <2> SUFFICES ASSUME MonInv, AllDone, NEW p \in PEs, NEW k \in OwnCubes
               PROVE  \E d \in delta[p] :
                        /\ {e \in delta[p] : e.of = k} = {d}
                        /\ d.new = Content(k, call)
                        /\ k \notin Suspect => d.old \in Old(k)
    BY DEF DeltaExact
  <2>1. pc[PE0] = "done" /\ cube[PE0] = TrailCube
    BY ConstantTypes DEF AllDone, MonInv, TypePhase, PhaseInv
  <2>2. k < TrailCube \/ k = TrailCube
    BY ConstantTypes
  <2>3. Summed(p, k)
    BY <2>1, <2>2 DEF Summed, HasMonitored, Cleared
  <2>4. PICK d \in delta[p] : d.of = k
    BY <2>3 DEF MonInv, DeltaInv
  <2>5. \A e \in delta[p] : e.of = k => e = d
    BY <2>4 DEF MonInv, DeltaInv
  <2>6. d.new = Content(k, call) /\ (k \notin Suspect => d.old \in Old(k))
    BY <2>4 DEF MonInv, DeltaInv
  <2>. QED  BY <2>4, <2>5, <2>6
<1>. QED  BY InitMon, NextMon, <1>1, PTL DEF Spec

(* Every step keeps both invariants.                                       *)
LEMMA NextDraw ==
  ASSUME MonInv, DrawInv, [Next]_vars
  PROVE  MonInv' /\ DrawInv'
<1>1. MonInv'
  BY NextMon
<1>2. DrawnInv'
  BY <1>1, NextDrawn DEF MonInv, DrawInv
<1>3. BitmapKept'
  BY NextSending DEF DrawInv
<1>4. ImageInv'
  BY NextImage DEF DrawInv
<1>. QED  BY <1>1, <1>2, <1>3, <1>4 DEF DrawInv

(* No PE draws on the only bitmap buffer while the DMA engine is reading   *)
(* another cube's pixels, but those of cube 1 on those of cube 0.          *)
THEOREM BitmapKeptHolds == Spec => []BitmapKept
<1>1. DrawInv => BitmapKept
  BY DEF DrawInv
<1>. QED  BY InitMon, NextDraw, <1>1, PTL DEF Spec

(* When its PEs are done the cluster has stored the velocities of all its  *)
(* cubes, but for one that is exposed, and its squares of the picture, all *)
(* of this call, though cube 1 may have been drawn over cube 0.            *)
THEOREM MonitorCompleteHolds == Spec => []MonitorComplete
<1>1. MonInv /\ DrawInv => MonitorComplete
  <2> SUFFICES ASSUME MonInv, DrawInv, AllDone, NEW p \in PEs
               PROVE  /\ \A k \in OwnCubes \ Exposed : memory[k][p] \in New(k)
                      /\ \A k \in OwnCubes \cap Picture :
                           image[k][p] \in Drawn(k)
    BY DEF MonitorComplete
  <2>1. pc[PE0] = "done" /\ cube[PE0] = TrailCube
    BY ConstantTypes DEF AllDone, MonInv, TypePhase, PhaseInv
  <2>2. puts = <<>>
    BY <2>1, NoPuts DEF MonInv, Looping
  <2>3. \A k \in OwnCubes : k < TrailCube \/ k = TrailCube
    BY ConstantTypes
  <2>4. \A k \in OwnCubes : Asked(k) /\ AskedImage(k)
    BY <2>1, <2>3 DEF Asked, AskedImage, Cleared
  <2>. QED  BY <2>2, <2>4, EmptyQueue DEF MonInv, MemoryInv, DrawInv, ImageInv
<1>. QED  BY InitMon, NextDraw, <1>1, PTL DEF Spec
=============================================================================
