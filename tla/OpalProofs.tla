------------------------------ MODULE OpalProofs ------------------------------
(***************************************************************************)
(* Theorems about Opal, for any number of clusters, any duration and with  *)
(* or without monitoring, when the puts land before a barrier ends         *)
(* (PutsLandFirst): the clusters, each running a loop of its own with a    *)
(* verdict of its own, meet at the same barriers, read whole arrays of the *)
(* current step, and together run one sequential loop (MainLoop).          *)
(***************************************************************************)
EXTENDS MCOpal, TLAPS

-----------------------------------------------------------------------------
(***************************************************************************)
(* The inductive invariant.  Between two barriers every cluster is in the  *)
(* same stage of the main loop: StageInv.  What SameSite says of the       *)
(* barrier is the last moment of a stage.                                  *)
(***************************************************************************)
InitStage    == {"alloc", "failed", "init", "first_export", "barrier_init"}
ComputeStage == {"compute", "barrier_compute"}
MonitorStage == {"monitor", "barrier_sums"}
DecideStage  == {"decide", "export", "barrier_monitor"}
EndStage     == {"barrier_end"}
FreeStage    == {"free", "barrier_final"}
DoneStage    == {"done"}
Stages == {InitStage, ComputeStage, MonitorStage, DecideStage, EndStage,
           FreeStage, DoneStage}

(* The main loop.                                                          *)
LoopStages == ComputeStage \cup MonitorStage \cup DecideStage

(* Where only cluster 0 ever is.                                           *)
Alone == {"alloc", "failed", "init", "first_export", "export", "free"}

StageInv ==
  /\ \E S \in Stages : \A c \in Clusters : pc[c] \in S
  /\ \A c \in Clusters : step[c] = step[Cluster0]
  /\ \A c \in Clusters : pc[c] \in Alone => c = Cluster0

(* Where a cluster is bounds its step: nothing has run before the loop,    *)
(* there are steps left in it, and it is left only after a step.           *)
StepBound ==
  \A c \in Clusters : /\ pc[c] \in InitStage => step[c] = 0
                      /\ pc[c] \in LoopStages => step[c] <= Duration

(* What a cluster does only in a step that is monitored, with pictures,    *)
(* after the loop.                                                         *)
DueInv ==
  \A c \in Clusters :
    /\ pc[c] \in MonitorStage \cup DecideStage => Due(step[c])
    /\ pc[c] = "export" => Images
    /\ pc[c] \in EndStage \cup FreeStage \cup DoneStage => step[c] > 0

(* Nobody has decided to leave the loop until the verdict of a monitoring, *)
(* which every cluster finds alike.                                        *)
AllSmall == \A d \in Clusters : sum[d][d].small

VerdictInv ==
  /\ \A c \in Clusters :
       /\ pc[c] \in InitStage \cup ComputeStage \cup MonitorStage \cup {"decide"}
            => ~ converged[c]
       /\ pc[c] \in {"export", "barrier_monitor"} => converged[c] = AllSmall
  /\ \A c, d \in Clusters :
       pc[c] \in EndStage \cup FreeStage \cup DoneStage
         => converged[c] = converged[d]

(* The puts that this stage has issued.  Each is in flight or has landed,  *)
(* and no other is in flight.                                              *)
InitPuts ==
  {PutParts(arrays, Clusters, 0) : arrays \in {{"even"}, {"odd"}, Results}}
    \cup {PutAddresses(c) : c \in Clusters \ {Cluster0}}

Pictures == IF Images THEN Results ELSE {"velocity"}

(* Where cluster 0 has filled the arrays.                                  *)
Filled == {"first_export", "barrier_init"}

PutsAt(c, label, s, v) ==
  CASE label \in Filled /\ c = Cluster0 -> InitPuts
    [] label = "barrier_compute" -> {PutParts({Dst(s)}, {c}, s + 1)}
    [] label = "barrier_sums" ->
         {PutSum(c, d, v) : d \in Clusters \ {c}}
           \cup {PutParts(Pictures, {c}, s)}
    [] OTHER -> {}

PutsOf(c) == PutsAt(c, pc[c], step[c], sum[c][c])
Issued == UNION {PutsOf(c) : c \in Clusters}

Landed(m) ==
  /\ m.kind = "addresses" => m.to \in known
  /\ m.kind = "parts" =>
       \A a \in m.arrays : \A c \in m.of : content[a][c] = m.step
  /\ m.kind = "sum" => sum[m.to][m.of] = m.value

FlightInv ==
  /\ flight \subseteq Issued
  /\ \A m \in Issued : m \in flight \/ Landed(m)

(* What the stages before have left, whatever is in flight now.            *)
WholeAt(a, s) == \A d \in Clusters : content[a][d] = s

ContentInv ==
  \A c \in Clusters :
    /\ pc[c] \notin InitStage => known = Clusters
    /\ pc[c] = "alloc" => known = {}
    /\ pc[c] \in {"init"} \cup Filled /\ c = Cluster0 => c \in known
    /\ pc[c] \in LoopStages => WholeAt(Src(step[c]), step[c])
    /\ pc[c] \in MonitorStage \cup DecideStage
         => WholeAt(Dst(step[c]), step[c] + 1)
    /\ pc[c] = "barrier_sums" => sum[c][c].step = step[c]
    /\ pc[c] \in DecideStage =>
         /\ Images => WholeAt("bitmap", step[c])
         /\ \A d \in Clusters : sum[c][d] = sum[d][d] /\ sum[c][d].step = step[c]

HeapInv ==
  \/ heap = Arrays /\ pc[Cluster0] \notin {"alloc", "failed"}
  \/ heap = {} /\ flight = {}
     /\ pc[Cluster0] \in {"alloc", "failed", "barrier_final", "done"}

(* The invariant.                                                          *)
IInv ==
  /\ TypeOK
  /\ StepBound
  /\ StageInv
  /\ DueInv
  /\ VerdictInv
  /\ FlightInv
  /\ ContentInv
  /\ HeapInv
-----------------------------------------------------------------------------
(***************************************************************************)
(* Lemmas about the operators of the model.                                *)
(***************************************************************************)
(* Cluster 0 is a cluster, and the main loop has a step to run.            *)
LEMMA Constants ==
  /\ Cluster0 \in Clusters
  /\ Period \in Nat \ {0}
  /\ Duration \in Nat \ {0}
<1>1. Period \in Int
  <2>1. CASE Monitoring
    BY <2>1, SizeAssumption DEF Period
  <2>2. CASE ~ Monitoring
    BY <2>2, SizeAssumption DEF Period
  <2>. QED  BY <2>1, <2>2
<1>. QED  BY <1>1, SizeAssumption, PeriodAssumption DEF Cluster0, Clusters

(* The lattices swap roles: what a step writes the next one reads, and no  *)
(* step reads what it writes.                                              *)
LEMMA SwapLattices ==
  ASSUME NEW s \in Nat
  PROVE  /\ Src(s) \in Lattices /\ Dst(s) \in Lattices
         /\ Src(s) # Dst(s)
         /\ Src(s + 1) = Dst(s)
BY DEF Src, Dst, Lattices

(* The labels, stage by stage.                                             *)
LEMMA LabelsOfStages ==
  /\ Labels = LoopStages \cup {"alloc", "failed", "init", "first_export",
                 "barrier_init", "barrier_end", "free", "barrier_final", "done"}
  /\ LoopStages = {"compute", "barrier_compute", "monitor", "barrier_sums",
                   "decide", "export", "barrier_monitor"}
  /\ InitStage = {"alloc", "failed", "init", "first_export", "barrier_init"}
BY DEF Labels, Sites, Stages, LoopStages, InitStage, ComputeStage,
       MonitorStage, DecideStage, EndStage, FreeStage, DoneStage

(* A label belongs to one stage.                                           *)
LEMMA StagesDisjoint ==
  ASSUME NEW S \in Stages, NEW T \in Stages, NEW label \in S, label \in T
  PROVE  S = T
BY DEF Stages, InitStage, ComputeStage, MonitorStage, DecideStage, EndStage,
       FreeStage, DoneStage

(* The clusters are all in the stage that one of them is in.               *)
LEMMA OneStage ==
  ASSUME StageInv, NEW S \in Stages, NEW c \in Clusters, pc[c] \in S
  PROVE  \A d \in Clusters : pc[d] \in S
<1>1. PICK T \in Stages : \A d \in Clusters : pc[d] \in T
  BY DEF StageInv
<1>2. S = T
  BY <1>1, StagesDisjoint
<1>. QED  BY <1>1, <1>2

(* A put in flight is of one of three kinds.                               *)
LEMMA Kinds ==
  ASSUME TypeOK, NEW m \in flight
  PROVE  \/ m.kind = "addresses" /\ m.to \in Clusters
         \/ /\ m.kind = "parts" /\ m.step \in Steps
            /\ m.arrays \subseteq Arrays /\ m.of \subseteq Clusters
         \/ /\ m.kind = "sum" /\ m.of \in Clusters /\ m.to \in Clusters
            /\ m.value \in Sums
BY DEF TypeOK, Puts

(* Where mppa_rpc_barrier_all releases a cluster to.                       *)
LEMMA Released ==
  ASSUME NEW c \in Clusters, pc[c] \in Sites
  PROVE  /\ pc[c] = "barrier_init" => AfterBarrier(c) = Turn(0, converged[c])
         /\ EndsStep(c) => AfterBarrier(c) = Turn(NextStep(c), converged[c])
         /\ pc[c] = "barrier_compute" /\ Due(step[c]) => AfterBarrier(c) = "monitor"
         /\ pc[c] = "barrier_sums" => AfterBarrier(c) = "decide"
         /\ pc[c] = "barrier_end" =>
              AfterBarrier(c) = IF c = Cluster0 THEN "free" ELSE "barrier_final"
         /\ pc[c] = "barrier_final" => AfterBarrier(c) = "done"
BY DEF AfterBarrier, EndsStep, Sites
-----------------------------------------------------------------------------
(***************************************************************************)
(* Types.  The step of a cluster stays below Duration + 2 because only a   *)
(* cluster in the loop moves on, and it is there only up to Duration; this *)
(* does not depend on when puts land.                                      *)
(***************************************************************************)
(* A cluster that goes on within its step.                                 *)
LEMMA GotoTyped ==
  ASSUME TypeOK, StepBound, NEW c \in Clusters, NEW label \in Labels,
         Goto(c, label), step' = step,
         label \in LoopStages => pc[c] \in LoopStages,
         label \in InitStage => pc[c] \in InitStage
  PROVE  pc' \in [Clusters -> Labels] /\ StepBound'
BY DEF TypeOK, StepBound, Goto

(* Every step keeps the types and the bounds of the step.                  *)
LEMMA TypeNext ==
  ASSUME TypeOK, StepBound, [Next]_vars
  PROVE  TypeOK' /\ StepBound'
<1>1. CASE Allocate
  <2>1. PICK label \in {"init", "failed"} : Goto(Cluster0, label)
    BY <1>1 DEF Allocate
  <2>2. pc' \in [Clusters -> Labels] /\ StepBound'
    BY <1>1, <2>1, Constants, LabelsOfStages, GotoTyped DEF Allocate
  <2>. QED  BY <1>1, <2>2, Constants DEF Allocate, TypeOK
<1>2. CASE InitArrays
  <2>1. flight' \subseteq Puts
    <3>1. \A c \in Clusters : PutAddresses(c) \in Puts
      BY DEF PutAddresses, Puts
    <3>2. \A arrays \in SUBSET Arrays : PutParts(arrays, Clusters, 0) \in Puts
      BY Constants DEF PutParts, Puts, Steps
    <3>3. {{"even"}, {"odd"}, Results} \subseteq SUBSET Arrays
      BY DEF Arrays, Lattices
    <3>. QED  BY <1>2, <3>1, <3>2, <3>3 DEF InitArrays, TypeOK
  <2>2. pc' \in [Clusters -> Labels] /\ StepBound'
    BY <1>2, Constants, LabelsOfStages, GotoTyped DEF InitArrays, AfterFill
  <2>. QED  BY <1>2, <2>1, <2>2 DEF InitArrays, TypeOK
<1>3. ASSUME NEW c \in Clusters, Compute(c)
      PROVE  TypeOK' /\ StepBound'
  <2>1. step[c] \in 0 .. Duration /\ step[c] + 1 \in Steps
    BY <1>3, Constants, LabelsOfStages DEF Compute, TypeOK, StepBound, Steps
  <2>2. {Dst(step[c])} \subseteq Arrays
    BY <2>1, SwapLattices DEF Arrays
  <2>3. PutParts({Dst(step[c])}, Owned(c), step[c] + 1) \in Puts
    BY <2>1, <2>2 DEF PutParts, Owned, Puts
  <2>4. pc' \in [Clusters -> Labels] /\ StepBound'
    BY <1>3, LabelsOfStages, GotoTyped DEF Compute
  <2>. QED  BY <1>3, <2>3, <2>4 DEF Compute, TypeOK
<1>4. ASSUME NEW c \in Clusters, Monitor(c)
      PROVE  TypeOK' /\ StepBound'
  <2>1. PICK small \in BOOLEAN :
           /\ sum' = [sum EXCEPT ![c] = [@ EXCEPT ![c] = Sum(step[c], small)]]
           /\ flight' = flight
                \cup {PutSum(c, d, Sum(step[c], small)) : d \in Receivers(c)}
                \cup {PutParts(IF Images THEN Results ELSE {"velocity"},
                               Owned(c), step[c])}
    BY <1>4 DEF Monitor
  <2>2. step[c] \in Steps
    BY Constants DEF TypeOK, Steps
  <2>3. Sum(step[c], small) \in Sums
    BY <2>2 DEF Sum, Sums
  <2>4. sum' \in [Clusters -> [Clusters -> Sums]]
    BY <2>1, <2>3 DEF TypeOK
  <2>5. \A d \in Receivers(c) : PutSum(c, d, Sum(step[c], small)) \in Puts
    BY <2>3 DEF PutSum, Receivers, Puts
  <2>6. PutParts(IF Images THEN Results ELSE {"velocity"}, Owned(c), step[c]) \in Puts
    BY <2>2 DEF PutParts, Owned, Puts, Results, Arrays
  <2>7. flight' \subseteq Puts
    BY <2>1, <2>5, <2>6 DEF TypeOK
  <2>8. pc' \in [Clusters -> Labels] /\ StepBound'
    BY <1>4, LabelsOfStages, GotoTyped DEF Monitor
  <2>. QED  BY <1>4, <2>4, <2>7, <2>8 DEF Monitor, TypeOK
<1>5. ASSUME NEW c \in Clusters, Decide(c)
      PROVE  TypeOK' /\ StepBound'
  <2>1. converged' \in [Clusters -> BOOLEAN]
    BY <1>5 DEF Decide, Verdict, TypeOK
  <2>2. pc[c] \in LoopStages /\ AfterSums(c) \in LoopStages
    BY <1>5, LabelsOfStages DEF Decide, AfterSums
  <2>3. pc' \in [Clusters -> Labels] /\ StepBound'
    BY <1>5, <2>2, LabelsOfStages, GotoTyped DEF Decide
  <2>. QED  BY <1>5, <2>1, <2>3 DEF Decide, TypeOK
<1>6. CASE Export
  <2>1. pc' \in [Clusters -> Labels] /\ StepBound'
    BY <1>6, Constants, LabelsOfStages, GotoTyped DEF Export
  <2>. QED  BY <1>6, <2>1 DEF Export, TypeOK
<1>7. CASE Free
  <2>1. pc' \in [Clusters -> Labels] /\ StepBound'
    BY <1>7, Constants, LabelsOfStages, GotoTyped DEF Free
  <2>. QED  BY <1>7, <2>1 DEF Free, TypeOK
<1>8. CASE Barrier
  <2>1. ASSUME NEW c \in Clusters
        PROVE  /\ step'[c] \in 0 .. Duration + 1
               /\ AfterBarrier(c) \in Labels \ InitStage
               /\ AfterBarrier(c) \in LoopStages => step'[c] <= Duration
    <3>1. step'[c] = IF EndsStep(c) THEN NextStep(c) ELSE step[c]
      BY <1>8 DEF Barrier
    <3>2. pc[c] \in Sites /\ step[c] \in 0 .. Duration + 1
      BY <1>8 DEF Barrier, AllArrived, TypeOK
    <3>3. CASE EndsStep(c)
      <4>1. step[c] <= Duration
        BY <3>3, LabelsOfStages DEF EndsStep, StepBound
      <4>2. AfterBarrier(c) = Turn(step[c] + 1, converged[c])
        BY <3>2, <3>3, Released DEF NextStep
      <4>. QED
        BY <3>1, <3>2, <3>3, <4>1, <4>2, Constants, LabelsOfStages
           DEF NextStep, Turn, LoopTest
    <3>4. CASE ~ EndsStep(c) /\ pc[c] \in LoopStages
      <4>1. AfterBarrier(c) \in LoopStages
        BY <3>2, <3>4, Released, LabelsOfStages DEF EndsStep, Sites
      <4>. QED
        BY <3>1, <3>2, <3>4, <4>1, LabelsOfStages DEF StepBound
    <3>5. CASE pc[c] = "barrier_init"
      <4>1. step'[c] = step[c] /\ AfterBarrier(c) = Turn(0, converged[c])
        BY <3>1, <3>2, <3>5, Released DEF EndsStep
      <4>2. AfterBarrier(c) \in {"compute", "barrier_end"}
        BY <4>1 DEF Turn
      <4>3. step[c] = 0
        BY <3>5, LabelsOfStages DEF StepBound
      <4>. QED  BY <4>1, <4>2, <4>3, Constants, LabelsOfStages
    <3>6. CASE pc[c] \in {"barrier_end", "barrier_final"}
      BY <3>1, <3>2, <3>6, Released, LabelsOfStages DEF EndsStep
    <3>. QED
      BY <3>2, <3>3, <3>4, <3>5, <3>6, LabelsOfStages DEF Sites
  <2>2. pc' = [c \in Clusters |-> AfterBarrier(c)]
        /\ step' = [c \in Clusters |-> IF EndsStep(c) THEN NextStep(c) ELSE step[c]]
    BY <1>8 DEF Barrier
  <2>. QED  BY <1>8, <2>1, <2>2 DEF Barrier, TypeOK, StepBound
<1>9. ASSUME NEW m \in flight, Lands(m)
      PROVE  TypeOK' /\ StepBound'
  <2>1. flight' \subseteq Puts /\ known' \subseteq Clusters
    BY <1>9, Kinds DEF Lands, TypeOK
  <2>2. content' \in [Arrays -> [Clusters -> Steps]]
    BY <1>9, Kinds DEF Lands, TypeOK
  <2>3. sum' \in [Clusters -> [Clusters -> Sums]]
    <3>1. CASE m.kind = "sum"
      <4>1. m.to \in Clusters /\ m.of \in Clusters /\ m.value \in Sums
        BY <3>1, Kinds
      <4>2. sum' = [sum EXCEPT ![m.to] = [@ EXCEPT ![m.of] = m.value]]
        BY <1>9, <3>1 DEF Lands
      <4>. QED  BY <4>1, <4>2 DEF TypeOK
    <3>2. CASE m.kind # "sum"
      BY <1>9, <3>2 DEF Lands, TypeOK
    <3>. QED  BY <3>1, <3>2
  <2>. QED
    BY <1>9, <2>1, <2>2, <2>3 DEF Lands, TypeOK, StepBound
<1>10. CASE ExportFirst
  <2>1. pc' \in [Clusters -> Labels] /\ StepBound'
    BY <1>10, Constants, LabelsOfStages, GotoTyped DEF ExportFirst
  <2>. QED  BY <1>10, <2>1 DEF ExportFirst, TypeOK
<1>11. CASE Finished
  BY <1>11 DEF Finished, vars, TypeOK, StepBound
<1>12. CASE UNCHANGED vars
  BY <1>12 DEF vars, TypeOK, StepBound
<1>. QED
  BY <1>1, <1>2, <1>3, <1>4, <1>5, <1>6, <1>7, <1>8, <1>9, <1>10, <1>11, <1>12
     DEF Next, ClusterStep

(* The program starts well typed.                                          *)
LEMMA InitTyped == Init => TypeOK /\ StepBound
<1>2. Init => pc \in [Clusters -> Labels]
  BY LabelsOfStages DEF Init
<1>3. -1 \in Steps /\ 0 \in 0 .. Duration + 1
  BY Constants DEF Steps
<1>4. Sum(-1, TRUE) \in Sums
  BY <1>3 DEF Sum, Sums
<1>5. Init => StepBound
  BY Constants, LabelsOfStages DEF Init, StepBound
<1>6. Init => content \in [Arrays -> [Clusters -> Steps]]
  BY <1>3 DEF Init
<1>7. Init => sum \in [Clusters -> [Clusters -> Sums]]
  <2> DEFINE v == Sum(-1, TRUE)
  <2>1. v \in Sums /\ (Init => sum = [c \in Clusters |-> [d \in Clusters |-> v]])
    BY <1>4 DEF Init
  <2> HIDE DEF v
  <2>. QED  BY <2>1
<1>. QED  BY <1>2, <1>3, <1>5, <1>6, <1>7 DEF Init, TypeOK

(* Every variable keeps its type (main.c), whenever the puts land: the     *)
(* loop variable of a cluster never passes Duration + 1.                   *)
THEOREM TypeCorrect == Spec => []TypeOK
<1>1. Init => TypeOK /\ StepBound
  BY InitTyped
<1>2. TypeOK /\ StepBound /\ [Next]_vars => TypeOK' /\ StepBound'
  BY TypeNext
<1>. QED  BY <1>1, <1>2, PTL DEF Spec
-----------------------------------------------------------------------------
(***************************************************************************)
(* The puts of a stage.                                                    *)
(***************************************************************************)
(* What a cluster has issued, by the label it waits at.                    *)
LEMMA PutsAtLabel ==
  ASSUME NEW c, NEW label, NEW s, NEW v
  PROVE  /\ label \in Filled /\ c = Cluster0 =>
              PutsAt(c, label, s, v) = InitPuts
         /\ label = "barrier_compute" =>
              PutsAt(c, label, s, v) = {PutParts({Dst(s)}, {c}, s + 1)}
         /\ label = "barrier_sums" =>
              PutsAt(c, label, s, v) =
                {PutSum(c, d, v) : d \in Clusters \ {c}}
                  \cup {PutParts(Pictures, {c}, s)}
         /\ label \notin Filled \cup {"barrier_compute", "barrier_sums"} =>
              PutsAt(c, label, s, v) = {}
         /\ label \in Filled /\ c # Cluster0 => PutsAt(c, label, s, v) = {}
BY DEF PutsAt, Filled

(* Cluster 0 has sent everybody its arrays when the others wait for them.  *)
LEMMA PutsAtInit ==
  ASSUME NEW s, NEW v
  PROVE  PutsAt(Cluster0, "barrier_init", s, v) = InitPuts
BY DEF PutsAt, Filled

(* A cluster that has computed has put its part of the destination,        *)
LEMMA PutsAtCompute ==
  ASSUME NEW c, NEW label, NEW s, NEW v, label = "barrier_compute"
  PROVE  PutsAt(c, label, s, v) = {PutParts({Dst(s)}, {c}, s + 1)}
BY DEF PutsAt, Filled

(* and one that has monitored its sum and its part of the results.         *)
LEMMA PutsAtSums ==
  ASSUME NEW c, NEW label, NEW s, NEW v, label = "barrier_sums"
  PROVE  PutsAt(c, label, s, v) = {PutSum(c, d, v) : d \in Clusters \ {c}}
                                    \cup {PutParts(Pictures, {c}, s)}
BY DEF PutsAt, Filled

(* What a put says of the cluster that issued it.                          *)
LEMMA PutFacts ==
  ASSUME NEW c \in Clusters, NEW label, NEW s, NEW v,
         NEW m \in PutsAt(c, label, s, v)
  PROVE  \/ /\ m.kind = "addresses" /\ label \in Filled /\ c = Cluster0
            /\ m.to \in Clusters
         \/ /\ m.kind = "parts"
            /\ \/ /\ label \in Filled /\ c = Cluster0 /\ m.step = 0
                  /\ m.arrays \in {{"even"}, {"odd"}, Results} /\ m.of = Clusters
               \/ /\ label = "barrier_compute" /\ m.arrays = {Dst(s)}
                  /\ m.of = {c} /\ m.step = s + 1
               \/ /\ label = "barrier_sums" /\ m.arrays = Pictures
                  /\ m.of = {c} /\ m.step = s
         \/ /\ m.kind = "sum" /\ label = "barrier_sums"
            /\ m.of = c /\ m.to \in Clusters \ {c} /\ m.value = v
<1>1. label \in Filled \cup {"barrier_compute", "barrier_sums"}
  BY PutsAtLabel
<1>2. CASE label \in Filled
  <2>1. c = Cluster0
    <3>1. c # Cluster0 => PutsAt(c, label, s, v) = {}
      BY <1>2, PutsAtLabel, Zenon
    <3>. QED  BY <3>1
  <2>2. PutsAt(c, label, s, v) = InitPuts
    BY <1>2, <2>1, PutsAtLabel, Zenon
  <2>3. m \in InitPuts
    BY <2>2
  <2>. QED  BY <1>2, <2>1, <2>3 DEF InitPuts, PutParts, PutAddresses
<1>3. CASE label = "barrier_compute"
  <2>1. PutsAt(c, label, s, v) = {PutParts({Dst(s)}, {c}, s + 1)}
    BY <1>3, PutsAtCompute
  <2>. QED  BY <1>3, <2>1 DEF PutParts
<1>4. CASE label = "barrier_sums"
  <2>1. PutsAt(c, label, s, v) = {PutSum(c, d, v) : d \in Clusters \ {c}}
                                   \cup {PutParts(Pictures, {c}, s)}
    BY <1>4, PutsAtLabel
  <2>. QED  BY <1>4, <2>1 DEF PutParts, PutSum
<1>. QED  BY <1>1, <1>2, <1>3, <1>4

(* A cluster that issues the puts of its stage, or none, within its step.  *)
LEMMA FlightGoto ==
  ASSUME FlightInv, NEW c \in Clusters,
         pc[c] \notin Filled \cup {"barrier_compute", "barrier_sums"},
         step' = step, content' = content, known \subseteq known',
         \A d \in Clusters \ {c} : pc'[d] = pc[d] /\ sum'[d] = sum[d],
         \A d \in Clusters \ {c} : sum'[c][d] = sum[c][d],
         flight' = flight \cup PutsAt(c, pc'[c], step[c], sum'[c][c])
  PROVE  FlightInv'
<1>1. PutsOf(c) = {}
  BY PutsAtLabel DEF PutsOf
<1>2. PutsOf(c)' = PutsAt(c, pc'[c], step[c], sum'[c][c])
  BY DEF PutsOf
<1>3. \A d \in Clusters \ {c} : PutsOf(d)' = PutsOf(d)
  BY DEF PutsOf
<1>4. flight' \subseteq Issued'
  BY <1>1, <1>2, <1>3 DEF FlightInv, Issued
<1>5. ASSUME NEW m \in Issued', m \notin flight'
      PROVE  Landed(m)'
  <2>1. PICK d \in Clusters : m \in PutsOf(d)'
    BY <1>5 DEF Issued
  <2>2. d # c /\ m \in PutsOf(d)
    BY <1>2, <1>3, <1>5, <2>1
  <2>3. Landed(m)
    BY <1>5, <2>2 DEF FlightInv, Issued
  <2>4. m.kind = "sum" => m.of = d /\ m.to \in Clusters
    BY <2>2, PutFacts DEF PutsOf
  <2>. QED  BY <2>2, <2>3, <2>4 DEF Landed
<1>. QED  BY <1>4, <1>5 DEF FlightInv
-----------------------------------------------------------------------------
(***************************************************************************)
(* The actions of one cluster: it goes on within its stage.                *)
(***************************************************************************)
LEMMA StageGoto ==
  ASSUME StageInv, DueInv, NEW S \in Stages, NEW c \in Clusters, pc[c] \in S,
         NEW label \in S, label \in Alone => c = Cluster0,
         label = "export" => Images,
         pc \in [Clusters -> Labels], Goto(c, label), step' = step
  PROVE  StageInv' /\ DueInv'
<1>1. /\ \A d \in Clusters : pc[d] \in S
      /\ \A d \in Clusters : pc'[d] = IF d = c THEN label ELSE pc[d]
  BY OneStage DEF Goto
<1>2. StageInv'
  BY <1>1 DEF StageInv
<1>3. DueInv'
  BY <1>1 DEF DueInv, Stages, InitStage, ComputeStage, MonitorStage,
              DecideStage, EndStage, FreeStage, DoneStage
<1>. QED  BY <1>2, <1>3

(* The cluster that a label tells the stage of.                            *)
LEMMA InStage ==
  /\ InitStage \in Stages /\ ComputeStage \in Stages /\ MonitorStage \in Stages
  /\ DecideStage \in Stages /\ EndStage \in Stages /\ FreeStage \in Stages
  /\ DoneStage \in Stages
BY DEF Stages

(* In a stage without puts nothing is in flight.                           *)
LEMMA NothingInFlight ==
  ASSUME FlightInv,
         \A c \in Clusters : \/ pc[c] \notin Filled \cup {"barrier_compute",
                                                           "barrier_sums"}
                             \/ pc[c] = "barrier_init" /\ c # Cluster0
  PROVE  flight = {}
<1>1. \A c \in Clusters : PutsOf(c) = {}
  BY PutsAtLabel DEF PutsOf, Filled
<1>. QED  BY <1>1 DEF FlightInv, Issued

(* The steps of a cluster, and the landing of a put, keep the invariant.   *)
LEMMA AllocateKeeps ==
  ASSUME IInv, Allocate
  PROVE  StageInv' /\ DueInv' /\ VerdictInv' /\ FlightInv' /\ ContentInv' /\ HeapInv'
<1>1. PICK label \in {"init", "failed"} :
           /\ Goto(Cluster0, label)
           /\ label = "init" => heap' = Arrays /\ known' = {Cluster0}
           /\ label = "failed" => heap' = heap /\ known' = known
  BY DEF Allocate
<1>2. /\ pc[Cluster0] = "alloc" /\ pc \in [Clusters -> Labels]
      /\ \A d \in Clusters \ {Cluster0} : pc[d] = "barrier_init"
  <2>1. \A d \in Clusters : pc[d] \in InitStage
    BY InStage, OneStage, Constants DEF Allocate, IInv, InitStage
  <2>. QED  BY <2>1 DEF Allocate, IInv, TypeOK, StageInv, InitStage, Alone
<1>3. /\ pc'[Cluster0] = label
      /\ \A d \in Clusters \ {Cluster0} : pc'[d] = "barrier_init"
  BY <1>1, <1>2, Constants DEF Goto
<1>4. StageInv' /\ DueInv'
  BY <1>1, <1>2, StageGoto, InStage, Constants DEF IInv, Allocate, InitStage, Alone
<1>5. flight = {} /\ flight' = {}
  BY <1>2, NothingInFlight DEF IInv, Allocate, Filled
<1>6. FlightInv'
  <2>1. known \subseteq known'
    BY <1>1, <1>2, Constants DEF IInv, ContentInv
  <2>2. PutsAt(Cluster0, pc'[Cluster0], step[Cluster0], sum'[Cluster0][Cluster0]) = {}
    BY <1>3, PutsAtLabel DEF Filled
  <2>. QED
    BY <1>2, <1>3, <1>5, <2>1, <2>2, FlightGoto, Constants DEF IInv, Allocate, Filled
<1>7. VerdictInv'
  BY <1>2, <1>3, Constants DEF IInv, VerdictInv, Allocate, InitStage,
     ComputeStage, MonitorStage, EndStage, FreeStage, DoneStage
<1>8. ContentInv' /\ HeapInv'
  BY <1>1, <1>2, <1>3, <1>5, Constants DEF IInv, ContentInv, HeapInv, Allocate,
     Filled, InitStage, LoopStages, ComputeStage, MonitorStage, DecideStage
<1>. QED  BY <1>4, <1>6, <1>7, <1>8

LEMMA InitArraysKeeps ==
  ASSUME IInv, InitArrays
  PROVE  StageInv' /\ DueInv' /\ VerdictInv' /\ FlightInv' /\ ContentInv' /\ HeapInv'
<1>1. /\ pc[Cluster0] = "init" /\ pc \in [Clusters -> Labels]
      /\ \A d \in Clusters \ {Cluster0} : pc[d] = "barrier_init"
  <2>1. \A d \in Clusters : pc[d] \in InitStage
    BY InStage, OneStage, Constants DEF InitArrays, IInv, InitStage
  <2>. QED  BY <2>1 DEF InitArrays, IInv, TypeOK, StageInv, InitStage, Alone
<1>2. /\ AfterFill \in Filled /\ pc'[Cluster0] = AfterFill
      /\ \A d \in Clusters \ {Cluster0} : pc'[d] = "barrier_init"
  BY <1>1, Constants DEF InitArrays, Goto, AfterFill, Filled
<1>3. StageInv' /\ DueInv'
  BY <1>1, <1>2, StageGoto, InStage, Constants
     DEF IInv, InitArrays, InitStage, Alone, Filled
<1>4. FlightInv'
  <2>1. PutsAt(Cluster0, pc'[Cluster0], step[Cluster0], sum'[Cluster0][Cluster0])
          = InitPuts
    <3>1. pc'[Cluster0] \in Filled
      BY <1>2
    <3>. QED  BY <3>1, PutsAtLabel
  <2>2. flight' = flight \cup InitPuts
    <3> DEFINE A == {PutParts(arrays, Clusters, 0) :
                       arrays \in {{"even"}, {"odd"}, Results}}
               B == {PutAddresses(c) : c \in Clusters \ {Cluster0}}
    <3>1. flight' = flight \cup A \cup B
      BY DEF InitArrays
    <3>2. InitPuts = A \cup B
      BY DEF InitPuts
    <3> HIDE DEF A, B
    <3>. QED  BY <3>1, <3>2
  <2>. QED
    BY <1>1, <1>2, <2>1, <2>2, FlightGoto, Constants DEF IInv, InitArrays, Filled
<1>5. VerdictInv'
  BY <1>1, <1>2, Constants DEF IInv, VerdictInv, InitArrays, Filled, InitStage,
     ComputeStage, MonitorStage, EndStage, FreeStage, DoneStage
<1>6. ContentInv'
  BY <1>1, <1>2, Constants DEF IInv, ContentInv, InitArrays, Filled, InitStage,
     LoopStages, ComputeStage, MonitorStage, DecideStage
<1>7. HeapInv'
  BY <1>1, <1>2, Constants DEF IInv, HeapInv, InitArrays, Filled
<1>. QED  BY <1>3, <1>4, <1>5, <1>6, <1>7

LEMMA ExportFirstKeeps ==
  ASSUME IInv, ExportFirst
  PROVE  StageInv' /\ DueInv' /\ VerdictInv' /\ FlightInv' /\ ContentInv' /\ HeapInv'
<1>1. /\ pc[Cluster0] = "first_export" /\ pc \in [Clusters -> Labels]
      /\ \A d \in Clusters \ {Cluster0} : pc[d] = "barrier_init"
  <2>1. \A d \in Clusters : pc[d] \in InitStage
    BY InStage, OneStage, Constants DEF ExportFirst, IInv, InitStage
  <2>. QED  BY <2>1 DEF ExportFirst, IInv, TypeOK, StageInv, InitStage, Alone
<1>2. \A d \in Clusters : pc'[d] = "barrier_init"
  BY <1>1, Constants DEF ExportFirst, Goto
<1>3. StageInv' /\ DueInv'
  BY <1>1, StageGoto, InStage, Constants DEF IInv, ExportFirst, InitStage, Alone
<1>4. FlightInv'
  <2>1. PutsOf(Cluster0) = InitPuts
    <3>1. pc[Cluster0] \in Filled
      BY <1>1 DEF Filled
    <3>. QED  BY <3>1, PutsAtLabel, Zenon DEF PutsOf
  <2>2. PutsOf(Cluster0)' = InitPuts
    <3>1. pc'[Cluster0] = "barrier_init"
      BY <1>2, Constants
    <3>. QED  BY <3>1, PutsAtInit DEF PutsOf
  <2>3. \A d \in Clusters \ {Cluster0} : PutsOf(d)' = PutsOf(d)
    BY <1>1, <1>2 DEF PutsOf, ExportFirst
  <2>4. Issued' = Issued
    BY <2>1, <2>2, <2>3 DEF Issued
  <2>. QED  BY <2>4 DEF IInv, FlightInv, Landed, ExportFirst
<1>5. VerdictInv'
  BY <1>1, <1>2, Constants DEF IInv, VerdictInv, ExportFirst, InitStage,
     ComputeStage, MonitorStage, EndStage, FreeStage, DoneStage
<1>6. ContentInv'
  BY <1>1, <1>2, Constants DEF IInv, ContentInv, ExportFirst, Filled, InitStage,
     LoopStages, ComputeStage, MonitorStage, DecideStage
<1>7. HeapInv'
  BY <1>1, <1>2, Constants DEF IInv, HeapInv, ExportFirst
<1>. QED  BY <1>3, <1>4, <1>5, <1>6, <1>7

LEMMA ComputeKeeps ==
  ASSUME IInv, NEW c \in Clusters, Compute(c)
  PROVE  StageInv' /\ DueInv' /\ VerdictInv' /\ FlightInv' /\ ContentInv' /\ HeapInv'
<1>1. /\ pc[c] = "compute" /\ pc \in [Clusters -> Labels]
      /\ \A d \in Clusters : pc[d] \in ComputeStage
  BY InStage, OneStage DEF Compute, IInv, TypeOK, ComputeStage
<1>2. \A d \in Clusters : /\ pc'[d] = IF d = c THEN "barrier_compute" ELSE pc[d]
                          /\ pc'[d] \in ComputeStage
  BY <1>1 DEF Compute, Goto, ComputeStage
<1>3. StageInv' /\ DueInv'
  BY <1>1, StageGoto, InStage DEF IInv, Compute, ComputeStage, Alone
<1>4. FlightInv'
  <2>1. PutsAt(c, pc'[c], step[c], sum'[c][c])
          = {PutParts({Dst(step[c])}, {c}, step[c] + 1)}
    BY <1>2, PutsAtLabel
  <2>2. flight' = flight \cup {PutParts({Dst(step[c])}, {c}, step[c] + 1)}
    BY DEF Compute, Owned
  <2>. QED
    BY <1>1, <1>2, <2>1, <2>2, FlightGoto DEF IInv, Compute, Filled
<1>5. VerdictInv'
  BY <1>1, <1>2 DEF IInv, VerdictInv, Compute, InitStage,
     ComputeStage, MonitorStage, EndStage, FreeStage, DoneStage
<1>6. ContentInv'
  BY <1>1, <1>2, Constants DEF IInv, ContentInv, Compute, WholeAt, InitStage,
     LoopStages, ComputeStage, MonitorStage, DecideStage
<1>7. HeapInv'
  BY <1>1, <1>2, Constants DEF IInv, HeapInv, Compute, ComputeStage
<1>. QED  BY <1>3, <1>4, <1>5, <1>6, <1>7

LEMMA MonitorKeeps ==
  ASSUME IInv, NEW c \in Clusters, Monitor(c)
  PROVE  StageInv' /\ DueInv' /\ VerdictInv' /\ FlightInv' /\ ContentInv' /\ HeapInv'
<1>1. /\ pc[c] = "monitor" /\ pc \in [Clusters -> Labels]
      /\ \A d \in Clusters : pc[d] \in MonitorStage
  BY InStage, OneStage DEF Monitor, IInv, TypeOK, MonitorStage
<1>2. \A d \in Clusters : /\ pc'[d] = IF d = c THEN "barrier_sums" ELSE pc[d]
                          /\ pc'[d] \in MonitorStage
  BY <1>1 DEF Monitor, Goto, MonitorStage
<1>3. StageInv' /\ DueInv'
  BY <1>1, StageGoto, InStage DEF IInv, Monitor, MonitorStage, Alone
<1>4. PICK small \in BOOLEAN :
         /\ sum' = [sum EXCEPT ![c] = [@ EXCEPT ![c] = Sum(step[c], small)]]
         /\ flight' = flight
              \cup {PutSum(c, d, Sum(step[c], small)) : d \in Receivers(c)}
              \cup {PutParts(IF Images THEN Results ELSE {"velocity"},
                             Owned(c), step[c])}
  BY DEF Monitor
<1>5. /\ sum'[c][c] = Sum(step[c], small)
      /\ \A d \in Clusters \ {c} : sum'[d] = sum[d] /\ sum'[c][d] = sum[c][d]
  BY <1>4 DEF IInv, TypeOK
<1>6. FlightInv'
  <2> DEFINE A == {PutSum(c, d, sum'[c][c]) : d \in Clusters \ {c}}
             B == {PutParts(Pictures, {c}, step[c])}
  <2>1. PutsAt(c, pc'[c], step[c], sum'[c][c]) = A \cup B
    <3>1. pc'[c] = "barrier_sums"
      BY <1>2
    <3>2. \A label, s, v : label = "barrier_sums" =>
            PutsAt(c, label, s, v) = {PutSum(c, d, v) : d \in Clusters \ {c}}
                                       \cup {PutParts(Pictures, {c}, s)}
      BY PutsAtSums
    <3>. QED  BY <3>1, <3>2, ZenonT(40)
  <2>2. flight' = flight \cup A \cup B
    BY <1>4, <1>5 DEF Pictures, Owned, Receivers
  <2> HIDE DEF A, B
  <2>. QED
    BY <1>1, <1>2, <1>5, <2>1, <2>2, FlightGoto DEF IInv, Monitor, Filled
<1>7. VerdictInv'
  BY <1>1, <1>2 DEF IInv, VerdictInv, Monitor, InitStage,
     ComputeStage, MonitorStage, EndStage, FreeStage, DoneStage
<1>8. ContentInv'
  <2>1. sum'[c][c].step = step[c]
    BY <1>5 DEF Sum
  <2>2. \A d \in Clusters \ {c} : sum'[d][d] = sum[d][d]
    BY <1>5
  <2>. QED
    BY <1>1, <1>2, <2>1, <2>2 DEF IInv, ContentInv, Monitor, WholeAt, InitStage,
       LoopStages, ComputeStage, MonitorStage, DecideStage
<1>9. HeapInv'
  BY <1>1, <1>2, Constants DEF IInv, HeapInv, Monitor, MonitorStage
<1>. QED  BY <1>3, <1>6, <1>7, <1>8, <1>9

LEMMA DecideKeeps ==
  ASSUME IInv, NEW c \in Clusters, Decide(c)
  PROVE  StageInv' /\ DueInv' /\ VerdictInv' /\ FlightInv' /\ ContentInv' /\ HeapInv'
<1>1. /\ pc[c] = "decide" /\ pc \in [Clusters -> Labels]
      /\ \A d \in Clusters : pc[d] \in DecideStage
  BY InStage, OneStage DEF Decide, IInv, TypeOK, DecideStage
<1>2. PICK label \in {"export", "barrier_monitor"} :
         /\ label = AfterSums(c)
         /\ label = "export" => c = Cluster0 /\ Images
  BY DEF AfterSums
<1>3. \A d \in Clusters : /\ pc'[d] = IF d = c THEN label ELSE pc[d]
                          /\ pc'[d] \in DecideStage
  BY <1>1, <1>2 DEF Decide, Goto, DecideStage
<1>4. StageInv' /\ DueInv'
  <2>1. label \in DecideStage /\ (label \in Alone => c = Cluster0)
    BY <1>2 DEF DecideStage, Alone
  <2>. QED
    BY <1>1, <1>2, <2>1, StageGoto, InStage DEF IInv, Decide
<1>5. FlightInv'
  <2>1. PutsAt(c, pc'[c], step[c], sum'[c][c]) = {}
    BY <1>2, <1>3, PutsAtLabel DEF Filled
  <2>. QED
    BY <1>1, <1>3, <2>1, FlightGoto DEF IInv, Decide, Filled
<1>6. VerdictInv'
  <2>1. \A d \in Clusters : sum[c][d] = sum[d][d]
    BY <1>1 DEF IInv, ContentInv
  <2>2. converged'[c] = AllSmall
    <3>1. ~ converged[c]
      BY <1>1 DEF IInv, VerdictInv
    <3>2. Verdict(c) = AllSmall
      BY <2>1, <3>1 DEF Verdict, AllSmall
    <3>. QED  BY <3>2 DEF Decide, IInv, TypeOK
  <2>3. \A d \in Clusters \ {c} : converged'[d] = converged[d]
    BY DEF Decide, IInv, TypeOK
  <2>4. AllSmall' = AllSmall
    BY DEF AllSmall, Decide
  <2>. QED
    BY <1>1, <1>2, <1>3, <2>2, <2>3, <2>4 DEF IInv, VerdictInv, InitStage,
       ComputeStage, MonitorStage, DecideStage, EndStage, FreeStage, DoneStage
<1>7. ContentInv'
  BY <1>1, <1>3 DEF IInv, ContentInv, Decide, WholeAt, InitStage,
     LoopStages, ComputeStage, MonitorStage, DecideStage
<1>8. HeapInv'
  BY <1>1, <1>3, Constants DEF IInv, HeapInv, Decide, DecideStage
<1>. QED  BY <1>4, <1>5, <1>6, <1>7, <1>8

LEMMA ExportKeeps ==
  ASSUME IInv, Export
  PROVE  StageInv' /\ DueInv' /\ VerdictInv' /\ FlightInv' /\ ContentInv' /\ HeapInv'
<1>1. /\ pc[Cluster0] = "export" /\ pc \in [Clusters -> Labels]
      /\ \A d \in Clusters : pc[d] \in DecideStage
  BY InStage, OneStage, Constants DEF Export, IInv, TypeOK, DecideStage
<1>2. \A d \in Clusters :
        /\ pc'[d] = IF d = Cluster0 THEN "barrier_monitor" ELSE pc[d]
        /\ pc'[d] \in DecideStage
  BY <1>1, Constants DEF Export, Goto, DecideStage
<1>3. StageInv' /\ DueInv'
  BY <1>1, StageGoto, InStage, Constants DEF IInv, Export, DecideStage, Alone
<1>4. FlightInv'
  <2>1. PutsAt(Cluster0, pc'[Cluster0], step[Cluster0], sum'[Cluster0][Cluster0]) = {}
    BY <1>2, Constants, PutsAtLabel DEF Filled
  <2>. QED
    BY <1>1, <1>2, <2>1, FlightGoto, Constants DEF IInv, Export, Filled
<1>5. VerdictInv'
  BY <1>1, <1>2 DEF IInv, VerdictInv, AllSmall, Export, InitStage,
     ComputeStage, MonitorStage, DecideStage, EndStage, FreeStage, DoneStage
<1>6. ContentInv'
  BY <1>1, <1>2 DEF IInv, ContentInv, Export, WholeAt, InitStage,
     LoopStages, ComputeStage, MonitorStage, DecideStage
<1>7. HeapInv'
  BY <1>1, <1>2, Constants DEF IInv, HeapInv, Export
<1>. QED  BY <1>3, <1>4, <1>5, <1>6, <1>7

LEMMA FreeKeeps ==
  ASSUME IInv, Free
  PROVE  StageInv' /\ DueInv' /\ VerdictInv' /\ FlightInv' /\ ContentInv' /\ HeapInv'
<1>1. /\ pc[Cluster0] = "free" /\ pc \in [Clusters -> Labels]
      /\ \A d \in Clusters : pc[d] \in FreeStage
  BY InStage, OneStage, Constants DEF Free, IInv, TypeOK, FreeStage
<1>2. \A d \in Clusters :
        /\ pc'[d] = IF d = Cluster0 THEN "barrier_final" ELSE pc[d]
        /\ pc'[d] \in FreeStage
  BY <1>1, Constants DEF Free, Goto, FreeStage
<1>3. StageInv' /\ DueInv'
  BY <1>1, StageGoto, InStage, Constants DEF IInv, Free, FreeStage, Alone
<1>4. flight = {}
  BY <1>1, NothingInFlight DEF IInv, FreeStage, Filled
<1>5. FlightInv'
  <2>1. PutsAt(Cluster0, pc'[Cluster0], step[Cluster0], sum'[Cluster0][Cluster0]) = {}
    BY <1>2, Constants, PutsAtLabel DEF Filled
  <2>. QED
    BY <1>1, <1>2, <2>1, FlightGoto, Constants DEF IInv, Free, Filled
<1>6. VerdictInv'
  BY <1>1, <1>2 DEF IInv, VerdictInv, AllSmall, Free, InitStage,
     ComputeStage, MonitorStage, DecideStage, EndStage, FreeStage, DoneStage
<1>7. ContentInv'
  BY <1>1, <1>2 DEF IInv, ContentInv, Free, WholeAt, InitStage, FreeStage,
     LoopStages, ComputeStage, MonitorStage, DecideStage
<1>8. HeapInv'
  BY <1>2, <1>4, Constants DEF HeapInv, Free
<1>. QED  BY <1>3, <1>5, <1>6, <1>7, <1>8
-----------------------------------------------------------------------------
(***************************************************************************)
(* A put lands.                                                            *)
(***************************************************************************)
(* The puts that are in flight together write the same step.               *)
LEMMA SameStep ==
  ASSUME IInv, NEW m \in Issued, NEW n \in Issued,
         m.kind = "parts", n.kind = "parts"
  PROVE  m.step = n.step
<1>1. PICK c \in Clusters : m \in PutsOf(c)
  BY DEF Issued
<1>2. PICK d \in Clusters : n \in PutsOf(d)
  BY DEF Issued
<1>3. step[c] = step[d]
  BY DEF IInv, StageInv
<1>4. \/ pc[c] \in Filled /\ m.step = 0
      \/ pc[c] = "barrier_compute" /\ m.step = step[c] + 1
      \/ pc[c] = "barrier_sums" /\ m.step = step[c]
  BY <1>1, PutFacts DEF PutsOf
<1>5. \/ pc[d] \in Filled /\ n.step = 0
      \/ pc[d] = "barrier_compute" /\ n.step = step[d] + 1
      \/ pc[d] = "barrier_sums" /\ n.step = step[d]
  BY <1>2, PutFacts DEF PutsOf
<1>6. \A S \in Stages : pc[c] \in S => pc[d] \in S
  BY OneStage DEF IInv
<1>7. (pc[c] \in Filled /\ pc[d] \in Filled) \/ pc[c] = pc[d]
  BY <1>4, <1>5, <1>6, InStage DEF Filled, InitStage, ComputeStage, MonitorStage
<1>. QED  BY <1>3, <1>4, <1>5, <1>7 DEF Filled

(* They write parts of arrays.                                             *)
LEMMA PartsOfArrays ==
  ASSUME IInv, NEW m \in Issued, m.kind = "parts"
  PROVE  m.arrays \subseteq Arrays /\ m.of \subseteq Clusters
<1>1. PICK c \in Clusters : m \in PutsOf(c)
  BY DEF Issued
<1>2. step[c] \in Nat
  BY Constants DEF IInv, TypeOK
<1>3. /\ {Dst(step[c])} \subseteq Arrays /\ Pictures \subseteq Arrays
      /\ {"even"} \subseteq Arrays /\ {"odd"} \subseteq Arrays /\ Results \subseteq Arrays
  BY <1>2, SwapLattices DEF Pictures, Arrays, Results, Lattices
<1>4. \/ m.arrays \in {{"even"}, {"odd"}, Results} /\ m.of = Clusters
      \/ m.arrays = {Dst(step[c])} /\ m.of = {c}
      \/ m.arrays = Pictures /\ m.of = {c}
  BY <1>1, PutFacts DEF PutsOf
<1>. QED  BY <1>3, <1>4

LEMMA LandsKeeps ==
  ASSUME IInv, NEW m \in flight, Lands(m)
  PROVE  StageInv' /\ DueInv' /\ VerdictInv' /\ FlightInv' /\ ContentInv' /\ HeapInv'
<1>1. PICK c \in Clusters : m \in PutsOf(c)
  BY DEF IInv, FlightInv, Issued
<1>2. UNCHANGED <<pc, step, converged, heap>> /\ flight' = flight \ {m}
  BY DEF Lands
<1>3. m.kind = "sum" => m.of = c /\ m.to \in Clusters \ {c} /\ m.value = sum[c][c]
                        /\ sum' = [sum EXCEPT ![m.to] = [@ EXCEPT ![c] = m.value]]
  BY <1>1, PutFacts DEF PutsOf, Lands
<1>4. m.kind # "sum" => sum' = sum
  BY DEF Lands
<1>5. \A d \in Clusters : sum'[d][d] = sum[d][d]
  BY <1>3, <1>4 DEF IInv, TypeOK
<1>6. m.kind = "parts" =>
        \A a \in Arrays : \A d \in Clusters :
          content'[a][d] = IF a \in m.arrays /\ d \in m.of THEN m.step
                           ELSE content[a][d]
  BY DEF Lands
<1>7. m.kind # "parts" => content' = content
  BY DEF Lands
<1>8. known' = IF m.kind = "addresses" THEN known \cup {m.to} ELSE known
  BY DEF Lands
<1>9. StageInv' /\ DueInv'
  BY <1>2 DEF IInv, StageInv, DueInv
<1>10. VerdictInv'
  BY <1>2, <1>5 DEF IInv, VerdictInv, AllSmall
<1>11. Issued' = Issued
  BY <1>2, <1>5 DEF Issued, PutsOf
<1>12. FlightInv'
  <2>1. flight' \subseteq Issued'
    BY <1>2, <1>11 DEF IInv, FlightInv
  <2>2. ASSUME NEW n \in Issued, n \notin flight'
        PROVE  Landed(n)'
    <3>1. PICK d \in Clusters : n \in PutsOf(d)
      BY <2>2 DEF Issued
    <3>2. n = m \/ Landed(n)
      BY <1>2, <2>2 DEF IInv, FlightInv
    <3>3. n.kind = "addresses" => n.to \in known'
      BY <1>8, <3>2 DEF Landed
    <3>4. ASSUME n.kind = "parts", NEW a \in n.arrays, NEW e \in n.of
          PROVE  content'[a][e] = n.step
      <4>1. n.arrays \subseteq Arrays /\ n.of \subseteq Clusters
        BY <2>2, <3>4, PartsOfArrays
      <4>2. m.kind = "parts" => m.step = n.step
        BY <1>1, <2>2, <3>4, SameStep DEF Issued
      <4>3. n # m => content[a][e] = n.step
        BY <3>2, <3>4 DEF Landed
      <4>. QED  BY <1>6, <1>7, <3>4, <4>1, <4>2, <4>3
    <3>5. ASSUME n.kind = "sum"
          PROVE  sum'[n.to][n.of] = n.value
      <4>1. n.of = d /\ n.to \in Clusters \ {d} /\ n.value = sum[d][d]
        BY <3>1, <3>5, PutFacts DEF PutsOf
      <4>2. n # m => sum[n.to][n.of] = n.value
        BY <3>2, <3>5 DEF Landed
      <4>. QED  BY <1>3, <1>4, <3>5, <4>1, <4>2 DEF IInv, TypeOK
    <3>. QED  BY <3>3, <3>4, <3>5 DEF Landed
  <2>. QED  BY <1>11, <2>1, <2>2 DEF FlightInv
<1>13. ContentInv'
  <2>1. CASE pc[c] \in Filled
    <3>1. c = Cluster0
      BY <1>1, <2>1, PutFacts DEF PutsOf, Filled
    <3>2. \A d \in Clusters : pc[d] \in InitStage /\ pc[d] # "alloc"
      BY <2>1, <3>1, InStage, OneStage, Constants
         DEF IInv, StageInv, InitStage, Alone, Filled
    <3>. QED
      BY <1>2, <1>8, <3>2 DEF IInv, ContentInv, InitStage, LoopStages, ComputeStage,
         MonitorStage, DecideStage
  <2>2. CASE pc[c] = "barrier_compute"
    <3>1. \A d \in Clusters : pc[d] \in ComputeStage /\ step[d] = step[c]
      BY <2>2, InStage, OneStage DEF IInv, StageInv, ComputeStage
    <3>2. m.kind = "parts" /\ m.arrays = {Dst(step[c])}
      BY <1>1, <2>2, PutFacts DEF PutsOf, Filled
    <3>3. Src(step[c]) \in Arrays /\ Src(step[c]) # Dst(step[c])
      BY SwapLattices, Constants DEF IInv, TypeOK, Arrays
    <3>4. \A d \in Clusters : content'[Src(step[c])][d] = content[Src(step[c])][d]
      BY <1>6, <3>2, <3>3
    <3>. QED
      BY <1>2, <1>8, <3>1, <3>2, <3>4 DEF IInv, ContentInv, WholeAt, InitStage,
         LoopStages, ComputeStage, MonitorStage, DecideStage
  <2>3. CASE pc[c] = "barrier_sums"
    <3>1. \A d \in Clusters : pc[d] \in MonitorStage /\ step[d] = step[c]
      BY <2>3, InStage, OneStage DEF IInv, StageInv, MonitorStage
    <3>2. /\ m.kind = "parts" => m.arrays = Pictures
          /\ m.kind # "addresses"
      BY <1>1, <2>3, PutFacts DEF PutsOf, Filled
    <3>3. \A a \in Lattices : a \in Arrays /\ a \notin Pictures
      BY DEF Arrays, Lattices, Pictures, Results
    <3>4. \A a \in Lattices : \A d \in Clusters : content'[a][d] = content[a][d]
      BY <1>6, <1>7, <3>2, <3>3
    <3>5. Src(step[c]) \in Lattices /\ Dst(step[c]) \in Lattices
      BY SwapLattices, Constants DEF IInv, TypeOK
    <3>. QED
      BY <1>2, <1>5, <1>8, <3>1, <3>2, <3>4, <3>5 DEF IInv, ContentInv, WholeAt, InitStage,
         LoopStages, ComputeStage, MonitorStage, DecideStage
  <2>. QED  BY <1>1, <2>1, <2>2, <2>3, PutsAtLabel DEF PutsOf
<1>14. HeapInv'
  BY <1>2 DEF IInv, HeapInv
<1>. QED  BY <1>9, <1>10, <1>12, <1>13, <1>14
-----------------------------------------------------------------------------
(***************************************************************************)
(* The barrier.                                                            *)
(***************************************************************************)
(* SameSite is what the invariant says when every cluster has arrived.     *)
LEMMA MeetAtOneSite ==
  ASSUME IInv, AllArrived, NEW c \in Clusters
  PROVE  /\ pc[c] = pc[Cluster0] /\ step[c] = step[Cluster0]
         /\ converged[c] = converged[Cluster0]
         /\ pc[c] \in Sites
<1>1. /\ \A S \in Stages : pc[Cluster0] \in S => pc[c] \in S
      /\ pc[c] \in Sites /\ pc[Cluster0] \in Sites
      /\ step[c] = step[Cluster0]
  BY OneStage, Constants DEF IInv, StageInv, AllArrived
<1>2. pc[c] = pc[Cluster0]
  BY <1>1, InStage DEF Sites, InitStage, ComputeStage, MonitorStage, DecideStage,
     EndStage, FreeStage
<1>3. converged[c] = converged[Cluster0]
  BY <1>1, <1>2, Constants DEF IInv, TypeOK, VerdictInv, Sites, InitStage, ComputeStage,
     MonitorStage, EndStage, FreeStage
<1>. QED  BY <1>1, <1>2, <1>3

(* With every put landed, what the stage has put is there.                 *)
LEMMA AllLanded ==
  ASSUME IInv, flight = {}
  PROVE  /\ pc[Cluster0] = "barrier_init" =>
              known = Clusters /\ WholeAt("even", 0)
         /\ \A c \in Clusters :
              /\ pc[c] = "barrier_compute" =>
                   content[Dst(step[c])][c] = step[c] + 1
              /\ pc[c] = "barrier_sums" =>
                   /\ Images => content["bitmap"][c] = step[c]
                   /\ \A d \in Clusters : sum[d][c] = sum[c][c]
<1>1. \A m \in Issued : Landed(m)
  BY DEF IInv, FlightInv
<1>2. \A c \in Clusters : \A m \in PutsAt(c, pc[c], step[c], sum[c][c]) : Landed(m)
  BY <1>1 DEF Issued, PutsOf
<1>3. ASSUME pc[Cluster0] = "barrier_init"
      PROVE  known = Clusters /\ WholeAt("even", 0)
  <2>1. \A m \in InitPuts : Landed(m)
    BY <1>2, <1>3, PutsAtInit, Constants
  <2>2. PutParts({"even"}, Clusters, 0) \in InitPuts
    BY DEF InitPuts
  <2>3. \A c \in Clusters \ {Cluster0} : PutAddresses(c) \in InitPuts
    BY DEF InitPuts
  <2>4. WholeAt("even", 0)
    BY <2>1, <2>2 DEF Landed, PutParts, WholeAt
  <2>5. \A c \in Clusters \ {Cluster0} : c \in known
    BY <2>1, <2>3 DEF Landed, PutAddresses
  <2>6. Cluster0 \in known /\ known \subseteq Clusters
    BY <1>3, Constants DEF IInv, TypeOK, ContentInv, Filled
  <2>. QED  BY <2>4, <2>5, <2>6
<1>4. ASSUME NEW c \in Clusters, pc[c] = "barrier_compute"
      PROVE  content[Dst(step[c])][c] = step[c] + 1
  <2>1. PutsAt(c, pc[c], step[c], sum[c][c])
          = {PutParts({Dst(step[c])}, {c}, step[c] + 1)}
    BY <1>4, PutsAtCompute
  <2>2. Landed(PutParts({Dst(step[c])}, {c}, step[c] + 1))
    BY <1>2, <2>1
  <2>. QED  BY <2>2 DEF Landed, PutParts
<1>5. ASSUME NEW c \in Clusters, pc[c] = "barrier_sums"
      PROVE  /\ Images => content["bitmap"][c] = step[c]
             /\ \A d \in Clusters : sum[d][c] = sum[c][c]
  <2>1. PutsAt(c, pc[c], step[c], sum[c][c])
          = {PutSum(c, d, sum[c][c]) : d \in Clusters \ {c}}
              \cup {PutParts(Pictures, {c}, step[c])}
    BY <1>5, PutsAtSums
  <2>2. Landed(PutParts(Pictures, {c}, step[c]))
    BY <1>2, <2>1
  <2>3. \A d \in Clusters \ {c} : Landed(PutSum(c, d, sum[c][c]))
    BY <1>2, <2>1
  <2>4. Images => content["bitmap"][c] = step[c]
    BY <2>2 DEF Landed, PutParts, Pictures, Results
  <2>5. \A d \in Clusters \ {c} : sum[d][c] = sum[c][c]
    BY <2>3 DEF Landed, PutSum
  <2>. QED  BY <2>4, <2>5
<1>. QED  BY <1>3, <1>4, <1>5

(* What it takes to start a stage, all the clusters at one label with      *)
(* nothing in flight.                                                      *)
LEMMA StartOfStage ==
  ASSUME pc'[Cluster0] \in {"compute", "monitor", "decide", "barrier_end", "done"},
         \A c \in Clusters : /\ pc'[c] = pc'[Cluster0]
                             /\ step'[c] = step'[Cluster0]
                             /\ converged'[c] = converged'[Cluster0],
         flight' = {}, known' = Clusters,
         heap' = Arrays \/ (heap' = {} /\ pc'[Cluster0] = "done"),
         pc'[Cluster0] \in LoopStages =>
           /\ ~ converged'[Cluster0]
           /\ \A c \in Clusters : content'[Src(step'[Cluster0])][c] = step'[Cluster0],
         pc'[Cluster0] \in {"monitor", "decide"} =>
           /\ Due(step'[Cluster0])
           /\ \A c \in Clusters :
                content'[Dst(step'[Cluster0])][c] = step'[Cluster0] + 1,
         pc'[Cluster0] = "decide" =>
           /\ Images => \A c \in Clusters : content'["bitmap"][c] = step'[Cluster0]
           /\ \A c, d \in Clusters :
                sum'[c][d] = sum'[d][d] /\ sum'[c][d].step = step'[Cluster0],
         pc'[Cluster0] \in {"barrier_end", "done"} => step'[Cluster0] > 0
  PROVE  StageInv' /\ DueInv' /\ VerdictInv' /\ FlightInv' /\ ContentInv' /\ HeapInv'
<1>. USE DEF InitStage, LoopStages, ComputeStage, MonitorStage, DecideStage, EndStage,
             FreeStage, DoneStage
<1>1. StageInv'
  <2>1. \E S \in Stages : pc'[Cluster0] \in S
    BY DEF Stages
  <2>. QED  BY <2>1, Constants DEF StageInv, Alone
<1>2. DueInv'
  BY DEF DueInv
<1>3. VerdictInv'
  BY DEF VerdictInv
<1>4. FlightInv'
  <2>1. \A c \in Clusters : PutsOf(c)' = {}
    BY PutsAtLabel DEF PutsOf, Filled
  <2>. QED  BY <2>1 DEF FlightInv, Issued
<1>5. ContentInv'
  BY DEF ContentInv, WholeAt
<1>6. HeapInv'
  BY Constants DEF HeapInv
<1>. QED  BY <1>1, <1>2, <1>3, <1>4, <1>5, <1>6

(* So does the barrier: all puts of the stage it ends have landed.         *)
LEMMA BarrierKeeps ==
  ASSUME IInv, PutsLandFirst, Barrier, TypeOK', StepBound'
  PROVE  StageInv' /\ DueInv' /\ VerdictInv' /\ FlightInv' /\ ContentInv' /\ HeapInv'
<1>1. PICK at \in Sites, s \in 0 .. Duration + 1, v \in BOOLEAN :
         \A c \in Clusters : pc[c] = at /\ step[c] = s /\ converged[c] = v
  <2>1. /\ pc[Cluster0] \in Sites /\ step[Cluster0] \in 0 .. Duration + 1
        /\ converged[Cluster0] \in BOOLEAN
    BY MeetAtOneSite, Constants DEF Barrier, IInv, TypeOK
  <2>. QED  BY <2>1, MeetAtOneSite DEF Barrier
<1>2. pc[Cluster0] = at /\ step[Cluster0] = s /\ converged[Cluster0] = v
  BY <1>1, Constants
<1>3. /\ flight = {} /\ flight' = {}
      /\ UNCHANGED <<converged, heap, known, content, sum>>
      /\ \A c \in Clusters : pc'[c] = AfterBarrier(c)
      /\ \A c \in Clusters : step'[c] = IF EndsStep(c) THEN s + 1 ELSE s
  BY <1>1 DEF Barrier, NextStep
<1>4. CASE at = "barrier_init"
  <2>1. s = 0 /\ ~ v
    BY <1>2, <1>4, Constants DEF IInv, StepBound, VerdictInv, InitStage
  <2>2. \A c \in Clusters : pc'[c] = "compute" /\ step'[c] = 0
    BY <1>1, <1>2, <1>3, <1>4, <2>1, Released, Constants DEF EndsStep, Turn, LoopTest
  <2>3. known' = Clusters /\ \A c \in Clusters : content'[Src(0)][c] = 0
    BY <1>2, <1>3, <1>4, AllLanded DEF Src, WholeAt
  <2>4. heap' = Arrays
    BY <1>2, <1>3, <1>4 DEF IInv, HeapInv
  <2>. QED
    BY <1>1, <1>3, <2>1, <2>2, <2>3, <2>4, StartOfStage,
       Constants, LabelsOfStages
<1>5. CASE \/ at = "barrier_compute" /\ ~ Due(s)
           \/ at = "barrier_monitor"
  <2>1. \A c \in Clusters : pc'[c] = Turn(s + 1, v) /\ step'[c] = s + 1
    BY <1>1, <1>2, <1>3, <1>5, Released DEF EndsStep, NextStep
  <2>2. (Turn(s + 1, v) = "compute" /\ ~ v) \/ Turn(s + 1, v) = "barrier_end"
    BY DEF Turn, LoopTest
  <2>3. WholeAt(Dst(s), s + 1)
    BY <1>1, <1>3, <1>5, AllLanded, Constants DEF WholeAt, IInv, ContentInv, MonitorStage, DecideStage
  <2>4. \A c \in Clusters : content'[Src(s + 1)][c] = s + 1
    BY <1>2, <1>3, <2>3, SwapLattices, Constants DEF WholeAt
  <2>5. known' = Clusters /\ heap' = Arrays
    BY <1>2, <1>3, <1>5, Constants DEF IInv, ContentInv, HeapInv, InitStage
  <2>6. s + 1 > 0
    BY <1>2, Constants
  <2>. QED
    BY <1>1, <1>2, <1>3, <2>1, <2>2, <2>4, <2>5, <2>6, StartOfStage,
       Constants, LabelsOfStages
<1>6. CASE at = "barrier_compute" /\ Due(s)
  <2>1. \A c \in Clusters : pc'[c] = "monitor" /\ step'[c] = s
    BY <1>1, <1>2, <1>3, <1>6, Released DEF EndsStep
  <2>2. ~ v /\ known' = Clusters /\ heap' = Arrays
    BY <1>2, <1>3, <1>6, Constants DEF IInv, ContentInv, VerdictInv, HeapInv, InitStage, ComputeStage
  <2>3. \A c \in Clusters : content'[Src(s)][c] = s
    BY <1>2, <1>3, <1>6, Constants DEF WholeAt, IInv, ContentInv, LoopStages, ComputeStage
  <2>4. \A c \in Clusters : content'[Dst(s)][c] = s + 1
    BY <1>1, <1>3, <1>6, AllLanded DEF WholeAt
  <2>. QED
    BY <1>1, <1>2, <1>3, <1>6, <2>1, <2>2, <2>3, <2>4, StartOfStage,
       Constants, LabelsOfStages
<1>7. CASE at = "barrier_sums"
  <2>1. \A c \in Clusters : pc'[c] = "decide" /\ step'[c] = s
    BY <1>1, <1>2, <1>3, <1>7, Released DEF EndsStep
  <2>2. ~ v /\ known' = Clusters /\ heap' = Arrays /\ Due(s)
    BY <1>2, <1>3, <1>7, Constants DEF IInv, ContentInv, VerdictInv, HeapInv, DueInv,
       InitStage, MonitorStage
  <2>3. \A c \in Clusters : content'[Src(s)][c] = s /\ content'[Dst(s)][c] = s + 1
    BY <1>2, <1>3, <1>7, Constants DEF WholeAt, IInv, ContentInv, LoopStages, MonitorStage
  <2>4. Images => \A c \in Clusters : content'["bitmap"][c] = s
    BY <1>1, <1>3, <1>7, AllLanded DEF WholeAt
  <2>5. \A c, d \in Clusters : sum'[c][d] = sum'[d][d] /\ sum'[c][d].step = s
    BY <1>1, <1>3, <1>7, AllLanded DEF IInv, ContentInv
  <2>. QED
    BY <1>1, <1>2, <1>3, <2>1, <2>2, <2>3, <2>4, <2>5, StartOfStage,
       Constants, LabelsOfStages
<1>8. CASE at = "barrier_end"
  <2>1. \A c \in Clusters :
          /\ pc'[c] = IF c = Cluster0 THEN "free" ELSE "barrier_final"
          /\ step'[c] = s
    BY <1>1, <1>2, <1>3, <1>8, Released DEF EndsStep
  <2>2. known' = Clusters /\ heap' = Arrays /\ s > 0
    BY <1>2, <1>3, <1>8, Constants DEF IInv, ContentInv, HeapInv, DueInv, InitStage, EndStage
  <2>3. StageInv'
    BY <2>1, InStage, Constants DEF StageInv, FreeStage, Alone
  <2>4. DueInv'
    BY <2>1, <2>2 DEF DueInv, MonitorStage, DecideStage
  <2>5. VerdictInv'
    BY <1>1, <1>3, <2>1 DEF VerdictInv, InitStage, ComputeStage, MonitorStage
  <2>6. FlightInv'
    <3>1. \A c \in Clusters : PutsOf(c)' = {}
      BY <2>1, PutsAtLabel DEF PutsOf, Filled
    <3>. QED  BY <1>3, <3>1 DEF FlightInv, Issued
  <2>7. ContentInv'
    BY <2>1, <2>2 DEF ContentInv, InitStage, LoopStages, ComputeStage, MonitorStage, DecideStage
  <2>8. HeapInv'
    BY <2>1, <2>2, Constants DEF HeapInv
  <2>. QED  BY <2>3, <2>4, <2>5, <2>6, <2>7, <2>8
<1>9. CASE at = "barrier_final"
  <2>1. \A c \in Clusters : pc'[c] = "done" /\ step'[c] = s
    BY <1>1, <1>2, <1>3, <1>9, Released DEF EndsStep
  <2>2. known' = Clusters /\ (heap' = Arrays \/ heap' = {}) /\ s > 0
    BY <1>2, <1>3, <1>9, Constants DEF IInv, ContentInv, HeapInv, DueInv, InitStage, FreeStage
  <2>. QED
    BY <1>1, <1>2, <1>3, <2>1, <2>2, StartOfStage,
       Constants, LabelsOfStages
<1>. QED  BY <1>2, <1>4, <1>5, <1>6, <1>7, <1>8, <1>9 DEF Sites

(* The invariant is inductive.                                             *)
LEMMA InvInductive ==
  ASSUME IInv, PutsLandFirst, [Next]_vars
  PROVE  IInv'
<1>1. TypeOK' /\ StepBound'
  BY TypeNext DEF IInv
<1> DEFINE Rest == StageInv /\ DueInv /\ VerdictInv /\ FlightInv /\ ContentInv /\ HeapInv
<1> SUFFICES Rest'
  BY <1>1 DEF IInv
<1>2. CASE Allocate
  BY <1>2, AllocateKeeps
<1>3. CASE InitArrays \/ ExportFirst
  BY <1>3, InitArraysKeeps, ExportFirstKeeps
<1>4. ASSUME NEW c \in Clusters, ClusterStep(c)
      PROVE  Rest'
  BY <1>4, ComputeKeeps, MonitorKeeps, DecideKeeps DEF ClusterStep
<1>5. CASE Export
  BY <1>5, ExportKeeps
<1>6. CASE Free
  BY <1>6, FreeKeeps
<1>7. CASE Barrier
  BY <1>1, <1>7, BarrierKeeps
<1>8. ASSUME NEW m \in flight, Lands(m)
      PROVE  Rest'
  BY <1>8, LandsKeeps
<1>9. CASE UNCHANGED vars
  <2>1. StageInv' /\ DueInv'
    BY <1>9 DEF vars, IInv, StageInv, DueInv
  <2>2. VerdictInv'
    BY <1>9 DEF vars, IInv, VerdictInv, AllSmall
  <2>3. Issued' = Issued /\ flight' = flight
    BY <1>9 DEF vars, Issued, PutsOf
  <2>4. FlightInv'
    BY <1>9, <2>3 DEF vars, IInv, FlightInv, Landed
  <2>5. ContentInv' /\ HeapInv'
    BY <1>9 DEF vars, IInv, ContentInv, WholeAt, HeapInv
  <2>. QED  BY <2>1, <2>2, <2>4, <2>5
<1>. QED  BY <1>2, <1>3, <1>4, <1>5, <1>6, <1>7, <1>8, <1>9 DEF Next, Finished
-----------------------------------------------------------------------------
(***************************************************************************)
(* Theorems.                                                               *)
(***************************************************************************)
LEMMA InitInv == Init => IInv
<1>. SUFFICES ASSUME Init PROVE IInv
  OBVIOUS
<1>1. TypeOK /\ StepBound
  BY InitTyped
<1>2. /\ pc[Cluster0] = "alloc" /\ heap = {} /\ flight = {} /\ known = {}
      /\ \A c \in Clusters : /\ pc[c] = IF c = Cluster0 THEN "alloc" ELSE "barrier_init"
                             /\ step[c] = 0 /\ converged[c] = FALSE
  BY Constants DEF Init
<1>3. StageInv
  <2>1. \A c \in Clusters : pc[c] \in InitStage
    BY <1>2 DEF InitStage
  <2>. QED  BY <1>2, <2>1, InStage, Constants DEF StageInv, Alone
<1>4. DueInv /\ VerdictInv
  BY <1>2 DEF DueInv, VerdictInv, MonitorStage, DecideStage, EndStage, FreeStage, DoneStage
<1>5. FlightInv
  <2>1. \A c \in Clusters : PutsOf(c) = {}
    BY <1>2, PutsAtLabel DEF PutsOf, Filled
  <2>. QED  BY <1>2, <2>1 DEF FlightInv, Issued
<1>6. ContentInv /\ HeapInv
  BY <1>2 DEF ContentInv, HeapInv, InitStage, LoopStages, ComputeStage, MonitorStage,
     DecideStage, Filled
<1>. QED  BY <1>1, <1>3, <1>4, <1>5, <1>6 DEF IInv

(* The invariant holds throughout, if puts land before a barrier ends.     *)
LEMMA Invariance ==
  ASSUME PutsLandFirst
  PROVE  Spec => []IInv
<1>1. IInv /\ [Next]_vars => IInv'
  BY InvInductive
<1>. QED  BY <1>1, InitInv, PTL DEF Spec

(* If the puts land before a barrier ends, the calls that a barrier        *)
(* releases together are made from the same line of main.c, in the same    *)
(* step and with the same verdict, for any number of clusters.             *)
THEOREM SameSiteHolds ==
  ASSUME PutsLandFirst
  PROVE  Spec => []SameSite
<1>1. IInv => SameSite
  BY MeetAtOneSite DEF SameSite
<1>. QED  BY <1>1, Invariance, PTL

(* Where a cluster is past its last barrier.                               *)
Returned == {"done", "failed"}
BarrierAwaited ==
  \A c, d \in Clusters : pc[c] \in Sites /\ pc[d] \in Returned =>
    d = Cluster0 /\ pc[d] = "failed" /\ pc[c] = "barrier_init"

(* No cluster waits in a barrier for one that has returned from main, but  *)
(* for cluster 0 if it got no memory, in the very first barrier            *)
(* (main.c:113; compute_common.c:465).                                     *)
THEOREM BarrierAwaitedHolds ==
  ASSUME PutsLandFirst
  PROVE  Spec => []BarrierAwaited
<1>1. IInv => BarrierAwaited
  <2> SUFFICES ASSUME IInv, NEW c \in Clusters, NEW d \in Clusters,
                      pc[c] \in Sites, pc[d] \in Returned
               PROVE  d = Cluster0 /\ pc[d] = "failed" /\ pc[c] = "barrier_init"
    BY DEF BarrierAwaited
  <2>1. PICK S \in Stages : pc[c] \in S /\ pc[d] \in S
    BY DEF IInv, StageInv
  <2>2. S = InitStage
    BY <2>1 DEF Stages, InitStage, ComputeStage, MonitorStage, DecideStage, EndStage,
       FreeStage, DoneStage, Sites, Returned
  <2>3. pc[d] = "failed" /\ pc[c] = "barrier_init"
    BY <2>1, <2>2 DEF InitStage, Sites, Returned
  <2>. QED  BY <2>3 DEF IInv, StageInv, Alone
<1>. QED  BY <1>1, Invariance, PTL

(* A cluster that computes or monitors knows the arrays and finds them     *)
(* whole, at its own step, with no put landing there; the picture that     *)
(* cluster 0 exports after a monitoring is of its step in every part       *)
(* (main.c:175 to 243); the one that it exports before the first barrier   *)
(* need not be, see FirstPicture.                                          *)
THEOREM ReadsCurrentStepHolds ==
  ASSUME PutsLandFirst
  PROVE  Spec => []ReadsCurrentStep
<1>1. IInv => ReadsCurrentStep
  <2>. SUFFICES ASSUME IInv PROVE ReadsCurrentStep
    OBVIOUS
  <2>1. ASSUME NEW c \in Clusters, Reads(c)
        PROVE  c \in known /\ \A d \in Clusters : content[Src(step[c])][d] = step[c]
    BY <2>1 DEF IInv, ContentInv, WholeAt, Reads, InitStage, LoopStages, ComputeStage,
       MonitorStage
  <2>2. ASSUME NEW c \in Clusters, Reads(c), NEW m \in flight, m.kind = "parts"
        PROVE  Src(step[c]) \notin m.arrays
    <3>1. PICK d \in Clusters : m \in PutsOf(d)
      BY DEF IInv, FlightInv, Issued
    <3>2. step[d] = step[c] /\ step[c] \in Nat
      BY Constants DEF IInv, TypeOK, StageInv
    <3>3. pc[d] \in ComputeStage \cup MonitorStage
      BY <2>2, InStage, OneStage DEF IInv, Reads, ComputeStage, MonitorStage
    <3>4. m.arrays = {Dst(step[c])} \/ m.arrays = Pictures
      BY <2>2, <3>1, <3>2, <3>3, PutFacts DEF PutsOf, ComputeStage, MonitorStage, Filled
    <3>5. Src(step[c]) \in Lattices /\ Src(step[c]) # Dst(step[c])
      BY <3>2, SwapLattices
    <3>. QED  BY <3>4, <3>5 DEF Pictures, Results, Lattices
  <2>3. pc[Cluster0] = "export" => \A d \in Clusters : content["bitmap"][d] = step[Cluster0]
    BY Constants DEF IInv, DueInv, ContentInv, WholeAt, DecideStage
  <2>. QED  BY <2>1, <2>2, <2>3 DEF ReadsCurrentStep
<1>. QED  BY <1>1, Invariance, PTL

(* The sums that a cluster adds up are those of this monitoring, the same  *)
(* in every cluster (compute_common.c:866 to 880).                         *)
THEOREM TotalOfThisStepHolds ==
  ASSUME PutsLandFirst
  PROVE  Spec => []TotalOfThisStep
<1>1. IInv => TotalOfThisStep
  BY DEF IInv, ContentInv, TotalOfThisStep, DecideStage
<1>. QED  BY <1>1, Invariance, PTL

(* Cluster 0 frees the arrays only when nobody reads them and no put is    *)
(* going there (main.c:255).                                               *)
THEOREM NoUseAfterFreeHolds ==
  ASSUME PutsLandFirst
  PROVE  Spec => []NoUseAfterFree
<1>1. IInv => NoUseAfterFree
  <2>. SUFFICES ASSUME IInv, heap # Arrays PROVE NoUseAfterFree
    BY DEF NoUseAfterFree
  <2>1. flight = {} /\ pc[Cluster0] \in {"alloc", "failed", "barrier_final", "done"}
    BY DEF IInv, HeapInv
  <2>2. \A c \in Clusters : pc[c] \in InitStage \cup FreeStage \cup DoneStage
    BY <2>1, InStage, OneStage, Constants DEF IInv, InitStage, FreeStage, DoneStage
  <2>. QED  BY <2>1, <2>2 DEF NoUseAfterFree, Reads, InitStage, FreeStage, DoneStage
<1>. QED  BY <1>1, Invariance, PTL
-----------------------------------------------------------------------------
(***************************************************************************)
(* The clusters implement the sequential loop of MainLoop.                 *)
(***************************************************************************)
(* While the invariant holds, what the loop shows of itself can be read    *)
(* off cluster 0.                                                          *)
LEMMA SeenFromCluster0 ==
  IInv => /\ LoopTurn = step[Cluster0]
          /\ LoopRunning <=> pc[Cluster0] \in InitStage \cup LoopStages
<1>. SUFFICES ASSUME IInv
              PROVE  LoopRunning <=> pc[Cluster0] \in InitStage \cup LoopStages
  BY DEF LoopTurn, IInv, StageInv
<1>1. CASE pc[Cluster0] \in InitStage
  <2>1. \A c \in Clusters : pc[c] \in InitStage
    BY <1>1, InStage, OneStage, Constants DEF IInv
  <2>. QED  BY <1>1, <2>1 DEF LoopRunning, IInv, StepBound
<1>2. CASE pc[Cluster0] \in LoopStages
  <2>1. \A c \in Clusters : pc[c] \in LoopStages
    BY <1>2, InStage, OneStage, Constants DEF IInv, LoopStages
  <2>. QED
    BY <1>2, <2>1, LabelsOfStages DEF LoopRunning, Outside
<1>3. CASE pc[Cluster0] \notin InitStage \cup LoopStages
  <2>1. pc[Cluster0] \in EndStage \cup FreeStage \cup DoneStage
    BY <1>3, LabelsOfStages, Constants DEF IInv, TypeOK, EndStage, FreeStage, DoneStage
  <2>2. step[Cluster0] > 0 /\ pc[Cluster0] \in Outside
    BY <2>1, Constants DEF IInv, DueInv, Outside, EndStage, FreeStage, DoneStage
  <2>. QED  BY <1>3, <2>2, Constants DEF LoopRunning, IInv, TypeOK
<1>. QED  BY <1>1, <1>2, <1>3

(* Every step of the program is a turn of the loop or invisible.           *)
LEMMA StepSimulation ==
  ASSUME IInv, [Next]_vars,
         LoopTurn = step[Cluster0], LoopTurn' = step'[Cluster0],
         LoopRunning <=> pc[Cluster0] \in InitStage \cup LoopStages,
         LoopRunning' <=> pc'[Cluster0] \in InitStage \cup LoopStages
  PROVE  \/ LoopTurn' = LoopTurn /\ (LoopRunning' <=> LoopRunning)
         \/ /\ LoopRunning /\ LoopTurn' = LoopTurn + 1
            /\ \/ LoopRunning' <=> LoopTurn + 1 <= Duration
               \/ LoopTurn > 0 /\ LoopTurn % Period = 0 /\ ~ LoopRunning'
<1>1. CASE Barrier
  <2> DEFINE at == pc[Cluster0]
             s  == step[Cluster0]
             v  == converged[Cluster0]
  <2>1. at \in Sites /\ s \in 0 .. Duration + 1 /\ v \in BOOLEAN
    BY <1>1, MeetAtOneSite, Constants DEF Barrier, IInv, TypeOK
  <2>2. /\ pc'[Cluster0] = AfterBarrier(Cluster0)
        /\ step'[Cluster0] = IF EndsStep(Cluster0) THEN s + 1 ELSE s
    BY <1>1, Constants DEF Barrier, NextStep
  <2>3. CASE EndsStep(Cluster0)
    <3>1. pc'[Cluster0] = Turn(s + 1, v) /\ at \in LoopStages
      BY <2>1, <2>2, <2>3, Released, Constants, LabelsOfStages DEF NextStep, EndsStep
    <3>2. v => Due(s)
      BY <2>3, Constants DEF EndsStep, IInv, VerdictInv, DueInv, ComputeStage, DecideStage
    <3>3. LoopRunning' <=> s + 1 <= Duration /\ ~ v
      BY <3>1, LabelsOfStages DEF Turn, LoopTest
    <3>4. LoopTurn' = LoopTurn + 1 /\ LoopRunning
      BY <2>2, <2>3, <3>1
    <3>. QED  BY <3>2, <3>3, <3>4 DEF Due
  <2>4. CASE ~ EndsStep(Cluster0)
    <3>1. CASE at = "barrier_init"
      <4>1. s = 0
        BY <3>1, Constants, LabelsOfStages DEF IInv, StepBound
      <4>2. ~ v
        BY <3>1, Constants, LabelsOfStages DEF IInv, VerdictInv
      <4>3. pc'[Cluster0] = "compute"
        BY <2>1, <2>2, <3>1, <4>1, <4>2, Released, Constants DEF Turn, LoopTest
      <4>. QED  BY <2>2, <2>4, <3>1, <4>3, LabelsOfStages
    <3>2. CASE at \in LoopStages
      <4>1. pc'[Cluster0] \in {"monitor", "decide"}
        BY <2>1, <2>2, <2>4, <3>2, Released, Constants, LabelsOfStages DEF Sites, EndsStep
      <4>. QED  BY <2>2, <2>4, <3>2, <4>1, LabelsOfStages
    <3>3. CASE at \in {"barrier_end", "barrier_final"}
      <4>1. pc'[Cluster0] \in {"free", "done"}
        BY <2>1, <2>2, <3>3, Released, Constants
      <4>. QED  BY <2>2, <2>4, <3>3, <4>1, LabelsOfStages
    <3>. QED  BY <2>1, <3>1, <3>2, <3>3, LabelsOfStages DEF Sites
  <2>. QED  BY <2>3, <2>4
<1>2. CASE ~ Barrier
  <2>1. step' = step
    BY <1>2 DEF Next, vars, Allocate, InitArrays, ExportFirst, ClusterStep, Compute, Monitor, Decide,
       Export, Free, Lands, Finished
  <2>2. pc'[Cluster0] \in InitStage \cup LoopStages
          <=> pc[Cluster0] \in InitStage \cup LoopStages
    <3>1. CASE Allocate
      BY <3>1, Constants, LabelsOfStages DEF Allocate, Goto, IInv, TypeOK
    <3>2. CASE InitArrays \/ ExportFirst
      BY <3>2, Constants, LabelsOfStages
         DEF InitArrays, AfterFill, ExportFirst, Goto, IInv, TypeOK
    <3>3. ASSUME NEW c \in Clusters, ClusterStep(c)
          PROVE  pc'[Cluster0] \in InitStage \cup LoopStages
                   <=> pc[Cluster0] \in InitStage \cup LoopStages
      <4>1. PICK label \in LoopStages : Goto(c, label) /\ pc[c] \in LoopStages
        BY <3>3, LabelsOfStages DEF ClusterStep, Compute, Monitor, Decide, AfterSums
      <4>. QED  BY <4>1, Constants DEF Goto, IInv, TypeOK
    <3>4. CASE Export
      BY <3>4, Constants, LabelsOfStages DEF Export, Goto, IInv, TypeOK
    <3>5. CASE Free
      BY <3>5, Constants, LabelsOfStages DEF Free, Goto, IInv, TypeOK
    <3>6. CASE pc' = pc
      BY <3>6
    <3>. QED
      BY <1>2, <3>1, <3>2, <3>3, <3>4, <3>5, <3>6 DEF Next, Lands, Finished, vars
  <2>. QED  BY <2>1, <2>2
<1>. QED  BY <1>1, <1>2

(* Seen from outside the clusters run one sequential loop: all of them     *)
(* change step at once, leave the loop together, and not before the end    *)
(* unless they have just monitored (main.c:175 to 243).                    *)
THEOREM ImplementsLoopHolds ==
  ASSUME PutsLandFirst
  PROVE  Spec => ImplementsLoop
<1>1. Init => Loop!Init
  <2>. SUFFICES ASSUME Init PROVE Loop!Init
    OBVIOUS
  <2>1. \A c \in Clusters : step[c] = 0
    BY DEF Init
  <2>. QED  BY <2>1, Constants DEF Loop!Init, LoopTurn, LoopRunning
<1>2. IInv /\ IInv' /\ [Next]_vars => [Loop!Next]_<<LoopTurn, LoopRunning>>
  <2>. SUFFICES ASSUME IInv, IInv', [Next]_vars
                PROVE  Loop!Turn \/ (LoopTurn' = LoopTurn /\ LoopRunning' = LoopRunning)
    BY DEF Loop!Next
  <2>1. (IInv => /\ LoopTurn = step[Cluster0]
                 /\ LoopRunning <=> pc[Cluster0] \in InitStage \cup LoopStages)'
    BY SeenFromCluster0, PTL
  <2>2. LoopTurn' = step'[Cluster0]
        /\ (LoopRunning' <=> pc'[Cluster0] \in InitStage \cup LoopStages)
    BY <2>1 DEF InitStage, LoopStages, ComputeStage, MonitorStage, DecideStage
  <2>3. LoopRunning \in BOOLEAN /\ LoopRunning' \in BOOLEAN
    BY DEF LoopRunning
  <2>. QED
    BY <2>2, <2>3, SeenFromCluster0, StepSimulation DEF Loop!Turn, Loop!Monitored
<1>. QED  BY <1>1, <1>2, Invariance, PTL DEF Spec, ImplementsLoop, Loop!Spec
-----------------------------------------------------------------------------
(***************************************************************************)
(* Start and end.  Opal runs between the start of the IO clusters and the  *)
(* last barrier of the host, where Boot has a single action for a whole    *)
(* cluster.  For any number of clusters, with or without PCI, whether or   *)
(* not a spawn fails, nobody is asked who is not there to answer.          *)
(***************************************************************************)

(* Where the north IO cluster is while clusters may run, and before: the   *)
(* host waits for it in the barrier, or is about to.                       *)
Serving  == {"spawn", "listen", "sync", "rpc"}
Attended == {"console", "servers"} \cup Serving \cup {"reap", "barrier"}

(* Where it is decides what has been set up; the notification of tag 127   *)
(* comes from a south IO cluster whose servers run.                        *)
BootInv ==
  /\ cluster \in [Clusters -> {"off", "failed", "running", "exited"}]
  /\ \A c \in Clusters : cluster[c] = "running" => north \in Serving
  /\ north \in Serving \cup {"reap"} => "north" \in servers
  /\ PciSpawn /\ north \in (Attended \ {"console"}) \cup {"exit"} =>
       "north" \in console
  /\ PciSpawn /\ north \in Attended => host \in {"console", "barrier"}
  /\ host = "load" => north = "off"
  /\ ~ PciSpawn => host = "absent"
  /\ south \in {"notify", "rpc", "exited"} => "south" \in servers
  /\ rx = "notified" \/ early = "kept" => "south" \in servers
  /\ north = "rpc" => "south" \in servers

(* No step of host, IO clusters or clusters takes away what is needed.     *)
LEMMA BootInvariance == Bt!Spec => []BootInv
<1>1. Bt!Init => BootInv
  BY BootAssumption DEF Bt!FlagAssumption, Bt!Init, BootInv, Serving, Attended,
     Bt!Clusters, Clusters
<1>2. BootInv /\ [Bt!Next]_Bt!vars => BootInv'
  <2> SUFFICES ASSUME BootInv, [Bt!Next]_Bt!vars PROVE BootInv'
    OBVIOUS
  <2> USE BootAssumption DEF Bt!FlagAssumption, BootInv, Serving, Attended
  <2>1. CASE Bt!HostStep
    BY <2>1 DEF Bt!HostStep, Bt!Load, Bt!HostConsole, Bt!HostExit
  <2>2. CASE Bt!Spawn
    <3>1. \A c \in Clusters : cluster'[c] = "running" => north = "spawn"
      BY <2>2 DEF Bt!Spawn
    <3>. QED  BY <2>2, <3>1 DEF Bt!Spawn
  <2>3. CASE Bt!Serve
    <3>1. \A c \in Clusters : cluster[c] = "exited"
      BY <2>3 DEF Bt!Serve, Bt!Exited, Bt!Clusters, Clusters
    <3>2. \A c \in Clusters : cluster'[c] # "running"
      BY <2>3, <3>1 DEF Bt!Serve
    <3>. QED  BY <2>3, <3>2 DEF Bt!Serve
  <2>4. CASE Bt!Reap
    BY <2>4 DEF Bt!Reap
  <2>5. CASE Bt!RemoteExit
    <3>1. /\ north = "reap" /\ north' \in {"barrier", "exited"}
          /\ north' = "barrier" => PciSpawn
          /\ "south" \in servers => "south" \in servers'
          /\ UNCHANGED <<host, south, cluster, rx, early, console>>
      BY <2>5 DEF Bt!RemoteExit
    <3>. QED  BY <3>1
  <2>6. CASE \/ Bt!NorthConsole \/ Bt!NorthServers \/ Bt!SpawnSouth \/ Bt!Listen
             \/ Bt!Sync \/ Bt!PcieBarrier \/ Bt!NorthExit
    BY <2>6 DEF Bt!NorthConsole, Bt!NorthServers, Bt!SpawnSouth, Bt!Listen, Bt!Sync,
       Bt!Notified, Bt!PcieBarrier, Bt!NorthExit
  <2>7. CASE Bt!SouthStep
    BY <2>7 DEF Bt!SouthStep, Bt!SouthServers, Bt!AfterServers, Bt!Notify, Bt!SouthServe
  <2>8. ASSUME NEW c \in Bt!Clusters, Bt!ClusterRuns(c) PROVE BootInv'
    BY <2>8 DEF Bt!ClusterRuns, Bt!Clusters, Clusters
  <2>9. CASE UNCHANGED Bt!vars
    BY <2>9 DEF Bt!vars
  <2>. QED  BY <2>1, <2>2, <2>3, <2>4, <2>5, <2>6, <2>7, <2>8, <2>9
            DEF Bt!Next, Bt!NorthStep
<1>. QED  BY <1>1, <1>2, PTL DEF Bt!Spec

(* While a cluster runs, the north IO cluster serves it and has a console, *)
(* the host has not gone, and requests are not taken before the south IO   *)
(* cluster can answer too (ServedWhileRunning).                            *)
THEOREM ServedWhileRunningHolds == Bt!Spec => []ServedWhileRunning
<1>1. BootInv => ServedWhileRunning
  BY DEF BootInv, ServedWhileRunning, Bt!ServedWhileRunning, Serving, Attended,
     Bt!Clusters, Clusters
<1>. QED  BY <1>1, BootInvariance, PTL

(* Every variable of Boot keeps its type: no cluster past the last one is  *)
(* spawned or waited for.                                                  *)
THEOREM BootTypeCorrect == Bt!Spec => []Bt!TypeOK
<1>0. NbClusters \in Nat \ {0} /\ Bt!Clusters = 0 .. NbClusters - 1
  BY BootAssumption DEF Bt!SizeAssumption, Bt!Clusters
<1>1. ASSUME Bt!Init PROVE Bt!TypeOK
  <2>1. cluster \in [Bt!Clusters -> {"off", "failed", "running", "exited"}]
    BY <1>1 DEF Bt!Init
  <2>2. /\ host \in {"absent", "load"} /\ north \in {"off", "servers"} /\ south = "off"
        /\ i = 0 /\ rx = "free" /\ early = "none" /\ servers = {} /\ console = {}
    BY <1>1 DEF Bt!Init
  <2>3. i \in 0 .. NbClusters
    BY <1>0, <2>2
  <2>4. servers \subseteq {"north", "south"}
        /\ console \subseteq {"host", "north"}
    BY <2>2
  <2>. QED  BY <2>1, <2>2, <2>3, <2>4 DEF Bt!TypeOK
<1>2. Bt!TypeOK /\ [Bt!Next]_Bt!vars => Bt!TypeOK'
  <2> SUFFICES ASSUME Bt!TypeOK, [Bt!Next]_Bt!vars PROVE Bt!TypeOK'
    OBVIOUS
  <2> USE DEF Bt!TypeOK
  <2>1. CASE Bt!HostStep
    <3>1. CASE Bt!Load
      BY <3>1 DEF Bt!Load
    <3>2. CASE Bt!HostConsole
      BY <3>2 DEF Bt!HostConsole
    <3>3. CASE Bt!HostExit
      BY <3>3 DEF Bt!HostExit
    <3>. QED  BY <2>1, <3>1, <3>2, <3>3 DEF Bt!HostStep
  <2>2. CASE Bt!Spawn
    <3>1. cluster' \in [Bt!Clusters -> {"off", "failed", "running", "exited"}]
      BY <2>2 DEF Bt!Spawn
    <3>2. i < NbClusters /\ i' = i + 1
      BY <2>2 DEF Bt!Spawn, Bt!More
    <3>3. UNCHANGED <<host, north, south, rx, early, servers, console>>
      BY <2>2 DEF Bt!Spawn
    <3>. QED  BY <1>0, <3>1, <3>2, <3>3
  <2>3. CASE Bt!SpawnSouth
    BY <1>0, <2>3 DEF Bt!SpawnSouth
  <2>4. CASE Bt!Reap
    <3>1. i < NbClusters /\ i' = i + 1
      BY <2>4 DEF Bt!Reap, Bt!More
    <3>. QED  BY <1>0, <2>4, <3>1 DEF Bt!Reap
  <2>5. CASE Bt!NorthConsole \/ Bt!NorthServers \/ Bt!Listen \/ Bt!Sync \/ Bt!Serve
    <3>1. CASE Bt!NorthConsole
      BY <3>1 DEF Bt!NorthConsole
    <3>2. CASE Bt!NorthServers
      BY <3>2 DEF Bt!NorthServers
    <3>3. CASE Bt!Listen
      BY <3>3 DEF Bt!Listen
    <3>4. CASE Bt!Sync
      BY <3>4 DEF Bt!Sync
    <3>5. CASE Bt!Serve
      BY <3>5 DEF Bt!Serve
    <3>. QED  BY <2>5, <3>1, <3>2, <3>3, <3>4, <3>5
  <2>6. CASE Bt!RemoteExit \/ Bt!PcieBarrier \/ Bt!NorthExit
    <3>1. CASE Bt!RemoteExit
      BY <3>1 DEF Bt!RemoteExit
    <3>2. CASE Bt!PcieBarrier
      BY <3>2 DEF Bt!PcieBarrier
    <3>3. CASE Bt!NorthExit
      BY <3>3 DEF Bt!NorthExit
    <3>. QED  BY <2>6, <3>1, <3>2, <3>3
  <2>7. CASE Bt!SouthStep
    <3>1. CASE Bt!SouthServers
      BY <3>1 DEF Bt!SouthServers, Bt!AfterServers
    <3>2. CASE Bt!Notify
      BY <3>2 DEF Bt!Notify
    <3>3. CASE Bt!SouthServe
      BY <3>3 DEF Bt!SouthServe
    <3>. QED  BY <2>7, <3>1, <3>2, <3>3 DEF Bt!SouthStep
  <2>8. ASSUME NEW c \in Bt!Clusters, Bt!ClusterRuns(c) PROVE Bt!TypeOK'
    BY <2>8 DEF Bt!ClusterRuns
  <2>9. CASE UNCHANGED Bt!vars
    BY <2>9 DEF Bt!vars
  <2>. QED  BY <2>1, <2>2, <2>3, <2>4, <2>5, <2>6, <2>7, <2>8, <2>9
            DEF Bt!Next, Bt!NorthStep
<1>. QED  BY <1>1, <1>2, PTL DEF Bt!Spec

(* Nobody waits for one that cannot come any more, but for one that is     *)
(* Missing.  The north IO cluster has the notification of the south one,   *)
(* or that one has still to send it; while it serves, a compute cluster    *)
(* still runs and can be served, unless all have exited or one was not     *)
(* spawned; waitpid finds clusters that have exited; the host and it come  *)
(* to the barrier of PCI both; and the north IO cluster does not come past *)
(* the place where it waits for one that is missing.                       *)
BootAwaited ==
  /\ north = "sync" => \/ Bt!Notified \/ south \in {"servers", "notify"}
                       \/ Bt!SouthMissing
  /\ Bt!SouthMissing => north \in {"listen", "sync"} /\ ~ Bt!Notified
  /\ Bt!Missing => north \in {"spawn", "listen", "sync", "rpc"}
  /\ north = "rpc" =>
       \/ \A c \in Bt!Clusters : Bt!Exited(c)
       \/ \E c \in Bt!Clusters : cluster[c] = "failed"
       \/ /\ servers = {"north", "south"}
          /\ \E c \in Bt!Clusters : cluster[c] = "running"
          /\ \A c \in Bt!Clusters : cluster[c] \in {"running", "exited"}
  /\ north = "reap" => \A c \in Bt!Clusters : Bt!Exited(c)
  /\ north = "barrier" => host \in {"console", "barrier"}
  /\ host = "barrier" => north \in Attended

(* The notification is sent once, and kept, received or lost; all clusters *)
(* have been asked to start when the loop over them is over.               *)
Starting == {"off", "console", "servers", "spawn"}
WaitInv ==
  /\ south = "off" <=> north \in Starting
  /\ north \in Starting \ {"spawn"} => i = 0
  /\ north \in Starting \cup {"listen"} => rx = "free"
  /\ north = "listen" =>
       early = "kept" \/ south \in {"servers", "notify"} \/ Bt!SouthMissing
  /\ north = "sync" =>
       \/ rx = "notified"
       \/ rx = "configured" /\ (south \in {"servers", "notify"} \/ Bt!SouthMissing)
  /\ rx = "notified" \/ early # "none" => south \in {"rpc", "exited"}
  /\ north \notin Starting \cup {"listen", "sync"} => south \in {"rpc", "exited"}
  /\ Bt!SouthMissing => north \in {"listen", "sync"} /\ rx # "notified"
  /\ north = "spawn" => \A c \in Bt!Clusters : c < i => cluster[c] # "off"
  /\ north \in {"listen", "sync", "rpc"} =>
       \A c \in Bt!Clusters : cluster[c] # "off"
  /\ north \notin Starting \cup {"listen", "sync", "rpc"} =>
       \A c \in Bt!Clusters : cluster[c] = "exited"
  /\ north \in Starting \ {"spawn"} => \A c \in Bt!Clusters : cluster[c] = "off"
  /\ north = "barrier" => PciSpawn
  /\ host \in {"console", "barrier"} => north \in Attended

(* No step of host, IO clusters or clusters takes away what is waited for. *)
LEMMA WaitInvariance == Bt!Spec => []WaitInv
<1>0. NbClusters \in Nat \ {0} /\ Bt!Clusters = 0 .. NbClusters - 1
  BY BootAssumption DEF Bt!SizeAssumption, Bt!Clusters
<1>1. Bt!Init => WaitInv
  BY DEF Bt!Init, WaitInv, Starting, Bt!SouthMissing
<1>2. Bt!TypeOK /\ BootInv /\ WaitInv /\ [Bt!Next]_Bt!vars => WaitInv'
  <2> SUFFICES ASSUME Bt!TypeOK, BootInv, WaitInv, [Bt!Next]_Bt!vars PROVE WaitInv'
    OBVIOUS
  <2> USE DEF WaitInv, Starting, Serving, Attended, Bt!SouthMissing
  <2>1. CASE Bt!HostConsole \/ Bt!HostExit
    BY <2>1 DEF Bt!HostConsole, Bt!HostExit
  <2>2. CASE Bt!Load
    <3>1. /\ host = "load"
          /\ \/ host' = "console" /\ north' = "console"
             \/ host' = "exited" /\ north' = north
          /\ UNCHANGED <<south, cluster, i, rx, early>>
      BY <2>2 DEF Bt!Load
    <3>2. north = "off"
      BY <3>1 DEF BootInv
    <3>. QED  BY <3>1, <3>2
  <2>3. CASE Bt!Spawn
    <3>1. /\ north = "spawn" /\ north' = "spawn" /\ i' = i + 1
          /\ UNCHANGED <<host, south, rx, early>>
      BY <2>3 DEF Bt!Spawn
    <3>2. i \in Bt!Clusters /\ cluster'[i] # "off"
          /\ \A c \in Bt!Clusters : c # i => cluster'[c] = cluster[c]
      BY <1>0, <2>3 DEF Bt!Spawn, Bt!More, Bt!TypeOK
    <3>3. \A c \in Bt!Clusters : c < i' => cluster'[c] # "off"
      BY <1>0, <3>1, <3>2
    <3>. QED  BY <3>1, <3>3
  <2>4. CASE Bt!SpawnSouth
    <3>1. \A c \in Bt!Clusters : cluster[c] # "off"
      BY <1>0, <2>4 DEF Bt!SpawnSouth, Bt!More, Bt!TypeOK
    <3>. QED  BY <2>4, <3>1 DEF Bt!SpawnSouth
  <2>5. CASE Bt!Listen \/ Bt!Sync
    BY <2>5 DEF Bt!Listen, Bt!Sync, Bt!Notified
  <2>6. CASE Bt!NorthConsole
    BY <2>6 DEF Bt!NorthConsole
  <2>7. CASE Bt!NorthServers
    <3>1. \A c \in Bt!Clusters : ~ (c < i)
      BY <1>0, <2>7 DEF Bt!NorthServers
    <3>. QED  BY <2>7, <3>1 DEF Bt!NorthServers
  <2>8. CASE Bt!Serve
    BY <2>8 DEF Bt!Serve, Bt!Exited
  <2>9. CASE Bt!Reap
    BY <2>9 DEF Bt!Reap
  <2>10. CASE Bt!RemoteExit
    <3>1. /\ north = "reap" /\ north' = IF PciSpawn THEN "barrier" ELSE "exited"
          /\ UNCHANGED <<host, south, cluster, i, rx, early>>
      BY <2>10 DEF Bt!RemoteExit
    <3>2. ~ PciSpawn => host = "absent"
      BY DEF BootInv
    <3>. QED  BY <3>1, <3>2
  <2>11. CASE Bt!PcieBarrier
    BY <2>11 DEF Bt!PcieBarrier
  <2>12. CASE Bt!NorthExit
    BY <2>12 DEF Bt!NorthExit
  <2>13. CASE Bt!SouthStep
    BY <2>13 DEF Bt!SouthStep, Bt!SouthServers, Bt!AfterServers, Bt!Notify, Bt!SouthServe
  <2>14. ASSUME NEW c \in Bt!Clusters, Bt!ClusterRuns(c) PROVE WaitInv'
    BY <2>14 DEF Bt!ClusterRuns, Bt!TypeOK
  <2>15. CASE UNCHANGED Bt!vars
    BY <2>15 DEF Bt!vars
  <2>. QED  BY <2>1, <2>2, <2>3, <2>4, <2>5, <2>6, <2>7, <2>8, <2>9, <2>10, <2>11,
               <2>12, <2>13, <2>14, <2>15
            DEF Bt!Next, Bt!HostStep, Bt!NorthStep
<1>. QED  BY <1>1, <1>2, BootTypeCorrect, BootInvariance, PTL DEF Bt!Spec

(* Nobody in the start and the end of the program waits for one that does  *)
(* not come, but for a cluster that could not be spawned, the south IO     *)
(* cluster included, or a notification that was lost; and then the program *)
(* does not end: for any number of clusters (io/main.c:33 to 82).          *)
THEOREM BootAwaitedHolds == Bt!Spec => []BootAwaited
<1>1. Bt!TypeOK /\ BootInv /\ WaitInv => BootAwaited
  <2> SUFFICES ASSUME Bt!TypeOK, BootInv, WaitInv PROVE BootAwaited
    OBVIOUS
  <2>1. north = "sync" => \/ Bt!Notified \/ south \in {"servers", "notify"}
                          \/ Bt!SouthMissing
    BY DEF WaitInv, Bt!Notified
  <2>2. Bt!SouthMissing => north \in {"listen", "sync"} /\ ~ Bt!Notified
    BY DEF WaitInv, Bt!Notified
  <2>3. ASSUME NEW c \in Bt!Clusters, cluster[c] = "failed"
        PROVE  north \in {"spawn", "listen", "sync", "rpc"}
    <3>1. north \notin {"off", "console", "servers"}
      BY <2>3, BootAssumption DEF WaitInv, Starting, Bt!TypeOK, Bt!Clusters
    <3>. QED  BY <2>3, <3>1 DEF WaitInv, Starting
  <2>4. Bt!Missing => north \in {"spawn", "listen", "sync", "rpc"}
    BY <2>2, <2>3 DEF Bt!Missing
  <2>5. ASSUME north = "rpc"
        PROVE  \/ \A c \in Bt!Clusters : Bt!Exited(c)
               \/ \E c \in Bt!Clusters : cluster[c] = "failed"
               \/ /\ servers = {"north", "south"}
                  /\ \E c \in Bt!Clusters : cluster[c] = "running"
                  /\ \A c \in Bt!Clusters : cluster[c] \in {"running", "exited"}
    <3>1. servers = {"north", "south"}
      BY <2>5 DEF BootInv, Serving, Bt!TypeOK
    <3>2. \A c \in Bt!Clusters : cluster[c] \in {"failed", "running", "exited"}
      BY <2>5 DEF WaitInv, Bt!TypeOK
    <3>. QED  BY <3>1, <3>2 DEF Bt!Exited
  <2>6. north = "reap" => \A c \in Bt!Clusters : Bt!Exited(c)
    BY DEF WaitInv, Starting, Bt!Exited
  <2>7. north = "barrier" => host \in {"console", "barrier"}
    BY DEF WaitInv, BootInv, Bt!TypeOK, Starting, Serving, Attended
  <2>8. host = "barrier" => north \in Attended
    BY DEF WaitInv, BootInv, Bt!TypeOK, Starting, Serving, Attended
  <2>. QED  BY <2>1, <2>2, <2>4, <2>5, <2>6, <2>7, <2>8 DEF BootAwaited
<1>. QED  BY <1>1, BootTypeCorrect, BootInvariance, WaitInvariance, PTL
=============================================================================
