--------------------------------- MODULE Opal ---------------------------------
(***************************************************************************)
(* The whole program of the compute clusters (src/opal/src_bare_async/     *)
(* cluster/main.c): cluster 0 allocates the arrays in DDR and fills them,  *)
(* the clusters meet, then each runs its own copy of the main loop, with a *)
(* compute phase in every step and a monitoring every Period steps, after  *)
(* which each decides for itself whether the simulation has converged; at  *)
(* the end cluster 0 frees the arrays.                                     *)
(*                                                                         *)
(* mppa_rpc_barrier_all is ONE barrier wherever it is called from: it      *)
(* releases the clusters when all have called it.  A phase of a cluster,   *)
(* described by ComputePipeline and MonitorPipeline, is one action at the  *)
(* end of the time it takes; the part of an array that a cluster owns (see *)
(* Sweep) is abstracted to the step its content is of.  Puts wait for      *)
(* local completion only (event NULL) and land later; PutsLandFirst says   *)
(* that the hardware lands them before a barrier ends.                     *)
(***************************************************************************)
EXTENDS Integers, FiniteSets

CONSTANTS
  NbClusters,     \* NB_CLUSTERS
  Duration,       \* DURATION: the steps are 0 .. Duration
  Monitoring,     \* MONITORING == 1
  PutsLandFirst,  \* no put is in flight when mppa_rpc_barrier_all returns
  MayFail         \* an allocation in DDR may fail

Clusters == 0 .. NbClusters - 1
Cluster0 == 0

(* getConfig                                                               *)
Period == IF Monitoring THEN Duration \div 10 ELSE Duration
Images == Monitoring

ASSUME SizeAssumption   == NbClusters \in Nat \ {0} /\ Duration \in Nat \ {0}
ASSUME PeriodAssumption == Period > 0
ASSUME FlagAssumption   ==
  /\ Monitoring \in BOOLEAN
  /\ PutsLandFirst \in BOOLEAN
  /\ MayFail \in BOOLEAN

Lattices == {"even", "odd"}
Results  == {"velocity", "bitmap"}
Arrays   == Lattices \cup Results
Steps    == -1 .. Duration + 1

VARIABLES
  pc,         \* where each cluster is
  step,       \* the loop variable of each cluster
  converged,  \* Results.Converged of each cluster
  heap,       \* arrays that are allocated
  known,      \* clusters whose LatticeEven, LatticeOdd, ... are the addresses
  content,    \* array -> cluster -> the step its part of the array is of
  sum,        \* delta_reduce_multiclusters of each cluster
  flight      \* puts that have not landed

vars == <<pc, step, converged, heap, known, content, sum, flight>>

(* The sum of one cluster: of which step, and whether it is small.  The    *)
(* total is below the threshold only if each term is.                      *)
Sum(s, small) == [step |-> s, small |-> small]

(* Puts: of the addresses to a cluster, of the parts of some clusters in   *)
(* arrays of one segment, of the sum of a cluster to another one.          *)
PutAddresses(c)    == [kind |-> "addresses", to |-> c]
PutParts(arrays, cs, s) ==
  [kind |-> "parts", arrays |-> arrays, of |-> cs, step |-> s]
PutSum(c, d, v)    == [kind |-> "sum", of |-> c, to |-> d, value |-> v]

(* Seeded faults: what a plausible slip would make of the definition each  *)
(* is named after; no behaviour of Spec uses them.                         *)
Fault_Due(s)         == s > 0 /\ (s + 1) % Period = 0
Fault_Src(s)         == "even"
Fault_Receivers(c)   == {d \in Clusters : d > c}
Fault_Verdict(c)     == converged[c] \/ sum[c][c].small
Fault_NextStep(c)    == step[c]
-----------------------------------------------------------------------------
(* main.c:180: Src is LatticeEven in the even steps; Dst is the other one. *)
Src(s) == IF s % 2 = 0 THEN "even" ELSE "odd"
Dst(s) == Src(s + 1)

(* main.c:188: if(step > 0 && (step % Config.Period == 0))                 *)
Due(s) == s > 0 /\ s % Period = 0

(* The loop condition: where a cluster goes on to with step s.             *)
LoopTest(s, verdict) == s <= Duration /\ ~ verdict
Turn(s, verdict)     == IF LoopTest(s, verdict) THEN "compute" ELSE "barrier_end"

(* The parts a cluster writes, and whom it sends its sum.                  *)
Owned(c)     == {c}
Receivers(c) == Clusters \ {c}

Init ==
  /\ pc        = [c \in Clusters |->
                    IF c = Cluster0 THEN "alloc" ELSE "barrier_init"]
  /\ step      = [c \in Clusters |-> 0]
  /\ converged = [c \in Clusters |-> FALSE]
  /\ heap      = {}
  /\ known     = {}
  /\ content   = [a \in Arrays |-> [c \in Clusters |-> -1]]
  /\ sum       = [c \in Clusters |-> [d \in Clusters |-> Sum(-1, TRUE)]]
  /\ flight    = {}

Goto(c, label) == pc' = [pc EXCEPT ![c] = label]

(* Cluster 0 allocates the arrays one after the other, unseen by the other *)
(* clusters; if one fails its main returns -1.                             *)
Allocate ==
  /\ pc[Cluster0] = "alloc"
  /\ \/ heap' = Arrays /\ known' = {Cluster0} /\ Goto(Cluster0, "init")
     \/ MayFail /\ UNCHANGED <<heap, known>> /\ Goto(Cluster0, "failed")
  /\ UNCHANGED <<step, converged, content, sum, flight>>

(* init: cluster 0 fills every array and sends the addresses.              *)
AfterFill == IF Images THEN "first_export" ELSE "barrier_init"

InitArrays ==
  /\ pc[Cluster0] = "init"
  /\ flight' = flight \cup {PutParts(arrays, Clusters, 0) :
                           arrays \in {{"even"}, {"odd"}, Results}}
                      \cup {PutAddresses(c) : c \in Clusters \ {Cluster0}}
  /\ Goto(Cluster0, AfterFill)
  /\ UNCHANGED <<step, converged, heap, known, content, sum>>

(* init exports the picture of step 0, before any barrier: it reads the    *)
(* DDR when its puts have completed locally, whether they have landed.     *)
ExportFirst ==
  /\ pc[Cluster0] = "first_export"
  /\ Goto(Cluster0, "barrier_init")
  /\ UNCHANGED <<step, converged, heap, known, content, sum, flight>>

(* compute_async: the cluster has read its cubes and their halo in Src and *)
(* put them in Dst.                                                        *)
Compute(c) ==
  /\ pc[c] = "compute"
  /\ flight' = flight \cup {PutParts({Dst(step[c])}, Owned(c), step[c] + 1)}
  /\ Goto(c, "barrier_compute")
  /\ UNCHANGED <<step, converged, heap, known, content, sum>>

(* monitor, first half: the sweep of MonitorPipeline; the cluster puts its *)
(* velocities and its part of the picture, adds the sums of its PEs up and *)
(* sends the result to every other cluster.                                *)
Monitor(c) ==
  /\ pc[c] = "monitor"
  /\ \E small \in BOOLEAN :
       LET v == Sum(step[c], small) IN
       /\ sum'    = [sum EXCEPT ![c] = [@ EXCEPT ![c] = v]]
       /\ flight' = flight
            \cup {PutSum(c, d, v) : d \in Receivers(c)}
            \cup {PutParts(IF Images THEN Results ELSE {"velocity"},
                           Owned(c), step[c])}
  /\ Goto(c, "barrier_sums")
  /\ UNCHANGED <<step, converged, heap, known, content>>

(* monitor, second half: each cluster adds the sums up, in the same order, *)
(* and decides; cluster 0 exports the picture before the second barrier.   *)
Verdict(c)   == converged[c] \/ \A d \in Clusters : sum[c][d].small
AfterSums(c) == IF c = Cluster0 /\ Images THEN "export" ELSE "barrier_monitor"

Decide(c) ==
  /\ pc[c] = "decide"
  /\ converged' = [converged EXCEPT ![c] = Verdict(c)]
  /\ Goto(c, AfterSums(c))
  /\ UNCHANGED <<step, heap, known, content, sum, flight>>

Export ==
  /\ pc[Cluster0] = "export"
  /\ Goto(Cluster0, "barrier_monitor")
  /\ UNCHANGED <<step, converged, heap, known, content, sum, flight>>

(* Clean up: cluster 0 frees the arrays, the others do nothing.            *)
Free ==
  /\ pc[Cluster0] = "free"
  /\ heap' = {}
  /\ Goto(Cluster0, "barrier_final")
  /\ UNCHANGED <<step, converged, known, content, sum, flight>>
-----------------------------------------------------------------------------
(* mppa_rpc_barrier_all: it counts the calls, whatever line they come from.*)
Sites == {"barrier_init", "barrier_compute", "barrier_sums",
          "barrier_monitor", "barrier_end", "barrier_final"}

AllArrived == \A c \in Clusters : pc[c] \in Sites

(* A cluster leaves step[c] when it has computed and, if due, monitored.   *)
EndsStep(c) == \/ pc[c] = "barrier_compute" /\ ~ Due(step[c])
               \/ pc[c] = "barrier_monitor"

NextStep(c) == step[c] + 1

AfterBarrier(c) ==
  CASE pc[c] = "barrier_init"  -> Turn(0, converged[c])
    [] EndsStep(c)             -> Turn(NextStep(c), converged[c])
    [] pc[c] = "barrier_compute" /\ Due(step[c]) -> "monitor"
    [] pc[c] = "barrier_sums"  -> "decide"
    [] pc[c] = "barrier_end"   -> IF c = Cluster0 THEN "free" ELSE "barrier_final"
    [] pc[c] = "barrier_final" -> "done"

Barrier ==
  /\ AllArrived
  /\ PutsLandFirst => flight = {}
  /\ pc'   = [c \in Clusters |-> AfterBarrier(c)]
  /\ step' = [c \in Clusters |-> IF EndsStep(c) THEN NextStep(c) ELSE step[c]]
  /\ UNCHANGED <<converged, heap, known, content, sum, flight>>

(* The effect of a put becomes visible.  Puts to one segment are ordered   *)
(* between themselves: the older parts and sums first.                     *)
Lands(m) ==
  /\ flight' = flight \ {m}
  /\ \/ /\ m.kind = "addresses"
        /\ known' = known \cup {m.to}
        /\ UNCHANGED <<content, sum>>
     \/ /\ m.kind = "parts"
        /\ \A n \in flight : n.kind = "parts"
                             /\ n.arrays \cap m.arrays # {}
                             /\ n.of \cap m.of # {} => m.step <= n.step
        /\ content' = [a \in Arrays |-> [c \in Clusters |->
             IF a \in m.arrays /\ c \in m.of THEN m.step
             ELSE content[a][c]]]
        /\ UNCHANGED <<known, sum>>
     \/ /\ m.kind = "sum"
        /\ \A n \in flight : n.kind = "sum" /\ n.of = m.of /\ n.to = m.to
                             => m.value.step <= n.value.step
        /\ sum' = [sum EXCEPT ![m.to] = [@ EXCEPT ![m.of] = m.value]]
        /\ UNCHANGED <<known, content>>
  /\ UNCHANGED <<pc, step, converged, heap>>

AllDone  == \A c \in Clusters : pc[c] = "done"
Finished == AllDone /\ flight = {} /\ UNCHANGED vars

ClusterStep(c) == Compute(c) \/ Monitor(c) \/ Decide(c)

Next ==
  \/ Allocate
  \/ InitArrays
  \/ ExportFirst
  \/ \E c \in Clusters : ClusterStep(c)
  \/ Export
  \/ Free
  \/ Barrier
  \/ \E m \in flight : Lands(m)
  \/ Finished

Spec == Init /\ [][Next]_vars

(* Each cluster runs by itself, the barrier releases the clusters, and     *)
(* every put lands in the end.                                             *)
Fairness ==
  /\ WF_vars(Allocate)
  /\ WF_vars(InitArrays)
  /\ WF_vars(ExportFirst)
  /\ \A c \in Clusters : WF_vars(ClusterStep(c))
  /\ WF_vars(Export)
  /\ WF_vars(Free)
  /\ WF_vars(Barrier)
  /\ WF_vars(\E m \in flight : Lands(m))

FairSpec == Spec /\ Fairness
-----------------------------------------------------------------------------
(***************************************************************************)
(* Properties.                                                             *)
(***************************************************************************)
Labels == Sites \cup {"alloc", "failed", "init", "first_export", "compute",
                      "monitor", "decide", "export", "free", "done"}

Sums == [step : Steps, small : BOOLEAN]

Puts == [kind : {"addresses"}, to : Clusters]
          \cup [kind : {"parts"}, arrays : SUBSET Arrays, of : SUBSET Clusters,
                step : Steps]
          \cup [kind : {"sum"}, of : Clusters, to : Clusters, value : Sums]

(* Every variable has its type.                                            *)
TypeOK ==
  /\ pc        \in [Clusters -> Labels]
  /\ step      \in [Clusters -> 0 .. Duration + 1]
  /\ converged \in [Clusters -> BOOLEAN]
  /\ heap      \in {{}, Arrays}
  /\ known     \subseteq Clusters
  /\ content   \in [Arrays -> [Clusters -> Steps]]
  /\ sum       \in [Clusters -> [Clusters -> Sums]]
  /\ flight    \subseteq Puts

(* The barrier only counts: that the calls it releases together are made   *)
(* from the same line, in the same step and with the same verdict on       *)
(* convergence, is up to the control flow of the clusters, which each      *)
(* decides for itself (compute_common.c:875, main.c:175).                  *)
SameSite ==
  AllArrived => \A c, d \in Clusters :
    pc[c] = pc[d] /\ step[c] = step[d] /\ converged[c] = converged[d]

(* A cluster that computes or monitors step s knows the addresses, finds   *)
(* the whole of Src at step s, and no put of another is landing there; the *)
(* picture that cluster 0 exports after a monitoring is of this step in    *)
(* every part.  The picture of step 0 is exported before any barrier and   *)
(* need not be: see FirstPicture.                                          *)
Reads(c) == pc[c] \in {"compute", "monitor"}

ReadsCurrentStep ==
  /\ \A c \in Clusters : Reads(c) =>
       /\ c \in known
       /\ \A d \in Clusters : content[Src(step[c])][d] = step[c]
       /\ \A m \in flight : m.kind = "parts" => Src(step[c]) \notin m.arrays
  /\ pc[Cluster0] = "export" =>
       \A d \in Clusters : content["bitmap"][d] = step[Cluster0]

(* "broadcast all-to-all of delta_reduce_multiclusters[cid]", "Each        *)
(* cluster calculate total_delta" (compute_common.c:866, 878): the terms   *)
(* that a cluster adds up are those of this monitoring, and the same in    *)
(* every cluster.                                                          *)
TotalOfThisStep ==
  \A c \in Clusters : pc[c] = "decide" => \A d \in Clusters :
    sum[c][d] = sum[d][d] /\ sum[c][d].step = step[c]

(* An array is freed only when nobody reads it and no put is going there.  *)
NoUseAfterFree ==
  \/ heap = Arrays
  \/ /\ \A c \in Clusters : ~ Reads(c)
     /\ \A m \in flight : m.kind # "parts"

(* Seen from outside the clusters run one sequential loop: they all change *)
(* step at once, leave it together, and not before the end unless they     *)
(* have just monitored.                                                    *)
Outside == {"alloc", "init", "first_export", "failed", "barrier_end",
            "free", "barrier_final", "done"}
LoopTurn    == IF \A c \in Clusters : step[c] = step[Cluster0]
               THEN step[Cluster0] ELSE -1
LoopRunning == \A c \in Clusters : pc[c] \in Outside => step[c] = 0

Loop == INSTANCE MainLoop WITH turn <- LoopTurn, running <- LoopRunning
ImplementsLoop == Loop!Spec

(* Every cluster ends, though they wait for each other at every barrier    *)
(* (main.c:165 to 261).  If cluster 0 gets no memory it alone does: all    *)
(* the others come to the first barrier and stay there (main.c:113).       *)
Hung == /\ pc[Cluster0] = "failed"
        /\ \A c \in Clusters \ {Cluster0} : pc[c] = "barrier_init"
EveryClusterEnds == <>[]((\A c \in Clusters : pc[c] = "done") \/ Hung)

(* "export first bitmap" (compute_common.c:452): the picture that cluster  *)
(* 0 exports from init is of step 0 in every part.  Nothing says that the  *)
(* puts of init have landed by then: this does not hold                    *)
(* (opal_first_picture.cfg).                                               *)
FirstPicture ==
  [][ExportFirst => \A d \in Clusters : content["bitmap"][d] = 0]_vars

(* "every clusters wait for cluster 0 finish init data"                    *)
(* (compute_common.c:465), also for one that has returned from main: this  *)
(* does not hold (opal_alloc_fails.cfg).                                   *)
EveryClusterReturns == \A c \in Clusters : <>(pc[c] \in {"done", "failed"})
=============================================================================
