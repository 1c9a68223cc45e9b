-------------------------------- MODULE MCOpal --------------------------------
(***************************************************************************)
(* The program on the MPPA, for TLC: what the compute clusters do (Opal),  *)
(* and how host and IO clusters start and end it (Boot), where the program *)
(* of a cluster is a single action.  A behaviour is one of either, as      *)
(* Parts allows; the other stays where it starts.                          *)
(***************************************************************************)
EXTENDS Opal

CONSTANTS
  Parts,                    \* of {"clusters", "boot"}
  PciSpawn, SpawnMayFail    \* as in Boot

VARIABLES
  part,                     \* the part that runs
  host, north, south, cluster, i, rx, early, servers, console  \* of Boot

boot == <<host, north, south, cluster, i, rx, early, servers, console>>
all  == <<vars, boot, part>>

Bt == INSTANCE Boot
ASSUME BootAssumption == Bt!SizeAssumption /\ Bt!FlagAssumption

AllInit == part \in Parts /\ Init /\ Bt!Init

InClusters(A) == part = "clusters" /\ A /\ UNCHANGED <<boot, part>>
InBoot(A)     == part = "boot" /\ A /\ UNCHANGED <<vars, part>>

AllNext == InClusters(Next) \/ InBoot(Bt!Next)

(* The fairness of Opal, and that of Boot.                                 *)
AllSpec ==
  /\ AllInit /\ [][AllNext]_all
  /\ WF_all(InClusters(Allocate))
  /\ WF_all(InClusters(InitArrays))
  /\ WF_all(InClusters(ExportFirst))
  /\ \A c \in Clusters : WF_all(InClusters(ClusterStep(c)))
  /\ WF_all(InClusters(Export))
  /\ WF_all(InClusters(Free))
  /\ WF_all(InClusters(Barrier))
  /\ WF_all(InClusters(\E m \in flight : Lands(m)))
  /\ WF_all(InBoot(Bt!HostStep))
  /\ WF_all(InBoot(Bt!NorthStep))
  /\ WF_all(InBoot(Bt!SouthStep))
  /\ \A c \in Clusters : WF_all(InBoot(Bt!ClusterRuns(c)))
-----------------------------------------------------------------------------
(* While a cluster runs, the north IO cluster takes its requests and has   *)
(* somewhere to print what it says, the host has not gone, and the south   *)
(* IO cluster is there before the first request (io/main.c:26, 33, 51).    *)
ServedWhileRunning == Bt!ServedWhileRunning

(* Host and north IO cluster both end, or hang for good, and they hang     *)
(* exactly if a cluster could not be spawned, the south IO cluster         *)
(* included, or its notification came too early and was lost.              *)
ItAllEnds == part = "boot" => Bt!ItAllEnds

(* Every cluster ends, or cluster 0 has got no memory and all the others   *)
(* are in the first barrier for good (main.c:113, 165 to 261): but there   *)
(* the clusters do not wait for each other in vain.                        *)
ClustersEnd == part = "clusters" => EveryClusterEnds
=============================================================================
