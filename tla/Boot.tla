--------------------------------- MODULE Boot ---------------------------------
(***************************************************************************)
(* Start and end of the MPPA program: the host loads the north IO cluster  *)
(* (host/host.c), that one starts the RPC, async and remote servers,       *)
(* spawns the compute clusters and the south IO cluster, waits for a       *)
(* notification of the south one, serves the compute clusters until they   *)
(* have exited, reaps them and meets the host in a last barrier            *)
(* (io/main.c, io/south.c).  Without PCI there is no host and the program  *)
(* starts in the north IO cluster.                                         *)
(*                                                                         *)
(* The program of a compute cluster (Opal) is one action: the clusters     *)
(* wait for each other and for their requests to be served, so that none   *)
(* ends before all run and the server of the north cluster does.           *)
(***************************************************************************)
EXTENDS Integers

CONSTANTS
  NbClusters,      \* NB_CLUSTERS
  PciSpawn,        \* __k1_spawn_type() == __MPPA_PCI_SPAWN
  SpawnMayFail     \* mppa_power_base_spawn may return -1

(* MCOpal assumes both.                                                    *)
SizeAssumption == NbClusters \in Nat \ {0}
FlagAssumption == PciSpawn \in BOOLEAN /\ SpawnMayFail \in BOOLEAN

Clusters == 0 .. NbClusters - 1

VARIABLES
  host,      \* where the host program is
  north,     \* where the north IO cluster is
  south,     \* where the south IO cluster is
  cluster,   \* cluster -> off, failed (to spawn), running or exited
  i,         \* loop variable of the north cluster
  rx,        \* tag 127 of the north cluster: free, configured or notified
  early,     \* notification before tag 127 was configured: none, kept, lost
  servers,   \* IO clusters whose servers are initialised
  console    \* sides of PCI that have registered the console

vars == <<host, north, south, cluster, i, rx, early, servers, console>>

(* Seeded faults: what a plausible slip would make of the definition each  *)
(* is named after; no behaviour of Spec uses them.                         *)
Fault_Exited(c)    == cluster[c] # "off"
Fault_AfterServers == "rpc"
-----------------------------------------------------------------------------
Init ==
  /\ host    = IF PciSpawn THEN "load" ELSE "absent"
  /\ north   = IF PciSpawn THEN "off" ELSE "servers"
  /\ south   = "off"
  /\ cluster = [c \in Clusters |-> "off"]
  /\ i = 0
  /\ rx = "free"
  /\ early = "none"
  /\ servers = {}
  /\ console = {}

(* The host.  The load may fail, the host exits then.                      *)
Load ==
  /\ host = "load"
  /\ \/ host' = "console" /\ north' = "console"
     \/ host' = "exited" /\ UNCHANGED north
  /\ UNCHANGED <<south, cluster, i, rx, early, servers, console>>

HostConsole ==
  /\ host = "console"
  /\ console' = console \cup {"host"}
  /\ host' = "barrier"
  /\ UNCHANGED <<north, south, cluster, i, rx, early, servers>>

HostExit ==
  /\ host = "exit"
  /\ host' = "exited"
  /\ UNCHANGED <<north, south, cluster, i, rx, early, servers, console>>

(* The north IO cluster.                                                   *)
NorthConsole ==
  /\ north = "console"
  /\ console' = console \cup {"north"}
  /\ north' = "servers"
  /\ UNCHANGED <<host, south, cluster, i, rx, early, servers>>

NorthServers ==
  /\ north = "servers"
  /\ servers' = servers \cup {"north"}
  /\ north' = "spawn"
  /\ UNCHANGED <<host, south, cluster, i, rx, early, console>>

(* for(unsigned i=0;i<NB_CLUSTERS;i++)                                     *)
More == i < NbClusters

(* A cluster that could not be spawned is only reported.                   *)
Spawn ==
  /\ north = "spawn" /\ More
  /\ \/ cluster' = [cluster EXCEPT ![i] = "running"]
     \/ SpawnMayFail /\ cluster' = [cluster EXCEPT ![i] = "failed"]
  /\ i' = i + 1
  /\ UNCHANGED <<host, north, south, rx, early, servers, console>>

(* That the south IO cluster could not be spawned is not even noticed.     *)
SpawnSouth ==
  /\ north = "spawn" /\ ~ More
  /\ \/ south' = "servers"
     \/ SpawnMayFail /\ south' = "failed"
  /\ north' = "listen"
  /\ i' = 0
  /\ UNCHANGED <<host, cluster, rx, early, servers, console>>

(* Tag 127 is allocated and configured as a mailbox.                       *)
Listen ==
  /\ north = "listen"
  /\ rx' = IF early = "kept" THEN "notified" ELSE "configured"
  /\ north' = "sync"
  /\ UNCHANGED <<host, south, cluster, i, early, servers, console>>

Notified == rx = "notified"
Sync ==
  /\ north = "sync" /\ Notified
  /\ rx' = "free"
  /\ north' = "rpc"
  /\ UNCHANGED <<host, south, cluster, i, early, servers, console>>

(* mppa_rpc_server_start returns when every client has said goodbye.       *)
Exited(c) == cluster[c] = "exited"
Serve ==
  /\ north = "rpc"
  /\ \A c \in Clusters : Exited(c)
  /\ north' = "reap"
  /\ UNCHANGED <<host, south, cluster, i, rx, early, servers, console>>

(* waitpid, for one cluster after the other.                               *)
Reap ==
  /\ north = "reap" /\ More
  /\ Exited(i)
  /\ i' = i + 1
  /\ UNCHANGED <<host, north, south, cluster, rx, early, servers, console>>

RemoteExit ==
  /\ north = "reap" /\ ~ More
  /\ servers' = IF PciSpawn THEN servers \ {"north"} ELSE servers
  /\ north' = IF PciSpawn THEN "barrier" ELSE "exited"
  /\ UNCHANGED <<host, south, cluster, i, rx, early, console>>

(* pcie_queue_barrier, called by both sides.                               *)
PcieBarrier ==
  /\ north = "barrier" /\ host = "barrier"
  /\ north' = "exit" /\ host' = "exit"
  /\ UNCHANGED <<south, cluster, i, rx, early, servers, console>>

NorthExit ==
  /\ north = "exit"
  /\ console' = console \ {"north"}
  /\ north' = "exited"
  /\ UNCHANGED <<host, south, cluster, i, rx, early, servers>>

(* The south IO cluster: it notifies the north one that its servers run.   *)
AfterServers == "notify"

SouthServers ==
  /\ south = "servers"
  /\ servers' = servers \cup {"south"}
  /\ south' = AfterServers
  /\ UNCHANGED <<host, north, cluster, i, rx, early, console>>

(* Nothing says what becomes of a notification that comes before its tag   *)
(* is configured: the NoC keeps it or it is lost.                          *)
Notify ==
  /\ south = "notify"
  /\ \/ rx = "configured" /\ rx' = "notified" /\ UNCHANGED early
     \/ rx = "free" /\ early' \in {"kept", "lost"} /\ UNCHANGED rx
  /\ south' = "rpc"
  /\ UNCHANGED <<host, north, cluster, i, servers, console>>

SouthServe ==
  /\ south = "rpc"
  /\ \A c \in Clusters : Exited(c)
  /\ south' = "exited"
  /\ UNCHANGED <<host, north, cluster, i, rx, early, servers, console>>

(* A compute cluster: its requests are served, and it meets the others.    *)
ClusterRuns(c) ==
  /\ cluster[c] = "running"
  /\ north = "rpc" /\ servers = {"north", "south"}
  /\ \A d \in Clusters : cluster[d] \in {"running", "exited"}
  /\ cluster' = [cluster EXCEPT ![c] = "exited"]
  /\ UNCHANGED <<host, north, south, i, rx, early, servers, console>>

HostStep  == Load \/ HostConsole \/ HostExit
NorthStep == NorthConsole \/ NorthServers \/ Spawn \/ SpawnSouth \/ Listen
             \/ Sync \/ Serve \/ Reap \/ RemoteExit \/ PcieBarrier \/ NorthExit
SouthStep == SouthServers \/ Notify \/ SouthServe

Next ==
  \/ HostStep
  \/ NorthStep
  \/ SouthStep
  \/ \E c \in Clusters : ClusterRuns(c)

Spec == Init /\ [][Next]_vars

(* Every processor runs by itself.                                         *)
FairSpec ==
  /\ Spec
  /\ WF_vars(HostStep) /\ WF_vars(NorthStep) /\ WF_vars(SouthStep)
  /\ \A c \in Clusters : WF_vars(ClusterRuns(c))
-----------------------------------------------------------------------------
(***************************************************************************)
(* Properties.                                                             *)
(***************************************************************************)

(* Every variable has its type.                                            *)
TypeOK ==
  /\ host  \in {"absent", "load", "console", "barrier", "exit", "exited"}
  /\ north \in {"off", "console", "servers", "spawn", "listen", "sync", "rpc",
                "reap", "barrier", "exit", "exited"}
  /\ south \in {"off", "failed", "servers", "notify", "rpc", "exited"}
  /\ cluster \in [Clusters -> {"off", "failed", "running", "exited"}]
  /\ i \in 0 .. NbClusters
  /\ rx \in {"free", "configured", "notified"}
  /\ early \in {"none", "kept", "lost"}
  /\ servers \subseteq {"north", "south"}
  /\ console \subseteq {"host", "north"}

(* While a cluster runs, the north IO cluster takes its requests and has   *)
(* somewhere to print what it says, and the host has not gone.  It serves  *)
(* none before the south IO cluster can: a cluster may have an array in    *)
(* the DDR of either.                                                      *)
ServedWhileRunning ==
  /\ \A c \in Clusters : cluster[c] = "running" =>
       /\ "north" \in servers
       /\ PciSpawn => "north" \in console /\ host \in {"console", "barrier"}
  /\ north = "rpc" => "south" \in servers

(* Somebody the program waits for never comes: a cluster that could not be *)
(* spawned, the south IO cluster included, or its notification (io/main.c: *)
(* 38, 43, 51).                                                            *)
SouthMissing == south = "failed" \/ early = "lost"
Missing      == SouthMissing \/ \E c \in Clusters : cluster[c] = "failed"

(* Host and north IO cluster both end, or hang for good, and they hang     *)
(* exactly if somebody is missing: otherwise no notification is missed and *)
(* nobody waits for one that waits for him.                                *)
Ended     == host \in {"absent", "exited"} /\ north \in {"off", "exited"}
ItAllEnds == <>[](Ended <=> ~ Missing)

(* "Send an exit message on pcie interface" (io/main.c:82), the last thing *)
(* the program comes to, also when a cluster was reported as failed        *)
(* (io/main.c:38) or the spawn of the south IO cluster not checked (line   *)
(* 43): this does not hold (boot_spawn_fails.cfg).                         *)
ExitSent == <>[]Ended
=============================================================================
