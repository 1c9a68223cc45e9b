-------------------------------- MODULE Sweep --------------------------------
(***************************************************************************)
(* The compute steps of opal across the clusters: main.c swaps the two     *)
(* lattices, and compute_async makes every cluster fetch, collide and put  *)
(* the cubes it owns, then meet the others in mppa_rpc_barrier_all.        *)
(*                                                                         *)
(* One cube goes through a cluster at a time: ComputePipeline models how   *)
(* the PEs overlap several of them.  A lattice gives for every cube the    *)
(* time step its content is at, or Mixed when that content was computed    *)
(* from nodes of different time steps.                                     *)
(***************************************************************************)
EXTENDS Cubes, FiniteSets

CONSTANTS
  Layouts,      \* the builds considered, see LayoutAssumption
  NbSteps,      \* compute steps (bounds the model)
  PutsLandFirst \* the effects of the puts are visible before the barrier ends

(* A build: CAVITY, CUBE_LENGTH_{X,Y,Z} and NB_CLUSTERS.  The macros of    *)
(* compute_common.h are meant for a cavity the cubes divide, with at least *)
(* two of them in each dimension.                                          *)
ASSUME LayoutAssumption ==
  \A l \in Layouts :
    /\ l.cavity \in Nat /\ l.clusters \in Nat \ {0}
    /\ l.len \in [1 .. 3 -> Nat \ {0}]
    /\ \A d \in 1 .. 3 :
         l.cavity % l.len[d] = 0 /\ l.cavity \div l.len[d] >= 2
ASSUME NbStepsAssumption == NbSteps \in Nat \ {0}
ASSUME LandAssumption    == PutsLandFirst \in BOOLEAN

VARIABLES
  lay,     \* the build
  step,    \* the step of the loop in main.c
  pc,      \* where each cluster is: "get", "put" or "barrier"
  icube,   \* the cube each cluster is at
  buf,     \* the time steps of the nodes in the cluster's source buffer
  wire,    \* the puts whose effect is not yet visible
  lattice, \* LatticeEven (0) and LatticeOdd (1)
  wrote    \* who has put which cube in this step

vars == <<lay, step, pc, icube, buf, wire, lattice, wrote>>
-----------------------------------------------------------------------------
Clusters == 0 .. lay.clusters - 1
Dims     == 1 .. 3
Mixed    == -1

(* NB_CUBES_{X,Y,Z}, and the number of cubes.                              *)
NbCubes(d) == lay.cavity \div lay.len[d]
Total      == BoxSize(NbCubes(1), NbCubes(2), NbCubes(3))
AllCubes   == 0 .. Total - 1

(* The coordinates of cube k.                                              *)
At(k) == <<CubeX(k, NbCubes(1), NbCubes(2)),
           CubeY(k, NbCubes(1), NbCubes(2)),
           CubeZ(k, NbCubes(1), NbCubes(2))>>

Mine(c)        == Owned(c, Total, lay.clusters)
FirstCube(c)   == IF PerCluster(Total, lay.clusters) > 0
                  THEN Begin(c, Total, lay.clusters)
                  ELSE Trailing(c, Total, lay.clusters)
NextCube(c, k) == IF k + 1 < End(c, Total, lay.clusters)
                  THEN k + 1
                  ELSE Trailing(c, Total, lay.clusters)

(* The nodes of the lattice that a get reads and a put writes, and where   *)
(* in the source buffer the get puts them, along dimension d.              *)
Reads(k, d)  == RemoteNodes(At(k)[d], NbCubes(d), lay.len[d])
Stores(k, d) == LocalNodes(At(k)[d], NbCubes(d), lay.len[d])
Writes(k, d) == PutNodes(At(k)[d], lay.len[d])

(* The cubes some node of which a get of cube k reads.                     *)
Touched(k) ==
  {m \in AllCubes : \A d \in Dims : Reads(k, d) \cap Writes(m, d) # {}}

(* Seeded faults, as in Cubes.                                             *)
Fault_DstOf(s)  == s % 2
Fault_AllArrived == pc[0] = "barrier"

(* Src and Dst are mapped on the two lattices by the parity of the step.   *)
SrcOf(s) == s % 2
DstOf(s) == (s + 1) % 2

StartPc == [c \in Clusters |-> IF Mine(c) = {} THEN "barrier" ELSE "get"]

Init ==
  /\ lay \in Layouts
  /\ step = 0
  /\ pc = StartPc
  /\ icube = [c \in Clusters |-> FirstCube(c)]
  /\ buf = [c \in Clusters |-> {}]
  /\ wire = {}
  /\ lattice = [l \in 0 .. 1 |-> [k \in AllCubes |-> IF l = 0 THEN 0 ELSE Mixed]]
  /\ wrote = {}
-----------------------------------------------------------------------------
(* The cluster's source buffer receives its cube, with the halo around it. *)
Get(c) ==
  /\ pc[c] = "get"
  /\ buf' = [buf EXCEPT ![c] =
               {lattice[SrcOf(step)][m] : m \in Touched(icube[c])}]
  /\ pc' = [pc EXCEPT ![c] = "put"]
  /\ UNCHANGED <<lay, step, icube, wire, lattice, wrote>>

(* The updated cube is put to Dst, and the cluster goes on.                *)
Put(c) ==
  LET k == icube[c]
      n == NextCube(c, k)
      v == IF buf[c] = {step} THEN step + 1 ELSE Mixed
  IN
  /\ pc[c] = "put"
  /\ wire'  = wire \cup
                {[by |-> c, cube |-> k, step |-> step, value |-> v]}
  /\ wrote' = wrote \cup {[by |-> c, cube |-> k]}
  /\ IF n \in Mine(c) \ {k}
     THEN icube' = [icube EXCEPT ![c] = n] /\ pc' = [pc EXCEPT ![c] = "get"]
     ELSE pc' = [pc EXCEPT ![c] = "barrier"] /\ UNCHANGED icube
  /\ UNCHANGED <<lay, step, buf, lattice>>

(* The effect of a put becomes visible.  The puts of one cluster to one    *)
(* segment are ordered between themselves, and a lattice is in one segment.*)
SameOrder(v, w) == v.by = w.by /\ DstOf(v.step) = DstOf(w.step)
Before(v, w) == v.step < w.step \/ (v.step = w.step /\ v.cube < w.cube)

PutVisible(w) ==
  /\ ~ \E v \in wire : SameOrder(v, w) /\ Before(v, w)
  /\ wire' = wire \ {w}
  /\ lattice' = [lattice EXCEPT ![DstOf(w.step)] =
                   [@ EXCEPT ![w.cube] = w.value]]
  /\ UNCHANGED <<lay, step, pc, icube, buf, wrote>>

(* mppa_rpc_barrier_all, then the next turn of the loop.                   *)
AllArrived == \A c \in Clusters : pc[c] = "barrier"

Barrier ==
  /\ AllArrived
  /\ PutsLandFirst => wire = {}
  /\ step + 1 < NbSteps
  /\ step' = step + 1
  /\ pc' = StartPc
  /\ icube' = [c \in Clusters |-> FirstCube(c)]
  /\ wrote' = {}
  /\ UNCHANGED <<lay, buf, wire, lattice>>

(* The loop is over.                                                       *)
Finished == AllArrived /\ wire = {} /\ step = NbSteps - 1 /\ UNCHANGED vars

Next ==
  \/ \E c \in Clusters : Get(c) \/ Put(c)
  \/ \E w \in wire : PutVisible(w)
  \/ Barrier
  \/ Finished

Spec == Init /\ [][Next]_vars
-----------------------------------------------------------------------------
(***************************************************************************)
(* Properties.                                                             *)
(***************************************************************************)
Values == 0 .. NbSteps \cup {Mixed}

(* Every variable has its type, and deinterleave3 finds every cube a       *)
(* cluster handles in the box of the lattice.                              *)
TypeOK ==
  /\ lay \in Layouts
  /\ step \in 0 .. NbSteps - 1
  /\ pc \in [Clusters -> {"get", "put", "barrier"}]
  /\ DOMAIN icube = Clusters
  /\ \A c \in Clusters : pc[c] # "barrier" =>
       /\ icube[c] \in AllCubes
       /\ \A d \in Dims : At(icube[c])[d] \in 0 .. NbCubes(d) - 1
  /\ buf \in [Clusters -> SUBSET Values]
  /\ \A w \in wire :
       w.by \in Clusters /\ w.cube \in AllCubes /\ w.step \in 0 .. step /\ w.value \in Values
  /\ lattice \in [0 .. 1 -> [AllCubes -> Values]]
  /\ \A w \in wrote : w.by \in Clusters /\ w.cube \in AllCubes

(* A get stays inside the lattice and inside the local buffer, at the ends *)
(* of each dimension too.                                                  *)
GetInBounds ==
  \A c \in Clusters : pc[c] # "barrier" =>
    \A d \in Dims :
      /\ Reads(icube[c], d) \subseteq 0 .. lay.cavity - 1
      /\ Stores(icube[c], d) \subseteq 0 .. lay.len[d] + Halo - 1

(* Every node the stencil reads has been fetched, and lies at the local    *)
(* index where collide_cube looks for it.                                  *)
StencilFetched ==
  \A c \in Clusters : pc[c] = "put" =>
    \A d \in Dims : \A n \in Writes(icube[c], d), e \in {-1, 0, 1} :
      n + e \in 0 .. lay.cavity - 1 =>
        \E l \in Stores(icube[c], d) :
          /\ StoredAt(l, At(icube[c])[d], NbCubes(d), lay.len[d]) = n + e
          /\ TakenFor(l, At(icube[c])[d], lay.len[d]) = n + e

(* In one step no node of the destination lattice is put twice, whether by *)
(* two clusters or by one cluster that comes back to a cube.               *)
ExclusivePuts ==
  /\ \A p, q \in wrote : p # q =>
       \E d \in Dims : Writes(p.cube, d) \cap Writes(q.cube, d) = {}
  /\ \A c \in Clusters : pc[c] # "barrier" =>
       [by |-> c, cube |-> icube[c]] \notin wrote

(* "Only one synchronization barrier at the end of each timestep is needed *)
(* between compute clusters to avoid data-racing at the next timestep"     *)
(* (src/doc/lbm-3d-stencil.pdf): every node a cluster has fetched, halo    *)
(* included, is at the current step, never older and never newer.          *)
ConsistentRead ==
  \A c \in Clusters : pc[c] = "put" => buf[c] = {step}

(* When all the clusters have arrived and their puts have landed, every    *)
(* node of the lattice has been updated.                                   *)
LatticeComplete ==
  AllArrived /\ wire = {} =>
    \A x, y, z \in 0 .. lay.cavity - 1 : \E w \in wrote :
      /\ x \in Writes(w.cube, 1) /\ y \in Writes(w.cube, 2) /\ z \in Writes(w.cube, 3)
      /\ lattice[DstOf(step)][w.cube] = step + 1

(* The clusters, cube by cube and put by put, make the lattice advance one *)
(* whole time step at a barrier and stay as it is between two barriers.    *)
L == INSTANCE Lbm WITH time <- step, field <- lattice[SrcOf(step)]
ImplementsLbm == L!Spec
=============================================================================
