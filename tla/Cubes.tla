-------------------------------- MODULE Cubes --------------------------------
(***************************************************************************)
(* How the lattice is cut into cubes, which cluster owns which cube, and   *)
(* which nodes a get copies (compute_common.h and compute_common.c).       *)
(*                                                                         *)
(* The lattice is a box of nbx * nby * nbz cubes; along one dimension it   *)
(* has nb cubes of len nodes, CAVITY = nb * len nodes.  A local source     *)
(* buffer has one more node on each side (the halo).  The three dimensions *)
(* obey the same macros, so a get is described along one of them.          *)
(***************************************************************************)
EXTENDS Integers

(* Seeded faults.  Each is what a plausible slip in the code would make of *)
(* the definition it is named after; nothing else uses them.               *)
Fault_Trailing(cid, total, nc) == nc * (total \div nc)
Fault_LocalBegin(i, nb)  == 0
Fault_Cutoff(i, nb)      == IF i = 0 THEN -1 ELSE 0

(* NB_CUBES_PER_CLUSTER and NB_CUBES_TRAILING, for total cubes and nc      *)
(* clusters (with one cluster the division leaves no remainder).           *)
PerCluster(total, nc) == total \div nc
NbTrailing(total, nc) == total % nc

(* icube_begin and icube_end of cluster cid, and its trailing cube.        *)
Begin(cid, total, nc) == cid * PerCluster(total, nc)
End(cid, total, nc)   == (cid + 1) * PerCluster(total, nc)
Trailing(cid, total, nc) == cid + nc * PerCluster(total, nc)

(* The cubes cluster cid computes in one step.                             *)
Owned(cid, total, nc) ==
  Begin(cid, total, nc) .. End(cid, total, nc) - 1
    \cup (IF cid < NbTrailing(total, nc)
          THEN {Trailing(cid, total, nc)}
          ELSE {})

(* The number of cubes of a lattice.                                       *)
BoxSize(nbx, nby, nbz) == nbx * nby * nbz

(* deinterleave3: the coordinates of cube n in a lattice of nbx * nby      *)
(* cubes per layer (the row-major version, which the build uses).          *)
CubeZ(n, nbx, nby) == n \div (nbx * nby)
CubeY(n, nbx, nby) == (n - CubeZ(n, nbx, nby) * (nbx * nby)) \div nbx
CubeX(n, nbx, nby) ==
  n - CubeZ(n, nbx, nby) * (nbx * nby) - CubeY(n, nbx, nby) * nbx

(* CUBE_HALO_{X|Y|Z}                                                       *)
Halo == 2

(* local_cube_get_begin_offset_nodes, remote_cube_get_begin_offset_nodes   *)
(* and cube_get_halo_cutoff_nodes for cube i of a dimension of nb cubes.   *)
LocalBegin(i, nb)  == IF i = 0 THEN 1 ELSE 0
RemoteBegin(i, nb) == IF i = 0 THEN 0 ELSE -1
Cutoff(i, nb)      == IF i = 0 \/ i = nb - 1 THEN -1 ELSE 0

(* The nodes opal_async_get_cube reads in the lattice and writes in the    *)
(* local buffer, along one dimension.                                      *)
GetWidth(i, nb, len) == len + Halo + Cutoff(i, nb)
RemoteNodes(i, nb, len) ==
  LET first == i * len + RemoteBegin(i, nb)
  IN  first .. first + GetWidth(i, nb, len) - 1
LocalNodes(i, nb, len) ==
  LET first == LocalBegin(i, nb)
  IN  first .. first + GetWidth(i, nb, len) - 1

(* The lattice node that a get stores at local index l.                    *)
StoredAt(l, i, nb, len) == l - LocalBegin(i, nb) + i * len + RemoteBegin(i, nb)

(* The lattice node that collide_cube takes local index l for: it starts   *)
(* at local index 1 on node i * len.                                       *)
TakenFor(l, i, len) == l - 1 + i * len

(* The lattice nodes opal_async_put_small_cube writes.                     *)
PutNodes(i, len) == i * len .. i * len + len - 1
=============================================================================
