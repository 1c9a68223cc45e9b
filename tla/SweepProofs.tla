----------------------------- MODULE SweepProofs -----------------------------
(***************************************************************************)
(* Theorems about Cubes, for every lattice of at least two cubes per       *)
(* dimension, every cube length and every number of clusters, and about    *)
(* Sweep, for every build and any number of steps: the geometry of Cubes,  *)
(* applied to the cubes the clusters really handle.                        *)
(***************************************************************************)
EXTENDS Sweep, ModLemmas
-----------------------------------------------------------------------------
(***************************************************************************)
(* Cutting the lattice into cubes.                                         *)
(***************************************************************************)
(* The products below are nonlinear: the laws they need, once.             *)
LEMMA Products ==
  ASSUME NEW a \in Int, NEW b \in Int, NEW c \in Int
  PROVE  /\ a * b \in Int /\ a * b = b * a
         /\ (a * b) * c = a * (b * c)
         /\ a * (b + c) = a * b + a * c
         /\ a * (b - c) = a * b - a * c
OBVIOUS

(* A product grows with a factor.                                          *)
LEMMA ProductMonotone ==
  ASSUME NEW a \in Nat, NEW b \in Int, NEW c \in Int, b <= c
  PROVE  a * b <= a * c
<1>1. c - b \in Nat /\ a * (c - b) = a * c - a * b
  BY Products
<1>2. a * (c - b) \in Nat
  BY <1>1
<1>. QED  BY <1>1, <1>2, Products

(* The first node of cube i, and the nodes after the last cube.            *)
LEMMA CubeBounds ==
  ASSUME NEW nb \in Nat \ {0}, NEW len \in Nat \ {0}, NEW i \in 0 .. nb - 1
  PROVE  /\ i * len \in Nat /\ nb * len \in Nat
         /\ i * len + len <= nb * len
         /\ i = nb - 1 => i * len + len = nb * len
         /\ i # nb - 1 => i * len + 2 * len <= nb * len
         /\ i # 0 => len <= i * len
<1>1. i * len \in Nat /\ nb * len \in Nat
  OBVIOUS
<1>2. ASSUME NEW a \in Nat, NEW b \in Nat, a <= b PROVE a * len <= b * len
  <2>1. (b - a) * len >= 0 /\ (b - a) * len = b * len - a * len
    BY <1>2
  <2>. QED  BY <2>1
<1>3. (i + 1) * len = i * len + len /\ (i + 2) * len = i * len + 2 * len
  OBVIOUS
<1>4. (i + 1) * len <= nb * len
  BY <1>2
<1>5. i # nb - 1 => (i + 2) * len <= nb * len
  BY <1>2
<1>6. i # 0 => 1 * len <= i * len
  BY <1>2
<1>7. i = nb - 1 => (i + 1) * len = nb * len
  OBVIOUS
<1>. QED  BY <1>1, <1>3, <1>4, <1>5, <1>6, <1>7

(* A get reads inside the lattice and writes inside the local buffer: the  *)
(* macros cut the halo that does not exist at both ends.                   *)
THEOREM GetStaysInside ==
  ASSUME NEW nb \in Nat, nb >= 2, NEW len \in Nat \ {0}, NEW i \in 0 .. nb - 1
  PROVE  /\ RemoteNodes(i, nb, len) \subseteq 0 .. nb * len - 1
         /\ LocalNodes(i, nb, len) \subseteq 0 .. len + Halo - 1
<1>1. nb \in Nat \ {0}
  OBVIOUS
<1>. QED
  BY <1>1, CubeBounds
     DEF RemoteNodes, LocalNodes, GetWidth, RemoteBegin, LocalBegin, Cutoff, Halo

(* A get stores every node where collide_cube looks for it.                *)
THEOREM GetAligned ==
  ASSUME NEW nb \in Nat, NEW len \in Nat \ {0}, NEW i \in Nat, NEW l \in Int
  PROVE  StoredAt(l, i, nb, len) = TakenFor(l, i, len)
BY DEF StoredAt, TakenFor, LocalBegin, RemoteBegin

(* A get brings every node of the lattice that is at most one node away    *)
(* from the cube: all the neighbours the stencil can read.                 *)
THEOREM GetCoversStencil ==
  ASSUME NEW nb \in Nat, nb >= 2, NEW len \in Nat \ {0}, NEW i \in 0 .. nb - 1,
         NEW n \in PutNodes(i, len), NEW d \in {-1, 0, 1},
         n + d \in 0 .. nb * len - 1
  PROVE  n + d \in RemoteNodes(i, nb, len)
<1>1. nb \in Nat \ {0}
  OBVIOUS
<1>. QED
  BY <1>1, CubeBounds
     DEF RemoteNodes, PutNodes, GetWidth, RemoteBegin, Cutoff, Halo

(* Every node of the lattice is put by exactly one cube of its dimension.  *)
THEOREM PutsPartitionNodes ==
  ASSUME NEW nb \in Nat \ {0}, NEW len \in Nat \ {0}, NEW n \in 0 .. nb * len - 1
  PROVE  /\ \E i \in 0 .. nb - 1 : n \in PutNodes(i, len)
         /\ \A i, j \in 0 .. nb - 1 :
              n \in PutNodes(i, len) /\ n \in PutNodes(j, len) => i = j
<1> DEFINE q == n \div len
           r == n % len
<1>0. n \in Nat
  OBVIOUS
<1>1. /\ n \in Nat /\ q \in Nat /\ r \in 0 .. len - 1 /\ n = len * q + r
      /\ len * q = q * len
  <2>1. q \in Nat /\ r \in 0 .. len - 1 /\ n = len * q + r
    BY <1>0, DivMod
  <2> HIDE DEF q, r
  <2>. QED  BY <1>0, <2>1, Products
<1>2. ASSUME NEW i \in 0 .. nb - 1, n \in PutNodes(i, len) PROVE i = q
  <2>1. i * len \in Nat /\ n - i * len \in 0 .. len - 1 /\ i * len = len * i
    BY <1>2, <1>1 DEF PutNodes
  <2>2. n = len * i + (n - i * len)
    BY <2>1, <1>1
  <2>3. (len * i + (n - i * len)) \div len = i
    BY <2>1, DivModUnique
  <2>. QED  BY <2>2, <2>3
<1>3. q \in 0 .. nb - 1 /\ n \in PutNodes(q, len)
  <2> HIDE DEF q, r
  <2>1. q < nb
    <3> SUFFICES ASSUME q >= nb PROVE FALSE
      BY <1>1
    <3>1. len * (q - nb) >= 0 /\ len * (q - nb) = len * q - len * nb
      BY <1>1
    <3>. QED  BY <3>1, <1>1
  <2>. QED  BY <2>1, <1>1 DEF PutNodes
<1>. QED  BY <1>2, <1>3

(* deinterleave3 gives cube n coordinates in the box, and no two cubes the *)
(* same coordinates.                                                       *)
THEOREM DeinterleaveInBox ==
  ASSUME NEW nbx \in Nat \ {0}, NEW nby \in Nat \ {0}, NEW nbz \in Nat \ {0},
         NEW n \in 0 .. BoxSize(nbx, nby, nbz) - 1
  PROVE  /\ CubeX(n, nbx, nby) \in 0 .. nbx - 1
         /\ CubeY(n, nbx, nby) \in 0 .. nby - 1
         /\ CubeZ(n, nbx, nby) \in 0 .. nbz - 1
         /\ n = CubeX(n, nbx, nby) + nbx * (CubeY(n, nbx, nby)
                                            + nby * CubeZ(n, nbx, nby))
<1> DEFINE a == nbx * nby
           z == n \div a
           m == n % a
           y == m \div nbx
           x == m % nbx
<1>0. BoxSize(nbx, nby, nbz) = (nbx * nby) * nbz
  BY DEF BoxSize
<1>1. a \in Nat \ {0} /\ n \in Nat
  BY <1>0
<1>2. z \in Nat /\ m \in 0 .. a - 1 /\ n = a * z + m /\ a * z = z * a
  <2>1. z \in Nat /\ m \in 0 .. a - 1 /\ n = a * z + m
    BY <1>1, DivMod
  <2> HIDE DEF a, z, m
  <2>. QED  BY <1>1, <2>1, Products
<1>3. CubeZ(n, nbx, nby) = z
  BY DEF CubeZ
<1>4. n - CubeZ(n, nbx, nby) * (nbx * nby) = m
  BY <1>2, <1>3
<1>5. CubeY(n, nbx, nby) = y
  BY <1>4 DEF CubeY
<1>6. y \in Nat /\ x \in 0 .. nbx - 1 /\ m = nbx * y + x /\ nbx * y = y * nbx
  <2>0. m \in Nat
    BY <1>1, <1>2
  <2> HIDE DEF m
  <2>1. y \in Nat /\ x \in 0 .. nbx - 1 /\ m = nbx * y + x
    BY <2>0, DivMod
  <2> HIDE DEF x, y
  <2>. QED  BY <2>1, Products
<1>7. CubeX(n, nbx, nby) = x
  BY <1>4, <1>5, <1>6 DEF CubeX
<1>8. z < nbz
  <2> HIDE DEF z, m
  <2> SUFFICES ASSUME z >= nbz PROVE FALSE
    BY <1>2
  <2>0. n < a * nbz
    BY <1>0
  <2> HIDE DEF a
  <2>1. a * (z - nbz) >= 0 /\ a * (z - nbz) = a * z - a * nbz
    BY <1>1, <1>2
  <2>. QED  BY <2>0, <2>1, <1>2, <1>1
<1>9. y < nby
  <2>0. m < nbx * nby
    BY <1>2
  <2> HIDE DEF x, y, m
  <2> SUFFICES ASSUME y >= nby PROVE FALSE
    BY <1>6
  <2>1. nbx * (y - nby) >= 0 /\ nbx * (y - nby) = nbx * y - nbx * nby
    BY <1>6
  <2>. QED  BY <2>0, <2>1, <1>6
<1>10. n = x + nbx * (y + nby * z)
  <2> HIDE DEF x, y, z
  <2>1. nby * z \in Int /\ nbx * (y + nby * z) = nbx * y + nbx * (nby * z)
    BY <1>2, <1>6, Products
  <2>2. (nbx * nby) * z = nbx * (nby * z)
    BY <1>2, Products
  <2>. QED  BY <2>1, <2>2, <1>2, <1>6
<1>. QED  BY <1>2, <1>3, <1>5, <1>6, <1>7, <1>8, <1>9, <1>10

(* The cube at a point of the box.                                         *)
CubeAt(x, y, z, nbx, nby) == (nbx * nby) * z + (nbx * y + x)

(* The position of a point in its layer of cubes.                          *)
LEMMA InLayer ==
  ASSUME NEW nbx \in Nat \ {0}, NEW nby \in Nat \ {0},
         NEW x \in 0 .. nbx - 1, NEW y \in 0 .. nby - 1
  PROVE  nbx * nby \in Nat \ {0} /\ nbx * y + x \in 0 .. nbx * nby - 1
<1> DEFINE a == nbx * nby
<1>1. a \in Nat \ {0}
  OBVIOUS
<1>2. nbx * (nby - 1) = a - nbx
  BY Products
<1>3. nbx * y <= nbx * (nby - 1) /\ nbx * y \in Nat
  BY ProductMonotone
<1> HIDE DEF a
<1>4. nbx * y + x \in 0 .. a - 1
  BY <1>1, <1>2, <1>3
<1>. QED  BY <1>1, <1>4 DEF a

(* Every point of the box has a cube of the lattice.                       *)
THEOREM CubeAtInBox ==
  ASSUME NEW nbx \in Nat \ {0}, NEW nby \in Nat \ {0}, NEW nbz \in Nat \ {0},
         NEW x \in 0 .. nbx - 1, NEW y \in 0 .. nby - 1, NEW z \in 0 .. nbz - 1
  PROVE  CubeAt(x, y, z, nbx, nby) \in 0 .. BoxSize(nbx, nby, nbz) - 1
<1> DEFINE a == nbx * nby
           m == nbx * y + x
<1>1. a \in Nat \ {0} /\ m \in 0 .. a - 1
  BY InLayer
<1>2. CubeAt(x, y, z, nbx, nby) = a * z + m /\ BoxSize(nbx, nby, nbz) = a * nbz
  BY DEF CubeAt, BoxSize
<1> HIDE DEF a, m
<1>3. a * (nbz - 1) = a * nbz - a
  BY <1>1, Products
<1>4. a * z <= a * (nbz - 1) /\ a * z \in Nat
  BY <1>1, ProductMonotone
<1>. QED  BY <1>1, <1>2, <1>3, <1>4

(* And deinterleave3 finds that point for it: no part of the lattice is    *)
(* out of its reach.                                                       *)
THEOREM DeinterleaveCubeAt ==
  ASSUME NEW nbx \in Nat \ {0}, NEW nby \in Nat \ {0},
         NEW x \in 0 .. nbx - 1, NEW y \in 0 .. nby - 1, NEW z \in Nat
  PROVE  /\ CubeX(CubeAt(x, y, z, nbx, nby), nbx, nby) = x
         /\ CubeY(CubeAt(x, y, z, nbx, nby), nbx, nby) = y
         /\ CubeZ(CubeAt(x, y, z, nbx, nby), nbx, nby) = z
<1> DEFINE a == nbx * nby
           m == nbx * y + x
           n == CubeAt(x, y, z, nbx, nby)
<1>1. a \in Nat \ {0} /\ m \in 0 .. a - 1
  BY InLayer
<1>2. n = a * z + m
  BY DEF CubeAt
<1>3. n \div a = z /\ n - z * a = m
  <2> HIDE DEF a, m, n
  <2>. QED  BY <1>1, <1>2, Products, DivModUnique
<1> HIDE DEF n
<1>4. CubeZ(n, nbx, nby) = z
  BY <1>3 DEF CubeZ
<1>5. n - CubeZ(n, nbx, nby) * (nbx * nby) = m
  BY <1>3, <1>4
<1>6. CubeY(n, nbx, nby) = y
  <2>1. m \div nbx = y
    BY DivModUnique
  <2>. QED  BY <2>1, <1>5 DEF CubeY
<1>7. CubeX(n, nbx, nby) = x
  <2>1. m - y * nbx = x
    BY Products
  <2>. QED  BY <2>1, <1>5, <1>6 DEF CubeX
<1>. QED  BY <1>4, <1>6, <1>7 DEF n

(* The clusters share the cubes exclusively and completely: every cube of  *)
(* the lattice is owned by exactly one cluster.                            *)
THEOREM ClustersPartitionCubes ==
  ASSUME NEW total \in Nat, NEW nc \in Nat \ {0}
  PROVE  /\ \A cid \in 0 .. nc - 1 : Owned(cid, total, nc) \subseteq 0 .. total - 1
         /\ \A c \in 0 .. total - 1 : \E cid \in 0 .. nc - 1 : c \in Owned(cid, total, nc)
         /\ \A a, b \in 0 .. nc - 1 :
              a # b => Owned(a, total, nc) \cap Owned(b, total, nc) = {}
<1> DEFINE p == PerCluster(total, nc)
           t == NbTrailing(total, nc)
<1>1. p \in Nat /\ t \in 0 .. nc - 1 /\ total = nc * p + t
  BY DivMod DEF PerCluster, NbTrailing
<1> HIDE DEF p, t
<1>2. ASSUME NEW cid \in 0 .. nc - 1
      PROVE  /\ cid * p \in Nat /\ (cid + 1) * p = cid * p + p
             /\ cid * p + p <= nc * p
             /\ nc * p \in Nat
  <2>1. (nc - (cid + 1)) * p >= 0 /\ (nc - (cid + 1)) * p = nc * p - (cid + 1) * p
    BY <1>1
  <2>. QED  BY <2>1, <1>1
<1>3. ASSUME NEW cid \in 0 .. nc - 1, NEW c
      PROVE  c \in Owned(cid, total, nc) <=>
               /\ c \in Int
               /\ \/ cid * p <= c /\ c < cid * p + p
                  \/ cid < t /\ c = cid + nc * p
  <2>1. /\ Begin(cid, total, nc) = cid * p
        /\ End(cid, total, nc) = (cid + 1) * p
        /\ Trailing(cid, total, nc) = cid + nc * p
        /\ NbTrailing(total, nc) = t
    BY DEF Begin, End, Trailing, p, t
  <2>2. cid + nc * p \in Nat
    BY <1>2
  <2>. QED  BY <2>1, <2>2, <1>1, <1>2 DEF Owned
<1>4. ASSUME NEW cid \in 0 .. nc - 1, NEW c \in Owned(cid, total, nc)
      PROVE  c \in 0 .. total - 1
  BY <1>1, <1>2, <1>3
<1>5. ASSUME NEW c \in 0 .. total - 1
      PROVE  \E cid \in 0 .. nc - 1 : c \in Owned(cid, total, nc)
  <2>1. CASE c < nc * p
    <3>0. p # 0
      BY <2>1, <1>1
    <3> DEFINE q == c \div p
               r == c % p
    <3>1. q \in Nat /\ r \in 0 .. p - 1 /\ c = p * q + r /\ p * q = q * p
      <4>1. q \in Nat /\ r \in 0 .. p - 1 /\ c = p * q + r
        <5>1. p \in Nat \ {0} /\ c \in Nat
          BY <1>1, <3>0
        <5>. QED  BY <5>1, DivMod
      <4> HIDE DEF q, r
      <4>. QED  BY <4>1, <1>1, Products
    <3> HIDE DEF q, r
    <3>2. q < nc
      <4> SUFFICES ASSUME q >= nc PROVE FALSE
        BY <3>1
      <4>1. p * (q - nc) >= 0 /\ p * (q - nc) = p * q - p * nc
        BY <3>1, <1>1
      <4>. QED  BY <4>1, <2>1, <3>1, <1>1
    <3>3. q \in 0 .. nc - 1 /\ q * p <= c /\ c < q * p + p
      BY <3>1, <3>2, <1>1
    <3>. QED  BY <3>3, <1>3
  <2>2. CASE c >= nc * p
    <3> DEFINE q == c - nc * p
    <3>1. q \in 0 .. nc - 1 /\ q < t /\ c = q + nc * p
      BY <2>2, <1>1
    <3>. QED  BY <3>1, <1>3
  <2>. QED  BY <2>1, <2>2, <1>1
<1>6. ASSUME NEW a \in 0 .. nc - 1, NEW b \in 0 .. nc - 1, a < b,
             NEW c \in Owned(a, total, nc), c \in Owned(b, total, nc)
      PROVE  FALSE
  <2>1. a * p + p <= b * p
    <3>1. (b - (a + 1)) * p >= 0 /\ (b - (a + 1)) * p = b * p - (a + 1) * p
      BY <1>6, <1>1
    <3>. QED  BY <3>1, <1>2
  <2>. QED  BY <2>1, <1>2, <1>3, <1>6
<1>7. \A a, b \in 0 .. nc - 1 :
        a # b => Owned(a, total, nc) \cap Owned(b, total, nc) = {}
  <2> SUFFICES ASSUME NEW a \in 0 .. nc - 1, NEW b \in 0 .. nc - 1, a # b,
                      NEW c \in Owned(a, total, nc), c \in Owned(b, total, nc)
               PROVE  FALSE
    OBVIOUS
  <2>1. a < b \/ b < a
    OBVIOUS
  <2>. QED  BY <2>1, <1>6
<1>. QED  BY <1>4, <1>5, <1>7
-----------------------------------------------------------------------------
(***************************************************************************)
(* The sweep of the clusters.                                              *)
(***************************************************************************)
(* What the assumption on the builds gives, dimension by dimension.        *)
LEMMA LayoutFacts ==
  ASSUME lay \in Layouts
  PROVE  /\ lay.clusters \in Nat \ {0} /\ lay.cavity \in Nat
         /\ \A d \in Dims :
              /\ lay.len[d] \in Nat \ {0}
              /\ NbCubes(d) \in Nat /\ NbCubes(d) >= 2
              /\ lay.cavity = NbCubes(d) * lay.len[d]
         /\ Total \in Nat
<1>1. /\ lay.clusters \in Nat \ {0} /\ lay.cavity \in Nat
      /\ \A d \in Dims : /\ lay.len[d] \in Nat \ {0}
                         /\ lay.cavity % lay.len[d] = 0
                         /\ lay.cavity \div lay.len[d] >= 2
  BY LayoutAssumption DEF Dims
<1>2. ASSUME NEW d \in Dims
      PROVE  /\ NbCubes(d) \in Nat /\ NbCubes(d) >= 2
             /\ lay.cavity = NbCubes(d) * lay.len[d]
  <2> DEFINE len == lay.len[d]
             a == lay.cavity
             nb == NbCubes(d)
  <2>1. len \in Nat \ {0} /\ a \in Nat /\ a % len = 0 /\ nb >= 2
    BY <1>1 DEF NbCubes
  <2> HIDE DEF len, a
  <2>2. nb = a \div len
    BY DEF NbCubes, len, a
  <2> HIDE DEF nb
  <2>3. nb \in Nat /\ a = len * nb + (a % len)
    BY <2>1, <2>2, DivMod
  <2>4. a = nb * len
    BY <2>1, <2>3, Products
  <2>. QED  BY <2>1, <2>3, <2>4 DEF nb, a, len
<1>3. Total \in Nat
  <2>1. 1 \in Dims /\ 2 \in Dims /\ 3 \in Dims
    BY DEF Dims
  <2>2. NbCubes(1) \in Nat /\ NbCubes(2) \in Nat /\ NbCubes(3) \in Nat
    BY <1>2, <2>1
  <2>. QED  BY <2>2 DEF Total, BoxSize
<1>. QED  BY <1>1, <1>2, <1>3

(* Every cube of the lattice has coordinates in the box, and two cubes     *)
(* never have the same ones.                                               *)
LEMMA Coordinates ==
  ASSUME lay \in Layouts, NEW k \in AllCubes
  PROVE  /\ \A d \in Dims : At(k)[d] \in 0 .. NbCubes(d) - 1
         /\ k = At(k)[1] + NbCubes(1) * (At(k)[2] + NbCubes(2) * At(k)[3])
<1> DEFINE a == NbCubes(1)
           b == NbCubes(2)
           e == NbCubes(3)
<1>1. a \in Nat \ {0} /\ b \in Nat \ {0} /\ e \in Nat \ {0}
  <2>1. 1 \in Dims /\ 2 \in Dims /\ 3 \in Dims
    BY DEF Dims
  <2>. QED  BY <2>1, LayoutFacts
<1>2. k \in 0 .. BoxSize(a, b, e) - 1
  BY DEF AllCubes, Total
<1>3. At(k)[1] = CubeX(k, a, b) /\ At(k)[2] = CubeY(k, a, b) /\ At(k)[3] = CubeZ(k, a, b)
  BY DEF At
<1>4. Dims = {1, 2, 3}
  BY DEF Dims
<1> HIDE DEF a, b, e
<1>5. /\ CubeX(k, a, b) \in 0 .. a - 1
      /\ CubeY(k, a, b) \in 0 .. b - 1
      /\ CubeZ(k, a, b) \in 0 .. e - 1
      /\ k = CubeX(k, a, b) + a * (CubeY(k, a, b) + b * CubeZ(k, a, b))
  BY <1>1, <1>2, DeinterleaveInBox
<1>. QED  BY <1>3, <1>4, <1>5 DEF a, b, e

(* Two cubes write disjoint sets of nodes.                                 *)
LEMMA DisjointWrites ==
  ASSUME lay \in Layouts, NEW k \in AllCubes, NEW m \in AllCubes, k # m
  PROVE  \E d \in Dims : Writes(k, d) \cap Writes(m, d) = {}
<1>1. PICK d \in Dims : At(k)[d] # At(m)[d]
  <2>1. 1 \in Dims /\ 2 \in Dims /\ 3 \in Dims
    BY DEF Dims
  <2>. QED  BY <2>1, Coordinates
<1>2. Writes(k, d) \cap Writes(m, d) = {}
  <2> DEFINE nb == NbCubes(d)
             len == lay.len[d]
             i == At(k)[d]
             j == At(m)[d]
  <2>1. nb \in Nat \ {0} /\ len \in Nat \ {0} /\ i \in 0 .. nb - 1 /\ j \in 0 .. nb - 1
    BY LayoutFacts, Coordinates
  <2>2. Writes(k, d) = PutNodes(i, len) /\ Writes(m, d) = PutNodes(j, len) /\ i # j
    BY <1>1 DEF Writes
  <2> HIDE DEF nb, len, i, j
  <2>3. SUFFICES ASSUME NEW n \in PutNodes(i, len), n \in PutNodes(j, len)
                 PROVE  FALSE
    BY <2>2
  <2>4. n \in 0 .. nb * len - 1
    BY <2>1, CubeBounds DEF PutNodes
  <2>. QED  BY <2>1, <2>2, <2>3, <2>4, PutsPartitionNodes
<1>. QED  BY <1>2

(* Every node of the lattice is written by some cube.                      *)
LEMMA CubeOfNode ==
  ASSUME lay \in Layouts, NEW x \in 0 .. lay.cavity - 1,
         NEW y \in 0 .. lay.cavity - 1, NEW z \in 0 .. lay.cavity - 1
  PROVE  \E k \in AllCubes :
           x \in Writes(k, 1) /\ y \in Writes(k, 2) /\ z \in Writes(k, 3)
<1>1. ASSUME NEW d \in Dims, NEW n \in 0 .. lay.cavity - 1
      PROVE  \E i \in 0 .. NbCubes(d) - 1 : n \in PutNodes(i, lay.len[d])
  <2> DEFINE nb == NbCubes(d)
             len == lay.len[d]
  <2>1. nb \in Nat \ {0} /\ len \in Nat \ {0} /\ n \in 0 .. nb * len - 1
    BY LayoutFacts
  <2> HIDE DEF nb, len
  <2>2. \E i \in 0 .. nb - 1 : n \in PutNodes(i, len)
    BY <2>1, PutsPartitionNodes
  <2>. QED  BY <2>2 DEF nb, len
<1>2. 1 \in Dims /\ 2 \in Dims /\ 3 \in Dims
  BY DEF Dims
<1>3. PICK i \in 0 .. NbCubes(1) - 1 : x \in PutNodes(i, lay.len[1])
  BY <1>1, <1>2
<1>4. PICK j \in 0 .. NbCubes(2) - 1 : y \in PutNodes(j, lay.len[2])
  BY <1>1, <1>2
<1>5. PICK h \in 0 .. NbCubes(3) - 1 : z \in PutNodes(h, lay.len[3])
  BY <1>1, <1>2
<1>6. /\ NbCubes(1) \in Nat \ {0} /\ NbCubes(2) \in Nat \ {0}
      /\ NbCubes(3) \in Nat \ {0}
  BY <1>2, LayoutFacts
<1>7. PICK k \in 0 .. BoxSize(NbCubes(1), NbCubes(2), NbCubes(3)) - 1 :
             /\ CubeX(k, NbCubes(1), NbCubes(2)) = i
             /\ CubeY(k, NbCubes(1), NbCubes(2)) = j
             /\ CubeZ(k, NbCubes(1), NbCubes(2)) = h
  <2> DEFINE a == NbCubes(1)
             b == NbCubes(2)
             e == NbCubes(3)
  <2>1. /\ a \in Nat \ {0} /\ b \in Nat \ {0} /\ e \in Nat \ {0}
        /\ i \in 0 .. a - 1 /\ j \in 0 .. b - 1 /\ h \in 0 .. e - 1
    BY <1>6
  <2> HIDE DEF a, b, e
  <2> DEFINE k == CubeAt(i, j, h, a, b)
  <2>2. k \in 0 .. BoxSize(a, b, e) - 1
    BY <2>1, CubeAtInBox
  <2>3. CubeX(k, a, b) = i /\ CubeY(k, a, b) = j /\ CubeZ(k, a, b) = h
    BY <2>1, DeinterleaveCubeAt
  <2>. QED  BY <2>2, <2>3 DEF a, b, e
<1>8. k \in AllCubes /\ At(k)[1] = i /\ At(k)[2] = j /\ At(k)[3] = h
  <2>1. k \in AllCubes
    BY DEF AllCubes, Total
  <2>2. At(k) = <<i, j, h>>
    BY <1>7 DEF At
  <2>. QED  BY <2>1, <2>2
<1>. QED  BY <1>3, <1>4, <1>5, <1>8 DEF Writes

(* The get of any cube stays in bounds and brings the whole stencil.       *)
LEMMA GetRight ==
  ASSUME lay \in Layouts, NEW k \in AllCubes, NEW d \in Dims
  PROVE  /\ Reads(k, d) \subseteq 0 .. lay.cavity - 1
         /\ Stores(k, d) \subseteq 0 .. lay.len[d] + Halo - 1
         /\ \A n \in Writes(k, d), e \in {-1, 0, 1} :
              n + e \in 0 .. lay.cavity - 1 =>
                \E l \in Stores(k, d) :
                  /\ StoredAt(l, At(k)[d], NbCubes(d), lay.len[d]) = n + e
                  /\ TakenFor(l, At(k)[d], lay.len[d]) = n + e
<1> DEFINE nb == NbCubes(d)
           len == lay.len[d]
           i == At(k)[d]
<1>1. nb \in Nat /\ nb >= 2 /\ len \in Nat \ {0} /\ i \in 0 .. nb - 1 /\ lay.cavity = nb * len
  BY LayoutFacts, Coordinates
<1>2. /\ Reads(k, d) = RemoteNodes(i, nb, len)
      /\ Stores(k, d) = LocalNodes(i, nb, len)
      /\ Writes(k, d) = PutNodes(i, len)
  BY DEF Reads, Stores, Writes
<1> HIDE DEF nb, len, i
<1>3. Reads(k, d) \subseteq 0 .. lay.cavity - 1 /\ Stores(k, d) \subseteq 0 .. len + Halo - 1
  BY <1>1, <1>2, GetStaysInside
<1>4. ASSUME NEW n \in PutNodes(i, len), NEW e \in {-1, 0, 1},
             n + e \in 0 .. lay.cavity - 1
      PROVE  \E l \in Stores(k, d) :
               StoredAt(l, i, nb, len) = n + e /\ TakenFor(l, i, len) = n + e
  <2> DEFINE l == n + e + LocalBegin(i, nb) - (i * len + RemoteBegin(i, nb))
  <2>1. n + e \in RemoteNodes(i, nb, len)
    BY <1>1, <1>4, GetCoversStencil
  <2>2. i * len \in Int /\ LocalBegin(i, nb) \in Int /\ RemoteBegin(i, nb) \in Int
        /\ GetWidth(i, nb, len) \in Int /\ n + e \in Int
    BY <1>1, <1>4 DEF LocalBegin, RemoteBegin, GetWidth, Cutoff, Halo
  <2>3. l \in Int /\ l \in LocalNodes(i, nb, len)
    BY <2>1, <2>2 DEF RemoteNodes, LocalNodes
  <2>4. StoredAt(l, i, nb, len) = n + e
    BY <2>2 DEF StoredAt
  <2>5. TakenFor(l, i, len) = n + e
    <3> HIDE DEF l
    <3>. QED  BY <1>1, <2>3, <2>4, GetAligned
  <2>. QED  BY <1>2, <2>3, <2>4, <2>5
<1>. QED  BY <1>2, <1>3, <1>4 DEF nb, len, i

(* The clusters share the cubes of the build.                              *)
LEMMA Shares ==
  ASSUME lay \in Layouts
  PROVE  /\ \A c \in Clusters : Mine(c) \subseteq AllCubes
         /\ \A k \in AllCubes : \E c \in Clusters : k \in Mine(c)
         /\ \A c, e \in Clusters : c # e => Mine(c) \cap Mine(e) = {}
BY LayoutFacts, ClustersPartitionCubes DEF Clusters, AllCubes, Mine

(* A cluster goes through its cubes in increasing order, from the lowest   *)
(* one to the highest one, and leaves none out.                            *)
LEMMA MineInOrder ==
  ASSUME lay \in Layouts, NEW c \in Clusters
  PROVE  /\ Mine(c) \subseteq Nat /\ FirstCube(c) \in Nat
         /\ Mine(c) # {} => /\ FirstCube(c) \in Mine(c)
                            /\ \A m \in Mine(c) : FirstCube(c) <= m
         /\ \A k \in Mine(c) :
              IF NextCube(c, k) \in Mine(c) \ {k}
              THEN /\ k < NextCube(c, k)
                   /\ \A m \in Mine(c) : m < NextCube(c, k) => m <= k
              ELSE \A m \in Mine(c) : m <= k
<1> DEFINE nc == lay.clusters
           p == PerCluster(Total, nc)
           b == Begin(c, Total, nc)
           e == End(c, Total, nc)
           t == Trailing(c, Total, nc)
           has == c < NbTrailing(Total, nc)
<1>1. nc \in Nat \ {0} /\ Total \in Nat /\ c \in 0 .. nc - 1
  BY LayoutFacts DEF Clusters
<1>2. p \in Nat
  BY <1>1, DivMod DEF PerCluster
<1>3. b \in Nat /\ e = b + p /\ t \in Nat /\ e <= t
  <2>1. b = c * p /\ e = (c + 1) * p /\ t = c + nc * p
    BY DEF Begin, End, Trailing
  <2> HIDE DEF p, b, e, t
  <2>2. c * p \in Nat /\ (c + 1) * p = c * p + p /\ nc * p \in Nat
    BY <1>1, <1>2
  <2>3. p * (c + 1) <= p * nc
    BY <1>1, <1>2, ProductMonotone
  <2>4. p * (c + 1) = (c + 1) * p /\ p * nc = nc * p
    BY <1>1, <1>2, Products
  <2>. QED  BY <1>1, <2>1, <2>2, <2>3, <2>4
<1>4. Mine(c) = b .. e - 1 \cup (IF has THEN {t} ELSE {})
  BY DEF Mine, Owned
<1>5. FirstCube(c) = IF p > 0 THEN b ELSE t
  BY DEF FirstCube
<1>6. \A k : NextCube(c, k) = IF k + 1 < e THEN k + 1 ELSE t
  BY DEF NextCube
<1> HIDE DEF nc, p, b, e, t, has
<1>7. Mine(c) \subseteq Nat /\ FirstCube(c) \in Nat
  BY <1>2, <1>3, <1>4, <1>5
<1>8. ASSUME Mine(c) # {}
      PROVE  FirstCube(c) \in Mine(c) /\ \A m \in Mine(c) : FirstCube(c) <= m
  BY <1>2, <1>3, <1>4, <1>5, <1>8
<1>9. ASSUME NEW k \in Mine(c)
      PROVE  IF NextCube(c, k) \in Mine(c) \ {k}
             THEN /\ k < NextCube(c, k)
                  /\ \A m \in Mine(c) : m < NextCube(c, k) => m <= k
             ELSE \A m \in Mine(c) : m <= k
  <2>1. CASE k + 1 < e
    <3>1. NextCube(c, k) = k + 1
      BY <2>1, <1>6
    <3>. QED  BY <3>1, <2>1, <1>2, <1>3, <1>4, <1>7
  <2>2. CASE ~ (k + 1 < e)
    <3>1. NextCube(c, k) = t
      BY <2>2, <1>6
    <3>. QED  BY <3>1, <2>2, <1>2, <1>3, <1>4, <1>7
  <2>. QED  BY <2>1, <2>2
<1>. QED  BY <1>7, <1>8, <1>9
-----------------------------------------------------------------------------
(* Each cluster is at a cube of its own, and has put exactly the cubes     *)
(* below it; when it is at the barrier it has put them all.                *)
PutAlready(c, k) == pc[c] = "barrier" \/ k < icube[c]

OwnInv ==
  /\ lay \in Layouts
  /\ pc \in [Clusters -> {"get", "put", "barrier"}]
  /\ icube \in [Clusters -> Int]
  /\ \A c \in Clusters : pc[c] # "barrier" => icube[c] \in Mine(c)
  /\ \A w \in wrote : /\ w = [by |-> w.by, cube |-> w.cube]
                      /\ w.by \in Clusters /\ w.cube \in Mine(w.by)
                      /\ PutAlready(w.by, w.cube)
  /\ \A c \in Clusters : \A k \in Mine(c) :
       PutAlready(c, k) => [by |-> c, cube |-> k] \in wrote

(* The clusters start a step.                                              *)
Starting ==
  /\ lay \in Layouts /\ pc = StartPc /\ wrote = {}
  /\ icube = [c \in Clusters |-> FirstCube(c)]

(* Nothing has been put in this step.                                      *)
NothingPut == \A c \in Clusters : \A k \in Mine(c) : ~ PutAlready(c, k)

(* So it is when a step starts.                                            *)
LEMMA StartOwns == Starting => OwnInv /\ NothingPut
<1> SUFFICES ASSUME Starting PROVE OwnInv /\ NothingPut
  OBVIOUS
<1> USE DEF Starting
<1>1. \A c \in Clusters : FirstCube(c) \in Int
  BY MineInOrder
<1>2. \A c \in Clusters : /\ pc[c] = (IF Mine(c) = {} THEN "barrier" ELSE "get")
                          /\ icube[c] = FirstCube(c)
  BY DEF StartPc
<1>3. pc \in [Clusters -> {"get", "put", "barrier"}] /\ icube \in [Clusters -> Int]
  BY <1>1 DEF StartPc
<1>4. ASSUME NEW c \in Clusters, pc[c] # "barrier" PROVE icube[c] \in Mine(c)
  BY <1>2, <1>4, MineInOrder
<1>5. ASSUME NEW c \in Clusters, NEW k \in Mine(c) PROVE ~ PutAlready(c, k)
  <2>1. pc[c] = "get" /\ icube[c] <= k /\ icube[c] \in Int /\ k \in Nat
    BY <1>1, <1>2, <1>5, MineInOrder
  <2>. QED  BY <2>1 DEF PutAlready
<1>. QED  BY <1>3, <1>4, <1>5 DEF OwnInv, NothingPut

(* The build never changes, so neither do the clusters and their cubes.    *)
LEMMA SameBuild ==
  ASSUME lay' = lay
  PROVE  /\ Clusters' = Clusters /\ AllCubes' = AllCubes
         /\ \A c : Mine(c)' = Mine(c)
         /\ \A c : FirstCube(c)' = FirstCube(c)
         /\ \A k, d : Writes(k, d)' = Writes(k, d)
         /\ StartPc' = StartPc
BY DEF Clusters, AllCubes, Total, NbCubes, Mine, FirstCube, Writes, At, StartPc

(* The step after a put: the cluster has now put its cube, and no other.   *)
LEMMA PutOwns ==
  ASSUME OwnInv, NEW c \in Clusters, Put(c)
  PROVE  /\ OwnInv'
         /\ \A e \in Clusters : \A k \in Mine(e) :
              PutAlready(e, k)' <=> PutAlready(e, k) \/ (e = c /\ k = icube[c])
<1> DEFINE k0 == icube[c]
           n == NextCube(c, k0)
<1>1. /\ pc[c] = "put" /\ k0 \in Mine(c) /\ lay' = lay /\ lay \in Layouts
      /\ wrote' = wrote \cup {[by |-> c, cube |-> k0]}
  BY DEF OwnInv, Put
<1>2. Clusters' = Clusters /\ \A e : Mine(e)' = Mine(e)
  BY <1>1, SameBuild
<1>3. \/ /\ n \in Mine(c) \ {k0}
         /\ icube' = [icube EXCEPT ![c] = n] /\ pc' = [pc EXCEPT ![c] = "get"]
      \/ /\ n \notin Mine(c) \ {k0}
         /\ icube' = icube /\ pc' = [pc EXCEPT ![c] = "barrier"]
  BY DEF Put
<1>4. /\ Mine(c) \subseteq Nat
      /\ IF n \in Mine(c) \ {k0}
         THEN k0 < n /\ \A m \in Mine(c) : m < n => m <= k0
         ELSE \A m \in Mine(c) : m <= k0
  BY <1>1, MineInOrder
<1>5. \A e \in Clusters : e # c => pc'[e] = pc[e] /\ icube'[e] = icube[e]
  BY <1>3 DEF OwnInv
<1>6. /\ pc' \in [Clusters -> {"get", "put", "barrier"}]
      /\ icube' \in [Clusters -> Int]
  BY <1>3, <1>4 DEF OwnInv
<1>7. \/ n \in Mine(c) \ {k0} /\ icube'[c] = n /\ pc'[c] = "get"
      \/ n \notin Mine(c) \ {k0} /\ pc'[c] = "barrier"
  BY <1>3 DEF OwnInv
<1> HIDE DEF k0, n
<1>8. ASSUME NEW e \in Clusters, NEW k \in Mine(e)
      PROVE  PutAlready(e, k)' <=> PutAlready(e, k) \/ (e = c /\ k = k0)
  <2>1. CASE e # c
    BY <2>1, <1>5 DEF PutAlready
  <2>2. CASE e = c
    <3>1. PutAlready(e, k) <=> k < k0
      BY <2>2, <1>1 DEF PutAlready, k0
    <3>2. PutAlready(e, k)' <=> pc'[c] = "barrier" \/ k < icube'[c]
      BY <2>2 DEF PutAlready
    <3>3. k \in Nat /\ k0 \in Nat
      BY <2>2, <1>1, <1>4
    <3>4. PutAlready(e, k)' <=> k <= k0
      BY <2>2, <3>2, <3>3, <1>4, <1>7
    <3>. QED  BY <2>2, <3>1, <3>3, <3>4
  <2>. QED  BY <2>1, <2>2
<1>9. OwnInv'
  <2>1. \A e \in Clusters : pc'[e] # "barrier" => icube'[e] \in Mine(e)
    BY <1>5, <1>7 DEF OwnInv
  <2>2. ASSUME NEW w \in wrote'
        PROVE  /\ w = [by |-> w.by, cube |-> w.cube]
               /\ w.by \in Clusters /\ w.cube \in Mine(w.by)
               /\ PutAlready(w.by, w.cube)'
    <3>1. CASE w \in wrote
      BY <3>1, <1>8 DEF OwnInv
    <3>2. CASE w = [by |-> c, cube |-> k0]
      BY <3>2, <1>1, <1>8
    <3>. QED  BY <3>1, <3>2, <1>1
  <2>3. ASSUME NEW e \in Clusters, NEW k \in Mine(e), PutAlready(e, k)'
        PROVE  [by |-> e, cube |-> k] \in wrote'
    BY <2>3, <1>1, <1>8 DEF OwnInv
  <2>. QED  BY <1>1, <1>2, <1>6, <2>1, <2>2, <2>3 DEF OwnInv
<1>. QED  BY <1>8, <1>9 DEF k0

(* Each cluster keeps to its own cubes, in their order.                    *)
LEMMA OwnInvariant == Spec => []OwnInv
<1>1. Init => OwnInv
  BY StartOwns DEF Init, Starting
<1>2. OwnInv /\ [Next]_vars => OwnInv'
  <2> SUFFICES ASSUME OwnInv, [Next]_vars PROVE OwnInv'
    OBVIOUS
  <2>1. ASSUME NEW c \in Clusters, Get(c) PROVE OwnInv'
    <3>1. /\ lay' = lay /\ icube' = icube /\ wrote' = wrote
          /\ pc[c] = "get" /\ pc' = [pc EXCEPT ![c] = "put"]
      BY <2>1 DEF Get
    <3>2. Clusters' = Clusters /\ \A e : Mine(e)' = Mine(e)
      BY <3>1, SameBuild
    <3>3. /\ pc' \in [Clusters -> {"get", "put", "barrier"}]
          /\ \A e \in Clusters : pc'[e] = "barrier" <=> pc[e] = "barrier"
      BY <3>1 DEF OwnInv
    <3>4. \A e \in Clusters : \A k : PutAlready(e, k)' <=> PutAlready(e, k)
      BY <3>1, <3>3 DEF PutAlready
    <3>. QED  BY <3>1, <3>2, <3>3, <3>4 DEF OwnInv
  <2>2. ASSUME NEW c \in Clusters, Put(c) PROVE OwnInv'
    BY <2>2, PutOwns
  <2>3. ASSUME UNCHANGED <<lay, pc, icube, wrote>> PROVE OwnInv'
    <3>1. Clusters' = Clusters /\ \A e : Mine(e)' = Mine(e)
      BY <2>3, SameBuild
    <3>2. \A e, k : PutAlready(e, k)' <=> PutAlready(e, k)
      BY <2>3 DEF PutAlready
    <3>. QED  BY <2>3, <3>1, <3>2 DEF OwnInv
  <2>4. CASE \E w \in wire : PutVisible(w)
    BY <2>4, <2>3 DEF PutVisible
  <2>5. CASE Barrier
    <3>1. /\ lay' = lay /\ pc' = StartPc /\ wrote' = {}
          /\ icube' = [c \in Clusters |-> FirstCube(c)]
      BY <2>5 DEF Barrier
    <3>2. /\ Clusters' = Clusters /\ \A c : FirstCube(c)' = FirstCube(c)
          /\ StartPc' = StartPc
      BY <3>1, SameBuild
    <3>3. Starting'
      BY <3>1, <3>2 DEF OwnInv, Starting
    <3>. QED  BY <3>3, StartOwns, PTL
  <2>6. CASE Finished
    BY <2>6, <2>3 DEF Finished, vars
  <2>7. CASE UNCHANGED vars
    BY <2>7, <2>3 DEF vars
  <2>. QED  BY <2>1, <2>2, <2>4, <2>5, <2>6, <2>7 DEF Next
<1>. QED  BY <1>1, <1>2, PTL DEF Spec
-----------------------------------------------------------------------------
(* The two lattices of a step are not the same one, and they are swapped.  *)
LEMMA Parity ==
  ASSUME step \in Nat
  PROVE  /\ SrcOf(step) \in 0 .. 1 /\ DstOf(step) \in 0 .. 1
         /\ SrcOf(step) # DstOf(step) /\ SrcOf(step + 1) = DstOf(step)
BY DEF SrcOf, DstOf

(* Every variable has its type, whether or not the puts land first.        *)
THEOREM TypeCorrect == Spec => []TypeOK
<1> DEFINE Data ==
      /\ step \in 0 .. NbSteps - 1
      /\ buf \in [Clusters -> SUBSET Values]
      /\ \A w \in wire : /\ w.by \in Clusters /\ w.cube \in AllCubes
                          /\ w.step \in 0 .. step /\ w.value \in Values
      /\ lattice \in [0 .. 1 -> [AllCubes -> Values]]
<1>1. Init => Data
  BY NbStepsAssumption DEF Init, Values, Mixed
<1>2. OwnInv /\ Data /\ [Next]_vars => Data'
  <2> SUFFICES ASSUME OwnInv, Data, [Next]_vars PROVE Data'
    OBVIOUS
  <2>1. lay' = lay
    BY DEF Next, Get, Put, PutVisible, Barrier, Finished, vars
  <2>2. Clusters' = Clusters /\ AllCubes' = AllCubes
    BY <2>1, SameBuild
  <2>3. step \in Nat /\ SrcOf(step) \in 0 .. 1 /\ NbSteps \in Nat
    BY Parity, NbStepsAssumption
  <2>4. \A c \in Clusters : pc[c] # "barrier" => icube[c] \in AllCubes
    BY Shares DEF OwnInv
  <2>5. ASSUME NEW c \in Clusters, Get(c) PROVE Data'
    <3>1. /\ buf' = [buf EXCEPT ![c] =
                       {lattice[SrcOf(step)][m] : m \in Touched(icube[c])}]
          /\ step' = step /\ wire' = wire /\ lattice' = lattice
      BY <2>5 DEF Get
    <3>2. {lattice[SrcOf(step)][m] : m \in Touched(icube[c])} \in SUBSET Values
      BY <2>3 DEF Touched
    <3>. QED  BY <3>1, <3>2, <2>2 DEF Values
  <2>6. ASSUME NEW c \in Clusters, Put(c) PROVE Data'
    <3>1. /\ step' = step /\ buf' = buf /\ lattice' = lattice /\ pc[c] = "put"
          /\ wire' = wire \cup
               {[by |-> c, cube |-> icube[c], step |-> step,
                 value |-> IF buf[c] = {step} THEN step + 1 ELSE Mixed]}
      BY <2>6 DEF Put
    <3>2. (IF buf[c] = {step} THEN step + 1 ELSE Mixed) \in Values
      BY <2>3 DEF Values
    <3>. QED  BY <3>1, <3>2, <2>2, <2>3, <2>4 DEF Values
  <2>7. ASSUME NEW w \in wire, PutVisible(w) PROVE Data'
    <3>1. /\ step' = step /\ buf' = buf /\ wire' = wire \ {w}
          /\ lattice' = [lattice EXCEPT ![DstOf(w.step)] =
                           [@ EXCEPT ![w.cube] = w.value]]
      BY <2>7 DEF PutVisible
    <3>2. lattice' \in [0 .. 1 -> [AllCubes -> Values]]
      BY <3>1
    <3>. QED  BY <3>1, <3>2, <2>2 DEF Values
  <2>8. CASE Barrier
    BY <2>8, <2>2, <2>3 DEF Barrier, Values
  <2>9. CASE Finished \/ UNCHANGED vars
    BY <2>9, <2>2 DEF Finished, vars, Values
  <2>. QED  BY <2>5, <2>6, <2>7, <2>8, <2>9 DEF Next
<1>3. OwnInv /\ Data => TypeOK
  <2> SUFFICES ASSUME OwnInv, Data PROVE TypeOK
    OBVIOUS
  <2>1. ASSUME NEW c \in Clusters, pc[c] # "barrier"
        PROVE  /\ icube[c] \in AllCubes
               /\ \A d \in Dims : At(icube[c])[d] \in 0 .. NbCubes(d) - 1
    BY <2>1, Shares, Coordinates DEF OwnInv
  <2>2. \A w \in wrote : w.by \in Clusters /\ w.cube \in AllCubes
    BY Shares DEF OwnInv
  <2>. QED  BY <2>1, <2>2 DEF TypeOK, OwnInv
<1>. QED  BY <1>1, <1>2, <1>3, OwnInvariant, PTL DEF Spec

(* Whatever cube a cluster is at, its get stays inside the lattice and the *)
(* local buffer: no build has a cube at which the offsets of               *)
(* compute_common.h leave either.                                          *)
THEOREM GetInBoundsHolds == Spec => []GetInBounds
<1>1. OwnInv => GetInBounds
  <2> SUFFICES ASSUME OwnInv, NEW c \in Clusters, pc[c] # "barrier", NEW d \in Dims
               PROVE  /\ Reads(icube[c], d) \subseteq 0 .. lay.cavity - 1
                      /\ Stores(icube[c], d) \subseteq 0 .. lay.len[d] + Halo - 1
    BY DEF GetInBounds
  <2>1. lay \in Layouts /\ icube[c] \in AllCubes
    BY Shares DEF OwnInv
  <2>. QED  BY <2>1, GetRight
<1>. QED  BY <1>1, OwnInvariant, PTL

(* A cluster that collides a cube has in its buffer every node the stencil *)
(* reads, at the local index where collide_cube looks for it.              *)
THEOREM StencilFetchedHolds == Spec => []StencilFetched
<1>1. OwnInv => StencilFetched
  <2> SUFFICES ASSUME OwnInv, NEW c \in Clusters, pc[c] = "put", NEW d \in Dims
               PROVE  \A n \in Writes(icube[c], d), e \in {-1, 0, 1} :
                        n + e \in 0 .. lay.cavity - 1 =>
                          \E l \in Stores(icube[c], d) :
                            /\ StoredAt(l, At(icube[c])[d], NbCubes(d), lay.len[d]) = n + e
                            /\ TakenFor(l, At(icube[c])[d], lay.len[d]) = n + e
    BY DEF StencilFetched
  <2>1. lay \in Layouts /\ icube[c] \in AllCubes
    BY Shares DEF OwnInv
  <2>. QED  BY <2>1, GetRight
<1>. QED  BY <1>1, OwnInvariant, PTL

(* No node of the destination lattice is put twice in a step, and no       *)
(* cluster comes back to a cube it has put: the plain puts of opal need no *)
(* lock.                                                                   *)
THEOREM ExclusivePutsHolds == Spec => []ExclusivePuts
<1>1. OwnInv => ExclusivePuts
  <2> SUFFICES ASSUME OwnInv PROVE ExclusivePuts
    OBVIOUS
  <2>1. ASSUME NEW p \in wrote, NEW q \in wrote, p # q
        PROVE  \E d \in Dims : Writes(p.cube, d) \cap Writes(q.cube, d) = {}
    <3>1. /\ p = [by |-> p.by, cube |-> p.cube] /\ q = [by |-> q.by, cube |-> q.cube]
          /\ p.by \in Clusters /\ q.by \in Clusters
          /\ p.cube \in Mine(p.by) /\ q.cube \in Mine(q.by)
      BY DEF OwnInv
    <3>2. p.cube # q.cube
      <4>1. CASE p.by = q.by
        BY <2>1, <3>1, <4>1
      <4>2. CASE p.by # q.by
        BY <3>1, <4>2, Shares DEF OwnInv
      <4>. QED  BY <4>1, <4>2
    <3>3. p.cube \in AllCubes /\ q.cube \in AllCubes /\ lay \in Layouts
      BY <3>1, Shares DEF OwnInv
    <3>. QED  BY <3>2, <3>3, DisjointWrites
  <2>2. ASSUME NEW c \in Clusters, pc[c] # "barrier",
               [by |-> c, cube |-> icube[c]] \in wrote
        PROVE  FALSE
    <3>1. PutAlready(c, icube[c]) /\ icube[c] \in Int
      BY <2>2 DEF OwnInv
    <3>. QED  BY <2>2, <3>1 DEF PutAlready
  <2>. QED  BY <2>1, <2>2 DEF ExclusivePuts
<1>. QED  BY <1>1, OwnInvariant, PTL
-----------------------------------------------------------------------------
(* When the effects of the puts are visible before the barrier ends, the   *)
(* source lattice is wholly at the step, every put in flight belongs to    *)
(* this step, and a cube already put is up to date in the destination      *)
(* lattice or has its put in flight.                                       *)
VersionInv ==
  /\ step \in Nat
  /\ buf = [c \in Clusters |-> buf[c]]
  /\ lattice \in [0 .. 1 -> [AllCubes -> Int]]
  /\ \A k \in AllCubes : lattice[SrcOf(step)][k] = step
  /\ \A c \in Clusters : pc[c] = "put" => buf[c] = {step}
  /\ \A w \in wire : w.step = step /\ w.value = step + 1 /\ w.cube \in AllCubes
  /\ \A c \in Clusters : \A k \in Mine(c) : PutAlready(c, k) =>
       \/ lattice[DstOf(step)][k] = step + 1
       \/ \E w \in wire : w.cube = k

(* A get of a cube reads that cube at least, and cubes of the lattice.     *)
LEMMA GetTouches ==
  ASSUME lay \in Layouts, NEW k \in AllCubes
  PROVE  k \in Touched(k) /\ Touched(k) \subseteq AllCubes
<1>1. ASSUME NEW d \in Dims PROVE Reads(k, d) \cap Writes(k, d) # {}
  <2> DEFINE nb == NbCubes(d)
             len == lay.len[d]
             i == At(k)[d]
  <2>1. nb \in Nat \ {0} /\ len \in Nat \ {0} /\ i \in 0 .. nb - 1
    BY LayoutFacts, Coordinates
  <2>2. Reads(k, d) = RemoteNodes(i, nb, len) /\ Writes(k, d) = PutNodes(i, len)
    BY DEF Reads, Writes
  <2> HIDE DEF nb, len, i
  <2>3. i * len \in Nat
    BY <2>1, CubeBounds
  <2>4. i * len \in RemoteNodes(i, nb, len) /\ i * len \in PutNodes(i, len)
    BY <2>1, <2>3
       DEF RemoteNodes, PutNodes, GetWidth, RemoteBegin, Cutoff, Halo
  <2>. QED  BY <2>2, <2>4
<1>. QED  BY <1>1 DEF Touched

(* At a barrier with no put in flight the destination lattice is wholly    *)
(* at the next step.                                                       *)
LEMMA DstComplete ==
  ASSUME OwnInv, VersionInv, AllArrived, wire = {}, NEW k \in AllCubes
  PROVE  lattice[DstOf(step)][k] = step + 1
<1>1. PICK c \in Clusters : k \in Mine(c)
  BY Shares DEF OwnInv
<1>2. PutAlready(c, k)
  BY DEF PutAlready, AllArrived
<1>. QED  BY <1>1, <1>2 DEF VersionInv

(* The versions are as they should be if the puts land in time.            *)
LEMMA VersionInvariant == ASSUME PutsLandFirst PROVE Spec => []VersionInv
<1>1. Init => VersionInv
  <2> SUFFICES ASSUME Init PROVE VersionInv
    OBVIOUS
  <2>1. Starting
    BY DEF Init, Starting
  <2>2. /\ step = 0 /\ wire = {} /\ SrcOf(step) = 0
        /\ buf = [c \in Clusters |-> {}]
        /\ lattice = [l \in 0 .. 1 |-> [k \in AllCubes |-> IF l = 0 THEN 0 ELSE Mixed]]
    BY DEF Init, SrcOf
  <2>3. \A c \in Clusters : pc[c] # "put"
    BY <2>1 DEF Starting, StartPc
  <2>. QED  BY <2>1, <2>2, <2>3, StartOwns DEF VersionInv, NothingPut, Mixed
<1>2. OwnInv /\ VersionInv /\ OwnInv' /\ [Next]_vars => VersionInv'
  <2> SUFFICES ASSUME OwnInv, VersionInv, OwnInv', [Next]_vars PROVE VersionInv'
    OBVIOUS
  <2>1. ASSUME NEW c \in Clusters, Get(c) PROVE VersionInv'
    <3>1. /\ lay' = lay /\ step' = step /\ icube' = icube /\ wire' = wire
          /\ lattice' = lattice
          /\ pc[c] = "get" /\ pc' = [pc EXCEPT ![c] = "put"]
          /\ buf' = [buf EXCEPT ![c] =
                       {lattice[SrcOf(step)][m] : m \in Touched(icube[c])}]
      BY <2>1 DEF Get
    <3>2. Clusters' = Clusters /\ AllCubes' = AllCubes /\ \A e : Mine(e)' = Mine(e)
      BY <3>1, SameBuild
    <3>3. icube[c] \in AllCubes /\ lay \in Layouts
      BY <3>1, Shares DEF OwnInv
    <3>4. {lattice[SrcOf(step)][m] : m \in Touched(icube[c])} = {step}
      BY <3>3, GetTouches DEF VersionInv
    <3>5. /\ buf' = [e \in Clusters |-> buf'[e]]
          /\ \A e \in Clusters : pc'[e] = "put" => buf'[e] = {step}
      BY <3>1, <3>4 DEF VersionInv, OwnInv
    <3>6. \A e \in Clusters : \A k : PutAlready(e, k)' <=> PutAlready(e, k)
      BY <3>1 DEF PutAlready, OwnInv
    <3>7. SrcOf(step)' = SrcOf(step) /\ DstOf(step)' = DstOf(step)
      BY <3>1 DEF SrcOf, DstOf
    <3>. QED  BY <3>1, <3>2, <3>5, <3>6, <3>7 DEF VersionInv
  <2>2. ASSUME NEW c \in Clusters, Put(c) PROVE VersionInv'
    <3> DEFINE w0 == [by |-> c, cube |-> icube[c], step |-> step, value |-> step + 1]
    <3>1. /\ lay' = lay /\ step' = step /\ buf' = buf /\ lattice' = lattice
          /\ pc[c] = "put" /\ buf[c] = {step}
      BY <2>2 DEF Put, VersionInv
    <3>2. wire' = wire \cup {w0}
      BY <2>2, <3>1 DEF Put
    <3>3. Clusters' = Clusters /\ AllCubes' = AllCubes /\ \A e : Mine(e)' = Mine(e)
      BY <3>1, SameBuild
    <3>4. icube[c] \in AllCubes
      BY <3>1, Shares DEF OwnInv
    <3>5. \A e \in Clusters : \A k \in Mine(e) :
            PutAlready(e, k)' <=> PutAlready(e, k) \/ (e = c /\ k = icube[c])
      BY <2>2, PutOwns
    <3>6. \A e \in Clusters : pc'[e] = "put" => pc[e] = "put"
      BY <2>2 DEF Put, OwnInv
    <3>7. SrcOf(step)' = SrcOf(step) /\ DstOf(step)' = DstOf(step)
      BY <3>1 DEF SrcOf, DstOf
    <3>8. /\ w0.cube = icube[c] /\ w0.step = step /\ w0.value = step + 1
          /\ w0 \in wire'
      BY <3>2
    <3> HIDE DEF w0
    <3>9. \A w \in wire' : w.step = step /\ w.value = step + 1 /\ w.cube \in AllCubes
      BY <3>2, <3>4, <3>8 DEF VersionInv
    <3>10. ASSUME NEW e \in Clusters, NEW k \in Mine(e), PutAlready(e, k)'
           PROVE  \/ lattice[DstOf(step)][k] = step + 1
                  \/ \E w \in wire' : w.cube = k
      BY <3>2, <3>5, <3>8, <3>10 DEF VersionInv
    <3>. QED  BY <3>1, <3>3, <3>6, <3>7, <3>9, <3>10 DEF VersionInv
  <2>3. ASSUME NEW w \in wire, PutVisible(w) PROVE VersionInv'
    <3>1. /\ lay' = lay /\ step' = step /\ pc' = pc /\ icube' = icube /\ buf' = buf
          /\ wire' = wire \ {w} /\ w.cube \in AllCubes
          /\ lattice' = [lattice EXCEPT ![DstOf(step)] = [@ EXCEPT ![w.cube] = step + 1]]
      BY <2>3 DEF PutVisible, VersionInv
    <3>2. Clusters' = Clusters /\ AllCubes' = AllCubes /\ \A e : Mine(e)' = Mine(e)
      BY <3>1, SameBuild
    <3>3. \A e, k : PutAlready(e, k)' <=> PutAlready(e, k)
      BY <3>1 DEF PutAlready
    <3>4. SrcOf(step)' = SrcOf(step) /\ DstOf(step)' = DstOf(step)
      BY <3>1 DEF SrcOf, DstOf
    <3>5. /\ step \in Nat /\ SrcOf(step) \in 0 .. 1 /\ DstOf(step) \in 0 .. 1
          /\ SrcOf(step) # DstOf(step)
      BY Parity DEF VersionInv
    <3>6. /\ lattice' \in [0 .. 1 -> [AllCubes -> Int]]
          /\ lattice'[SrcOf(step)] = lattice[SrcOf(step)]
          /\ \A k \in AllCubes : lattice'[DstOf(step)][k] =
               IF k = w.cube THEN step + 1 ELSE lattice[DstOf(step)][k]
      BY <3>1, <3>5 DEF VersionInv
    <3>7. ASSUME NEW e \in Clusters, NEW k \in Mine(e), PutAlready(e, k)
          PROVE  \/ lattice'[DstOf(step)][k] = step + 1
                 \/ \E v \in wire' : v.cube = k
      <4>1. k \in AllCubes
        BY Shares DEF OwnInv
      <4>. QED  BY <4>1, <3>1, <3>6, <3>7 DEF VersionInv
    <3>. QED  BY <3>1, <3>2, <3>3, <3>4, <3>6, <3>7 DEF VersionInv
  <2>4. CASE Barrier
    <3>1. /\ lay' = lay /\ pc' = StartPc /\ wrote' = {} /\ step' = step + 1
          /\ icube' = [c \in Clusters |-> FirstCube(c)]
          /\ buf' = buf /\ wire' = wire /\ lattice' = lattice
          /\ AllArrived /\ wire = {}
      BY <2>4 DEF Barrier
    <3>2. /\ Clusters' = Clusters /\ AllCubes' = AllCubes
          /\ \A c : FirstCube(c)' = FirstCube(c) /\ StartPc' = StartPc
          /\ \A e : Mine(e)' = Mine(e)
      BY <3>1, SameBuild
    <3>3. Starting'
      BY <3>1, <3>2 DEF OwnInv, Starting
    <3>4. NothingPut'
      BY <3>3, StartOwns, PTL
    <3>5. \A c \in Clusters : pc'[c] # "put"
      BY <3>1 DEF StartPc
    <3>6. \A k \in AllCubes : lattice[DstOf(step)][k] = step + 1
      BY <3>1, DstComplete
    <3>7. SrcOf(step)' = DstOf(step) /\ step \in Nat
      BY <3>1, Parity DEF VersionInv, SrcOf
    <3>. QED  BY <3>1, <3>2, <3>4, <3>5, <3>6, <3>7 DEF VersionInv, NothingPut
  <2>5. CASE UNCHANGED vars
    <3>1. /\ lay' = lay /\ step' = step /\ pc' = pc /\ icube' = icube /\ buf' = buf
          /\ wire' = wire /\ lattice' = lattice
      BY <2>5 DEF vars
    <3>2. Clusters' = Clusters /\ AllCubes' = AllCubes /\ \A e : Mine(e)' = Mine(e)
      BY <3>1, SameBuild
    <3>3. \A e, k : PutAlready(e, k)' <=> PutAlready(e, k)
      BY <3>1 DEF PutAlready
    <3>4. SrcOf(step)' = SrcOf(step) /\ DstOf(step)' = DstOf(step)
      BY <3>1 DEF SrcOf, DstOf
    <3>. QED  BY <3>1, <3>2, <3>3, <3>4 DEF VersionInv
  <2>6. CASE Finished
    BY <2>5, <2>6 DEF Finished
  <2>. QED  BY <2>1, <2>2, <2>3, <2>4, <2>5, <2>6 DEF Next
<1>. QED  BY <1>1, <1>2, OwnInvariant, PTL DEF Spec

(* With the puts visible before the barrier ends, one barrier per step is  *)
(* enough: a cluster never computes a cube from nodes of two steps.        *)
THEOREM ConsistentReadHolds == ASSUME PutsLandFirst PROVE Spec => []ConsistentRead
<1>1. VersionInv => ConsistentRead
  BY DEF VersionInv, ConsistentRead
<1>. QED  BY <1>1, VersionInvariant, PTL

(* Under the same condition every node of the lattice has been updated     *)
(* once the clusters have all arrived and nothing is in flight.            *)
THEOREM LatticeCompleteHolds == ASSUME PutsLandFirst PROVE Spec => []LatticeComplete
<1>1. OwnInv /\ VersionInv => LatticeComplete
  <2> SUFFICES ASSUME OwnInv, VersionInv, AllArrived, wire = {},
                      NEW x \in 0 .. lay.cavity - 1, NEW y \in 0 .. lay.cavity - 1,
                      NEW z \in 0 .. lay.cavity - 1
               PROVE  \E w \in wrote :
                        /\ x \in Writes(w.cube, 1) /\ y \in Writes(w.cube, 2)
                        /\ z \in Writes(w.cube, 3)
                        /\ lattice[DstOf(step)][w.cube] = step + 1
    BY DEF LatticeComplete
  <2>0. lay \in Layouts
    BY DEF OwnInv
  <2>1. PICK k \in AllCubes : /\ x \in Writes(k, 1) /\ y \in Writes(k, 2)
                              /\ z \in Writes(k, 3)
    BY <2>0, CubeOfNode
  <2>2. lattice[DstOf(step)][k] = step + 1
    BY DstComplete
  <2>3. PICK c \in Clusters : k \in Mine(c)
    BY <2>0, Shares
  <2>4. [by |-> c, cube |-> k] \in wrote
    BY <2>3 DEF OwnInv, AllArrived, PutAlready
  <2>. QED  BY <2>1, <2>2, <2>4
<1>. QED  BY <1>1, OwnInvariant, VersionInvariant, PTL

(* Under the same condition the clusters implement the lattice that        *)
(* advances one time step at once.                                         *)
THEOREM ImplementsLbmHolds == ASSUME PutsLandFirst PROVE Spec => ImplementsLbm
<1>1. Init => L!Init
  BY DEF Init, L!Init, SrcOf
<1>2. OwnInv /\ VersionInv /\ [Next]_vars =>
        [L!Advance]_<<step, lattice[SrcOf(step)]>>
  <2> SUFFICES ASSUME OwnInv, VersionInv, [Next]_vars
               PROVE  \/ /\ step' = step + 1
                         /\ lattice'[SrcOf(step')] =
                              [m \in DOMAIN lattice[SrcOf(step)] |-> step + 1]
                      \/ /\ step' = step
                         /\ lattice'[SrcOf(step')] = lattice[SrcOf(step)]
    BY DEF L!Advance, SrcOf
  <2>1. /\ step \in Nat /\ SrcOf(step) \in 0 .. 1 /\ DstOf(step) \in 0 .. 1
        /\ SrcOf(step) # DstOf(step) /\ SrcOf(step + 1) = DstOf(step)
        /\ lattice \in [0 .. 1 -> [AllCubes -> Int]]
    BY Parity DEF VersionInv
  <2>2. CASE Barrier
    <3>1. AllArrived /\ wire = {} /\ step' = step + 1 /\ lattice' = lattice
      BY <2>2 DEF Barrier
    <3>2. \A k \in AllCubes : lattice[DstOf(step)][k] = step + 1
      BY <3>1, DstComplete
    <3>3. lattice[DstOf(step)] = [m \in DOMAIN lattice[SrcOf(step)] |-> step + 1]
      BY <3>2, <2>1
    <3>. QED  BY <3>1, <3>3, <2>1
  <2>3. ASSUME NEW w \in wire, PutVisible(w)
        PROVE  step' = step /\ lattice'[SrcOf(step')] = lattice[SrcOf(step)]
    <3>1. /\ step' = step
          /\ lattice' = [lattice EXCEPT ![DstOf(step)] = [@ EXCEPT ![w.cube] = w.value]]
      BY <2>3 DEF PutVisible, VersionInv
    <3>. QED  BY <3>1, <2>1
  <2>4. ASSUME step' = step, lattice' = lattice
        PROVE  step' = step /\ lattice'[SrcOf(step')] = lattice[SrcOf(step)]
    BY <2>4
  <2>. QED  BY <2>2, <2>3, <2>4 DEF Next, Get, Put, Finished, vars
<1>. QED  BY <1>1, <1>2, OwnInvariant, VersionInvariant, PTL
          DEF Spec, ImplementsLbm, L!Spec
=============================================================================
