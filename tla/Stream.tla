-------------------------------- MODULE Stream --------------------------------
(***************************************************************************)
(* Streaming in collide_cube (src/opal/src_bare_async/cluster/compute.c:98 *)
(* and the copies of these lines in compute_common.c and compute_inplace.c)*)
(* A node of the cavity has 19 populations, one at rest and one for each   *)
(* link.  In a time step a PE fetches, for each node of its plane, the     *)
(* population i from the node it comes from ("pull"), or, where the link   *)
(* goes through a wall, takes the opposite population of the node itself   *)
(* ("bounce-back").  Which links go through a wall is read from the bits   *)
(* of a mask that getGeometry assembles.                                   *)
(*                                                                         *)
(* A population is <<node, link>>; the floating point value it carries is  *)
(* abstracted to where it comes from.  The cavity is one cube here; Sweep  *)
(* shows that a cube and its halo are fetched as if it were.               *)
(***************************************************************************)
EXTENDS Integers

CONSTANTS Lx, Ly, Lz   \* Config->Lx, Ly, Lz

ASSUME SizeAssumption == Lx \in Nat \ {0} /\ Ly \in Nat \ {0} /\ Lz \in Nat \ {0}

(* All three are CAVITY (config.c:61); that the lid, which the code takes  *)
(* to be the plane z == Lx-1, is a wall at all depends on it.              *)
ASSUME LidAssumption == Lx = Lz

Nodes == (0 .. Lx - 1) \X (0 .. Ly - 1) \X (0 .. Lz - 1)
Links == 0 .. 18
PEs   == 0 .. Lz - 1    \* the PE of plane z = pid

(* Seeded faults: what a plausible slip would make of the definition each  *)
(* is named after; no behaviour of Spec uses them.                         *)
Fault_Opposite     == <<2, 1, 4, 3, 6, 5, 8, 7, 10, 9, 12, 11, 14, 13, 16, 15,
                        18, 17>>
Fault_Pushed(i)    == IF i = 11 THEN 1 ELSE IF i = 12 THEN -1 ELSE 0

(* The population that comes along link i >= 1: the bit of the mask it     *)
(* depends on, which is also the population reflected into it ...          *)
Opposite == <<2, 1, 4, 3, 6, 5, 10, 9, 8, 7, 14, 13, 12, 11, 18, 17, 16, 15>>

(* ... and where it is pulled from otherwise, relative to the node.        *)
Pull == << <<-1, 0, 0>>,   <<1, 0, 0>>,   <<0, -1, 0>>,  <<0, 1, 0>>,
           <<0, 0, -1>>,   <<0, 0, 1>>,   <<-1, -1, 0>>, <<1, -1, 0>>,
           <<-1, 1, 0>>,   <<1, 1, 0>>,   <<-1, 0, -1>>, <<1, 0, -1>>,
           <<-1, 0, 1>>,   <<1, 0, 1>>,   <<0, -1, -1>>, <<0, 1, -1>>,
           <<0, -1, 1>>,   <<0, 1, 1>> >>

(* The bits that are set in each wall mask (global.h).                     *)
W1 == {1, 7, 9, 11, 13}      \* G_W1 0x001541
W2 == {2, 8, 10, 12, 14}     \* G_W2 0x002A82
W3 == {3, 7, 8, 15, 17}      \* G_W3 0x0140C4
W4 == {4, 9, 10, 16, 18}     \* G_W4 0x028308
W5 == {5, 11, 12, 15, 16}    \* G_W5 0x00CC10
W6 == {6, 13, 14, 17, 18}    \* G_W6 0x033020

(* getGeometry                                                             *)
Geometry(n) ==
  UNION {IF n[1] = Lx - 1 THEN W1 ELSE {}, IF n[1] = 0 THEN W2 ELSE {},
         IF n[2] = Ly - 1 THEN W3 ELSE {}, IF n[2] = 0 THEN W4 ELSE {},
         IF n[3] = Lz - 1 THEN W5 ELSE {}, IF n[3] = 0 THEN W6 ELSE {}}

Shift(n, v) == <<n[1] + v[1], n[2] + v[2], n[3] + v[3]>>

(* Where the population i of node n comes from.  Off the boundary no bit   *)
(* is set and the code goes straight to the second half.                   *)
Origin(n, i) ==
  IF i = 0 THEN <<n, 0>>
  ELSE IF Opposite[i] \in Geometry(n) THEN <<n, Opposite[i]>>
  ELSE <<Shift(n, Pull[i]), i>>

(* "Imposed lid velocity": a boundary node of the plane z == Lx-1 gets a   *)
(* push along x, f[13] += k0 and f[14] -= k0.                              *)
Lid(n)     == n[3] = Lx - 1 /\ Geometry(n) # {}
Pushed(i)  == IF i = 13 THEN 1 ELSE IF i = 14 THEN -1 ELSE 0
Push(n, i) == IF Lid(n) THEN Pushed(i) ELSE 0
-----------------------------------------------------------------------------
VARIABLES
  at,    \* <<x, y>> of the node each PE is at
  f      \* node -> link -> what the node has gathered, for the nodes done

vars == <<at, f>>

Init ==
  /\ at = [p \in PEs |-> <<0, 0>>]
  /\ f  = [n \in {} |-> {}]

(* for y, for x: x is the inner loop.                                      *)
NextNode(a) == IF a[1] + 1 < Lx THEN <<a[1] + 1, a[2]>> ELSE <<0, a[2] + 1>>

Gather(n) == [i \in Links |-> [from |-> Origin(n, i), push |-> Push(n, i)]]

Collide(p) ==
  LET n == <<at[p][1], at[p][2], p>> IN
  /\ at[p][2] < Ly
  /\ f'  = [m \in DOMAIN f \cup {n} |-> IF m = n THEN Gather(n) ELSE f[m]]
  /\ at' = [at EXCEPT ![p] = NextNode(@)]

Done     == \A p \in PEs : at[p][2] = Ly
Finished == Done /\ UNCHANGED vars

Next == (\E p \in PEs : Collide(p)) \/ Finished
Spec == Init /\ [][Next]_vars
-----------------------------------------------------------------------------
(***************************************************************************)
(* Properties.                                                             *)
(***************************************************************************)

(* The velocity of a population as the moments see it: the signs it has in *)
(* the sums jx, jy and jz (compute.c:160).                                 *)
Sign(i, plus, minus) == IF i \in plus THEN 1 ELSE IF i \in minus THEN -1 ELSE 0
Velocity(i) == << Sign(i, {1, 7, 9, 11, 13}, {2, 8, 10, 12, 14}),
                  Sign(i, {3, 7, 8, 15, 17}, {4, 9, 10, 16, 18}),
                  Sign(i, {5, 11, 12, 15, 16}, {6, 13, 14, 17, 18}) >>
Minus(v) == <<-v[1], -v[2], -v[3]>>

(* Every variable has its type.  In particular nothing is fetched from     *)
(* outside the cavity, where the buffer of a cube at the boundary holds    *)
(* what a former cube has left.                                            *)
TypeOK ==
  /\ at \in [PEs -> (0 .. Lx - 1) \X (0 .. Ly)]
  /\ DOMAIN f \subseteq Nodes
  /\ \A n \in DOMAIN f :
       f[n] \in [Links -> [from : Nodes \X Links, push : -1 .. 1]]

(* A population moves by its velocity, or, where that would take it out of *)
(* the cavity, comes back to its node with the opposite velocity.  So none *)
(* is lost and none doubled: each goes to exactly one place.               *)
MovesByVelocity ==
  \A n \in DOMAIN f : \A i \in Links :
    LET back == Shift(n, Minus(Velocity(i)))
        from == f[n][i].from
    IN
    IF back \in Nodes THEN from = <<back, i>>
    ELSE from[1] = n /\ Velocity(from[2]) = Minus(Velocity(i))

(* The lid moves: it pushes the populations it has just reflected, no      *)
(* others, forward along x those that leave it forward, back the others.   *)
LidPushesReflected ==
  \A n \in DOMAIN f : \A i \in Links : f[n][i].push # 0 =>
    /\ n[3] = Lz - 1
    /\ f[n][i].from[1] = n
    /\ Velocity(i)[3] = -1
    /\ Velocity(i)[1] = f[n][i].push
=============================================================================
