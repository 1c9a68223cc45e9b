------------------------------- MODULE TwoWall -------------------------------
(***************************************************************************)
(* collide_cube of the in-place build                                      *)
(* (src/opal/src_bare_async/cluster/compute_inplace.c): the PEs update a   *)
(* cube where it lies, wall by wall along y, and keep in tmp_wall the two  *)
(* walls whose old value a neighbour still needs.                          *)
(*                                                                         *)
(* PE pid owns plane zl = pid + 1 of the cube; plane 0, plane LenZ + 1 and *)
(* walls 0 and LenY + 1 are the halo.  A row (z, y) is one wall of one     *)
(* plane, all x and all Q densities together; what matters of it is which  *)
(* cube and wall it holds, and whether it has been updated.                *)
(***************************************************************************)
EXTENDS Integers, FiniteSets

CONSTANTS
  NbCores, \* NB_CORES, the PEs that run the routine
  LenY,    \* CUBE_LENGTH_Y
  LenZ,    \* CUBE_LENGTH_Z
  NbCubes  \* cubes computed one after the other (bounds the model)

(* MCStream assumes it.                                                   *)
SizeAssumption ==
  /\ LenY \in Nat \ {0} /\ NbCubes \in Nat \ {0}
  /\ LenZ \in Nat /\ LenZ >= 2          \* 8 or 16 in the builds
  /\ NbCores \in Nat /\ NbCores >= LenZ  \* every plane has its PE

VARIABLES
  icube, \* the cube in the buffer
  pc,    \* where each PE is in collide_cube
  yl,    \* yl of each PE
  src,   \* async_buffers_src[ibuf], by row
  tmp    \* tmp_wall[2][zl]

vars == <<icube, pc, yl, src, tmp>>
-----------------------------------------------------------------------------
PEs    == 0 .. NbCores - 1
Planes == 0 .. LenZ + 1
Walls  == 0 .. LenY + 1

Row(c, y, age) == [cube |-> c, wall |-> y, age |-> age]
NoRow          == Row(0, 0, "none")
Fetched(c)     == [z \in Planes |-> [y \in Walls |-> Row(c, y, "old")]]

(* pid < CUBE_LENGTH_Z; the other PEs only meet the barriers.              *)
Works(p) == p < LenZ

(* Seeded faults.  Each is what a plausible slip in the code would make of *)
(* the definition it is named after; no behaviour of Spec uses them.       *)
Fault_WallOf(y)  == 0
Fault_RowsOf(p)  == {p + 1}
Fault_Arrived(p) == p # 0 => pc[p] = "barrier"
Fault_LastWall   == LenY - 1

(* yl & 1                                                                  *)
WallOf(y) == y % 2

(* The rows copy_current_wall copies for pid: its own, and for the first   *)
(* and the last PE the halo row next to it.                                *)
RowsOf(p) ==
  {p + 1} \cup (IF p = 0 THEN {0} ELSE IF p = LenZ - 1 THEN {LenZ + 1} ELSE {})

Copied(p, y) ==
  [tmp EXCEPT ![WallOf(y)] =
     [z \in Planes |-> IF z \in RowsOf(p) THEN src[z][y] ELSE @[z]]]

LastWall == LenY

Init ==
  /\ icube = 0
  /\ pc    = [p \in PEs |-> "first"]
  /\ yl    = [p \in PEs |-> 1]
  /\ src   = Fetched(0)
  /\ tmp   = [w \in 0 .. 1 |-> [z \in Planes |-> NoRow]]

Goto(p, label) == pc' = [pc EXCEPT ![p] = label]
-----------------------------------------------------------------------------
(* copy_current_wall(0, pid, ibuf)                                         *)
CopyFirst(p) ==
  /\ pc[p] = "first"
  /\ tmp' = IF Works(p) THEN Copied(p, 0) ELSE tmp
  /\ Goto(p, "copy")
  /\ UNCHANGED <<icube, yl, src>>

(* copy_current_wall(yl, pid, ibuf), at the head of the loop on yl.        *)
Copy(p) ==
  /\ pc[p] = "copy"
  /\ tmp' = IF Works(p) THEN Copied(p, yl[p]) ELSE tmp
  /\ Goto(p, "barrier")
  /\ UNCHANGED <<icube, yl, src>>

(* local_barrier()                                                         *)
Arrived(p) == pc[p] = "barrier"

LocalBarrier ==
  /\ \A p \in PEs : Arrived(p)
  /\ pc' = [p \in PEs |-> "update"]
  /\ UNCHANGED <<icube, yl, src, tmp>>

(* From "update" to the end of this action the PE reads the rows it needs  *)
(* and overwrites its row of wall yl; then it goes on to the next wall, or *)
(* out of collide_cube.                                                    *)
Update(p) ==
  /\ pc[p] = "update"
  /\ src' = IF Works(p)
            THEN [src EXCEPT ![p + 1] =
                    [@ EXCEPT ![yl[p]] = Row(icube, yl[p], "new")]]
            ELSE src
  /\ yl' = [yl EXCEPT ![p] = @ + 1]
  /\ Goto(p, IF yl[p] < LastWall THEN "copy" ELSE "leave")
  /\ UNCHANGED <<icube, tmp>>

(* The barrier after collide_cube; PE0 sends the cube off and another one  *)
(* has arrived when the PEs pass the barrier before collide_cube.          *)
NextCube ==
  /\ \A p \in PEs : pc[p] = "leave"
  /\ icube + 1 < NbCubes
  /\ icube' = icube + 1
  /\ pc'  = [p \in PEs |-> "first"]
  /\ yl'  = [p \in PEs |-> 1]
  /\ src' = Fetched(icube + 1)
  /\ UNCHANGED tmp

Finished ==
  (\A p \in PEs : pc[p] = "leave") /\ icube + 1 = NbCubes /\ UNCHANGED vars

Next ==
  \/ \E p \in PEs : CopyFirst(p) \/ Copy(p) \/ Update(p)
  \/ LocalBarrier
  \/ NextCube
  \/ Finished

Spec == Init /\ [][Next]_vars
-----------------------------------------------------------------------------
(***************************************************************************)
(* Properties.                                                             *)
(***************************************************************************)
Rows == {Row(c, y, a) : c \in 0 .. NbCubes - 1, y \in Walls, a \in {"old", "new"}}

(* Every variable has its type, and no PE is past the last wall.           *)
TypeOK ==
  /\ icube \in 0 .. NbCubes - 1
  /\ pc \in [PEs -> {"first", "copy", "barrier", "update", "leave"}]
  /\ yl \in [PEs -> 1 .. LenY + 1]
  /\ src \in [Planes -> [Walls -> Rows]]
  /\ tmp \in [0 .. 1 -> [Planes -> Rows \cup {NoRow}]]

Updating(p) == pc[p] = "update" /\ Works(p)
Around(p)   == {p, p + 1, p + 2}  \* zl - 1, zl, zl + 1

(* A PE takes the densities of its own wall, and of the planes around it,  *)
(* from tmp_wall[yl & 1]: they are there, and not yet updated, whatever    *)
(* the other PEs have done to the buffer meanwhile.                        *)
CurrentWallKept ==
  \A p \in PEs : Updating(p) =>
    \A z \in Around(p) : tmp[WallOf(yl[p])][z] = Row(icube, yl[p], "old")

(* The next wall is read in the buffer itself: nobody has updated it yet.  *)
NextWallNotUpdated ==
  \A p \in PEs : Updating(p) =>
    \A z \in Around(p) : src[z][yl[p] + 1] = Row(icube, yl[p] + 1, "old")

(* In its own plane a PE finds the previous wall in the other tmp_wall.    *)
OwnPreviousWallKept ==
  \A p \in PEs : Updating(p) =>
    tmp[WallOf(yl[p] - 1)][p + 1] = Row(icube, yl[p] - 1, "old")

(* When the PEs have left collide_cube, what PE0 puts back is the whole    *)
(* updated cube, and the halo around it is as it was fetched.              *)
CubeUpdated ==
  (\A p \in PEs : pc[p] = "leave") =>
    \A z \in Planes, y \in Walls :
      src[z][y] = Row(icube, y, IF z \in 1 .. LenZ /\ y \in 1 .. LenY
                                THEN "new" ELSE "old")

(* "Copy the wall y ... into tmp_wall before doing in-place update"        *)
(* (compute_inplace.c:41): the previous wall a PE reads in the planes next *)
(* to its own is in the other tmp_wall while it reads it.                  *)
PreviousWallKept ==
  \A p \in PEs : Updating(p) =>
    \A z \in Around(p) :
      tmp[WallOf(yl[p] - 1)][z] = Row(icube, yl[p] - 1, "old")
=============================================================================
