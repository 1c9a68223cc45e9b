------------------------------- MODULE MCStream -------------------------------
(***************************************************************************)
(* The three ways of fetching and updating the populations of a node, for  *)
(* TLC: the sweep of a cluster over the nodes of a cavity (Stream), the    *)
(* in-place update of a cube wall by wall (TwoWall), and a work-group of   *)
(* the OpenCL kernel (ClKernel), on a cavity of the same size as Stream,   *)
(* whose masks it reads, with the local memory its items share.            *)
(* A behaviour is one of one of them, as Programs allows; the others stay  *)
(* where they start.                                                       *)
(***************************************************************************)
EXTENDS Stream

CONSTANTS
  Programs,                      \* of {"cluster", "walls", "device"}
  NbCores, LenY, LenZ, NbCubes,  \* the in-place update, as in TwoWall
  Nx, Ny, WgSize                 \* the work-group, as in ClKernel

VARIABLES
  program,                       \* the program that runs
  icube, place, yl, rows, tmp,   \* of TwoWall; pc is place, src is rows
  group, pc, i, localf           \* of ClKernel

walls == <<icube, place, yl, rows, tmp>>
item  == <<group, pc, i, localf>>
all   == <<vars, walls, item, program>>

Tw == INSTANCE TwoWall WITH pc <- place, src <- rows
Cl == INSTANCE ClKernel
ASSUME WallAssumption == Tw!SizeAssumption
ASSUME ClAssumption   == Cl!GroupAssumption

AllInit == program \in Programs /\ Init /\ Tw!Init /\ Cl!Init

Cluster(A) == program = "cluster" /\ A /\ UNCHANGED <<walls, item, program>>
Inplace(A) == program = "walls" /\ A /\ UNCHANGED <<vars, item, program>>
Device(A)  == program = "device" /\ A /\ UNCHANGED <<vars, walls, program>>

AllNext == Cluster(Next) \/ Inplace(Tw!Next) \/ Device(Cl!Next)

AllSpec == AllInit /\ [][AllNext]_all
-----------------------------------------------------------------------------
(* Each population that an item of a work-group sums up or stores comes    *)
(* from the fetch of its row, once that is over, or is the result of an    *)
(* item with the same row (compute.cl:565, 660, 760).                      *)
RowOfOneColumn == Cl!RowOfOneColumn /\ Cl!StoresOwnColumn

(* While a PE updates a wall in place, that wall is in tmp_wall as it was  *)
(* fetched, in its plane and in those around it (compute_inplace.c:41).    *)
CurrentWallKept == Tw!CurrentWallKept

(* The next wall, which it reads in the buffer, nobody has updated yet.    *)
NextWallNotUpdated == Tw!NextWallNotUpdated

(* In its own plane it finds the wall before in the other tmp_wall.        *)
OwnPreviousWallKept == Tw!OwnPreviousWallKept

(* When the PEs have left collide_cube the whole cube has been updated,    *)
(* and nothing around it.                                                  *)
CubeUpdated == Tw!CubeUpdated
=============================================================================
