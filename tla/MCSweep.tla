------------------------------- MODULE MCSweep -------------------------------
(***************************************************************************)
(* Small builds of opal for TLC.                                           *)
(***************************************************************************)
EXTENDS Sweep

(* Three clusters share 8 = 3*2 + 2 cubes: two of them have a trailing one. *)
Uneven == [cavity |-> 2, len |-> <<1, 1, 1>>, clusters |-> 3]

(* Two clusters share 2 * 3 * 2 cubes: no trailing cube, the dimensions    *)
(* differ, and y has an inner cube, with a halo on both sides.             *)
Even == [cavity |-> 6, len |-> <<3, 2, 3>>, clusters |-> 2]

BothBuilds == {Uneven, Even}
EvenBuild  == {Even}
=============================================================================
