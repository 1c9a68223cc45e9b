--------------------------------- MODULE Lbm ---------------------------------
(***************************************************************************)
(* What the compute phases of opal promise, seen from outside: the lattice *)
(* advances one time step at once.  field gives, for every cube of the     *)
(* lattice the next step reads from, the number of time steps it has been  *)
(* through.                                                                *)
(***************************************************************************)
EXTENDS Integers

VARIABLES time, field

Init == time = 0 /\ \A m \in DOMAIN field : field[m] = 0

(* Every cube is computed from a lattice that is wholly at time.           *)
Advance ==
  /\ time'  = time + 1
  /\ field' = [m \in DOMAIN field |-> time + 1]

Spec == Init /\ [][Advance]_<<time, field>>
=============================================================================
