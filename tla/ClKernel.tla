-------------------------------- MODULE ClKernel --------------------------------
(***************************************************************************)
(* One work-group of the kernel compute of the OpenCL implementation       *)
(* (src/opal/src/compute.cl:547, the branch that is compiled).  The item   *)
(* with local id 0 fetches populations for the whole line of nodes into    *)
(* the rows of localf, in local memory; after a barrier each item computes *)
(* the moments from its row, overwrites the row with the new populations   *)
(* and stores these.  A row belongs to a local id in x: the items of the   *)
(* other lines of the group that have the same one share it.               *)
(*                                                                         *)
(* As in Stream a population is <<node, link>> and stands for the value    *)
(* that comes from there.  The group is a line of Nx by Ny items in one    *)
(* plane z; its position in the cavity is arbitrary.                       *)
(***************************************************************************)
EXTENDS Integers

CONSTANTS
  Lx, Ly,   \* the cavity
  Nx, Ny,   \* Config->Nx, Ny: the work-group
  WgSize    \* WG_SIZE, the rows of localf

(* What getConfig accepts (config.c:163, 173), and a row for every item:   *)
(* an item whose local id is WG_SIZE or more works outside of localf.      *)
GroupAssumption == /\ Nx \in Nat \ {0} /\ Ny \in Nat \ {0}
                   /\ Lx % Nx = 0 /\ Ly % Ny = 0
                   /\ WgSize \in Nat /\ Nx <= WgSize

Items == (0 .. Nx - 1) \X (0 .. Ny - 1)
Rows  == 0 .. WgSize - 1
Links == 0 .. 18
Unset == << <<-1, -1, -1>>, 0>>

VARIABLES
  group,    \* the node of the item <<0, 0>>
  pc,       \* where each item is in the kernel
  i,        \* loop variable of the items with local id 0
  localf    \* row -> link -> population

vars == <<group, pc, i, localf>>

(* The masks (global.cl) and getGeometry (geometry.cl) are those of Stream.*)
S == INSTANCE Stream WITH Lz <- Lx, at <- pc, f <- localf

(* Seeded faults: what a plausible slip would make of the definition each  *)
(* is named after; no behaviour of Spec uses them.                         *)
Fault_Arrived(t)  == pc[t] # "fetch" \/ i[t] > 0
-----------------------------------------------------------------------------
Node(t) == <<group[1] + t[1], group[2] + t[2], 0>>

(* int lid = get_local_id(0)                                               *)
Row(t) == t[1]

(* The first line of the fetch, and its loop; the others are commented     *)
(* out.  The mask is of node x+i, but the address Src is of node x.        *)
Fetched == {3, 7, 8}
FetchedFor(t, k) ==
  [p \in Fetched |->
     IF S!Opposite[p] \in S!Geometry(S!Shift(Node(t), <<k, 0, 0>>))
     THEN <<Node(t), S!Opposite[p]>>
     ELSE <<S!Shift(Node(t), S!Pull[p]), p>>]
AfterRow(k) == k + 1
MoreRows(k) == k < WgSize

Init ==
  /\ group \in {<<x, y>> : x \in {a \in 0 .. Lx - 1 : a % Nx = 0},
                           y \in {b \in 0 .. Ly - 1 : b % Ny = 0}}
  /\ pc     = [t \in Items |-> IF Row(t) = 0 THEN "fetch" ELSE "barrier"]
  /\ i      = [t \in Items |-> 0]
  /\ localf = [k \in Rows |-> [p \in Links |-> Unset]]

Goto(t, label) == pc' = [pc EXCEPT ![t] = label]

Fetch(t) ==
  /\ pc[t] = "fetch"
  /\ localf' = [localf EXCEPT ![i[t]] = [p \in Links |->
                  IF p \in Fetched THEN FetchedFor(t, i[t])[p] ELSE @[p]]]
  /\ i' = [i EXCEPT ![t] = AfterRow(@)]
  /\ Goto(t, IF MoreRows(AfterRow(i[t])) THEN "fetch" ELSE "barrier")
  /\ UNCHANGED group

(* barrier(CLK_LOCAL_MEM_FENCE)                                            *)
Arrived(t) == pc[t] = "barrier"
Barrier ==
  /\ \A t \in Items : Arrived(t)
  /\ pc' = [t \in Items |-> "moments"]
  /\ UNCHANGED <<group, i, localf>>

(* The moments are sums over the row.                                      *)
Moments(t) ==
  /\ pc[t] = "moments"
  /\ Goto(t, "update")
  /\ UNCHANGED <<group, i, localf>>

(* The new populations go to the row, and from there to the destination.   *)
Update(t) ==
  /\ pc[t] = "update"
  /\ localf' = [localf EXCEPT ![Row(t)] = [p \in Links |-> <<Node(t), p>>]]
  /\ Goto(t, "store")
  /\ UNCHANGED <<group, i>>

Store(t) ==
  /\ pc[t] = "store"
  /\ Goto(t, "done")
  /\ UNCHANGED <<group, i, localf>>

Finished == (\A t \in Items : pc[t] = "done") /\ UNCHANGED vars

Item(t) == Fetch(t) \/ Moments(t) \/ Update(t) \/ Store(t)
Next == Barrier \/ Finished \/ \E t \in Items : Item(t)
Spec == Init /\ [][Next]_vars

-----------------------------------------------------------------------------
(***************************************************************************)
(* Properties.                                                             *)
(***************************************************************************)

(* Every variable has its type.                                            *)
TypeOK ==
  /\ group \in (0 .. Lx - 1) \X (0 .. Ly - 1)
  /\ pc \in [Items -> {"fetch", "barrier", "moments", "update", "store", "done"}]
  /\ i \in [Items -> 0 .. WgSize]
  /\ \A k \in Rows : \A p \in Links : localf[k][p] \in
       ((-1 .. Lx) \X (-1 .. Ly) \X {-1, 0}) \X Links

(* What the fetch of line y leaves in row k, and the items that share it.  *)
FetchedRow(y, k) ==
  [p \in Links |-> IF p \in Fetched THEN FetchedFor(<<0, y>>, k)[p] ELSE Unset]
Column(t) == {u \in Items : Row(u) = Row(t)}

(* Each of the 19 populations that an item sums up is what the fetch of a  *)
(* line of the group left in its row, the 16 that no line fetches unset,   *)
(* or else the result of another item that shares the row: the fetch is    *)
(* over, and nothing of another row comes in (compute.cl:660 to 680).      *)
RowOfOneColumn ==
  \A t \in Items : pc[t] = "moments" => \A p \in Links :
    \/ \E y \in 0 .. Ny - 1 : localf[Row(t)][p] = FetchedRow(y, Row(t))[p]
    \/ \E u \in Column(t) \ {t} : localf[Row(t)][p] = <<Node(u), p>>

(* What an item stores is the result of an item of its column: its own     *)
(* node if it shares its row with nobody (compute.cl:760).                 *)
StoresOwnColumn ==
  \A t \in Items : pc[t] = "store" => \A p \in Links :
    \E u \in Column(t) : localf[Row(t)][p] = <<Node(u), p>>

(* "Fetch source density distribution" (compute.cl:575), for the node that *)
(* the item is at: that what it sums up, as far as fetched, was fetched in *)
(* its own line does not hold in a group of several (cl_shared_row.cfg).   *)
RowOfOneItem ==
  \A t \in Items : pc[t] = "moments" =>
    \A p \in Fetched : localf[Row(t)][p] = FetchedRow(t[2], Row(t))[p]

(* "Local density distribution" (compute.cl:564): every population the     *)
(* moments are the sum of has been fetched: this does not hold             *)
(* (cl_fetch_some.cfg).                                                    *)
AllFetched ==
  \A t \in Items : pc[t] = "moments" =>
    \A p \in Links : localf[Row(t)][p] # Unset

(* "Fetch source density distribution" (compute.cl:575): what is fetched   *)
(* for a node comes from where it streams to this node from: this does not *)
(* hold (cl_fetch_node.cfg).                                               *)
FetchedForOwnNode ==
  \A t \in Items : pc[t] = "moments" =>
    \A p \in Fetched : localf[Row(t)][p] = S!Origin(Node(t), p)

=============================================================================
