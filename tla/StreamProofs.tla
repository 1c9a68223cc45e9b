----------------------------- MODULE StreamProofs -----------------------------
(***************************************************************************)
(* Streaming moves every population by its velocity, and the lid pushes    *)
(* what it reflects, in a cavity of any size (module Stream).              *)
(*                                                                         *)
(* The hand-written tables of collide_cube (where link q is pulled from,   *)
(* which bit stops it, which population comes back) are shown once, link   *)
(* by link, to say the same thing as the signs in the moments (LinkTable,  *)
(* WallBits).  What a node gathers then follows by arithmetic, and the     *)
(* invariant only says that a node that is done has gathered it.           *)
(*                                                                         *)
(* The last part is about the OpenCL kernel, which fetches by the same     *)
(* masks for a whole line of items (module ClKernel, as Cl in MCStream): a *)
(* work-group of any shape, anywhere in the cavity, does not mix the rows  *)
(* of its items, apart from those that the items share.                    *)
(***************************************************************************)
EXTENDS MCStream, TLAPS

(* The masks of the six walls hold the links whose velocity goes into the  *)
(* wall, and a link goes at most one way along an axis.                    *)
LEMMA WallBits ==
  ASSUME NEW j \in Links
  PROVE  /\ j \in W1 <=> Velocity(j)[1] = 1
         /\ j \in W2 <=> Velocity(j)[1] = -1
         /\ j \in W3 <=> Velocity(j)[2] = 1
         /\ j \in W4 <=> Velocity(j)[2] = -1
         /\ j \in W5 <=> Velocity(j)[3] = 1
         /\ j \in W6 <=> Velocity(j)[3] = -1
         /\ Velocity(j) \in (-1 .. 1) \X (-1 .. 1) \X (-1 .. 1)
<1>1. /\ W1 \cap W2 = {} /\ W3 \cap W4 = {} /\ W5 \cap W6 = {}
  BY DEF W1, W2, W3, W4, W5, W6
<1>2. Velocity(j) = << Sign(j, W1, W2), Sign(j, W3, W4), Sign(j, W5, W6) >>
  BY DEF Velocity, W1, W2, W3, W4, W5, W6
<1>3. \A plus, minus : /\ Sign(j, plus, minus) \in -1 .. 1
                       /\ j \in plus <=> Sign(j, plus, minus) = 1
                       /\ plus \cap minus = {} =>
                            (j \in minus <=> Sign(j, plus, minus) = -1)
  BY DEF Sign
<1>. QED  BY <1>1, <1>2, <1>3

(* The tables of collide_cube agree with the velocities: population q is   *)
(* pulled from where its velocity takes it away from, and the population   *)
(* reflected into it goes the other way.                                   *)
LEMMA LinkTable ==
  ASSUME NEW q \in Links, q # 0
  PROVE  /\ Opposite[q] \in Links \ {0}
         /\ Pull[q] = Minus(Velocity(q))
         /\ Velocity(Opposite[q]) = Minus(Velocity(q))
         /\ Opposite[Opposite[q]] = q
<1>1. q \in 1 .. 18
  BY DEF Links
<1>2. CASE q \in 1 .. 6
  BY <1>2 DEF Links, Opposite, Pull, Velocity, Minus, Sign
<1>3. CASE q \in 7 .. 10
  BY <1>3 DEF Links, Opposite, Pull, Velocity, Minus, Sign
<1>4. CASE q \in 11 .. 14
  BY <1>4 DEF Links, Opposite, Pull, Velocity, Minus, Sign
<1>5. CASE q \in 15 .. 18
  BY <1>5 DEF Links, Opposite, Pull, Velocity, Minus, Sign
<1>. QED  BY <1>1, <1>2, <1>3, <1>4, <1>5

(* The population at rest does not move.                                   *)
LEMMA RestStays ==
  /\ Velocity(0) = <<0, 0, 0>>
  /\ Minus(Velocity(0)) = <<0, 0, 0>>
  /\ \A n \in Nodes : Shift(n, Minus(Velocity(0))) = n
<1>1. Velocity(0) = <<0, 0, 0>>
  <2>1. \A plus, minus : 0 \notin plus /\ 0 \notin minus => Sign(0, plus, minus) = 0
    BY DEF Sign
  <2>. QED  BY <2>1 DEF Velocity
<1>3. Minus(Velocity(0)) = <<0, 0, 0>>
  <2>1. \A k \in Int : k >= 0 /\ k <= 0 => -k = k
    OBVIOUS
  <2>2. ASSUME NEW v, v = <<0, 0, 0>> PROVE Minus(v) = v
    <3>1. \A c \in 1 .. 3 : v[c] \in Int /\ v[c] >= 0 /\ v[c] <= 0
      BY <2>2
    <3>2. -v[1] = v[1] /\ -v[2] = v[2] /\ -v[3] = v[3]
      BY <2>1, <3>1
    <3>. QED  BY <2>2, <3>2 DEF Minus
  <2>. QED  BY <1>1, <2>2
<1>2. ASSUME NEW n \in Nodes PROVE Shift(n, <<0, 0, 0>>) = n
  <2>1. n = <<n[1], n[2], n[3]>> /\ n[1] \in Int /\ n[2] \in Int /\ n[3] \in Int
    BY DEF Nodes
  <2>2. Shift(n, <<0, 0, 0>>) = <<n[1], n[2], n[3]>>
    BY <2>1 DEF Shift
  <2>. QED  BY <2>1, <2>2
<1>. QED  BY <1>1, <1>2, <1>3

(* The bit of a link is set in the mask of a node when, and only when,     *)
(* pulling the population would leave the cavity.                          *)
LEMMA BitStopsOutside ==
  ASSUME NEW n \in Nodes, NEW q \in Links, q # 0
  PROVE  Opposite[q] \in Geometry(n) <=> Shift(n, Pull[q]) \notin Nodes
<1> DEFINE o == Opposite[q]
           v == Velocity(o)
<1>1. o \in Links /\ Pull[q] = v
  BY LinkTable
<1>2. /\ o \in W1 <=> v[1] = 1
      /\ o \in W2 <=> v[1] = -1
      /\ o \in W3 <=> v[2] = 1
      /\ o \in W4 <=> v[2] = -1
      /\ o \in W5 <=> v[3] = 1
      /\ o \in W6 <=> v[3] = -1
      /\ v \in (-1 .. 1) \X (-1 .. 1) \X (-1 .. 1)
  BY <1>1, WallBits
<1> HIDE DEF o, v
<1>3. n[1] \in 0 .. Lx - 1 /\ n[2] \in 0 .. Ly - 1 /\ n[3] \in 0 .. Lz - 1
  BY DEF Nodes
<1>4. v[1] \in -1 .. 1 /\ v[2] \in -1 .. 1 /\ v[3] \in -1 .. 1
  BY <1>2
<1>5. o \in Geometry(n) <=>
        \/ n[1] = Lx - 1 /\ v[1] = 1
        \/ n[1] = 0      /\ v[1] = -1
        \/ n[2] = Ly - 1 /\ v[2] = 1
        \/ n[2] = 0      /\ v[2] = -1
        \/ n[3] = Lz - 1 /\ v[3] = 1
        \/ n[3] = 0      /\ v[3] = -1
  BY <1>2 DEF Geometry
<1>6. Shift(n, v) \in Nodes <=>
        /\ n[1] + v[1] \in 0 .. Lx - 1
        /\ n[2] + v[2] \in 0 .. Ly - 1
        /\ n[3] + v[3] \in 0 .. Lz - 1
  BY DEF Shift, Nodes
<1>7. Shift(n, v) \in Nodes <=> ~ (o \in Geometry(n))
  BY <1>3, <1>4, <1>5, <1>6, SizeAssumption
<1>. QED  BY <1>1, <1>7 DEF o

(* What MovesByVelocity says of one population of one node.                *)
Moved(from, n, q) ==
  LET back == Shift(n, Minus(Velocity(q))) IN
  IF back \in Nodes THEN from = <<back, q>>
  ELSE from[1] = n /\ Velocity(from[2]) = Minus(Velocity(q))

(* What collide_cube fetches for a node is a population of a node of the   *)
(* cavity, moved by its velocity.                                          *)
LEMMA OriginMoves ==
  ASSUME NEW n \in Nodes, NEW q \in Links
  PROVE  /\ Origin(n, q) \in Nodes \X Links
         /\ Moved(Origin(n, q), n, q)
<1>1. CASE q = 0
  BY <1>1, RestStays DEF Origin, Moved, Links
<1>2. CASE q # 0
  <2>1. /\ Opposite[q] \in Links
        /\ Shift(n, Pull[q]) = Shift(n, Minus(Velocity(q)))
        /\ Velocity(Opposite[q]) = Minus(Velocity(q))
    BY <1>2, LinkTable
  <2>2. CASE Opposite[q] \in Geometry(n)
    <3>1. Shift(n, Minus(Velocity(q))) \notin Nodes
      BY <1>2, <2>1, <2>2, BitStopsOutside
    <3>2. Origin(n, q) = <<n, Opposite[q]>>
      BY <1>2, <2>2 DEF Origin
    <3>. QED  BY <2>1, <3>1, <3>2 DEF Moved
  <2>3. CASE Opposite[q] \notin Geometry(n)
    <3>1. Shift(n, Minus(Velocity(q))) \in Nodes
      BY <1>2, <2>1, <2>3, BitStopsOutside
    <3>2. Origin(n, q) = <<Shift(n, Minus(Velocity(q))), q>>
      BY <1>2, <2>1, <2>3 DEF Origin
    <3>. QED  BY <3>1, <3>2 DEF Moved
  <2>. QED  BY <2>2, <2>3
<1>. QED  BY <1>1, <1>2

(* Two equal pairs have equal parts.                                       *)
LEMMA EqualPairs ==
  ASSUME NEW a, NEW b, NEW c, NEW d, <<a, b>> = <<c, d>>
  PROVE  a = c /\ b = d
OBVIOUS

(* No population is lost or doubled: two places of the cavity never gather *)
(* the same population.                                                    *)
THEOREM EachGoesToOnePlace ==
  ASSUME NEW m \in Nodes, NEW n \in Nodes, NEW q \in Links, NEW j \in Links,
         Origin(m, q) = Origin(n, j)
  PROVE  m = n /\ q = j
<1>1. ASSUME NEW a \in Nodes, NEW l \in Links
      PROVE  \/ /\ Shift(a, Minus(Velocity(l))) \in Nodes
                /\ Origin(a, l) = <<Shift(a, Minus(Velocity(l))), l>>
             \/ /\ l # 0
                /\ Shift(a, Velocity(Opposite[l])) \notin Nodes
                /\ Origin(a, l) = <<a, Opposite[l]>>
  <2>1. CASE l = 0
    BY <2>1, RestStays DEF Origin
  <2>2. CASE l # 0
    BY <2>2, LinkTable, BitStopsOutside DEF Origin
  <2>. QED  BY <2>1, <2>2
<1>2. ASSUME NEW a \in Nodes, NEW l \in Links
      PROVE  /\ a[1] \in Int /\ a[2] \in Int /\ a[3] \in Int
             /\ a = <<a[1], a[2], a[3]>>
             /\ Velocity(l)[1] \in Int /\ Velocity(l)[2] \in Int
             /\ Velocity(l)[3] \in Int
  BY WallBits DEF Nodes
<1>3. ASSUME NEW a \in Nodes, NEW b \in Nodes, NEW l \in Links,
             Shift(a, Minus(Velocity(l))) = Shift(b, Minus(Velocity(l)))
      PROVE  a = b
  BY <1>2, <1>3 DEF Shift, Minus
<1>4. ASSUME NEW a \in Nodes, NEW b \in Nodes, NEW k \in Links, NEW l \in Links,
             l # 0,
             Shift(a, Minus(Velocity(k))) = b, k = Opposite[l]
      PROVE  Shift(b, Velocity(Opposite[l])) \in Nodes
  <2>1. Shift(b, Velocity(k)) = a
    BY <1>2, <1>4 DEF Shift, Minus
  <2>. QED  BY <1>4, <2>1
<1>5. CASE /\ Origin(m, q) = <<Shift(m, Minus(Velocity(q))), q>>
           /\ Origin(n, j) = <<Shift(n, Minus(Velocity(j))), j>>
  <2> DEFINE a == Shift(m, Minus(Velocity(q)))
             b == Shift(n, Minus(Velocity(j)))
  <2>a. <<a, q>> = <<b, j>>
    BY <1>5
  <2> HIDE DEF a, b
  <2>b. a = b /\ q = j
    BY <2>a, EqualPairs
  <2>1. q = j /\ Shift(m, Minus(Velocity(q))) = Shift(n, Minus(Velocity(q)))
    BY <2>b DEF a, b
  <2>. QED  BY <1>3, <2>1
<1>6. CASE /\ Origin(m, q) = <<Shift(m, Minus(Velocity(q))), q>>
           /\ j # 0 /\ Shift(n, Velocity(Opposite[j])) \notin Nodes
           /\ Origin(n, j) = <<n, Opposite[j]>>
  <2> DEFINE a == Shift(m, Minus(Velocity(q)))
             b == Opposite[j]
  <2>a. <<a, q>> = <<n, b>>
    BY <1>6
  <2> HIDE DEF a, b
  <2>b. a = n /\ q = b
    BY <2>a, EqualPairs
  <2>1. q = Opposite[j] /\ Shift(m, Minus(Velocity(q))) = n
    BY <2>b DEF a, b
  <2>. QED  BY <1>4, <1>6, <2>1
<1>7. CASE /\ Origin(n, j) = <<Shift(n, Minus(Velocity(j))), j>>
           /\ q # 0 /\ Shift(m, Velocity(Opposite[q])) \notin Nodes
           /\ Origin(m, q) = <<m, Opposite[q]>>
  <2>1. j = Opposite[q] /\ Shift(n, Minus(Velocity(j))) = m
    BY <1>7, EqualPairs
  <2>. QED  BY <1>4, <1>7, <2>1
<1>8. CASE q # 0 /\ j # 0 /\ Origin(m, q) = <<m, Opposite[q]>>
           /\ Origin(n, j) = <<n, Opposite[j]>>
  <2>1. m = n /\ Opposite[q] = Opposite[j]
    BY <1>8, EqualPairs
  <2>2. Opposite[Opposite[q]] = q /\ Opposite[Opposite[j]] = j
    BY <1>8, LinkTable
  <2>. QED  BY <2>1, <2>2
<1>. QED  BY <1>1, <1>5, <1>6, <1>7, <1>8
-----------------------------------------------------------------------------
(* What LidPushesReflected says of one population of one node.             *)
Reflected(g, n, q) ==
  g.push # 0 => /\ n[3] = Lz - 1
                /\ g.from[1] = n
                /\ Velocity(q)[3] = -1
                /\ Velocity(q)[1] = g.push

(* On the plane z == Lx-1, populations 13 and 14 are reflected: the lid    *)
(* pushes only those.                                                      *)
LEMMA GatherReflects ==
  ASSUME NEW n \in Nodes, NEW q \in Links
  PROVE  /\ Gather(n)[q].push \in -1 .. 1
         /\ Reflected(Gather(n)[q], n, q)
<1>1. Gather(n)[q] = [from |-> Origin(n, q), push |-> Push(n, q)]
  BY DEF Gather
<1>2. Push(n, q) \in -1 .. 1
  BY DEF Push, Pushed
<1>3. ASSUME Push(n, q) # 0 PROVE Reflected(Gather(n)[q], n, q)
  <2>1. n[3] = Lz - 1 /\ q \in {13, 14}
    BY <1>3, LidAssumption DEF Push, Pushed, Lid
  <2>2. Velocity(q)[3] = -1 /\ Velocity(q)[1] = Push(n, q)
    BY <1>3, <2>1 DEF Velocity, Sign, Push, Pushed
  <2>3. Opposite[q] \in W5
    BY <2>1 DEF Opposite, W5
  <2>4. Opposite[q] \in Geometry(n)
    BY <2>1, <2>3 DEF Geometry
  <2>5. Origin(n, q)[1] = n
    BY <2>1, <2>4 DEF Origin
  <2>. QED  BY <1>1, <2>1, <2>2, <2>5 DEF Reflected
<1>. QED  BY <1>1, <1>2, <1>3 DEF Reflected
-----------------------------------------------------------------------------
(* A node that is done has gathered its populations; each PE is at a node  *)
(* of its plane, or past the last one.                                     *)
IInv ==
  /\ at \in [PEs -> (0 .. Lx - 1) \X (0 .. Ly)]
  /\ DOMAIN f \subseteq Nodes
  /\ \A n \in DOMAIN f : f[n] = Gather(n)

(* The loops over y and x keep every PE in its plane.                      *)
LEMMA Invariance == Spec => []IInv
<1>1. Init => IInv
  BY SizeAssumption DEF Init, IInv, PEs
<1>2. IInv /\ [Next]_vars => IInv'
  <2> SUFFICES ASSUME IInv, [Next]_vars PROVE IInv'
    OBVIOUS
  <2>1. ASSUME NEW p \in PEs, Collide(p) PROVE IInv'
    <3> DEFINE n == <<at[p][1], at[p][2], p>>
    <3>1. at[p] \in (0 .. Lx - 1) \X (0 .. Ly) /\ at[p][2] < Ly
      BY <2>1 DEF IInv, Collide
    <3>2. n \in Nodes
      BY <3>1, SizeAssumption DEF Nodes, PEs
    <3>3. NextNode(at[p]) \in (0 .. Lx - 1) \X (0 .. Ly)
      BY <3>1, SizeAssumption DEF NextNode
    <3>4. at' \in [PEs -> (0 .. Lx - 1) \X (0 .. Ly)]
      BY <2>1, <3>3 DEF IInv, Collide
    <3>5. /\ DOMAIN f' = DOMAIN f \cup {n}
          /\ \A m \in DOMAIN f' : f'[m] = IF m = n THEN Gather(n) ELSE f[m]
      BY <2>1 DEF Collide
    <3> HIDE DEF n
    <3>. QED  BY <3>2, <3>4, <3>5 DEF IInv
  <2>2. CASE Finished \/ UNCHANGED vars
    BY <2>2 DEF IInv, Finished, vars
  <2>. QED  BY <2>1, <2>2 DEF Next
<1>. QED  BY <1>1, <1>2, PTL DEF Spec

(* In a cavity of any size every variable has its type: no PE fetches a    *)
(* population from outside the cavity, nor passes the end of its plane.    *)
THEOREM TypeCorrect == Spec => []TypeOK
<1>1. IInv => TypeOK
  <2> SUFFICES ASSUME IInv, NEW n \in DOMAIN f
               PROVE  f[n] \in [Links -> [from : Nodes \X Links, push : -1 .. 1]]
    BY DEF IInv, TypeOK
  <2>1. n \in Nodes /\ f[n] = Gather(n)
    BY DEF IInv
  <2>3. ASSUME NEW q \in Links
        PROVE  Origin(n, q) \in Nodes \X Links /\ Push(n, q) \in -1 .. 1
    <3>1. Gather(n)[q].push \in -1 .. 1
      BY <2>1, GatherReflects
    <3>2. Gather(n)[q].push = Push(n, q)
      BY DEF Gather
    <3>. QED  BY <2>1, <3>1, <3>2, OriginMoves
  <2>. QED  BY <2>1, <2>3 DEF Gather
<1>. QED  BY <1>1, Invariance, PTL

(* In a cavity of any size every population that a node has gathered has   *)
(* moved by its velocity, or was reflected by a wall (MovesByVelocity).    *)
THEOREM MovesByVelocityHolds == Spec => []MovesByVelocity
<1>1. IInv => MovesByVelocity
  <2> SUFFICES ASSUME IInv, NEW n \in DOMAIN f, NEW q \in Links
               PROVE  Moved(f[n][q].from, n, q)
    BY DEF MovesByVelocity, Moved
  <2>1. n \in Nodes /\ f[n][q].from = Origin(n, q)
    BY DEF IInv, Gather
  <2>. QED  BY <2>1, OriginMoves
<1>. QED  BY <1>1, Invariance, PTL

(* The lid pushes only populations it has reflected, each along its        *)
(* velocity, in a cavity as high as it is wide (LidPushesReflected).       *)
THEOREM LidPushesReflectedHolds == Spec => []LidPushesReflected
<1>1. IInv => LidPushesReflected
  <2> SUFFICES ASSUME IInv, NEW n \in DOMAIN f, NEW q \in Links
               PROVE  Reflected(f[n][q], n, q)
    BY DEF LidPushesReflected, Reflected
  <2>1. n \in Nodes /\ f[n] = Gather(n)
    BY DEF IInv
  <2>. QED  BY <2>1, GatherReflects
<1>. QED  BY <1>1, Invariance, PTL
-----------------------------------------------------------------------------
(* The work-group, of any number of lines: the items with local id 0, one  *)
(* a line, all fetch every row; what of several lines ends up in a row is  *)
(* of any of them.                                                         *)
Lead(y) == <<0, y>>
Lines   == 0 .. Ny - 1

(* A population of a row comes from the fetch of a line, or is the result  *)
(* of an item that has updated the row.                                    *)
FromFetch(k, p) == \E y \in Lines : localf[k][p] = Cl!FetchedRow(y, k)[p]
FromItem(k, p)  ==
  \E u \in Cl!Items : /\ Cl!Row(u) = k /\ pc[u] \in {"store", "done"}
                      /\ localf[k][p] = <<Cl!Node(u), p>>

(* The barrier separates the fetch of all rows from the rest, in which an  *)
(* item overwrites its own row.                                            *)
ItemLabels == {"fetch", "barrier", "moments", "update", "store", "done"}

FetchInv ==
  /\ DOMAIN localf = Cl!Rows
  /\ pc \in [Cl!Items -> ItemLabels]
  /\ i \in [Cl!Items -> 0 .. WgSize]
  /\ \A t \in Cl!Items :
       /\ pc[t] = "fetch" => Cl!Row(t) = 0 /\ i[t] < WgSize
       /\ Cl!Row(t) = 0 /\ pc[t] # "fetch" => i[t] = WgSize
  /\ \/ \A t \in Cl!Items : pc[t] \in {"fetch", "barrier"}
     \/ \A t \in Cl!Items : pc[t] \notin {"fetch", "barrier"}

(* Row k has been fetched by some line.                                    *)
Passed(k) == \E u \in Cl!Items : Cl!Row(u) = 0 /\ k < i[u]

RowsInv ==
  /\ \A k \in Cl!Rows : \A p \in Links :
       p \notin Cl!Fetched \/ Passed(k) => FromFetch(k, p) \/ FromItem(k, p)
  /\ \A t \in Cl!Items : pc[t] \in {"store", "done"} =>
       \A p \in Links : FromItem(Cl!Row(t), p)

(* Every item has a row, and every line an item with local id 0.           *)
LEMMA LinesOfItems ==
  /\ WgSize \in Nat \ {0} /\ 0 \in Lines
  /\ \A y \in Lines : Lead(y) \in Cl!Items /\ Cl!Row(Lead(y)) = 0
  /\ \A t \in Cl!Items : Cl!Row(t) \in Cl!Rows /\ t[2] \in Lines
                         /\ (Cl!Row(t) = 0 => t = Lead(t[2]))
BY ClAssumption DEF Cl!Items, Cl!Rows, Cl!Row, Cl!GroupAssumption, Lead, Lines

(* The work-group stays where it is, and so does what it has to fetch.     *)
LEMMA GroupStays ==
  ASSUME group' = group
  PROVE  /\ \A y, k : Cl!FetchedRow(y, k)' = Cl!FetchedRow(y, k)
         /\ \A t : Cl!Node(t)' = Cl!Node(t)
BY DEF Cl!FetchedRow, Cl!FetchedFor, Cl!Node

(* A step that leaves the rows and the updates alone keeps what is said of *)
(* them.                                                                   *)
LEMMA RowsStay ==
  ASSUME RowsInv, group' = group, localf' = localf, i' = i,
         \A u \in Cl!Items : pc'[u] \in {"store", "done"} <=> pc[u] \in {"store", "done"}
  PROVE  RowsInv'
<1>1. \A k, p : /\ FromFetch(k, p)' <=> FromFetch(k, p)
                /\ FromItem(k, p)' <=> FromItem(k, p)
  BY GroupStays DEF FromFetch, FromItem
<1>2. \A k : Passed(k)' <=> Passed(k)
  BY DEF Passed
<1>. QED  BY <1>1, <1>2 DEF RowsInv

(* The first item of a line fetches a row.                                 *)
LEMMA FetchKeeps ==
  ASSUME FetchInv, RowsInv, NEW t \in Cl!Items, Cl!Fetch(t)
  PROVE  FetchInv' /\ RowsInv'
<1>1. /\ pc[t] = "fetch" /\ Cl!Row(t) = 0 /\ group' = group
      /\ i[t] \in Cl!Rows /\ i[t] \in Nat /\ i[t] < WgSize
      /\ t = Lead(t[2]) /\ t[2] \in Lines
  BY LinesOfItems DEF FetchInv, Cl!Fetch, Cl!Rows
<1>2. i' = [i EXCEPT ![t] = @ + 1] /\ i'[t] = i[t] + 1
  BY DEF Cl!Fetch, Cl!AfterRow, FetchInv
<1>3. /\ pc' = [pc EXCEPT ![t] = IF i[t] + 1 < WgSize THEN "fetch" ELSE "barrier"]
      /\ \A u \in Cl!Items : pc'[u] \in {"fetch", "barrier"}
      /\ \A u \in Cl!Items : pc[u] \in {"fetch", "barrier"}
  BY <1>1 DEF Cl!Fetch, Cl!AfterRow, Cl!MoreRows, Cl!Goto, FetchInv
<1>4. /\ DOMAIN localf' = Cl!Rows
      /\ \A p \in Cl!Fetched : localf'[i[t]][p] = Cl!FetchedRow(t[2], i[t])[p]
      /\ \A p \in Links \ Cl!Fetched : localf'[i[t]][p] = localf[i[t]][p]
      /\ \A k \in Cl!Rows : k # i[t] => localf'[k] = localf[k]
  <2>1. localf' = [localf EXCEPT ![i[t]] = [p \in Cl!Links |->
                     IF p \in Cl!Fetched THEN Cl!FetchedFor(t, i[t])[p] ELSE @[p]]]
    BY DEF Cl!Fetch
  <2>2. \A p \in Cl!Fetched :
          Cl!FetchedRow(t[2], i[t])[p] = Cl!FetchedFor(t, i[t])[p]
    <3>1. \A y, k : \A p \in Cl!Fetched :
            Cl!FetchedRow(y, k)[p] = Cl!FetchedFor(Lead(y), k)[p]
      BY DEF Cl!FetchedRow, Cl!Fetched, Cl!Links, Lead
    <3>2. Cl!FetchedFor(Lead(t[2]), i[t]) = Cl!FetchedFor(t, i[t])
      BY <1>1
    <3>. QED  BY <3>1, <3>2
  <2>. QED  BY <1>1, <2>1, <2>2 DEF FetchInv, Cl!Fetched, Cl!Links, Links
<1>5. FetchInv'
  <2>1. i[t] + 1 \in 0 .. WgSize
    BY <1>1, LinesOfItems
  <2>2. pc' \in [Cl!Items -> ItemLabels] /\ i' \in [Cl!Items -> 0 .. WgSize]
    BY <1>2, <1>3, <2>1 DEF FetchInv, ItemLabels
  <2>3. ASSUME NEW u \in Cl!Items
        PROVE  /\ pc'[u] = "fetch" => Cl!Row(u) = 0 /\ i'[u] < WgSize
               /\ Cl!Row(u) = 0 /\ pc'[u] # "fetch" => i'[u] = WgSize
    <3>1. CASE u = t
      <4>1. pc'[u] = IF i[t] + 1 < WgSize THEN "fetch" ELSE "barrier"
        BY <1>3, <3>1 DEF FetchInv
      <4>. QED  BY <1>1, <1>2, <2>1, <3>1, <4>1, LinesOfItems
    <3>2. CASE u # t
      BY <1>2, <1>3, <3>2 DEF FetchInv
    <3>. QED  BY <3>1, <3>2
  <2>. QED  BY <1>3, <1>4, <2>2, <2>3 DEF FetchInv
<1>6. ASSUME NEW k \in Cl!Rows, NEW p \in Links, (p \notin Cl!Fetched \/ Passed(k))'
      PROVE  FromFetch(k, p)'
  <2>1. \A u \in Cl!Items : pc[u] \notin {"store", "done"}
    BY <1>3
  <2>2. p \notin Cl!Fetched \/ Passed(k) => FromFetch(k, p)
    BY <2>1 DEF RowsInv, FromItem
  <2>3. CASE p \in Cl!Fetched /\ k = i[t]
    <3>1. localf'[k][p] = Cl!FetchedRow(t[2], k)[p]
      BY <1>4, <2>3
    <3>. QED  BY <1>1, <3>1, GroupStays DEF FromFetch
  <2>4. CASE ~ (p \in Cl!Fetched /\ k = i[t])
    <3>1. localf'[k][p] = localf[k][p]
      BY <1>4, <2>4
    <3>2. p \notin Cl!Fetched \/ Passed(k)
      <4>1. ASSUME p \in Cl!Fetched
            PROVE  Passed(k)
        <5>1. PICK u \in Cl!Items : Cl!Row(u) = 0 /\ k < i'[u]
          BY <1>6, <4>1 DEF Passed, Cl!Fetched, Cl!Row
        <5>2. k < i[u]
          <6>1. CASE u = t
            BY <1>1, <1>2, <2>4, <4>1, <5>1, <6>1 DEF Cl!Rows
          <6>2. CASE u # t
            BY <1>2, <5>1, <6>2 DEF FetchInv
          <6>. QED  BY <6>1, <6>2
        <5>. QED  BY <5>1, <5>2 DEF Passed
      <4>. QED  BY <4>1
    <3>3. PICK y \in Lines : localf[k][p] = Cl!FetchedRow(y, k)[p]
      BY <2>2, <3>2 DEF FromFetch
    <3>. QED  BY <1>1, <3>1, <3>3, GroupStays DEF FromFetch
  <2>. QED  BY <2>3, <2>4
<1>7. RowsInv'
  BY <1>3, <1>6 DEF RowsInv
<1>. QED  BY <1>5, <1>7

(* An item puts its result into its row.                                   *)
LEMMA UpdateKeeps ==
  ASSUME FetchInv, RowsInv, NEW t \in Cl!Items, Cl!Update(t)
  PROVE  FetchInv' /\ RowsInv'
<1>1. /\ pc[t] = "update" /\ pc' = [pc EXCEPT ![t] = "store"] /\ pc'[t] = "store"
      /\ i' = i /\ group' = group
      /\ \A u \in Cl!Items \ {t} : pc'[u] = pc[u]
  BY DEF Cl!Update, Cl!Goto, FetchInv
<1>2. /\ DOMAIN localf' = Cl!Rows
      /\ \A p \in Links : localf'[Cl!Row(t)][p] = <<Cl!Node(t), p>>
      /\ \A k \in Cl!Rows : k # Cl!Row(t) => localf'[k] = localf[k]
  BY LinesOfItems DEF Cl!Update, FetchInv, Cl!Links, Links
<1>3. FetchInv'
  BY <1>1, <1>2 DEF FetchInv, ItemLabels
<1>4. \A p \in Links : FromItem(Cl!Row(t), p)'
  BY <1>1, <1>2, GroupStays DEF FromItem, Cl!Row
<1>5. ASSUME NEW k \in Cl!Rows, NEW p \in Links, k # Cl!Row(t)
      PROVE  /\ FromItem(k, p) => FromItem(k, p)'
             /\ FromFetch(k, p) => FromFetch(k, p)'
  <2>1. localf'[k][p] = localf[k][p]
    BY <1>2, <1>5
  <2>2. ASSUME FromItem(k, p)
        PROVE  FromItem(k, p)'
    <3>1. PICK u \in Cl!Items : /\ Cl!Row(u) = k /\ pc[u] \in {"store", "done"}
                                /\ localf[k][p] = <<Cl!Node(u), p>>
      BY <2>2 DEF FromItem
    <3>2. pc'[u] \in {"store", "done"} /\ Cl!Node(u)' = Cl!Node(u)
      BY <1>1, <3>1, GroupStays
    <3>. QED  BY <2>1, <3>1, <3>2 DEF FromItem, Cl!Row
  <2>3. FromFetch(k, p) => FromFetch(k, p)'
    BY <1>1, <2>1, GroupStays DEF FromFetch
  <2>. QED  BY <2>2, <2>3
<1>6. \A k : Passed(k)' <=> Passed(k)
  BY <1>1 DEF Passed
<1>7. ASSUME NEW k \in Cl!Rows, NEW p \in Links, p \notin Cl!Fetched \/ Passed(k)
      PROVE  FromFetch(k, p)' \/ FromItem(k, p)'
  BY <1>4, <1>5, <1>7 DEF RowsInv
<1>8. ASSUME NEW u \in Cl!Items, pc'[u] \in {"store", "done"}, NEW p \in Links
      PROVE  FromItem(Cl!Row(u), p)'
  <2>1. CASE Cl!Row(u) = Cl!Row(t)
    BY <1>4, <2>1
  <2>2. CASE Cl!Row(u) # Cl!Row(t)
    <3>1. u # t /\ FromItem(Cl!Row(u), p)
      BY <1>1, <1>8, <2>2 DEF RowsInv
    <3>. QED  BY <1>5, <2>2, <3>1, LinesOfItems
  <2>. QED  BY <2>1, <2>2
<1>9. RowsInv'
  BY <1>6, <1>7, <1>8 DEF RowsInv, Cl!Fetched, Cl!Row
<1>. QED  BY <1>3, <1>9

(* No step of a work-group mixes the rows.                                 *)
LEMMA RowsInvariant == Cl!Spec => [](FetchInv /\ RowsInv)
<1>1. ASSUME Cl!Init PROVE FetchInv /\ RowsInv
  <2>1. /\ pc = [t \in Cl!Items |-> IF Cl!Row(t) = 0 THEN "fetch" ELSE "barrier"]
        /\ i = [t \in Cl!Items |-> 0]
        /\ DOMAIN localf = Cl!Rows
        /\ \A k \in Cl!Rows : \A p \in Links : localf[k][p] = Cl!Unset
    BY <1>1 DEF Cl!Init, Cl!Links, Links
  <2>2. FetchInv
    BY <2>1, LinesOfItems DEF FetchInv, ItemLabels
  <2>3. ASSUME NEW k \in Cl!Rows, NEW p \in Links, p \notin Cl!Fetched
        PROVE  FromFetch(k, p)
    <3>1. Cl!FetchedRow(0, k)[p] = Cl!Unset
      BY <2>3 DEF Cl!FetchedRow, Cl!Links, Links
    <3>. QED  BY <2>1, <3>1, LinesOfItems DEF FromFetch
  <2>4. \A k \in Cl!Rows : ~ Passed(k)
    BY <2>1 DEF Passed, Cl!Rows
  <2>. QED  BY <2>1, <2>2, <2>3, <2>4 DEF RowsInv
<1>2. FetchInv /\ RowsInv /\ [Cl!Next]_Cl!vars => FetchInv' /\ RowsInv'
  <2> SUFFICES ASSUME FetchInv, RowsInv, [Cl!Next]_Cl!vars
               PROVE  FetchInv' /\ RowsInv'
    OBVIOUS
  <2>1. ASSUME NEW t \in Cl!Items, Cl!Fetch(t) PROVE FetchInv' /\ RowsInv'
    BY <2>1, FetchKeeps
  <2>2. ASSUME Cl!Barrier PROVE FetchInv' /\ RowsInv'
    <3>1. /\ \A t \in Cl!Items : pc[t] = "barrier"
          /\ pc' = [t \in Cl!Items |-> "moments"]
          /\ UNCHANGED <<group, i, localf>>
      BY <2>2 DEF Cl!Barrier, Cl!Arrived
    <3>2. FetchInv'
      BY <3>1 DEF FetchInv, ItemLabels
    <3>. QED  BY <3>1, <3>2, RowsStay
  <2>3. ASSUME NEW t \in Cl!Items, Cl!Moments(t) \/ Cl!Store(t)
        PROVE  FetchInv' /\ RowsInv'
    <3>1. /\ \/ pc[t] = "moments" /\ pc' = [pc EXCEPT ![t] = "update"]
             \/ pc[t] = "store" /\ pc' = [pc EXCEPT ![t] = "done"]
          /\ UNCHANGED <<group, i, localf>>
      BY <2>3 DEF Cl!Moments, Cl!Store, Cl!Goto
    <3>2. FetchInv'
      BY <3>1 DEF FetchInv, ItemLabels
    <3>3. \A u \in Cl!Items :
            pc'[u] \in {"store", "done"} <=> pc[u] \in {"store", "done"}
      BY <3>1 DEF FetchInv
    <3>. QED  BY <3>1, <3>2, <3>3, RowsStay
  <2>4. ASSUME NEW t \in Cl!Items, Cl!Update(t) PROVE FetchInv' /\ RowsInv'
    BY <2>4, UpdateKeeps
  <2>5. CASE UNCHANGED Cl!vars
    <3>1. FetchInv'
      BY <2>5 DEF FetchInv, Cl!vars
    <3>. QED  BY <2>5, <3>1, RowsStay DEF Cl!vars
  <2>6. Cl!Finished => UNCHANGED Cl!vars
    BY DEF Cl!Finished
  <2>. QED  BY <2>1, <2>2, <2>3, <2>4, <2>5, <2>6 DEF Cl!Next, Cl!Item
<1>. QED  BY <1>1, <1>2, PTL DEF Cl!Spec

(* In a work-group of any number of lines of any length every population   *)
(* that an item sums up, of all 19, is what the fetch of a line left in    *)
(* its row or the result of another item with the same row; and what it    *)
(* stores is the result of an item with its row (RowOfOneColumn;           *)
(* compute.cl:565, 660, 760).                                              *)
THEOREM RowOfOneColumnHolds == Cl!Spec => []RowOfOneColumn
<1>1. FetchInv /\ RowsInv => RowOfOneColumn
  <2> SUFFICES ASSUME FetchInv, RowsInv PROVE RowOfOneColumn
    OBVIOUS
  <2>1. ASSUME NEW t \in Cl!Items, pc[t] = "moments", NEW p \in Links
        PROVE  \/ \E y \in 0 .. Ny - 1 :
                    localf[Cl!Row(t)][p] = Cl!FetchedRow(y, Cl!Row(t))[p]
               \/ \E u \in Cl!Column(t) \ {t} :
                    localf[Cl!Row(t)][p] = <<Cl!Node(u), p>>
    <3>1. i[Lead(0)] = WgSize
      BY <2>1, LinesOfItems DEF FetchInv
    <3>2. Passed(Cl!Row(t))
      BY <3>1, LinesOfItems DEF Passed, Cl!Rows
    <3>3. FromFetch(Cl!Row(t), p) \/ FromItem(Cl!Row(t), p)
      BY <3>2, LinesOfItems DEF RowsInv
    <3>4. CASE FromFetch(Cl!Row(t), p)
      BY <3>4 DEF FromFetch, Lines
    <3>5. CASE FromItem(Cl!Row(t), p)
      BY <2>1, <3>5 DEF FromItem, Cl!Column
    <3>. QED  BY <3>3, <3>4, <3>5
  <2>2. Cl!RowOfOneColumn
    BY <2>1 DEF Cl!RowOfOneColumn, Cl!Links, Links
  <2>3. ASSUME NEW t \in Cl!Items, pc[t] = "store", NEW p \in Links
        PROVE  \E u \in Cl!Column(t) : localf[Cl!Row(t)][p] = <<Cl!Node(u), p>>
    <3>1. FromItem(Cl!Row(t), p)
      BY <2>3 DEF RowsInv
    <3>. QED  BY <3>1 DEF FromItem, Cl!Column
  <2>4. Cl!StoresOwnColumn
    BY <2>3 DEF Cl!StoresOwnColumn, Cl!Links, Links
  <2>. QED  BY <2>2, <2>4 DEF RowOfOneColumn
<1>. QED  BY <1>1, RowsInvariant, PTL
-----------------------------------------------------------------------------
(***************************************************************************)
(* The in-place update of a cube (module TwoWall) reads only densities     *)
(* that have not been updated yet, for every number of cores and every     *)
(* size of a cube.                                                         *)
(*                                                                         *)
(* One barrier per wall is all that holds the PEs together.  The argument  *)
(* counts the barriers a PE has passed in the cube: every PE has passed    *)
(* the same number (WallRoundInv), so a PE is at most one copy ahead of    *)
(* another.  Each row of tmp_wall is written by one PE only, which leaves  *)
(* there the two walls it copied last (WallTmpInv), and a row of the       *)
(* buffer is updated up to the wall its PE has reached (WallSrcInv).       *)
(***************************************************************************)

(* Two walls that follow one another go to different halves of tmp_wall.   *)
LEMMA Alternate ==
  ASSUME NEW y \in Nat
  PROVE  /\ Tw!WallOf(y) \in 0 .. 1
         /\ Tw!WallOf(y + 1) # Tw!WallOf(y)
         /\ y >= 1 => Tw!WallOf(y - 1) # Tw!WallOf(y) /\ Tw!WallOf(y - 1) \in 0 .. 1
BY DEF Tw!WallOf

(* The rows of the cubes computed are rows of the model.                   *)
LEMMA RowTyped ==
  ASSUME NEW c \in 0 .. NbCubes - 1, NEW y \in Tw!Walls, NEW a \in {"old", "new"}
  PROVE  Tw!Row(c, y, a) \in Tw!Rows
BY DEF Tw!Rows
-----------------------------------------------------------------------------
(* The barriers PE p has passed in this cube.                              *)
WallRound(p) == IF place[p] = "update" THEN yl[p] ELSE yl[p] - 1

(* The PEs have passed the same barriers, and pc says how far yl may be.   *)
WallRoundInv ==
  /\ \A p, q \in Tw!PEs : WallRound(p) = WallRound(q)
  /\ \A p \in Tw!PEs :
       /\ place[p] = "first" => yl[p] = 1
       /\ place[p] \in {"copy", "barrier", "update"} => yl[p] <= LenY
       /\ place[p] = "leave" => yl[p] = LenY + 1

(* The rows PE p copies hold the wall before yl[p] as it was fetched, and, *)
(* once p has copied it, the wall yl[p] too.                               *)
WallTmpInv ==
  \A p \in Tw!PEs : Tw!Works(p) => \A z \in Tw!RowsOf(p) :
    /\ place[p] # "first" => tmp[Tw!WallOf(yl[p] - 1)][z] = Tw!Row(icube, yl[p] - 1, "old")
    /\ place[p] \in {"barrier", "update"} =>
         tmp[Tw!WallOf(yl[p])][z] = Tw!Row(icube, yl[p], "old")

(* Plane z has been updated up to the wall its PE has reached.             *)
RowUpdated(z, y) == z \in 1 .. LenZ /\ y >= 1 /\ y < yl[z - 1]
WallSrcInv ==
  \A z \in Tw!Planes, y \in Tw!Walls :
    rows[z][y] = Tw!Row(icube, y, IF RowUpdated(z, y) THEN "new" ELSE "old")

WallInv == Tw!TypeOK /\ WallRoundInv /\ WallTmpInv /\ WallSrcInv

(* The PE that copies the rows of plane z.                                 *)
Owner(z) == IF z = 0 THEN 0 ELSE IF z = LenZ + 1 THEN LenZ - 1 ELSE z - 1

(* Every plane has an owner, that works, and no other PE copies its rows.  *)
LEMMA OwnRows ==
  /\ \A z \in Tw!Planes :
       Owner(z) \in Tw!PEs /\ Tw!Works(Owner(z)) /\ z \in Tw!RowsOf(Owner(z))
  /\ \A p \in Tw!PEs : Tw!Works(p) =>
       /\ Tw!RowsOf(p) \subseteq Tw!Planes
       /\ \A z \in Tw!RowsOf(p) : p = Owner(z)
       /\ p + 1 \in Tw!RowsOf(p) /\ p + 1 \in 1 .. LenZ
BY WallAssumption DEF Tw!SizeAssumption, Tw!Planes, Tw!PEs, Owner, Tw!Works, Tw!RowsOf

(* A cube as it was fetched satisfies the invariant.                       *)
LEMMA FreshCube ==
  ASSUME NEW c \in 0 .. NbCubes - 1
  PROVE  /\ Tw!Fetched(c) \in [Tw!Planes -> [Tw!Walls -> Tw!Rows]]
         /\ \A z \in Tw!Planes, y \in Tw!Walls : Tw!Fetched(c)[z][y] = Tw!Row(c, y, "old")
BY RowTyped DEF Tw!Fetched

(* The PEs start at the first wall of a cube as it was fetched.            *)
LEMMA WallInit == Tw!Init => WallInv
<1> SUFFICES ASSUME Tw!Init PROVE WallInv
  OBVIOUS
<1>0. 0 \in 0 .. NbCubes - 1 /\ 1 \in 1 .. LenY + 1 /\ 1 <= LenY
  BY WallAssumption DEF Tw!SizeAssumption
<1>1. Tw!TypeOK
  BY <1>0, FreshCube DEF Tw!Init, Tw!TypeOK
<1>2. WallRoundInv
  BY DEF Tw!Init, WallRoundInv, WallRound
<1>3. WallTmpInv
  BY DEF Tw!Init, WallTmpInv
<1>4. WallSrcInv
  <2>1. \A z \in 1 .. LenZ : yl[z - 1] = 1
    BY WallAssumption DEF Tw!SizeAssumption, Tw!Init, Tw!PEs
  <2>2. \A z \in Tw!Planes, y \in Tw!Walls : ~ RowUpdated(z, y)
    BY <2>1 DEF RowUpdated, Tw!Walls
  <2>. QED  BY <1>0, <2>2, FreshCube DEF Tw!Init, WallSrcInv
<1>. QED  BY <1>1, <1>2, <1>3, <1>4 DEF WallInv

(* Copying wall 0, or the wall p is at, writes that wall, as it was        *)
(* fetched, into the rows of p, and nothing else.                          *)
LEMMA CopiedRows ==
  ASSUME Tw!TypeOK, WallSrcInv, NEW p \in Tw!PEs, Tw!Works(p), NEW y \in Tw!Walls,
         y = 0 \/ y = yl[p]
  PROVE  /\ Tw!Copied(p, y) \in [0 .. 1 -> [Tw!Planes -> Tw!Rows \cup {Tw!NoRow}]]
         /\ \A z \in Tw!RowsOf(p) : Tw!Copied(p, y)[Tw!WallOf(y)][z] = Tw!Row(icube, y, "old")
         /\ \A w \in 0 .. 1, z \in Tw!Planes :
              w # Tw!WallOf(y) \/ z \notin Tw!RowsOf(p) => Tw!Copied(p, y)[w][z] = tmp[w][z]
<1>1. y \in Nat /\ Tw!WallOf(y) \in 0 .. 1
  BY Alternate DEF Tw!Walls
<1>2. Tw!RowsOf(p) \subseteq Tw!Planes /\ \A z \in Tw!RowsOf(p) : p = Owner(z)
  BY OwnRows
<1>3. \A z \in Tw!Planes : rows[z][y] \in Tw!Rows
  BY DEF Tw!TypeOK
<1>4. ASSUME NEW z \in Tw!RowsOf(p) PROVE rows[z][y] = Tw!Row(icube, y, "old")
  <2>1. z \in 1 .. LenZ => z - 1 = p
    BY <1>2, <1>4, WallAssumption DEF Tw!SizeAssumption, Owner
  <2>2. ~ RowUpdated(z, y)
    BY <1>1, <2>1 DEF RowUpdated, Tw!TypeOK
  <2>. QED  BY <1>2, <2>2 DEF WallSrcInv
<1>5. /\ Tw!Copied(p, y)[Tw!WallOf(y)] =
           [z \in Tw!Planes |-> IF z \in Tw!RowsOf(p) THEN rows[z][y] ELSE tmp[Tw!WallOf(y)][z]]
      /\ \A w \in 0 .. 1 : w # Tw!WallOf(y) => Tw!Copied(p, y)[w] = tmp[w]
      /\ DOMAIN Tw!Copied(p, y) = 0 .. 1
  BY <1>1 DEF Tw!Copied, Tw!TypeOK
<1>6. Tw!Copied(p, y) \in [0 .. 1 -> [Tw!Planes -> Tw!Rows \cup {Tw!NoRow}]]
  BY <1>1, <1>3 DEF Tw!Copied, Tw!TypeOK
<1>. QED  BY <1>1, <1>2, <1>4, <1>5, <1>6

(* A copy of wall y by p keeps what the invariant says of the other PEs.   *)
LEMMA OthersKeepRows ==
  ASSUME Tw!TypeOK, NEW p \in Tw!PEs, Tw!Works(p), NEW y \in Tw!Walls, tmp' = Tw!Copied(p, y),
         \A w \in 0 .. 1, z \in Tw!Planes :
           w # Tw!WallOf(y) \/ z \notin Tw!RowsOf(p) => Tw!Copied(p, y)[w][z] = tmp[w][z]
  PROVE  \A q \in Tw!PEs : Tw!Works(q) /\ q # p => \A z \in Tw!RowsOf(q), w \in 0 .. 1 :
           tmp'[w][z] = tmp[w][z]
BY OwnRows

(* No copy, update or barrier breaks the invariant.                        *)
LEMMA WallNext == WallInv /\ [Tw!Next]_Tw!vars => WallInv'
<1> SUFFICES ASSUME WallInv, [Tw!Next]_Tw!vars PROVE WallInv'
  OBVIOUS
<1>0. /\ LenY \in Nat \ {0} /\ LenZ \in Nat /\ NbCubes \in Nat \ {0}
      /\ 0 \in Tw!Walls /\ Tw!TypeOK /\ WallRoundInv /\ WallTmpInv /\ WallSrcInv
  BY WallAssumption DEF Tw!SizeAssumption, WallInv, Tw!Walls
<1>y. \A p \in Tw!PEs :
        /\ yl[p] \in Nat /\ yl[p] >= 1 /\ yl[p] \in Tw!Walls
        /\ yl[p] - 1 \in Nat /\ yl[p] - 1 \in Tw!Walls
        /\ Tw!WallOf(yl[p]) \in 0 .. 1 /\ Tw!WallOf(yl[p] - 1) \in 0 .. 1
        /\ Tw!WallOf(yl[p] - 1) # Tw!WallOf(yl[p])
  <2> TAKE p \in Tw!PEs
  <2>1. yl[p] \in 1 .. LenY + 1
    BY <1>0 DEF Tw!TypeOK
  <2>. QED  BY <2>1, <1>0, Alternate DEF Tw!Walls
<1>1. ASSUME NEW p \in Tw!PEs, Tw!CopyFirst(p) PROVE WallInv'
  <2> USE <1>0
  <2>1. /\ place[p] = "first" /\ place' = [place EXCEPT ![p] = "copy"]
        /\ icube' = icube /\ yl' = yl /\ rows' = rows /\ yl[p] = 1
        /\ tmp' = IF Tw!Works(p) THEN Tw!Copied(p, 0) ELSE tmp
    BY <1>1 DEF Tw!CopyFirst, Tw!Goto, WallRoundInv
  <2>2. Tw!Works(p) =>
          /\ tmp' \in [0 .. 1 -> [Tw!Planes -> Tw!Rows \cup {Tw!NoRow}]]
          /\ \A z \in Tw!RowsOf(p) : tmp'[Tw!WallOf(0)][z] = Tw!Row(icube, 0, "old")
          /\ \A q \in Tw!PEs : Tw!Works(q) /\ q # p => \A z \in Tw!RowsOf(q), w \in 0 .. 1 :
               tmp'[w][z] = tmp[w][z]
    BY <2>1, CopiedRows, OthersKeepRows
  <2>3. Tw!TypeOK'
    BY <2>1, <2>2 DEF Tw!TypeOK
  <2>4. WallRoundInv'
    BY <2>1 DEF WallRoundInv, WallRound, Tw!TypeOK
  <2>5. WallTmpInv'
    <3> SUFFICES ASSUME NEW q \in Tw!PEs, Tw!Works(q), NEW z \in Tw!RowsOf(q)
                 PROVE  /\ place'[q] # "first" =>
                             tmp'[Tw!WallOf(yl[q] - 1)][z] = Tw!Row(icube, yl[q] - 1, "old")
                        /\ place'[q] \in {"barrier", "update"} =>
                             tmp'[Tw!WallOf(yl[q])][z] = Tw!Row(icube, yl[q], "old")
      BY <2>1 DEF WallTmpInv, Tw!Works, Tw!RowsOf
    <3>1. CASE q = p
      BY <2>1, <2>2, <3>1 DEF Tw!TypeOK
    <3>2. CASE q # p
      <4>1. place'[q] = place[q]
        BY <2>1, <3>2 DEF Tw!TypeOK
      <4>2. \A w \in 0 .. 1 : tmp'[w][z] = tmp[w][z]
        BY <2>1, <2>2, <3>2
      <4>. QED  BY <4>1, <4>2, <1>y DEF WallTmpInv
    <3>. QED  BY <3>1, <3>2
  <2>6. WallSrcInv'
    BY <2>1 DEF WallSrcInv, RowUpdated
  <2>. QED  BY <2>3, <2>4, <2>5, <2>6 DEF WallInv
<1>2. ASSUME NEW p \in Tw!PEs, Tw!Copy(p) PROVE WallInv'
  <2> USE <1>0
  <2>1. /\ place[p] = "copy" /\ place' = [place EXCEPT ![p] = "barrier"]
        /\ icube' = icube /\ yl' = yl /\ rows' = rows
        /\ tmp' = IF Tw!Works(p) THEN Tw!Copied(p, yl[p]) ELSE tmp
    BY <1>2 DEF Tw!Copy, Tw!Goto
  <2>2. Tw!Works(p) =>
          /\ tmp' \in [0 .. 1 -> [Tw!Planes -> Tw!Rows \cup {Tw!NoRow}]]
          /\ \A z \in Tw!RowsOf(p) :
               /\ tmp'[Tw!WallOf(yl[p])][z] = Tw!Row(icube, yl[p], "old")
               /\ tmp'[Tw!WallOf(yl[p] - 1)][z] = tmp[Tw!WallOf(yl[p] - 1)][z]
          /\ \A q \in Tw!PEs : Tw!Works(q) /\ q # p => \A z \in Tw!RowsOf(q), w \in 0 .. 1 :
               tmp'[w][z] = tmp[w][z]
    BY <2>1, <1>y, CopiedRows, OthersKeepRows, OwnRows
  <2>3. Tw!TypeOK'
    BY <2>1, <2>2 DEF Tw!TypeOK
  <2>4. WallRoundInv'
    BY <2>1 DEF WallRoundInv, WallRound, Tw!TypeOK
  <2>5. WallTmpInv'
    <3> SUFFICES ASSUME NEW q \in Tw!PEs, Tw!Works(q), NEW z \in Tw!RowsOf(q)
                 PROVE  /\ place'[q] # "first" =>
                             tmp'[Tw!WallOf(yl[q] - 1)][z] = Tw!Row(icube, yl[q] - 1, "old")
                        /\ place'[q] \in {"barrier", "update"} =>
                             tmp'[Tw!WallOf(yl[q])][z] = Tw!Row(icube, yl[q], "old")
      BY <2>1 DEF WallTmpInv, Tw!Works, Tw!RowsOf
    <3>1. CASE q = p
      BY <2>1, <2>2, <3>1 DEF Tw!TypeOK, WallTmpInv
    <3>2. CASE q # p
      <4>1. place'[q] = place[q]
        BY <2>1, <3>2 DEF Tw!TypeOK
      <4>2. \A w \in 0 .. 1 : tmp'[w][z] = tmp[w][z]
        BY <2>1, <2>2, <3>2
      <4>. QED  BY <4>1, <4>2, <1>y DEF WallTmpInv
    <3>. QED  BY <3>1, <3>2
  <2>6. WallSrcInv'
    BY <2>1 DEF WallSrcInv, RowUpdated
  <2>. QED  BY <2>3, <2>4, <2>5, <2>6 DEF WallInv
<1>3. CASE Tw!LocalBarrier
  <2> USE <1>0, <1>3 DEF Tw!LocalBarrier, Tw!Arrived
  <2>1. Tw!TypeOK'
    BY DEF Tw!TypeOK
  <2>2. WallRoundInv'
    BY <1>y DEF WallRoundInv, WallRound
  <2>3. WallTmpInv'
    BY DEF WallTmpInv, Tw!Works, Tw!RowsOf
  <2>4. WallSrcInv'
    BY DEF WallSrcInv, RowUpdated
  <2>. QED  BY <2>1, <2>2, <2>3, <2>4 DEF WallInv
<1>4. ASSUME NEW p \in Tw!PEs, Tw!Update(p) PROVE WallInv'
  <2> USE <1>0
  <2>1. /\ place[p] = "update" /\ yl[p] <= LenY /\ icube' = icube /\ tmp' = tmp
        /\ place' = [place EXCEPT ![p] = IF yl[p] < LenY THEN "copy" ELSE "leave"]
        /\ yl' = [yl EXCEPT ![p] = yl[p] + 1]
    BY <1>4 DEF Tw!Update, Tw!Goto, WallRoundInv, Tw!LastWall
  <2>2. /\ rows' \in [Tw!Planes -> [Tw!Walls -> Tw!Rows]]
        /\ \A z \in Tw!Planes, y \in Tw!Walls :
             rows'[z][y] = IF Tw!Works(p) /\ z = p + 1 /\ y = yl[p]
                          THEN Tw!Row(icube, y, "new") ELSE rows[z][y]
    <3>1. CASE Tw!Works(p)
      <4>1. p + 1 \in Tw!Planes /\ yl[p] \in Tw!Walls /\ Tw!Row(icube, yl[p], "new") \in Tw!Rows
        BY <3>1, <1>y, OwnRows, RowTyped DEF Tw!TypeOK
      <4>. QED  BY <1>4, <3>1, <4>1 DEF Tw!Update, Tw!TypeOK
    <3>2. CASE ~ Tw!Works(p)
      BY <1>4, <3>2 DEF Tw!Update, Tw!TypeOK
    <3>. QED  BY <3>1, <3>2
  <2>3. Tw!TypeOK'
    <3>1. yl[p] + 1 \in 1 .. LenY + 1
      BY <2>1, <1>y
    <3>. QED  BY <2>1, <2>2, <3>1 DEF Tw!TypeOK
  <2>4. WallRoundInv'
    <3>1. /\ place'[p] \in {"copy", "leave"} /\ yl'[p] = yl[p] + 1
          /\ \A q \in Tw!PEs \ {p} : place'[q] = place[q] /\ yl'[q] = yl[q]
      BY <2>1 DEF Tw!TypeOK
    <3>2. \A q \in Tw!PEs : WallRound(q)' = WallRound(q)
      BY <2>1, <3>1, <1>y DEF WallRound
    <3>. QED  BY <2>1, <3>1, <3>2, <1>y DEF WallRoundInv, Tw!TypeOK
  <2>5. WallTmpInv'
    <3> SUFFICES ASSUME NEW q \in Tw!PEs, Tw!Works(q), NEW z \in Tw!RowsOf(q)
                 PROVE  /\ place'[q] # "first" =>
                             tmp[Tw!WallOf(yl'[q] - 1)][z] = Tw!Row(icube, yl'[q] - 1, "old")
                        /\ place'[q] \in {"barrier", "update"} =>
                             tmp[Tw!WallOf(yl'[q])][z] = Tw!Row(icube, yl'[q], "old")
      BY <2>1 DEF WallTmpInv, Tw!Works, Tw!RowsOf
    <3>1. CASE q = p
      <4>1. yl'[p] - 1 = yl[p] /\ place'[p] \notin {"barrier", "update"}
        BY <2>1, <1>y DEF Tw!TypeOK
      <4>. QED  BY <2>1, <3>1, <4>1 DEF WallTmpInv
    <3>2. CASE q # p
      BY <2>1, <3>2 DEF Tw!TypeOK, WallTmpInv
    <3>. QED  BY <3>1, <3>2
  <2>6. WallSrcInv'
    <3> SUFFICES ASSUME NEW z \in Tw!Planes, NEW y \in Tw!Walls
                 PROVE  rows'[z][y] =
                          Tw!Row(icube, y, IF RowUpdated(z, y)' THEN "new" ELSE "old")
      BY <2>1 DEF WallSrcInv
    <3>1. z \in Int /\ y \in Int /\ p \in Int
      BY DEF Tw!Planes, Tw!Walls, Tw!PEs
    <3>2. CASE z \in 1 .. LenZ /\ z - 1 = p
      <4>1. Tw!Works(p) /\ z = p + 1 /\ yl'[z - 1] = yl[p] + 1
        BY <2>1, <3>1, <3>2 DEF Tw!Works, Tw!TypeOK
      <4>2. RowUpdated(z, y)' <=> RowUpdated(z, y) \/ y = yl[p]
        BY <3>1, <3>2, <4>1, <1>y DEF RowUpdated
      <4>. QED  BY <2>2, <4>1, <4>2 DEF WallSrcInv
    <3>3. CASE ~ (z \in 1 .. LenZ /\ z - 1 = p)
      <4>1. ~ (Tw!Works(p) /\ z = p + 1)
        BY <3>1, <3>3 DEF Tw!Works, Tw!PEs
      <4>2. z \in 1 .. LenZ => yl'[z - 1] = yl[z - 1]
        BY <2>1, <3>3, WallAssumption DEF Tw!SizeAssumption, Tw!TypeOK, Tw!PEs
      <4>. QED  BY <2>2, <4>1, <4>2 DEF WallSrcInv, RowUpdated
    <3>. QED  BY <3>2, <3>3
  <2>. QED  BY <2>3, <2>4, <2>5, <2>6 DEF WallInv
<1>5. CASE Tw!NextCube
  <2> USE <1>0, <1>5 DEF Tw!NextCube
  <2>1. /\ icube' \in 0 .. NbCubes - 1 /\ rows' = Tw!Fetched(icube')
        /\ 1 \in 1 .. LenY + 1
    BY DEF Tw!TypeOK
  <2>2. Tw!TypeOK'
    BY <2>1, FreshCube DEF Tw!TypeOK
  <2>3. WallRoundInv'
    BY DEF WallRoundInv, WallRound
  <2>4. WallTmpInv'
    BY DEF WallTmpInv
  <2>5. WallSrcInv'
    <3>1. \A z \in 1 .. LenZ : yl'[z - 1] = 1
      BY WallAssumption DEF Tw!SizeAssumption, Tw!PEs
    <3>2. \A z \in Tw!Planes, y \in Tw!Walls : ~ RowUpdated(z, y)'
      BY <3>1 DEF RowUpdated, Tw!Walls
    <3>. QED  BY <2>1, <3>2, FreshCube DEF WallSrcInv
  <2>. QED  BY <2>2, <2>3, <2>4, <2>5 DEF WallInv
<1>6. CASE Tw!Finished \/ UNCHANGED Tw!vars
  BY <1>6 DEF WallInv, Tw!TypeOK, WallRoundInv, WallRound, WallTmpInv, WallSrcInv, RowUpdated, Tw!Works,
     Tw!RowsOf, Tw!Finished, Tw!vars
<1>. QED  BY <1>1, <1>2, <1>3, <1>4, <1>5, <1>6 DEF Tw!Next

(* Every state the PEs reach satisfies the invariant.                     *)
LEMMA WallInvariance == Tw!Spec => []WallInv
BY WallInit, WallNext, PTL DEF Tw!Spec
-----------------------------------------------------------------------------
(* Every variable has its type, and no PE passes the last wall.            *)
THEOREM WallTypeCorrect == Tw!Spec => []Tw!TypeOK
<1>1. WallInv => Tw!TypeOK
  BY DEF WallInv
<1>. QED  BY <1>1, WallInvariance, PTL

(* Two PEs between the same barriers: while p updates wall y, the PE of    *)
(* another plane is at that wall, or is copying or has copied the next one.*)
LEMMA Neighbour ==
  ASSUME WallInv, NEW p \in Tw!PEs, place[p] = "update", NEW q \in Tw!PEs
  PROVE  /\ yl[p] \in 1 .. LenY
         /\ \/ place[q] = "update" /\ yl[q] = yl[p]
            \/ place[q] \in {"copy", "barrier", "leave"} /\ yl[q] - 1 = yl[p]
<1>1. /\ yl[p] \in 1 .. LenY + 1 /\ yl[q] \in 1 .. LenY + 1 /\ yl[p] <= LenY
      /\ place[q] \in {"first", "copy", "barrier", "update", "leave"}
      /\ place[q] = "first" => yl[q] = 1
  BY DEF WallInv, Tw!TypeOK, WallRoundInv
<1>2. WallRound(q) = yl[p]
  BY DEF WallInv, WallRoundInv, WallRound
<1>. QED  BY <1>1, <1>2, WallAssumption DEF Tw!SizeAssumption, WallRound

(* While a PE updates wall y, tmp_wall still holds wall y of its plane and *)
(* of the planes around it, not updated (CurrentWallKept).                 *)
THEOREM CurrentWallKeptHolds == Tw!Spec => []CurrentWallKept
<1>1. WallInv => CurrentWallKept
  <2> SUFFICES ASSUME WallInv, NEW p \in Tw!PEs, Tw!Updating(p), NEW z \in Tw!Around(p)
               PROVE  tmp[Tw!WallOf(yl[p])][z] = Tw!Row(icube, yl[p], "old")
    BY DEF CurrentWallKept, Tw!CurrentWallKept
  <2> DEFINE q == Owner(z)
  <2>1. z \in Tw!Planes
    BY WallAssumption DEF Tw!SizeAssumption, Tw!Updating, Tw!Works, Tw!Around, Tw!Planes, Tw!PEs
  <2>2. q \in Tw!PEs /\ Tw!Works(q) /\ z \in Tw!RowsOf(q)
    BY <2>1, OwnRows
  <2> HIDE DEF q
  <2>3. \/ place[q] = "update" /\ yl[q] = yl[p]
        \/ place[q] \in {"copy", "barrier", "leave"} /\ yl[q] - 1 = yl[p]
    BY <2>2, Neighbour DEF Tw!Updating
  <2>. QED  BY <2>2, <2>3 DEF WallInv, WallTmpInv
<1>. QED  BY <1>1, WallInvariance, PTL

(* While a PE updates wall y, wall y+1 of its plane and of the planes      *)
(* around it is in the buffer as it was fetched (NextWallNotUpdated).      *)
THEOREM NextWallNotUpdatedHolds == Tw!Spec => []NextWallNotUpdated
<1>1. WallInv => NextWallNotUpdated
  <2> SUFFICES ASSUME WallInv, NEW p \in Tw!PEs, Tw!Updating(p), NEW z \in Tw!Around(p)
               PROVE  rows[z][yl[p] + 1] = Tw!Row(icube, yl[p] + 1, "old")
    BY DEF NextWallNotUpdated, Tw!NextWallNotUpdated
  <2>1. z \in Tw!Planes
    BY WallAssumption DEF Tw!SizeAssumption, Tw!Updating, Tw!Works, Tw!Around, Tw!Planes, Tw!PEs
  <2>2. yl[p] \in 1 .. LenY
    BY Neighbour DEF Tw!Updating
  <2>3. ASSUME z \in 1 .. LenZ PROVE yl[z - 1] <= yl[p] + 1
    <3>1. z - 1 \in Tw!PEs
      BY <2>3, WallAssumption DEF Tw!SizeAssumption, Tw!PEs
    <3>2. yl[z - 1] \in Int
      BY <3>1 DEF WallInv, Tw!TypeOK
    <3>. QED  BY <2>2, <3>1, <3>2, Neighbour DEF Tw!Updating
  <2>4. ~ RowUpdated(z, yl[p] + 1)
    <3>1. z \in 1 .. LenZ => yl[z - 1] \in Int
      BY WallAssumption DEF Tw!SizeAssumption, WallInv, Tw!TypeOK, Tw!PEs
    <3>. QED  BY <2>2, <2>3, <3>1 DEF RowUpdated
  <2>. QED  BY <2>1, <2>2, <2>4, WallAssumption DEF Tw!SizeAssumption, WallInv, WallSrcInv, Tw!Walls
<1>. QED  BY <1>1, WallInvariance, PTL

(* In its own plane a PE finds the previous wall in the other half of      *)
(* tmp_wall, not updated (OwnPreviousWallKept).                            *)
THEOREM OwnPreviousWallKeptHolds == Tw!Spec => []OwnPreviousWallKept
<1>1. WallInv => OwnPreviousWallKept
  BY OwnRows DEF WallInv, WallTmpInv, OwnPreviousWallKept, Tw!OwnPreviousWallKept, Tw!Updating
<1>. QED  BY <1>1, WallInvariance, PTL

(* When the PEs have left collide_cube, the whole cube has been updated    *)
(* and its halo has not (CubeUpdated).                                     *)
THEOREM CubeUpdatedHolds == Tw!Spec => []CubeUpdated
<1>1. WallInv => CubeUpdated
  <2> SUFFICES ASSUME WallInv, \A p \in Tw!PEs : place[p] = "leave",
                      NEW z \in Tw!Planes, NEW y \in Tw!Walls
               PROVE  RowUpdated(z, y) <=> z \in 1 .. LenZ /\ y \in 1 .. LenY
    BY DEF CubeUpdated, Tw!CubeUpdated, WallInv, WallSrcInv
  <2>1. z \in 1 .. LenZ => yl[z - 1] = LenY + 1
    BY WallAssumption DEF Tw!SizeAssumption, Tw!PEs, WallInv, WallRoundInv
  <2>. QED  BY <2>1, WallAssumption DEF Tw!SizeAssumption, RowUpdated, Tw!Walls
<1>. QED  BY <1>1, WallInvariance, PTL
=============================================================================
