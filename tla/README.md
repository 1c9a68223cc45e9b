# opal on the Kalray MPPA: specification, model checking and proofs

The repository holds several programs around one physical simulation (a lid-driven
cavity solved by a lattice Boltzmann method, D3Q19) and around polyhedral
compilation.  Its core, and the part with the concurrency, is
`src/opal/src_bare_async`: the simulation distributed by hand over the compute
clusters of an MPPA processor, each with 16 PEs and a small local memory, with
asynchronous transfers to the lattice in DDR.  These TLA+ modules describe that
program; the sources are named at every definition in `PROJECT.json` ("map").

Contents: [inventory](#inventory), [modules](#modules), [runs](#runs-and-bounds),
[fairness](#fairness), [proofs](#proofs), [disagreements](#disagreements-with-the-comments-and-papers),
[limits](#what-is-not-modelled), [plan](#plan).

## Inventory

### Components and how they interact

| component | state it keeps | operations | talks to |
|---|---|---|---|
| main loop (`cluster/main.c`) | `Src`/`Dst` mapped on `LatticeEven`/`LatticeOdd`, `step`, `Results.Converged` | allocate (cluster 0), `init`, per step: swap, `compute_async`, every `Period` steps `monitor`; clean up | `compute_async`, `monitor`, RPC barriers |
| cube pipeline, two lattices (`compute.c`) | rings `async_buffers_src`, `async_buffers_dst`, events `async_events_get/put`, `icube`, `ibuf` | prologue, kernel loop, epilogue, trailing cube | DMA engine (get/put/wait), the other PEs (`local_barrier`), the other clusters (`mppa_rpc_barrier_all`) |
| cube pipeline, in place (`compute_inplace.c`) | one ring `async_buffers_src`, the events | the same phases, with the next get in the buffer of the put | the same |
| two-wall collision (`compute_inplace.c`, `collide_cube`) | the cube, `tmp_wall[2]` | copy a wall, barrier, update a wall | the other PEs |
| geometry (`compute_common.h`, `compute_common.c`) | none | `NB_CUBES_*`, halo offsets, `opal_async_get/put_*cube`, `deinterleave3` | all of the above |
| monitor pipeline (`compute_common.c`) | rings `async_buffers_src`, `async_velocity`, the one `async_bitmap`, `delta_reduce_*` | as the compute pipeline, then a reduction over PEs and an all-to-all put over clusters | DMA engine, PEs, clusters |
| streaming and boundaries (`collide_cube`, `getGeometry`, `global.h`) | the populations of a node | pull, bounce-back at the masked links, push of the lid | the cube pipelines |
| `init` (`compute_common.c`) | the lattices, the broadcast addresses | cluster 0 fills the lattices, sends the pointers, everybody meets | DMA engine, clusters |
| IO clusters and host (`io/`, `host/`) | RPC servers, the mailbox between the two IO clusters | spawn, notify, serve, wait for the clusters, exit | clusters, PCIe |
| OpenCL version (`opal/src`) | host: `Time`, `Results`; device: the lattices, velocity, delta, picture; a work-group: `localf` | enqueue kernels, blocking reads, decide, export; fetch, barrier, relax, store | the queue of the device |
| sequential and ppcg versions (`opal/src_mono`, `opal/src_ppcg`) | the lattices, velocity, delta, density | compute, monitor, extract, export | - |
| ISL experiments (`ISL_transform`) | schedule trees | tile, fuse, count bands | isl |

`ppcg-0.06` is vendored; `2D`, `3D`, `loop*`, `kernel.cl` are inputs of the tools.
`compute_shift.c`, which the makefiles mention, is not in the repository.

### Where it is hard

* **Transfers overlap computation.**  A ring of buffers is refilled while the PEs
  compute; an event only tells that the last job given to it is *locally*
  complete; gets are unordered.  A wait that is missing, one too early or on the
  wrong slot corrupts a cube only under a timing no test controls.
* **Sixteen PEs share buffers and one barrier object**, called at several places.
* **Clusters read each other's cubes** (the halo), separated by one barrier per step.
* **Updating in place**: a stencil needs old values of nodes a neighbour PE overwrites.
* **One event, one buffer, several transfers.**  The monitoring gives two gets the same
  event and all pictures the same buffer.
* **Barriers only count.**  `mppa_rpc_barrier_all` does not know from which line it is
  called; each cluster decides for itself whether to go on, from sums the others have put
  into its memory.
* **The same loop five times.**  Clusters, OpenCL, sequential and two ppcg builds each swap the
  lattices, monitor and leave early on their own; the OpenCL host does so ahead of the device.
* **Starting and ending** takes a host, two IO clusters and the compute clusters, each waiting for
  another, with spawns that may fail.
* **Counting**: cubes left over by the division among clusters, halo offsets at the
  ends of a dimension, the guard of the last prefetches.

"hazards" in `PROJECT.json` lists these at their lines, with the properties that cover them.

### What makes each component correct

* pipelines: a PE computes from the cube it is at, of this time step; a put sends
  the whole updated cube; no buffer is written while the DMA engine reads it, nor read
  while it writes; at the end of a step every owned cube has been put; no wait is lost;
  it ends.  Where the code misses this by one transfer, the property names that transfer and says
  that nothing else goes wrong.
* two-wall: each row a PE reads is the row it means and has not been updated.
* geometry and ownership: the clusters partition the cubes, the cubes partition
  the nodes, a get brings the whole stencil and nothing outside the lattice.
* steps: a stencil never mixes time steps; seen from outside the lattice advances
  by whole steps.
* monitoring: what is summed is exactly the variation since the last monitoring, each cube once.
* the whole program of the clusters: every barrier is called from the same line in the same step
  by all; they come to the same verdict from the same sums; nobody uses an array before it is there or
  after it is freed; together they run one sequential loop and end.
* streaming: a population goes where its velocity says or comes back reflected.
* OpenCL, sequential, ppcg: the same loop; norm, picture and results are of the step they are said to be
  of; items of a work-group do not mix nodes.
* boot: who is asked is there to answer; it all ends.

## Modules

| module | models | lines of |
|---|---|---|
| `MppaAsync` | external: jobs, events, local completion | the calls in `compute*.c`; `src/doc/Asynchronous.pdf` sec. 2 |
| `ComputePipeline` | one cluster, two-lattice build, several steps | `compute.c` |
| `ComputePipelineProofs` | theorems about it | |
| `ModLemmas` | division and ring slots, for all the proofs | |
| `InplacePipeline` | one cluster, in-place build, one step | `compute_inplace.c:272` and after |
| `InplacePipelineProofs` | theorems about it | |
| `TwoWall` | `collide_cube` of the in-place build, row by row | `compute_inplace.c:41-269` |
| `Cubes` | cutting the lattice: pure operators | `compute_common.h`, `compute_common.c` |
| `Sweep` | all clusters, several steps, with the geometry of `Cubes` | `main.c`, `compute.c`, `compute_common.c` |
| `SweepProofs` | theorems about it and about the operators of `Cubes`, for every build | |
| `Lbm` | what `Sweep` promises: the lattice advances one step at once | |
| `MCSweep` | two builds for TLC | |
| `MonitorPipeline` | the monitoring of one cluster, several calls | `compute_common.c:656-821` |
| `MonitorPipelineProofs` | theorems about it | |
| `Opal` | the whole program of the clusters, from allocation to clean up | `main.c:84-262`, `init`, `monitor` |
| `Stream` | streaming, bounce-back and lid, node by node | `compute.c:90-151`, `global.h`, `getGeometry` |
| `Boot` | host, IO clusters and the life of the compute clusters | `host.c`, `io/main.c`, `io/south.c` |
| `OclHost` | OpenCL host, its queue and the device | `src/main.c`, `launch.c`, `app.c` |
| `ClKernel` | a work-group of the OpenCL kernel and its local memory | `src/compute.cl:547-826` |
| `Mono` | `src_mono` and `src_ppcg` (two lattices) | their `main.c`, `compute.c` |
| `MainLoop` | what `Opal`, `OclHost` and `Mono` promise: one sequential loop | `main.c:175-199` |
| `MCOpal`, `OpalProofs` | `Opal` and `Boot` for TLC; theorems about both | |
| `MCStream`, `StreamProofs` | `Stream`, `TwoWall` and `ClKernel` for TLC; theorems about the three | |
| `MCPrograms`, `ProgramsProofs` | `OclHost` and `Mono` for TLC; theorems about both | |

**ComputePipeline.**  `pc[p]` says where PE `p` is in `task_routine_opal_compute`.
PE0 runs `Prologue`, then for each cube `WaitBuffers`, the barrier, `Collide`, the barrier,
`PutCube`; then `Epilogue`, and the blocking get and put of the trailing cube as a call and
a return (`TrailingGet`/`TrailingGetReturns`).  The other PEs only go from barrier to
`collide_cube` to barrier.  `LocalBarrier` counts arrivals wherever they call it from, as
the single object `barrier_0` does; that they pass it in lockstep is a property, not the
shape of the model.  A PE is inside `collide_cube` from "collide" to "leave", so the
invariants speak of everything that can happen meanwhile.  The content of a buffer is the
cube and the time step it was fetched for; a destination buffer has one such content per
plane, written by the PE of that plane.  `jobs` holds the transfers that are not locally
complete; `GetArrives` and `PutSent` complete them in any order, `PutVisible` makes the
effect of a put appear in the lattice later.  `NextStep` is the join, the barrier of the
clusters and the next call of `compute_async`: it waits for no transfer.  The time between
the copy loops of one collision, the arithmetic, and error codes (`CHECK_ERROR` only
prints) are left out.  The kernel loop asks for one cube too many, number `NbCubes`, and nobody waits for
that get; it may arrive at any later time, also in another time step.  `Alien(k, s)` is what it can leave where cube
`k` of step `s` should be, and `Seen` adds the cube itself: the properties hold for every depth with this one exception,
and `CubeHasArrived`, which makes none, is violated (no. 2).

**InplacePipeline** differs where the code does: one ring, no wait for a put before
the collision, a wait between the put and the next get (`GetNext`), on the event the put
of this very cube was just given.  On the first turn of the ring that wait is left out and the next get, and after it the
collision, can overtake the put (no. 6); `SecondTurnSafe` is about the turns that follow.  Here puts are read by the DMA engine in the order
they were posted: the documentation orders puts between themselves, and without that order the
ticket lost on each `putEv` would matter too.

**TwoWall** has one action per copy of a wall, one per update.  Rows are the unit: a PE
works on its plane row by row, and what matters of a row is which cube and wall it
holds and whether it has been updated.

**Sweep** fetches one cube at a time per cluster, since `ComputePipeline` has already
shown how several overlap.  `Get` records the time steps of *all* the cubes that the get
touches, computed from the node ranges of `Cubes`, halo included.  `PutsLandFirst` is the
assumption the program makes of the hardware, that the puts are visible when the barrier
ends; it is TRUE in the passing run and FALSE in `sweep_no_fence`.  A layout is a
build: cavity, cube lengths and clusters.

**MonitorPipeline** is `ComputePipeline` with the differences of `task_routine_opal_monitor`: two gets
per slot on one event, velocities put from the buffer they were fetched into, one buffer for the
pixels.  `puts` is a sequence, since puts are read by the DMA engine in the order they were posted; `gets` is a set, and its
members arrive in any order.  A plane of a buffer holds a cube and the call it is
of, and `delta` is the set of the differences that have been added, so that "each cube once, against the
monitoring before" can be said.  The event of a slot keeps the ticket of the second get (`Ticket`), that of the velocities, so the wait
is one for the velocities only: of the lattice cube nothing holds (`SourceHasArrived` is violated, no. 7).  The other properties name what
the code does not protect: the velocities of cube 0, whose put the next get may overtake because the code does not wait on the first loop
(`Exposed`, and in later calls `Suspect`; no. 8); the pixels of cube 0, which those of cube 1 may replace if both are of the picture
(`Drawn`; no. 9); and the get of cube `NbCubes`, as in the compute pipeline (`Alien`, `Untimely`).

**Opal** composes what the pipelines do: a compute phase or a monitoring of a cluster is one action, at its
end; the part of an array that a cluster owns is abstracted to the step its content is of, a sum to its
step and whether it is small.  `Barrier` releases the clusters when each is at *some* call of
`mppa_rpc_barrier_all`; `AfterBarrier` sends each on from where it was.  That the lines agree is the property
`SameSite`, not the shape of the model.  `PutsLandFirst` is as in `Sweep`, `MayFail` lets the allocation fail.
`ExportFirst` is the picture that `init` writes to a file from DDR, before any barrier.
`ImplementsLoop` is the refinement of `MainLoop`.

**Stream** lets each PE walk over the nodes of its plane; a population is `<<node, link>>`, that is where a
value comes from.  The tables are those of the code, the reference of the properties is the velocity that the
moments give each population (`compute.c:160`).  **ClKernel** uses the same tables in the kernel that is compiled:
item 0 of each line fetches for the rows, all lines share the rows (`Column` of an item: those with its row), then all items use them.

**OclHost** keeps the queue as a sequence; the host goes on after each launch and waits only in a
blocking read.  Arrays are the step they are of.  `exitOnFail` may end the host at any call.  The stored velocities are in a
buffer that the host created write-only; a kernel that reads them finds what was stored or something `Undefined`.
**Mono** does the same for the two programs that have no queue.

**Boot** has one action per call that others can notice.  Any spawn may fail, that of the south IO cluster included, whose
result the code does not look at.  The south IO cluster may notify the north one before that one has configured the tag; `early` says
whether such a notification is kept or lost, which only the library knows, so both can happen.  `Missing` is what is then waited for
in vain.  The program of a compute cluster is one action, which needs the servers and the other clusters.

**MCOpal**, **MCStream** and **MCPrograms** put components that do not interact side by side for TLC:
a behaviour belongs to one of them, chosen at the start, the others stay where they are.  The constants `Parts`
of `MCOpal` and `Programs` of `MCStream` say which of them a run starts.

## Runs and bounds

| run | asks | bounds |
|---|---|---|
| `compute_steps` | the pipeline of a cluster over two steps, safety and progress | depth 2, 3 cubes and a trailing one: the ring wraps, its last turn is partial, the stray get of cube 3 is posted in each step and may land in the next; 3 PEs; both lattices are written |
| `compute_stale_get` | that the cube has arrived: violated (no. 2) | depth 2, 3 cubes, 2 PEs, 2 steps |
| `sweep_builds` | all clusters, ownership, geometry, consistency, refinement of `Lbm` | 3 clusters and 8 cubes (two trailing ones); 2 clusters and 2x3x2 cubes of 3x2x3 nodes (the dimensions differ, one has an inner cube); 2 steps, so that both lattices are read and written |
| `two_wall_neighbours` | the previous wall in the neighbour planes: violated (no. 5) | 2 PEs, 2 walls |
| `inplace_deep` | the in-place pipeline, safety and progress | depth 2, 5 cubes: the ring wraps more than twice and the last turn is partial; a trailing cube; 3 PEs |
| `monitor_calls` | the monitoring pipeline over two calls, safety | depth 2, 3 cubes and a trailing one, gets in any order; the picture has cubes 0 and 1, which follow one another, the last one and the trailing one, and not the stray one |
| `monitor_two_gets` | that the lattice cube has arrived: violated (no. 7) | one cube, 2 PEs, one call |
| `opal_monitored` | the program of the clusters, refinement of `MainLoop`, progress; start and end with a host, progress | 3 clusters; 20 steps, a monitoring every second one, each with either verdict; allocation and each spawn may fail |
| `opal_first_picture` | that the first picture is of step 0: violated (no. 20) | 2 clusters |
| `stream_links` | the tables of links; the collision in place; the rows of a work-group | a cavity of 3x4x3 nodes: every corner, edge, face and an inner line; 3 planes and 3 walls (a plane with two neighbours, each `tmp_wall` used twice), a PE without a plane, 2 cubes, so stale walls of the first are seen; a work-group of 2 lines of 3 items with a spare row |
| `programs` | OpenCL, sequential and ppcg, refinement of `MainLoop`, progress | 8 steps with a monitoring every 4, the last of them at the last step, as in the repository's configuration; with images and export |
| `mono_norm` | that the norm is over a period: violated (no. 18) | the same 8 and 4, `src_mono` |

These configurations are not among the runs; each shows, with `tlc -config <name>.cfg <module>`, that a property
is violated (or, the last one, that it holds).  The numbers are those of the
[disagreements](#disagreements-with-the-comments-and-papers).

| configuration | module | shows |
|---|---|---|
| `compute_if_exists`, `compute_trailing_slot` | `ComputePipeline` | 1, 3 |
| `sweep_no_fence` | `MCSweep` | 4 |
| `inplace_get_under_put` | `InplacePipeline` | 6 |
| `monitor_first_wait`, `monitor_bitmap` | `MonitorPipeline` | 8, 9 |
| `opal_no_fence`, `opal_alloc_fails` | `Opal` | 10, 11 |
| `boot_spawn_fails` | `Boot` | 12 |
| `ocl_summary`, `ocl_write_only` | `OclHost` | 13, 14 |
| `cl_fetch_some`, `cl_fetch_node`, `cl_shared_row` | `ClKernel` | 15, 16, 17 |
| `mono_export` | `Mono` | 19 |
| `inplace_shallow` | `InplacePipeline` | with a ring longer than the loop no. 6 cannot happen |

Nothing in the pipelines depends on the number of cubes beyond the position in the ring and
the distance to both ends, so a full turn and a part show every case, the next step or call being another turn; a third PE
distinguishes "the other" from "all the others", which in the monitoring is left to the proofs.  The theorems on the pipelines hold for every
depth, number of cubes and number of PEs, of builds the runs do not reach too.

Deadlock is checked in every passing run but one: the end of
the program is an explicit stuttering action (`Finished`).  `opal_monitored` lets a spawn or an allocation
fail, after which the program really stops, and says exactly where: by `ClustersEnd` either all clusters end or cluster 0 has returned
without memory and all the others are at the first barrier (`Hung`), and by `ItAllEnds` host and IO clusters end if and only if
nobody is `Missing`.

In `Opal` a cluster reads two things of another: its part of an array and its sum.  Three clusters
tell "another" from "all others", and ten monitorings reach a stop after any of them as well as the full duration.

Every definition named `Fault_*` is a slip that somebody could make in the definition it is
named after; replacing one by the other must make TLC find a violation ("mutants" in
`PROJECT.json`).  They show that each property can fail; no specification uses them.

## Fairness

`FairSpec` is weakly fair in the steps of PE0, the barrier, `Collide` of each PE, the start of
the next step and the DMA engine: each PE has a core of its own and never yields it, a bsp
barrier releases everybody once all have come, and the hardware serves every posted
transfer (fairness of the DMA as a whole suffices, since the jobs that exist at any time are
finitely many and PE0 posts no new ones while it waits).  Progress
(`EveryCubeUpdated`, `LaterCubesSent`) is checked under it.  The safety properties need none.

`Opal` is weakly fair in each cluster, in the barrier and in the landing of puts; `Boot` in host, IO clusters and
each compute cluster, for each is a processor of its own; `MCPrograms` in the host, in the
device (it goes on with its in-order queue) and in the sequential programs, which nothing stops.

## Proofs

TLAPS checks, for *every* value of the constants, each safety property and each refinement that the runs
check on small instances.  What a theorem assumes beyond the `ASSUME`s of its module stands in the last column.

| module | theorems | assumed |
|---|---|---|
| `ComputePipelineProofs` | `TypeCorrect`, `LockstepHolds`, `CollideReadsOwnCubeHolds`, `NoWriteUnderPutHolds`, `PutCarriesWholeCubeHolds`, `StepCompleteHolds`, `GetTicketKeptHolds`, `PutTicketKeptHolds` | |
| `InplacePipelineProofs` | `TypeCorrect` | |
| | `CollideOwnsCubeHolds`, `SecondTurnSafeHolds`, `SecondTurnSentHolds` | `NoStrayGet` |
| `MonitorPipelineProofs` | `TypeCorrect`, `MonitorReadsOwnCubeHolds`, `LaterPutsSafeHolds`, `DeltaExactHolds`, `BitmapKeptHolds`, `MonitorCompleteHolds` | |
| `SweepProofs` | `GetStaysInside`, `GetAligned`, `GetCoversStencil`, `PutsPartitionNodes`, `DeinterleaveInBox`, `CubeAtInBox`, `DeinterleaveCubeAt`, `ClustersPartitionCubes` (operators of `Cubes`) | two cubes per dimension where the cut-off needs them |
| | `TypeCorrect`, `GetInBoundsHolds`, `StencilFetchedHolds`, `ExclusivePutsHolds` | |
| | `ConsistentReadHolds`, `LatticeCompleteHolds`, `ImplementsLbmHolds` | `PutsLandFirst` |
| `OpalProofs` | `TypeCorrect` (`Opal`); `BootTypeCorrect`, `ServedWhileRunningHolds`, `BootAwaitedHolds` (`Boot`) | |
| | `SameSiteHolds`, `BarrierAwaitedHolds`, `ReadsCurrentStepHolds`, `TotalOfThisStepHolds`, `NoUseAfterFreeHolds`, `ImplementsLoopHolds` | `PutsLandFirst` |
| `StreamProofs` | `EachGoesToOnePlace`, `TypeCorrect`, `MovesByVelocityHolds`, `LidPushesReflectedHolds` (`Stream`) | |
| | `WallTypeCorrect`, `CurrentWallKeptHolds`, `NextWallNotUpdatedHolds`, `OwnPreviousWallKeptHolds`, `CubeUpdatedHolds` (`TwoWall`) | |
| | `RowOfOneColumnHolds` (`ClKernel`) | |
| `ProgramsProofs` | `NormsOfTheirStepsHolds`, `ReportsOfTheirStepHolds`, `EachImplementsLoopHolds` | |

The two assumptions are where the code, read strictly, does something else, and a configuration outside them violates
the property:

* `NoStrayGet`: the get of cube `NbCubes` is not posted (fewer cubes than buffers) or cannot land on a buffer in use.
  `InplacePipeline` is one step, in which this leaves out only depth 1 with a trailing cube (disagreement 3).
* `PutsLandFirst`: the puts are visible when the barrier ends; disagreements 4 and 10.

The other theorems have no assumption: where the code does not do what its comments say, the property itself names the case and says that it
is the only one.  These cases are

* the get of cube `NbCubes` in both pipelines with several steps or calls (`Alien`, `Untimely`; nos. 1 to 3),
* the velocities of cube 0, the pixels of cube 0, and the lattice cube of a monitoring, of which nothing is claimed (nos. 8, 9, 7),
* the first picture, which `ReadsCurrentStep` does not look at (no. 20),
* a spawn that fails and a notification that is lost, after which the north IO cluster waits for ever (no. 12),
* rows of `localf` that several items share, and populations that are not fetched (nos. 15 to 17),
* the contents of a write-only buffer, the norm of step `Duration` of `src_mono` and what it exports (nos. 14, 18, 19).

None of the properties is inductive.  The inductive invariants, each checked by TLC before it was proved:

* **`ComputePipeline`.**  `PhaseInv` relates the
  program counters: where PE0 and the clients are with respect to the two barriers of the cube
  at hand, from which lockstep follows.  `PutInv` says which puts may be pending:
  those of the last `Depth` cubes, one per slot, each being the ticket of its event, so that the
  wait on the slot's event is a wait for the only put of the slot.  `DstInv` gives the content of
  the planes of a buffer whose put is pending, and `GetInv` says the same for gets and the content
  of source buffers: a slot holds the cube it was last asked for unless its get is pending, or what a get of cube
  `NbCubes` of this step or of an earlier one has left there.  Slots
  are `k % Depth`; `ModLemmas` proves that cubes less than `Depth` apart have different slots.  With what the
  puts have already done to the lattice the step is complete when PE0 is done, whatever is still in flight.
* **`InplacePipeline`.**  The same `PhaseInv`.  The gets pending are of the buffers that follow PE0's; the buffer of the
  collision has exactly the planes of the PEs that have left it updated.  Puts of the second turn of the ring are
  waited for before their buffer is filled again, so that neither a get nor a collision reaches it; of those of the first turn nothing is
  claimed (disagreement 6).
* **`MonitorPipeline`.**  The gets of velocities that are pending are, one per slot, the tickets of the events, or strays of cube `NbCubes`
  (`GetsInv`); those of lattice cubes do not matter to what is proved.  So a slot has the velocities of its cube when the wait for its event is
  over (`VelInv`).  Puts are
  read in order, so a wait for the newest empties the queue, and only the puts of the cube at hand or of the first one, which the code
  does not wait for, can be pending (`PutsInv`).  `MemoryInv` and `DeltaInv` say what has become of the cubes that are done, `DrawInv`
  adds their pixels.
* **`Sweep`.**  `OwnInv` says that each cluster is at a cube of its own and has put
  exactly its cubes below that one (`MineInOrder`: `Trailing` comes after the last regular cube, so the
  order of the cubes is the order of the work), and with `ClustersPartitionCubes`, `PutsPartitionNodes` and the
  uniqueness of coordinates this makes the puts of a step disjoint.  `VersionInv` says that the source
  lattice is wholly at the step and that a cube that has been put is up to date in the destination or its put
  is in flight; when all have arrived and nothing is in flight, every cube of the destination is
  at the next step, which is what the refinement of `Lbm` and the next step need.
* **`Opal`.**  The lines of the program fall into stages separated by the barriers.  All clusters are in the stage of cluster 0, in its step,
  before or at its last line; in the stage of the decision those that have decided agree, since they have the same sums (each array
  part and each sum is of the step its stage says).  Hence they meet at one line, and the loop they run together is that of
  cluster 0, which is the refinement mapping of `MainLoop`.
* **`Boot`.**  Where the north IO cluster is decides which servers and consoles exist; a cluster runs only while it serves
  (`BootInv`).  The notification of the south IO cluster is sent once, and kept, received or lost; while the south IO cluster or its
  notification is missing the north one does not come past `sync`.  When the loop over the clusters is over
  all have been asked to start, and each runs, has exited or was not spawned (`WaitInv`).
* **`Stream`.**  The tables of links are one to one, and undone by the opposite link at a wall; every node a PE has passed has
  been gathered by them.
* **`TwoWall`.**  All PEs have passed the same number of barriers in the cube, so a PE is at most one copy ahead.  Each row of `tmp_wall`
  is written by one PE, which leaves there the two walls it copied last; a row of the buffer is updated up to the wall its PE has reached.
* **`ClKernel`.**  Once the barrier has been passed, what is in a row of `localf` is from the fetch of some line into that row or from an item
  with that row (`RowsInv`), for each of the 19 links: those that are not fetched are written by such items only.
* **`OclHost`.**  The queue is a suffix of the commands the host has issued, so that its length and the place of the host tell which they
  are (`OclNumbers`, `OclQueue`: the steps are numbered from the end), and these how far the arrays of the device are (`OclMem`).
  A blocking read is the last command, so the host that is past it finds the queue empty and the array of its step
  (`OclRead`).  That monitoring and extraction read `LatticeEven` whatever the step is right because only even steps are monitored or
  last (`PeriodsAreEven`).  The velocities stored are of the last monitored step, which `PeriodBefore` makes exactly a period old when
  the next is due.  `Mono` has the same argument without the queue; `MonoMem` adds the extraction of `src_mono`, which only the
  monitoring of step `Duration` can come after.

Left to TLC: liveness, since fairness and `ENABLED` are out of the prover's reach (`EveryCubeUpdated`, `LaterCubesSent`,
`ClustersEnd`, `ItAllEnds`, `EachEnds`).  Each module has a type invariant `TypeOK`; those of the three pipelines, `Sweep`, `Opal`,
`Boot`, `Stream` and `TwoWall` are proved.  The types of the others are part of the invariants above (`OclTyped`, `SeqTyped`), with the values of
the arrays bounded in TLC only.

## Disagreements with the comments and papers

Nos. 2, 5, 7, 18 and 20 are runs, quoted under "findings" in `PROJECT.json`; the others are shown by the
configurations named in brackets.  Paths are relative to `src/opal/src_bare_async/cluster` in nos. 1 to 11 and 20.

1. `compute.c:343` posts one get more than "if exists" (line 342) allows (`compute_if_exists`).
2. That get can land in the next time step on a cube being read (`compute_stale_get`).
3. With depth 1 it can land on the trailing cube (`compute_trailing_slot`).
4. One barrier per step is not enough if an event only means local completion (`sweep_no_fence`).
5. The in-place collision copies over a wall a neighbour is reading (`two_wall_neighbours`).
6. The in-place pipeline refills a buffer before it has been sent (`inplace_get_under_put`).
7. `compute_common.c:690` "PE0 waits for cube's arrival": the two gets of a cube share one event, which keeps the ticket of the
   second; gets are not ordered, so the lattice cube may still be on its way (`monitor_two_gets`).
8. `compute_common.c:737` "This wait is not needed on the first loop": it is, since the put that has just been posted reads the very
   buffer the next get fills (`monitor_first_wait`).
9. The same wait protects the only `async_bitmap`: the second cube may be drawn over the first (`monitor_bitmap`).
10. `compute_common.c:878` "Each cluster calculate total_delta": without a fence a term may be that of an
    earlier monitoring, and the verdicts may differ (`opal_no_fence`).
11. `compute_common.c:465` "every clusters wait for cluster 0 finish init data": for ever, when cluster 0 has returned from `main` because an
    allocation failed (`main.c:113`, `opal_alloc_fails`).
12. `io/main.c:38` reports a cluster that could not be spawned and goes on, line 43 does not even look whether the south IO cluster could;
    the exit message of line 82 is never sent (`boot_spawn_fails`).
13. `src/opal/src/main.c:90` "Stop timer": without export the last kernels may still be in the queue
    (`ocl_summary`).
14. `src/opal/src/data.c:70` creates the stored velocities write-only, `compute.cl:791` reads them (`ocl_write_only`).
15. `src/opal/src/compute.cl:575` "Fetch source density distribution": of the 19 populations three are fetched, the loops for the others
    are commented out, and all are summed (`cl_fetch_some`).
16. These three come from the neighbours of item 0's node for every item (`cl_fetch_node`).
17. Items with the same `get_local_id(0)` share a row of `localf`, and `Ny > 1` is accepted (`cl_shared_row`).
18. `src/opal/src_mono/compute.c:318` "every 'Period' steps": the extraction at step `Duration-1` overwrites the velocities that the monitoring of step
    `Duration` compares with.  `src/opal/README:40` and 66 show it: 0.0000733 against 0.0073026 (`mono_norm`).
19. `src/opal/src_mono/compute.c:346` "do on the last step": it is the step before, and never comes after an early convergence
    (`mono_export`).  When step `Duration` is monitored the density that is exported is of step `Duration-1` and the velocity of step
    `Duration`.
20. `compute_common.c:452` "export first bitmap": cluster 0 writes it to a file from DDR when the puts that fill it have only left the
    cluster, before any barrier (`opal_first_picture`).

Nos. 2, 4, 7, 8, 9, 10 and 20 depend on how late a transfer may be.  The documentation of the library allows
it; how the hardware behaves in practice is outside this model.

## What is not modelled

* the floating point of the collision, hence convergence (either verdict is possible wherever the code
  decides) and physics;
* error codes of the library: the code prints and goes on (`CHECK_ERROR`); `DUMP_*` dumps, logs, the format of reports;
* builds with `CAVITY` not a multiple of the cube lengths or with a single cube in a
  dimension, where the macros are wrong (`LayoutAssumption`), and with fewer PEs than planes;
  a `DURATION` below ten, which makes `Period` zero and the test of `main.c:188` a division by it (`PeriodAssumption`);
* a work-group larger than the 16 rows of `localf` (`GroupAssumption`), the `CLSTENCIL` variant of the
  kernel and the one under `#if 0`;
* `MPPA_ASYNC_BOOST`, whose code does not compile;
* `compute_merged` of `src_ppcg` (the same loop with constant sizes, for the polyhedral compiler) and what ppcg generates from it;
* memory that is read uninitialised or after `free`: the sequential programs start from what `malloc` returns
  (`Mono` takes the zeroed pages of a large block), and `src_mono/main.c:142` frees the `Config` that
  `printSummary` reads;
* `async_example.cl`, which nothing builds or launches, and the ISL experiments, which are sequences of calls to a
  library with no state of their own;
* the memory model of a cluster: `local_barrier` flushes and invalidates the caches of each PE, and
  the model takes the local memory as coherent;
* `ppcg-0.06` (ppcg, isl and pet): a third-party compiler that is vendored here.  It holds nearly all of the lines of the
  repository, so that these modules, which cover the programs written in it, cover a small share of its lines.

## Plan

Done: the modules above, and the proof of every safety property and refinement the runs check.  What is left:

1. the types of `OclHost`, `Mono` and `ClKernel` as theorems of their own, with the bounds of `TypeOK`;
2. `InplacePipeline` over several steps, with the stray get as an exception of the properties instead of `NoStrayGet`;
3. the theorems of `OpalProofs`, `SweepProofs` and the pipelines in one statement: a cluster whose steps are those of `ComputePipeline` does
   what `Sweep` takes as one action, and `Sweep` what `Opal` does.
