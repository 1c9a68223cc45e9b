-------------------------------- MODULE OclHost --------------------------------
(***************************************************************************)
(* The OpenCL implementation (src/opal/src): the host program enqueues     *)
(* kernels on the in-order queue of a device and runs ahead of it.  Only a *)
(* blocking read (clEnqueueReadBuffer with CL_TRUE) makes it wait.  The    *)
(* kernels exchange two lattices as in MainLoop's other implementation,    *)
(* but the monitoring and the extraction kernel have LatticeEven as their  *)
(* source once and for all (app.c:219, 236), whatever the step.            *)
(*                                                                         *)
(* The content of an array is abstracted to the step it is of; delta is    *)
(* the pair of the steps whose velocities it compares.  What a kernel does *)
(* with the populations of a node is the matter of ClKernel.               *)
(***************************************************************************)
EXTENDS Integers, Sequences

CONSTANTS
  Duration, Period,  \* Config->Duration, Config->Period
  Images, Export     \* Config->Images, Config->Export

(* What getConfig accepts (config.c:95, 105), which exits otherwise.       *)
ASSUME ConfigAssumption ==
  /\ Duration \in Nat \ {0} /\ Duration % 2 = 0
  /\ Period \in Nat \ {0} /\ Period % 2 = 0
ASSUME FlagAssumption == Images \in BOOLEAN /\ Export \in BOOLEAN

Undefined == -1
Copied    == {"delta", "bitmap", "density", "velocity"}  \* read by the host

VARIABLES
  pc,         \* where the host is
  exited,     \* it has called exit: exitOnFail, or the end of main
  time,       \* Time
  converged,  \* Results->Converged
  queue,      \* Frame->Queue, the running command at its head
  mem,        \* the arrays of the device
  results     \* the arrays of the host

host == <<pc, exited, time, converged>>
vars == <<host, queue, mem, results>>

Launch(k) == [op |-> "launch", of |-> k]
ReadOf(a) == [op |-> "read", of |-> a]

(* Seeded faults: what a plausible slip would make of the definition each  *)
(* is named after; no behaviour of Spec uses them.                         *)
Fault_InCall         == FALSE
Fault_Source2(k)     == IF k \in {"odd", "monitor"} THEN "odd" ELSE "even"
-----------------------------------------------------------------------------
(* The host.                                                               *)
Due(t)         == t > 0 /\ t % Period = 0
LoopTest(t, v) == t <= Duration /\ ~ v
NextTime(t)    == t + 1
Turn(t, v)     == IF LoopTest(t, v) THEN "compute"
                  ELSE IF Export THEN "extract" ELSE "clear"

(* A blocking read has not returned while its command is in the queue.     *)
InCall  == \E i \in DOMAIN queue : queue[i].op = "read"
HostAt(label) == pc = label /\ ~ exited /\ ~ InCall

Init ==
  /\ pc = "init" /\ exited = FALSE
  /\ time = 0 /\ converged = FALSE
  /\ queue = <<>>
  /\ mem = [even |-> Undefined, odd |-> Undefined, velocity |-> Undefined,
            delta |-> <<Undefined, Undefined>>, bitmap |-> Undefined,
            density |-> Undefined]
  /\ results = [a \in Copied |-> mem[a]]

(* Launching a kernel.                                                     *)
Enqueue(c, label) ==
  /\ queue' = Append(queue, c)
  /\ pc' = label
  /\ UNCHANGED <<exited, mem, results>>

LaunchInit ==
  /\ HostAt("init")
  /\ Enqueue(Launch("init"), IF Images THEN "bitmap" ELSE "report")
  /\ UNCHANGED <<time, converged>>

LaunchCompute ==
  /\ HostAt("compute")
  /\ LET after == IF Due(time) THEN "monitor" ELSE Turn(NextTime(time), converged) IN
     Enqueue(Launch(IF time % 2 = 1 THEN "odd" ELSE "even"), after)
  /\ time' = IF Due(time) THEN time ELSE NextTime(time)
  /\ UNCHANGED converged

LaunchMonitor ==
  /\ HostAt("monitor")
  /\ Enqueue(Launch("monitor"), "delta")
  /\ UNCHANGED <<time, converged>>

LaunchExtract ==
  /\ HostAt("extract")
  /\ Enqueue(Launch("extract"), "density")
  /\ UNCHANGED <<time, converged>>

AfterRead == [delta |-> "norm", bitmap |-> "report",
              density |-> "velocity", velocity |-> "export"]

ReadBuffer(a) ==
  /\ HostAt(a)
  /\ Enqueue(ReadOf(a), AfterRead[a])
  /\ UNCHANGED <<time, converged>>

(* L2 < epsilon depends on the values.                                     *)
Norm ==
  /\ HostAt("norm")
  /\ \E small \in BOOLEAN : converged' = (converged \/ small)
  /\ pc' = IF Images THEN "bitmap" ELSE "report"
  /\ UNCHANGED <<exited, time, queue, mem, results>>

(* printResults, exportImage; the first report comes before the loop.      *)
Report ==
  /\ HostAt("report")
  /\ time' = IF time = 0 THEN 0 ELSE NextTime(time)
  /\ pc' = Turn(time', converged)
  /\ UNCHANGED <<exited, converged, queue, mem, results>>

ExportResults ==
  /\ HostAt("export")
  /\ pc' = "clear"
  /\ UNCHANGED <<exited, time, converged, queue, mem, results>>

(* The containers are cleared, the timer stopped and the summary printed.  *)
(* Releasing the queue and the buffers does not wait for the kernels.      *)
Clear ==
  /\ HostAt("clear")
  /\ pc' = "ended" /\ exited' = TRUE
  /\ UNCHANGED <<time, converged, queue, mem, results>>

(* exitOnFail, after every call.                                           *)
Calls == {"init", "compute", "monitor", "extract"} \cup Copied
ExitOnFail ==
  /\ \E l \in Calls : HostAt(l)
  /\ exited' = TRUE
  /\ UNCHANGED <<pc, time, converged, queue, mem, results>>
-----------------------------------------------------------------------------
(* The device: createApp's arguments of the kernels, and what they do.     *)
Source(k) == IF k = "odd" THEN "odd" ELSE "even"
Other(l)  == IF l = "odd" THEN "even" ELSE "odd"

(* The buffer of the velocity is CL_MEM_WRITE_ONLY (data.c:70).  What a    *)
(* kernel reads in it is undefined: what is stored there, or anything.     *)
Stored == {mem.velocity, Undefined}

Picture(s) == IF Images THEN s ELSE mem.bitmap

Kernel(k) ==
  LET s == mem[Source(k)] IN
  \/ /\ k = "init"
     /\ mem' = [mem EXCEPT !.even = 0, !.velocity = 0, !.bitmap = Picture(0)]
  \/ /\ k \in {"even", "odd"}
     /\ mem' = [mem EXCEPT ![Other(Source(k))] = s + 1]
  \/ /\ k = "monitor"
     /\ \E old \in Stored :
          mem' = [mem EXCEPT !.delta = <<old, s>>, !.velocity = s,
                             !.bitmap = Picture(s)]
  \/ /\ k = "extract"
     /\ mem' = [mem EXCEPT !.density = s, !.velocity = s]

Device ==
  /\ queue # <<>>
  /\ queue' = Tail(queue)
  /\ LET c == Head(queue) IN
     \/ c.op = "launch" /\ Kernel(c.of) /\ UNCHANGED results
     \/ /\ c.op = "read"
        /\ results' = [results EXCEPT ![c.of] = mem[c.of]]
        /\ UNCHANGED mem
  /\ UNCHANGED host

HostStep ==
  \/ LaunchInit
  \/ LaunchCompute
  \/ LaunchMonitor
  \/ LaunchExtract
  \/ \E a \in Copied : ReadBuffer(a)
  \/ Norm
  \/ Report
  \/ ExportResults
  \/ Clear

Finished == exited /\ queue = <<>> /\ UNCHANGED vars

Next == HostStep \/ ExitOnFail \/ Device \/ Finished
Spec == Init /\ [][Next]_vars

-----------------------------------------------------------------------------
(***************************************************************************)
(* Properties.                                                             *)
(***************************************************************************)
Times == Undefined .. Duration + 1

(* Every variable has its type; the host does not wait twice at once.      *)
TypeOK ==
  /\ pc \in Calls \cup {"norm", "report", "export", "clear", "ended"}
  /\ exited \in BOOLEAN
  /\ time \in 0 .. Duration + 1
  /\ converged \in BOOLEAN
  /\ \A i \in DOMAIN queue : queue[i].op = "read" => i = Len(queue)
  /\ \A l \in {"even", "odd"} : mem[l] \in Times
  /\ \A r \in {mem, results} :
       /\ r.delta \in Times \X Times
       /\ \A a \in Copied \ {"delta"} : r[a] \in Times

(* "Partial sum of squared velocity variations within one period"          *)
(* (data.c:74): when the host takes the norm that decides on convergence,  *)
(* its array compares this step with the one a period earlier.             *)
NormOfThisPeriod == HostAt("norm") => results.delta = <<time - Period, time>>

(* Short of that, which the write-only buffer of the velocity does not     *)
(* guarantee: the norm is of this step, and if the kernel has read what    *)
(* was stored, that was of the step a period earlier and of no other.      *)
NormOfNoOtherPeriod ==
  HostAt("norm") =>
    results.delta \in {<<time - Period, time>>, <<Undefined, time>>}

(* The picture that is exported with number Time is of that step.          *)
ImageOfThisStep == HostAt("report") /\ Images => results.bitmap = time

(* Density and velocity that are exported are of one and the same step,    *)
(* the last that was computed, also when the simulation has converged.     *)
ExportOfLastStep ==
  HostAt("export") => results.density = time - 1 /\ results.velocity = time - 1

(* The timer is stopped when the simulation is over: "Runtime" and         *)
(* "Performance" (print.c:107), which counts every step enqueued, are of   *)
(* steps that have run.                                                    *)
SummaryAfterKernels == pc = "ended" => queue = <<>>

(* Together host and device run the loop of the clusters.                  *)
AfterLoop == {"extract", "density", "velocity", "export", "clear", "ended"}
Loop == INSTANCE MainLoop WITH turn <- time, running <- pc \notin AfterLoop
ImplementsLoop == Loop!Spec

=============================================================================
