---------------------------------- MODULE Mono ----------------------------------
(***************************************************************************)
(* The sequential programs: src_mono, where one kernel computes, monitors  *)
(* and extracts, and src_ppcg without TWO_LATTICE_MERGED, where monitor    *)
(* and extraction are functions of their own.                              *)
(*                                                                         *)
(* The content of an array is abstracted to the step it is of; delta is    *)
(* the pair of the steps whose velocities it compares.                     *)
(***************************************************************************)
EXTENDS Integers

CONSTANTS
  Duration, Period,  \* Config->Duration, Config->Period
  Build              \* the program: "mono" or "ppcg"

(* What getConfig accepts (config.c:95, 105), which exits otherwise.       *)
ConfigAssumption ==
  /\ Duration \in Nat \ {0} /\ Duration % 2 = 0
  /\ Period \in Nat \ {0} /\ Period % 2 = 0
BuildAssumption == Build \in {"mono", "ppcg"}

None == -1  \* never written

VARIABLES
  pc,         \* the next phase
  step,       \* step
  converged,  \* Results->Converged
  mem         \* the arrays

vars == <<pc, step, converged, mem>>

(* Seeded faults: what a plausible slip would make of the definition each  *)
(* is named after; no behaviour of Spec uses them.                         *)
Fault_Due(t)            == t > 0 /\ (t + 1) % Period = 0
Fault_NextStep(t)       == IF t > 0 /\ t % Period = 0 THEN t ELSE t + 1
-----------------------------------------------------------------------------
Due(t)         == t > 0 /\ t % Period = 0
LoopTest(t, v) == t <= Duration /\ ~ v
NextStep(t)    == t + 1
Src(t)         == IF t % 2 = 1 THEN "odd" ELSE "even"
Dst(t)         == IF t % 2 = 1 THEN "even" ELSE "odd"

(* What the monitoring and the extraction of step s leave in memory m.     *)
Monitored(s, m) == [m EXCEPT !.delta = <<m.velocity, s>>, !.velocity = s]
Extracted(s, m) == [m EXCEPT !.density = s, !.velocity = s]

(* The lattices and the velocity are never initialised; their memory comes *)
(* zeroed from the system, which is the fluid at rest of step 0.           *)
Init ==
  /\ pc = "compute" /\ step = 0 /\ converged = FALSE
  /\ mem = [even |-> 0, odd |-> 0, velocity |-> 0, delta |-> <<None, None>>,
            density |-> None]

(* The end of the body: step++, and the test of the loop.                  *)
NextTurn(v) ==
  /\ step' = NextStep(step)
  /\ converged' = v
  /\ pc' = IF LoopTest(step', v) THEN "compute" ELSE "export"

(* compute.  In src_mono the nodes are monitored, and extracted on the     *)
(* step Duration - 1, as they are computed.                                *)
Compute ==
  /\ pc = "compute"
  /\ LET s == mem[Src(step)]
         c == [mem EXCEPT ![Dst(step)] = s + 1]
         m == IF Build = "mono" /\ Due(step) THEN Monitored(s, c) ELSE c
     IN  mem' = IF Build = "mono" /\ step = Duration - 1
                THEN Extracted(s, m) ELSE m
  /\ \/ /\ Due(step)
        /\ pc' = IF Build = "mono" THEN "norm" ELSE "monitor"
        /\ UNCHANGED <<step, converged>>
     \/ ~ Due(step) /\ NextTurn(converged)

(* monitor, of src_ppcg.                                                   *)
Monitor ==
  /\ pc = "monitor"
  /\ mem' = Monitored(mem[Src(step)], mem)
  /\ pc' = "norm"
  /\ UNCHANGED <<step, converged>>

(* L2 < epsilon depends on the values; progress and image are printed.     *)
Norm ==
  /\ pc = "norm"
  /\ \E small \in BOOLEAN : NextTurn(converged \/ small)
  /\ UNCHANGED mem

(* Config->Export is set: extraction (in src_ppcg) from the last source.   *)
Extract ==
  /\ pc = "export"
  /\ mem' = IF Build = "ppcg" THEN Extracted(mem[Src(step - 1)], mem) ELSE mem
  /\ pc' = "exported"
  /\ UNCHANGED <<step, converged>>

Finished == pc = "exported" /\ UNCHANGED vars

Program == Compute \/ Monitor \/ Norm \/ Extract
Next == Program \/ Finished
Spec == Init /\ [][Next]_vars

-----------------------------------------------------------------------------
(***************************************************************************)
(* Properties.                                                             *)
(***************************************************************************)

(* Every variable has its type: the loop never runs past step Duration.    *)
TypeOK ==
  /\ pc \in {"compute", "monitor", "norm", "export", "exported"}
  /\ step \in 0 .. Duration + 1
  /\ converged \in BOOLEAN
  /\ \A l \in {"even", "odd"} : mem[l] \in 0 .. Duration + 1
  /\ mem.delta \in (None .. Duration) \X (None .. Duration)
  /\ mem.velocity \in None .. Duration /\ mem.density \in None .. Duration

(* "Swap Src | Dst pointers mapping ... based on step's parity"            *)
(* (main.c:121): the source of a step is the lattice of that step.         *)
ReadsCurrentStep == pc = "compute" => mem[Src(step)] = step

(* "Monitoring: Do every 'Period' steps" (compute.c:318): the norm that    *)
(* decides on convergence and that is printed compares the velocity of     *)
(* this step with the one a period earlier.                                *)
NormOfThisPeriod == pc = "norm" => mem.delta = <<step - Period, step>>

(* What it compares: in src_mono the extraction, on step Duration - 1,     *)
(* overwrites the stored velocity, and a monitoring of step Duration is    *)
(* the only one after it.                                                  *)
Stored == IF Build = "mono" /\ step = Duration THEN Duration - 1 ELSE step - Period
NormOfStoredStep == pc = "norm" => mem.delta = <<Stored, step>>

(* "Extraction, do on the last step." (compute.c:346): density and         *)
(* velocity that are exported are of the last step that was computed,      *)
(* also when the simulation has converged before.                          *)
ExportOfLastStep ==
  pc = "exported" => mem.density = step - 1 /\ mem.velocity = step - 1

(* What is exported: src_mono extracts on step Duration - 1, which is the  *)
(* last but one, or not at all when it has converged before; the velocity  *)
(* is then that of the last monitoring.                                    *)
ExportOfExtractedStep ==
  pc = "exported" =>
    IF Build = "ppcg" THEN mem.density = step - 1 /\ mem.velocity = step - 1
    ELSE /\ mem.density = IF step < Duration THEN None ELSE Duration - 1
         /\ mem.velocity = IF Due(step - 1) THEN step - 1 ELSE Duration - 1

(* The program runs the loop that the clusters run together.               *)
Loop == INSTANCE MainLoop WITH
          turn <- step, running <- pc \notin {"export", "exported"}
ImplementsLoop == Loop!Spec

=============================================================================
