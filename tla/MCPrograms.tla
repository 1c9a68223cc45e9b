------------------------------ MODULE MCPrograms ------------------------------
(***************************************************************************)
(* The programs of src/opal that run the simulation on one machine, side   *)
(* by side for TLC: the OpenCL host with its device (OclHost), src_mono    *)
(* and src_ppcg (Mono).  A behaviour is one of one program, the others     *)
(* stay where they start.  All three are asked the same: is the loop the   *)
(* one of the clusters (MainLoop), and is what they report of the step     *)
(* they say it is of?                                                      *)
(***************************************************************************)
EXTENDS OclHost

VARIABLES
  program,                     \* the program that runs
  phase, step, verdict, array  \* pc, step, converged and mem of Mono

sequential == <<phase, step, verdict, array>>
all        == <<vars, sequential, program>>

SrcMono == INSTANCE Mono WITH Build <- "mono", pc <- phase,
                              converged <- verdict, mem <- array
SrcPpcg == INSTANCE Mono WITH Build <- "ppcg", pc <- phase,
                              converged <- verdict, mem <- array

ASSUME SameConfig == SrcMono!ConfigAssumption /\ SrcPpcg!ConfigAssumption

AllInit ==
  /\ program \in {"opencl", "mono", "ppcg"}
  /\ Init
  /\ SrcMono!Init

OpenCL(A) == program = "opencl" /\ A /\ UNCHANGED <<sequential, program>>
Sequential(p, A) == program = p /\ A /\ UNCHANGED <<vars, program>>

AllNext ==
  \/ OpenCL(Next)
  \/ Sequential("mono", SrcMono!Next)
  \/ Sequential("ppcg", SrcPpcg!Next)

(* The host runs and the device goes on with its queue; nothing stops a    *)
(* sequential program.                                                     *)
AllSpec ==
  /\ AllInit /\ [][AllNext]_all
  /\ WF_all(OpenCL(HostStep)) /\ WF_all(OpenCL(Device))
  /\ WF_all(Sequential("mono", SrcMono!Program))
  /\ WF_all(Sequential("ppcg", SrcPpcg!Program))
-----------------------------------------------------------------------------
(* The norm on which a program decides, and which it prints, is of this    *)
(* step (src/data.c:74, src_mono/compute.c:318), though kernels and host   *)
(* run out of step and monitoring and extraction share the array of stored *)
(* velocities.  It compares it with the step a period earlier, with two    *)
(* exceptions, mono_norm.cfg and ocl_write_only.cfg: the last norm of      *)
(* src_mono, when Duration is a multiple of Period, is over one step; and  *)
(* what the OpenCL kernel reads back may be undefined.                     *)
NormsOfTheirSteps ==
  /\ NormOfNoOtherPeriod
  /\ program = "mono" => SrcMono!NormOfStoredStep
  /\ program = "ppcg" => SrcPpcg!NormOfStoredStep

(* Pictures are of the step whose number they get; density and velocity    *)
(* that are exported are both of the last step that was computed, also     *)
(* after an early convergence (src/launch.c:110, src_ppcg/main.c:204).     *)
(* Those of src_mono are not (mono_export.cfg): they are of the steps it   *)
(* has extracted and monitored last, src_mono/compute.c:346.               *)
ReportsOfTheirStep ==
  /\ ImageOfThisStep
  /\ ExportOfLastStep
  /\ program = "mono" => SrcMono!ExportOfExtractedStep
  /\ program = "ppcg" => SrcPpcg!ExportOfExtractedStep

(* Host and device together, src_mono and src_ppcg run the loop that the   *)
(* clusters run: same steps, same source lattice, same early exit.         *)
EachImplementsLoop == ImplementsLoop /\ SrcMono!ImplementsLoop

(* Host and device, src_mono and src_ppcg all come to their end.           *)
EachEnds == <>(exited \/ phase = "exported")
=============================================================================
