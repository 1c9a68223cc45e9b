---------------------------- MODULE ProgramsProofs ----------------------------
(***************************************************************************)
(* The programs that run on one machine (module MCPrograms): for every     *)
(* duration and period they decide on a norm of this period, report what   *)
(* is of the step they say, and run the sequential loop of the clusters.   *)
(***************************************************************************)
EXTENDS MCPrograms, ModLemmas

(* Duration and Period are even and positive.                              *)
LEMMA EvenConfig ==
  /\ Duration \in Nat \ {0} /\ Duration % 2 = 0
  /\ Period \in Nat \ {0} /\ Period % 2 = 0
BY ConfigAssumption

(* A multiple of Period is even.                                           *)
LEMMA PeriodsAreEven ==
  ASSUME NEW t \in Nat, t % Period = 0
  PROVE  t % 2 = 0
<1> DEFINE q == t \div Period
           p == Period \div 2
<1>1. q \in Nat /\ p \in Nat /\ Period = 2 * p + 0
  BY EvenConfig, DivMod
<1>2. t = Period * q
  BY EvenConfig, DivMod
<1> HIDE DEF q, p
<1>3. p * q \in Nat /\ t = 2 * (p * q)
  BY <1>1, <1>2
<1>. QED  BY <1>3, DivModUnique

(* The multiple of Period that is less than a period before another.       *)
LEMMA PeriodBefore ==
  ASSUME NEW t \in Nat, NEW v \in Nat, t % Period = 0, v % Period = 0,
         v < t, t <= v + Period
  PROVE  v = t - Period
<1>0. Period \in Nat \ {0}
  BY EvenConfig
<1>1. (v + Period) % Period = v % Period
  BY <1>0, ModShift
<1>2. v + Period \in Nat /\ t < (v + Period) + Period /\ v + Period < t + Period
  BY <1>0
<1>3. t % Period = (v + Period) % Period
  BY <1>1
<1>4. t = v + Period
  BY <1>0, <1>2, <1>3, ModWindow
<1>. QED  BY <1>0, <1>4
-----------------------------------------------------------------------------
(***************************************************************************)
(* The sequential programs, src_mono and src_ppcg.                         *)
(***************************************************************************)

(* The arrays of the sequential programs.                                  *)
Arrays == [even : Nat, odd : Nat, velocity : Int, delta : Int \X Int,
           density : Int]

(* The lattices before the computation of a step, and after it.            *)
Before(t) == /\ array[SrcMono!Src(t)] = t
             /\ t > 0 => array[SrcMono!Dst(t)] = t - 1
After(t)  == /\ array[SrcMono!Src(t)] = t
             /\ array[SrcMono!Dst(t)] = t + 1

(* The stored velocity is of the last step that was monitored.             *)
LastPeriod(v, t) ==
  /\ v \in Nat /\ v % Period = 0
  /\ v < t \/ v = 0
  /\ t <= v + Period

(* Its conjuncts: types; what the phases imply; what the arrays are of.    *)
SeqTyped ==
  /\ phase \in {"compute", "monitor", "norm", "export", "exported"}
  /\ step \in Nat /\ verdict \in BOOLEAN /\ array \in Arrays

SeqLoop ==
  /\ phase \in {"compute", "monitor", "norm"} => step <= Duration /\ ~ verdict
  /\ phase \in {"monitor", "norm"} => SrcMono!Due(step)
  /\ phase = "monitor" => program = "ppcg"
  /\ phase \in {"export", "exported"} => step > 0

SeqMem ==
  /\ phase \in {"compute", "export"} => Before(step)
  /\ phase \in {"monitor", "norm"} => After(step)
  /\ phase \in {"compute", "monitor"} /\ (program # "mono" \/ step < Duration) =>
       LastPeriod(array.velocity, step)
  /\ phase = "norm" => array.velocity = step
  /\ phase = "norm" /\ program = "mono" => array.delta = <<SrcMono!Stored, step>>
  /\ phase = "norm" /\ program = "ppcg" => array.delta = <<step - Period, step>>
  /\ phase = "exported" /\ program = "ppcg" =>
       array.density = step - 1 /\ array.velocity = step - 1

(* What the extraction of src_mono, on step Duration - 1, leaves behind.   *)
MonoMem ==
  program = "mono" =>
    /\ array.density = IF step < Duration THEN -1 ELSE Duration - 1
    /\ phase = "compute" /\ step = Duration => array.velocity = Duration - 1
    /\ phase \in {"export", "exported"} =>
         array.velocity = IF SrcMono!Due(step - 1) THEN step - 1 ELSE Duration - 1

SeqBase == SeqTyped /\ SeqLoop /\ SeqMem
SeqInv  == SeqBase /\ MonoMem

(* The sequential programs start with the fluid at rest of step 0.         *)
LEMMA SeqInit == AllInit => SeqInv
<1> SUFFICES ASSUME AllInit PROVE SeqInv
  OBVIOUS
<1>1. /\ phase = "compute" /\ step = 0 /\ verdict = FALSE
      /\ array = [even |-> 0, odd |-> 0, velocity |-> 0, delta |-> <<-1, -1>>,
                  density |-> -1]
  BY DEF AllInit, SrcMono!Init, SrcMono!None
<1>2. array \in Arrays /\ array.even = 0 /\ array.velocity = 0
  BY <1>1 DEF Arrays
<1>3. 0 % Period = 0 /\ Period \in Nat /\ Duration \in Nat
  BY EvenConfig, ModSmall
<1>4. phase = "compute" /\ step = 0 /\ ~ verdict /\ verdict \in BOOLEAN
  BY <1>1
<1>5. SeqTyped
  BY <1>2, <1>4 DEF SeqTyped
<1>6. SeqLoop
  BY <1>3, <1>4 DEF SeqLoop
<1>7. Before(step)
  BY <1>2, <1>4 DEF Before, SrcMono!Src
<1>8. LastPeriod(array.velocity, step)
  BY <1>2, <1>3, <1>4 DEF LastPeriod
<1>9. SeqBase
  BY <1>4, <1>5, <1>6, <1>7, <1>8 DEF SeqBase, SeqMem
<1>10. MonoMem
  BY <1>1, EvenConfig DEF MonoMem
<1>. QED  BY <1>9, <1>10 DEF SeqInv

(* Source and destination of a step are the two lattices; they are         *)
(* exchanged in the next.                                                  *)
LEMMA Exchange ==
  ASSUME NEW t \in Nat
  PROVE  /\ SrcMono!Src(t) \in {"even", "odd"} /\ SrcMono!Dst(t) \in {"even", "odd"}
         /\ SrcMono!Src(t) # SrcMono!Dst(t)
         /\ SrcMono!Src(t + 1) = SrcMono!Dst(t)
         /\ SrcMono!Dst(t + 1) = SrcMono!Src(t)
         /\ SrcPpcg!Src(t) = SrcMono!Src(t) /\ SrcPpcg!Dst(t) = SrcMono!Dst(t)
BY DEF SrcMono!Src, SrcMono!Dst, SrcPpcg!Src, SrcPpcg!Dst

(* What the computation of a step leaves in the lattices.                  *)
LEMMA Computed ==
  ASSUME NEW m \in Arrays, NEW l \in {"even", "odd"}, NEW n \in Nat
  PROVE  LET c == [m EXCEPT ![l] = n] IN
         /\ c \in Arrays /\ c[l] = n
         /\ \A k \in {"even", "odd"} : k # l => c[k] = m[k]
         /\ c.velocity = m.velocity /\ c.delta = m.delta /\ c.density = m.density
BY DEF Arrays

(* What the monitoring of a step leaves in the arrays.                     *)
LEMMA MonitoredArrays ==
  ASSUME NEW m \in Arrays, NEW s \in Nat
  PROVE  LET c == SrcMono!Monitored(s, m) IN
         /\ c \in Arrays /\ \A k \in {"even", "odd"} : c[k] = m[k]
         /\ c.delta = <<m.velocity, s>> /\ c.velocity = s
         /\ c.density = m.density
<1> DEFINE d == [m EXCEPT !.delta = <<m.velocity, s>>]
<1>1. SrcMono!Monitored(s, m) = [d EXCEPT !.velocity = s]
  BY Zenon DEF SrcMono!Monitored
<1>2. /\ d \in Arrays /\ d.even = m.even /\ d.odd = m.odd
      /\ d.delta = <<m.velocity, s>> /\ d.density = m.density
  BY DEF Arrays
<1> HIDE DEF d
<1>. QED  BY <1>1, <1>2 DEF Arrays

(* What the extraction of a step leaves in the arrays.                     *)
LEMMA ExtractedArrays ==
  ASSUME NEW m \in Arrays, NEW s \in Nat
  PROVE  LET c == SrcMono!Extracted(s, m) IN
         /\ c \in Arrays /\ \A k \in {"even", "odd"} : c[k] = m[k]
         /\ c.delta = m.delta /\ c.velocity = s /\ c.density = s
<1> DEFINE d == [m EXCEPT !.density = s]
<1>1. SrcMono!Extracted(s, m) = [d EXCEPT !.velocity = s]
  BY Zenon DEF SrcMono!Extracted
<1>2. /\ d \in Arrays /\ d.even = m.even /\ d.odd = m.odd
      /\ d.delta = m.delta /\ d.density = s
  BY DEF Arrays
<1> HIDE DEF d
<1>. QED  BY <1>1, <1>2 DEF Arrays

(* The stored velocity is not a period old before the next monitoring.     *)
LEMMA LaterStep ==
  ASSUME NEW t \in Nat, NEW v, LastPeriod(v, t), ~ SrcMono!Due(t)
  PROVE  LastPeriod(v, t + 1)
<1>1. Period \in Nat \ {0} /\ v \in Nat /\ v % Period = 0
  BY EvenConfig DEF LastPeriod
<1>2. (v + Period) % Period = 0
  BY <1>1, ModShift
<1>3. t # v + Period
  BY <1>1, <1>2 DEF SrcMono!Due
<1>. QED  BY <1>1, <1>3 DEF LastPeriod

(* When a step is monitored the stored velocity is exactly a period old.   *)
LEMMA DueStep ==
  ASSUME NEW t \in Nat, NEW v, LastPeriod(v, t), SrcMono!Due(t)
  PROVE  v = t - Period /\ LastPeriod(t, t + 1)
<1>1. Period \in Nat \ {0} /\ v \in Nat /\ v % Period = 0 /\ t % Period = 0 /\ v < t
  BY EvenConfig DEF LastPeriod, SrcMono!Due
<1>2. v = t - Period
  BY <1>1, PeriodBefore DEF LastPeriod
<1>. QED  BY <1>1, <1>2 DEF LastPeriod

(* The end of a turn of the loop keeps the invariant.                      *)
LEMMA TurnKeeps ==
  ASSUME SeqInv, program' = program, array' \in Arrays,
         phase \in {"compute", "norm"},
         array'[SrcMono!Src(step)] = step, array'[SrcMono!Dst(step)] = step + 1,
         program # "mono" \/ step + 1 < Duration =>
           LastPeriod(array'.velocity, step + 1),
         NEW v \in BOOLEAN, verdict' = v, step' = step + 1,
         phase' = IF step + 1 <= Duration /\ ~ v THEN "compute" ELSE "export"
  PROVE  SeqBase'
<1>1. step \in Nat
  BY DEF SeqInv, SeqBase, SeqTyped
<1>2. SeqTyped'
  BY <1>1 DEF SeqTyped
<1>3. SeqLoop'
  BY <1>1 DEF SeqLoop
<1>4. Before(step)'
  BY <1>1, Exchange DEF Before
<1>5. phase' \in {"compute", "export"}
  OBVIOUS
<1>6. SeqMem'
  BY <1>4, <1>5 DEF SeqMem
<1>. QED  BY <1>2, <1>3, <1>6 DEF SeqBase

(* What compute of src_mono leaves in the arrays.                          *)
LEMMA ComputeMono ==
  ASSUME SeqInv, SrcMono!Compute
  PROVE  /\ array' \in Arrays
         /\ array'[SrcMono!Src(step)] = step /\ array'[SrcMono!Dst(step)] = step + 1
         /\ SrcMono!Due(step) =>
              array'.velocity = step /\ array'.delta = <<array.velocity, step>>
         /\ ~ SrcMono!Due(step) /\ step # Duration - 1 =>
              array'.velocity = array.velocity
         /\ array'.density = IF step = Duration - 1 THEN step ELSE array.density
         /\ step = Duration - 1 => array'.velocity = step
<1> DEFINE c == [array EXCEPT ![SrcMono!Dst(step)] = step + 1]
           m == IF SrcMono!Due(step) THEN SrcMono!Monitored(step, c) ELSE c
<1>1. step \in Nat /\ array \in Arrays /\ array[SrcMono!Src(step)] = step
  BY DEF SeqInv, SeqBase, SeqTyped, SeqMem, Before, SrcMono!Compute
<1>2. array' = IF step = Duration - 1 THEN SrcMono!Extracted(step, m) ELSE m
  BY <1>1 DEF SrcMono!Compute
<1>3. /\ c \in Arrays /\ c[SrcMono!Dst(step)] = step + 1
      /\ c[SrcMono!Src(step)] = step /\ c.velocity = array.velocity
      /\ c.density = array.density
  <2>1. step + 1 \in Nat
    BY <1>1
  <2>. QED  BY <1>1, <2>1, Exchange, Computed
<1> HIDE DEF c
<1>4. /\ m \in Arrays /\ m[SrcMono!Dst(step)] = step + 1
      /\ m[SrcMono!Src(step)] = step
      /\ SrcMono!Due(step) => m.velocity = step /\ m.delta = <<array.velocity, step>>
      /\ ~ SrcMono!Due(step) => m.velocity = array.velocity
      /\ m.density = array.density
  <2>1. CASE SrcMono!Due(step)
    <3>1. /\ m \in Arrays /\ \A k \in {"even", "odd"} : m[k] = c[k]
          /\ m.delta = <<c.velocity, step>> /\ m.velocity = step
          /\ m.density = c.density
      BY <1>1, <1>3, <2>1, MonitoredArrays
    <3>. HIDE DEF m
    <3>. QED  BY <1>1, <1>3, <2>1, <3>1, Exchange
  <2>2. CASE ~ SrcMono!Due(step)
    BY <1>3, <2>2
  <2>. QED  BY <2>1, <2>2
<1> HIDE DEF m
<1>5. CASE step = Duration - 1
  <2> DEFINE e == SrcMono!Extracted(step, m)
  <2>1. /\ e \in Arrays /\ \A k \in {"even", "odd"} : e[k] = m[k]
        /\ e.delta = m.delta /\ e.velocity = step /\ e.density = step
    BY <1>1, <1>4, ExtractedArrays
  <2>2. array' = e
    BY <1>2, <1>5
  <2> HIDE DEF e
  <2>. QED  BY <1>1, <1>4, <1>5, <2>1, <2>2, Exchange
<1>6. CASE step # Duration - 1
  BY <1>2, <1>4, <1>6
<1>. QED  BY <1>5, <1>6

(* What compute of src_ppcg leaves in the arrays.                          *)
LEMMA ComputePpcg ==
  ASSUME SeqInv, SrcPpcg!Compute
  PROVE  /\ array' \in Arrays
         /\ array'[SrcMono!Src(step)] = step /\ array'[SrcMono!Dst(step)] = step + 1
         /\ array'.velocity = array.velocity
<1> DEFINE c == [array EXCEPT ![SrcMono!Dst(step)] = step + 1]
<1>1. step \in Nat /\ array \in Arrays /\ array[SrcMono!Src(step)] = step
  BY DEF SeqInv, SeqBase, SeqTyped, SeqMem, Before, SrcPpcg!Compute
<1>2. array' = c
  BY <1>1, Exchange DEF SrcPpcg!Compute
<1>3. /\ c \in Arrays /\ c[SrcMono!Dst(step)] = step + 1
      /\ c[SrcMono!Src(step)] = step /\ c.velocity = array.velocity
  <2>1. step + 1 \in Nat
    BY <1>1
  <2>. QED  BY <1>1, <2>1, Exchange, Computed
<1> HIDE DEF c
<1>. QED  BY <1>2, <1>3

(* No step of src_mono or of src_ppcg breaks the invariant, nor does one   *)
(* of the other program, where they stay as they are.                      *)
LEMMA SeqBaseNext == SeqInv /\ [AllNext]_all => SeqBase'
<1> SUFFICES ASSUME SeqInv, [AllNext]_all PROVE SeqBase'
  OBVIOUS
<1>0. /\ step \in Nat /\ array \in Arrays /\ verdict \in BOOLEAN
      /\ Period \in Nat \ {0} /\ Duration \in Nat
  BY EvenConfig DEF SeqInv, SeqBase, SeqTyped
<1>1. CASE UNCHANGED sequential /\ program' = program
  BY <1>1 DEF sequential, SeqInv, SeqBase, SeqTyped, SeqLoop, SeqMem, Before, After,
     SrcMono!Stored
<1>2. CASE program = "mono" /\ program' = program /\ SrcMono!Compute
  <2>1. /\ phase = "compute" /\ step <= Duration /\ ~ verdict
        /\ step < Duration => LastPeriod(array.velocity, step)
    BY <1>2 DEF SrcMono!Compute, SeqInv, SeqBase, SeqLoop, SeqMem
  <2>2. CASE SrcMono!Due(step)
    <3>1. step < Duration \/ step = Duration
      BY <1>0, <2>1
    <3>2. array.velocity = SrcMono!Stored
      <4>1. CASE step < Duration
        BY <1>0, <2>1, <2>2, <4>1, DueStep DEF SrcMono!Stored
      <4>2. CASE step = Duration
        BY <1>2, <2>1, <4>2 DEF SrcMono!Stored, SeqInv, MonoMem
      <4>. QED  BY <3>1, <4>1, <4>2
    <3>3. phase' = "norm" /\ step' = step /\ verdict' = verdict
      BY <1>2, <2>2 DEF SrcMono!Compute
    <3>4. SeqTyped' /\ SeqLoop'
      BY <1>0, <1>2, <2>1, <2>2, <3>3, ComputeMono DEF SeqTyped, SeqLoop, SrcMono!Due
    <3>5. /\ After(step)' /\ array'.velocity = step
          /\ array'.delta = <<SrcMono!Stored, step>>
      BY <1>2, <2>2, <3>2, <3>3, ComputeMono DEF After
    <3>6. SrcMono!Stored' = SrcMono!Stored
      BY <3>3 DEF SrcMono!Stored
    <3>. QED  BY <1>2, <3>3, <3>4, <3>5, <3>6 DEF SeqBase, SeqMem
  <2>3. CASE ~ SrcMono!Due(step)
    <3>1. SrcMono!NextTurn(verdict)
      BY <1>2, <2>3 DEF SrcMono!Compute
    <3>2. /\ step' = step + 1 /\ verdict' = verdict
          /\ phase' = IF step + 1 <= Duration /\ ~ verdict THEN "compute" ELSE "export"
      BY <3>1 DEF SrcMono!NextTurn, SrcMono!NextStep, SrcMono!LoopTest
    <3>3. ASSUME step + 1 < Duration PROVE LastPeriod(array'.velocity, step + 1)
      <4>1. step < Duration /\ step # Duration - 1
        BY <1>0, <3>3
      <4>2. array'.velocity = array.velocity
        BY <1>2, <2>3, <4>1, ComputeMono
      <4>. QED  BY <1>0, <2>1, <2>3, <4>1, <4>2, LaterStep
    <3>. QED  BY <1>0, <1>2, <2>1, <3>2, <3>3, ComputeMono, TurnKeeps
  <2>. QED  BY <2>2, <2>3
<1>3. CASE program = "ppcg" /\ program' = program /\ SrcPpcg!Compute
  <2>1. /\ phase = "compute" /\ step <= Duration /\ ~ verdict
        /\ LastPeriod(array.velocity, step)
    BY <1>3 DEF SrcPpcg!Compute, SeqInv, SeqBase, SeqLoop, SeqMem
  <2>2. CASE SrcMono!Due(step)
    <3>1. phase' = "monitor" /\ step' = step /\ verdict' = verdict
      BY <1>3, <2>2 DEF SrcPpcg!Compute, SrcPpcg!Due, SrcMono!Due
    <3>2. SeqTyped' /\ SeqLoop'
      BY <1>0, <1>3, <2>1, <2>2, <3>1, ComputePpcg DEF SeqTyped, SeqLoop, SrcMono!Due
    <3>3. After(step)' /\ LastPeriod(array.velocity, step)'
      BY <1>3, <2>1, <3>1, ComputePpcg DEF After, LastPeriod
    <3>. QED  BY <3>1, <3>2, <3>3 DEF SeqBase, SeqMem
  <2>3. CASE ~ SrcMono!Due(step)
    <3>1. SrcPpcg!NextTurn(verdict)
      BY <1>3, <2>3 DEF SrcPpcg!Compute, SrcPpcg!Due, SrcMono!Due
    <3>2. /\ step' = step + 1 /\ verdict' = verdict
          /\ phase' = IF step + 1 <= Duration /\ ~ verdict THEN "compute" ELSE "export"
      BY <3>1 DEF SrcPpcg!NextTurn, SrcPpcg!NextStep, SrcPpcg!LoopTest
    <3>3. LastPeriod(array'.velocity, step + 1)
      BY <1>0, <1>3, <2>1, <2>3, ComputePpcg, LaterStep
    <3>. QED  BY <1>0, <1>3, <2>1, <3>2, <3>3, ComputePpcg, TurnKeeps
  <2>. QED  BY <2>2, <2>3
<1>4. CASE program = "ppcg" /\ program' = program /\ SrcPpcg!Monitor
  <2>1. /\ phase = "monitor" /\ After(step) /\ SrcMono!Due(step)
        /\ LastPeriod(array.velocity, step) /\ step <= Duration /\ ~ verdict
    BY <1>4 DEF SrcPpcg!Monitor, SeqInv, SeqBase, SeqLoop, SeqMem
  <2>2. /\ phase' = "norm" /\ step' = step /\ verdict' = verdict
        /\ array' = SrcMono!Monitored(step, array)
    BY <1>0, <1>4, <2>1, Exchange
       DEF SrcPpcg!Monitor, After, SrcPpcg!Monitored, SrcMono!Monitored
  <2>3. /\ array' \in Arrays /\ \A k \in {"even", "odd"} : array'[k] = array[k]
        /\ array'.delta = <<array.velocity, step>> /\ array'.velocity = step
    BY <1>0, <2>2, MonitoredArrays
  <2>4. SeqTyped' /\ SeqLoop'
    BY <1>0, <1>4, <2>1, <2>2, <2>3 DEF SeqTyped, SeqLoop, SrcMono!Due
  <2>5. After(step)'
    BY <1>0, <2>1, <2>2, <2>3, Exchange DEF After
  <2>6. array.velocity = step - Period
    BY <1>0, <2>1, DueStep
  <2>. QED  BY <1>4, <2>2, <2>3, <2>4, <2>5, <2>6 DEF SeqBase, SeqMem
<1>5. CASE program \in {"mono", "ppcg"} /\ program' = program
           /\ (SrcMono!Norm \/ SrcPpcg!Norm)
  <2>1. PICK small \in BOOLEAN :
          SrcMono!NextTurn(verdict \/ small) \/ SrcPpcg!NextTurn(verdict \/ small)
    BY <1>5 DEF SrcMono!Norm, SrcPpcg!Norm
  <2>2. /\ step' = step + 1 /\ verdict' = (verdict \/ small)
        /\ phase' = IF step + 1 <= Duration /\ ~ (verdict \/ small)
                    THEN "compute" ELSE "export"
    BY <2>1 DEF SrcMono!NextTurn, SrcMono!NextStep, SrcMono!LoopTest,
       SrcPpcg!NextTurn, SrcPpcg!NextStep, SrcPpcg!LoopTest
  <2>3. /\ phase = "norm" /\ array' = array /\ After(step) /\ array.velocity = step
        /\ SrcMono!Due(step)
    BY <1>5 DEF SrcMono!Norm, SrcPpcg!Norm, SeqInv, SeqBase, SeqLoop, SeqMem
  <2>4. LastPeriod(step, step + 1)
    BY <1>0, <2>3 DEF LastPeriod, SrcMono!Due
  <2>5. (verdict \/ small) \in BOOLEAN
    OBVIOUS
  <2>. QED  BY <1>0, <1>5, <2>2, <2>3, <2>4, <2>5, TurnKeeps DEF After
<1>6. CASE program = "mono" /\ program' = program /\ SrcMono!Extract
  BY <1>6 DEF SrcMono!Extract, SeqInv, SeqBase, SeqTyped, SeqLoop, SeqMem
<1>7. CASE program = "ppcg" /\ program' = program /\ SrcPpcg!Extract
  <2>1. phase = "export" /\ Before(step) /\ step > 0
    BY <1>7 DEF SrcPpcg!Extract, SeqInv, SeqBase, SeqLoop, SeqMem
  <2>2. array[SrcMono!Src(step - 1)] = step - 1
    <3>1. step - 1 \in Nat /\ (step - 1) + 1 = step
      BY <1>0, <2>1
    <3>. QED  BY <2>1, <3>1, Exchange DEF Before
  <2>3. /\ phase' = "exported" /\ step' = step /\ verdict' = verdict
        /\ array' = SrcMono!Extracted(step - 1, array)
    <3>1. /\ phase' = "exported" /\ step' = step /\ verdict' = verdict
          /\ array' = SrcPpcg!Extracted(array[SrcPpcg!Src(step - 1)], array)
      BY <1>7 DEF SrcPpcg!Extract
    <3>2. SrcPpcg!Src(step - 1) = SrcMono!Src(step - 1)
      BY DEF SrcPpcg!Src, SrcMono!Src
    <3>3. \A s, m : SrcPpcg!Extracted(s, m) = SrcMono!Extracted(s, m)
      BY Zenon DEF SrcPpcg!Extracted, SrcMono!Extracted
    <3>. QED  BY <2>2, <3>1, <3>2, <3>3
  <2>4. /\ array' \in Arrays /\ array'.velocity = step - 1
        /\ array'.density = step - 1
    BY <1>0, <2>1, <2>3, ExtractedArrays
  <2>5. SeqTyped' /\ SeqLoop'
    BY <1>0, <2>1, <2>3, <2>4 DEF SeqTyped, SeqLoop
  <2>. QED  BY <1>7, <2>3, <2>4, <2>5 DEF SeqBase, SeqMem
<1>8. CASE program = "mono" /\ SrcMono!Monitor
  BY <1>8 DEF SrcMono!Monitor, SeqInv, SeqBase, SeqLoop
<1>9. CASE program = "mono" /\ program' = program /\ SrcMono!Next
  BY <1>1, <1>2, <1>5, <1>6, <1>8, <1>9
     DEF SrcMono!Next, SrcMono!Program, SrcMono!Finished, SrcMono!vars, sequential
<1>10. CASE program = "ppcg" /\ program' = program /\ SrcPpcg!Next
  BY <1>1, <1>3, <1>4, <1>5, <1>7, <1>10
     DEF SrcPpcg!Next, SrcPpcg!Program, SrcPpcg!Finished, SrcPpcg!vars, sequential
<1>11. CASE UNCHANGED all
  BY <1>1, <1>11 DEF all
<1>12. CASE OpenCL(Next)
  BY <1>1, <1>12 DEF OpenCL
<1>. QED  BY <1>9, <1>10, <1>11, <1>12 DEF AllNext, Sequential

(* No step changes what the extraction of src_mono has left, but for the   *)
(* last monitoring; only even steps are monitored, so not Duration - 1.    *)
LEMMA MonoNext == SeqInv /\ [AllNext]_all => MonoMem'
<1> SUFFICES ASSUME SeqInv, [AllNext]_all, program' = "mono" PROVE MonoMem'
  BY DEF MonoMem
<1>0. /\ step \in Nat /\ verdict \in BOOLEAN /\ Duration \in Nat /\ Duration % 2 = 0
      /\ program = "mono"
  BY EvenConfig DEF SeqInv, SeqBase, SeqTyped, AllNext, OpenCL, Sequential, all
<1>1. /\ array.density = IF step < Duration THEN -1 ELSE Duration - 1
      /\ phase = "compute" /\ step = Duration => array.velocity = Duration - 1
      /\ phase \in {"export", "exported"} =>
           array.velocity = IF SrcMono!Due(step - 1) THEN step - 1 ELSE Duration - 1
  BY <1>0 DEF SeqInv, MonoMem
<1>2. SrcMono!Due(step) => step # Duration - 1
  <2>1. SrcMono!Due(step) => step % 2 = 0
    BY <1>0, PeriodsAreEven DEF SrcMono!Due
  <2>. QED  BY <1>0, <2>1
<1>3. CASE UNCHANGED sequential
  BY <1>1, <1>3 DEF sequential, MonoMem, SrcMono!Due
<1>4. CASE SrcMono!Compute
  <2>1. /\ phase = "compute" /\ step <= Duration /\ ~ verdict
        /\ array'.density = IF step = Duration - 1 THEN step ELSE array.density
    BY <1>4, ComputeMono DEF SrcMono!Compute, SeqInv, SeqBase, SeqLoop
  <2>2. CASE SrcMono!Due(step)
    <3>1. phase' = "norm" /\ step' = step
      BY <1>4, <2>2 DEF SrcMono!Compute
    <3>. QED  BY <1>1, <1>2, <2>1, <2>2, <3>1 DEF MonoMem
  <2>3. CASE ~ SrcMono!Due(step)
    <3>1. SrcMono!NextTurn(verdict)
      BY <1>4, <2>3 DEF SrcMono!Compute
    <3>2. /\ step' = step + 1
          /\ phase' = IF step + 1 <= Duration THEN "compute" ELSE "export"
      BY <2>1, <3>1 DEF SrcMono!NextTurn, SrcMono!NextStep, SrcMono!LoopTest
    <3>3. CASE step = Duration - 1
      <4>1. array'.velocity = step
        BY <1>4, <3>3, ComputeMono
      <4>2. phase' = "compute" /\ step' = Duration
        BY <1>0, <3>2, <3>3
      <4>. QED  BY <1>0, <2>1, <3>3, <4>1, <4>2 DEF MonoMem
    <3>4. CASE step # Duration - 1
      <4>1. array'.velocity = array.velocity /\ array'.density = array.density
        BY <1>4, <2>1, <2>3, <3>4, ComputeMono
      <4>2. step' # Duration /\ (step' < Duration <=> step < Duration)
        BY <1>0, <3>2, <3>4
      <4>3. CASE step < Duration
        <5>1. phase' = "compute"
          BY <1>0, <3>2, <4>3
        <5>. QED  BY <1>1, <4>1, <4>2, <5>1 DEF MonoMem
      <4>4. CASE step = Duration
        <5>1. step' - 1 = step
          BY <1>0, <3>2
        <5>2. ~ SrcMono!Due(step' - 1)
          BY <2>3, <5>1
        <5>3. array'.velocity = Duration - 1
          BY <1>1, <2>1, <4>1, <4>4
        <5>. QED  BY <1>1, <4>1, <4>2, <5>2, <5>3 DEF MonoMem, SrcMono!Due
      <4>. QED  BY <1>0, <2>1, <4>3, <4>4
    <3>. QED  BY <3>3, <3>4
  <2>. QED  BY <2>2, <2>3
<1>5. CASE SrcMono!Norm
  <2>1. PICK small \in BOOLEAN : SrcMono!NextTurn(verdict \/ small)
    BY <1>5 DEF SrcMono!Norm
  <2>2. step' = step + 1
    BY <2>1 DEF SrcMono!NextTurn, SrcMono!NextStep
  <2>3. array' = array /\ array.velocity = step /\ SrcMono!Due(step)
    BY <1>5 DEF SrcMono!Norm, SeqInv, SeqBase, SeqLoop, SeqMem
  <2>4. /\ step' - 1 = step /\ step' # Duration
        /\ step' < Duration <=> step < Duration
    BY <1>0, <1>2, <2>2, <2>3
  <2>5. SrcMono!Due(step' - 1)
    BY <2>3, <2>4
  <2>. QED  BY <1>1, <2>3, <2>4, <2>5 DEF MonoMem, SrcMono!Due
<1>6. CASE SrcMono!Extract
  BY <1>1, <1>6 DEF SrcMono!Extract, MonoMem, SrcMono!Due
<1>7. ~ SrcMono!Monitor
  BY <1>0 DEF SrcMono!Monitor, SeqInv, SeqBase, SeqLoop
<1>8. SrcMono!Next \/ UNCHANGED sequential
  BY <1>0 DEF AllNext, OpenCL, Sequential, all
<1>. QED
  BY <1>3, <1>4, <1>5, <1>6, <1>7, <1>8
     DEF SrcMono!Next, SrcMono!Program, SrcMono!Finished, SrcMono!vars, sequential
-----------------------------------------------------------------------------
(***************************************************************************)
(* The OpenCL host and its device.  The queue is a suffix of the commands  *)
(* the host has issued, so where the host is, and how long the queue is,   *)
(* tell which commands are left (OclQueue), and these how far the arrays   *)
(* are (OclMem).  A blocking read is always the last command, and the host *)
(* that is past it finds the queue empty.                                  *)
(***************************************************************************)
DeviceArrays == [even : Int, odd : Int, velocity : Int, delta : Int \X Int,
                 bitmap : Int, density : Int]
Commands     == [op : {"launch", "read"},
                 of : {"init", "odd", "even", "monitor", "extract"} \cup Copied]

(* The steps whose kernels have been launched; -1 before the initial one.  *)
Issued ==
  IF pc = "init" THEN -1
  ELSE IF \/ pc \in {"monitor", "delta", "norm"}
          \/ pc \in {"bitmap", "report"} /\ time > 0
       THEN time + 1 ELSE time

(* The commands at the end of the queue, if it is that long, that are not  *)
(* kernels of steps.                                                       *)
Extra ==
  IF pc \in {"norm", "velocity"} THEN 2
  ELSE IF pc \in {"delta", "density", "export"} \/ (pc = "report" /\ Images)
       THEN 1 ELSE 0

(* The step that the device computes next; -1 before the initial kernel.   *)
Done == IF Len(queue) > Extra THEN Issued + Extra - Len(queue) ELSE Issued

(* The command of step n.                                                  *)
StepKernel(n) ==
  IF n = -1 THEN Launch("init") ELSE Launch(IF n % 2 = 1 THEN "odd" ELSE "even")

(* Types, and what the labels of the host imply: only even steps are       *)
(* monitored, and the last one is even too.                                *)
OclTyped ==
  /\ pc \in Calls \cup {"norm", "report", "export", "clear", "ended"}
  /\ time \in Nat /\ converged \in BOOLEAN
  /\ queue \in Seq(Commands)
  /\ mem \in DeviceArrays /\ DOMAIN results = Copied

OclLoop ==
  /\ pc = "init" => time = 0 /\ ~ converged
  /\ pc \in {"compute", "monitor", "delta", "norm"} =>
       time <= Duration /\ ~ converged
  /\ pc \in {"monitor", "delta", "norm"} => Due(time)
  /\ pc \in {"bitmap", "report"} =>
       /\ time <= Duration
       /\ IF time = 0 THEN ~ converged ELSE Due(time)
  /\ pc = "bitmap" => Images
  /\ pc \in AfterLoop => time > 0 /\ (time - 1) % 2 = 0

(* The last command is the one the host has issued last.                   *)
LastIs(label, c) == pc = label /\ Len(queue) >= 1 => queue[Len(queue)] = c

(* The kernels of steps in the queue are those of the last steps.          *)
OclNumbers ==
  /\ Len(queue) <= Extra + Issued + 1
  /\ \A j \in 1 .. Len(queue) - Extra :
       queue[j] = StepKernel(Issued + Extra - Len(queue) + j - 1)

(* What is in the queue, from where the host is.                           *)
OclQueue ==
  /\ OclNumbers
  /\ LastIs("delta", Launch("monitor"))
  /\ LastIs("norm", ReadOf("delta"))
  /\ Images => LastIs("report", ReadOf("bitmap"))
  /\ LastIs("density", Launch("extract"))
  /\ LastIs("velocity", ReadOf("density"))
  /\ LastIs("export", ReadOf("velocity"))
  /\ pc = "norm" /\ Len(queue) >= 2 => queue[Len(queue) - 1] = Launch("monitor")
  /\ pc = "velocity" /\ Len(queue) >= 2 => queue[Len(queue) - 1] = Launch("extract")
  /\ pc = "bitmap" /\ time > 0 => Len(queue) = 0
  /\ pc = "report" /\ time > 0 => Len(queue) <= Extra
  /\ pc = "export" => Len(queue) <= 1

(* The two lattices when the device computes step n next.                  *)
Lattices(n) ==
  /\ n >= 0 => mem[IF n % 2 = 1 THEN "odd" ELSE "even"] = n
  /\ n >= 1 => mem[IF n % 2 = 1 THEN "even" ELSE "odd"] = n - 1

(* Whether the monitoring and the extraction have been executed.           *)
ToMonitor ==
  \/ pc \in {"init", "compute", "monitor"}
  \/ pc \in {"bitmap", "report"} /\ time = 0
  \/ pc = "delta" /\ Len(queue) >= 1
  \/ pc = "norm" /\ Len(queue) >= 2
HasMonitored ==
  \/ pc \in {"bitmap", "report"} /\ time > 0
  \/ pc = "delta" /\ Len(queue) = 0
  \/ pc = "norm" /\ Len(queue) <= 1
HasExtracted ==
  \/ pc = "density" /\ Len(queue) = 0
  \/ pc = "velocity" /\ Len(queue) <= 1
  \/ pc = "export"

(* What the monitoring may leave: what the kernel reads in the write-only  *)
(* buffer of the velocity is what it has stored, or undefined.             *)
Norms == {<<time - Period, time>>, <<Undefined, time>>}

(* How far the arrays of the device are, from what is in the queue.        *)
OclMem ==
  /\ Lattices(Done)
  /\ ToMonitor => LastPeriod(IF Done = -1 THEN 0 ELSE mem.velocity, time)
  /\ HasMonitored =>
       /\ mem.velocity = time
       /\ mem.delta \in Norms
       /\ Images => mem.bitmap = time
  /\ Images /\ pc \in {"bitmap", "report"} /\ time = 0 /\ Done >= 0 =>
       mem.bitmap = 0
  /\ HasExtracted => mem.density = time - 1 /\ mem.velocity = time - 1

(* What the host has read.                                                 *)
OclRead ==
  /\ pc = "norm" /\ Len(queue) = 0 => results.delta \in Norms
  /\ pc = "report" /\ Images /\ Len(queue) = 0 => results.bitmap = time
  /\ (pc = "velocity" /\ Len(queue) = 0) \/ pc = "export" =>
       results.density = time - 1
  /\ pc = "export" /\ Len(queue) = 0 => results.velocity = time - 1

OclInv == OclTyped /\ OclLoop /\ OclQueue /\ OclMem /\ OclRead

(* What each kernel leaves in the arrays of the device.                    *)
LEMMA InitKernel ==
  ASSUME mem \in DeviceArrays, Kernel("init")
  PROVE  /\ mem' \in DeviceArrays /\ mem'.even = 0 /\ mem'.velocity = 0
         /\ Images => mem'.bitmap = 0
<1> DEFINE a == [mem EXCEPT !.even = 0]
           b == [a EXCEPT !.velocity = 0]
           c == [b EXCEPT !.bitmap = Picture(0)]
<1>1. Picture(0) \in Int /\ (Images => Picture(0) = 0)
  BY DEF Picture, DeviceArrays
<1>2. mem' = c
  BY Zenon DEF Kernel
<1>3. a \in DeviceArrays /\ a.even = 0
  BY DEF DeviceArrays
<1> HIDE DEF a
<1>4. b \in DeviceArrays /\ b.even = 0 /\ b.velocity = 0
  BY <1>3 DEF DeviceArrays
<1> HIDE DEF b
<1>5. c \in DeviceArrays /\ c.even = 0 /\ c.velocity = 0 /\ c.bitmap = Picture(0)
  BY <1>1, <1>4 DEF DeviceArrays
<1>. QED  BY <1>1, <1>2, <1>5

(* The kernel of a step advances the other lattice, and only that.         *)
LEMMA ComputeKernel ==
  ASSUME mem \in DeviceArrays, NEW k \in {"even", "odd"}, Kernel(k)
  PROVE  /\ mem' \in DeviceArrays /\ mem'[k] = mem[k]
         /\ mem'[IF k = "odd" THEN "even" ELSE "odd"] = mem[k] + 1
         /\ mem'.velocity = mem.velocity /\ mem'.delta = mem.delta
         /\ mem'.bitmap = mem.bitmap /\ mem'.density = mem.density
<1>1. mem' = [mem EXCEPT ![Other(Source(k))] = mem[Source(k)] + 1]
  <2>1. k # "init" /\ k # "monitor" /\ k # "extract"
    OBVIOUS
  <2>. QED  BY <2>1, Zenon DEF Kernel
<1>2. Source(k) = k /\ mem[k] + 1 \in Int
  BY DEF Source, DeviceArrays
<1>. QED  BY <1>1, <1>2 DEF DeviceArrays, Other

(* The monitoring kernel compares the stored velocity with that of         *)
(* LatticeEven, and stores it.                                             *)
LEMMA MonitorKernel ==
  ASSUME mem \in DeviceArrays, Kernel("monitor")
  PROVE  /\ mem' \in DeviceArrays /\ mem'.velocity = mem.even
         /\ \A l \in {"even", "odd"} : mem'[l] = mem[l]
         /\ mem'.delta \in {<<mem.velocity, mem.even>>, <<Undefined, mem.even>>}
         /\ Images => mem'.bitmap = mem.even
<1> DEFINE s == mem["even"]
<1>1. s \in Int /\ Picture(s) \in Int /\ (Images => Picture(s) = s)
  BY DEF Picture, DeviceArrays
<1>2. PICK old \in Stored :
        mem' = [[[mem EXCEPT !.delta = <<old, s>>] EXCEPT !.velocity = s]
                 EXCEPT !.bitmap = Picture(s)]
  BY Zenon DEF Kernel, Source
<1>3. old \in Int /\ old \in {mem.velocity, Undefined}
  BY DEF Stored, Undefined, DeviceArrays
<1> DEFINE a == [mem EXCEPT !.delta = <<old, s>>]
           b == [a EXCEPT !.velocity = s]
           c == [b EXCEPT !.bitmap = Picture(s)]
<1>4. mem' = c
  BY <1>2, Zenon
<1> HIDE DEF s
<1>5. /\ a \in DeviceArrays /\ \A l \in {"even", "odd"} : a[l] = mem[l]
      /\ a.delta = <<old, s>>
  BY <1>1, <1>3 DEF DeviceArrays
<1> HIDE DEF a
<1>6. /\ b \in DeviceArrays /\ \A l \in {"even", "odd"} : b[l] = mem[l]
      /\ b.delta = <<old, s>> /\ b.velocity = s
  BY <1>1, <1>5 DEF DeviceArrays
<1> HIDE DEF b
<1>7. /\ c \in DeviceArrays /\ \A l \in {"even", "odd"} : c[l] = mem[l]
      /\ c.delta = <<old, s>> /\ c.velocity = s /\ c.bitmap = Picture(s)
  BY <1>1, <1>6 DEF DeviceArrays
<1> HIDE DEF c
<1>. QED  BY <1>1, <1>3, <1>4, <1>7 DEF s

(* The extraction kernel takes density and velocity from LatticeEven.      *)
LEMMA ExtractKernel ==
  ASSUME mem \in DeviceArrays, Kernel("extract")
  PROVE  /\ mem' \in DeviceArrays
         /\ \A l \in {"even", "odd"} : mem'[l] = mem[l]
         /\ mem'.density = mem.even /\ mem'.velocity = mem.even
<1> DEFINE s == mem["even"]
           a == [mem EXCEPT !.density = s]
           b == [a EXCEPT !.velocity = s]
<1>1. s \in Int
  BY DEF DeviceArrays
<1>2. mem' = b
  BY Zenon DEF Kernel, Source
<1> HIDE DEF s
<1>3. /\ a \in DeviceArrays /\ \A l \in {"even", "odd"} : a[l] = mem[l]
      /\ a.density = s
  BY <1>1 DEF DeviceArrays
<1> HIDE DEF a
<1>4. /\ b \in DeviceArrays /\ \A l \in {"even", "odd"} : b[l] = mem[l]
      /\ b.density = s /\ b.velocity = s
  BY <1>1, <1>3 DEF DeviceArrays
<1>. QED  BY <1>2, <1>4 DEF s

(* What the device takes from the queue, and what is left.                 *)
LEMMA DeviceTakes ==
  ASSUME OclInv, Device
  PROVE  /\ Len(queue) \in Nat /\ Len(queue) >= 1
         /\ queue' \in Seq(Commands) /\ Len(queue') = Len(queue) - 1
         /\ \A j \in 1 .. Len(queue) - 1 : queue'[j] = queue[j + 1]
         /\ UNCHANGED <<pc, exited, time, converged>>
         /\ \/ /\ queue[1].op = "launch" /\ Kernel(queue[1].of)
               /\ results' = results
            \/ /\ queue[1].op = "read" /\ mem' = mem
               /\ results' = [results EXCEPT ![queue[1].of] = mem[queue[1].of]]
<1>1. queue \in Seq(Commands) /\ queue # <<>> /\ queue' = Tail(queue)
  BY DEF OclInv, OclTyped, Device
<1>2. Head(queue) = queue[1]
  BY <1>1
<1>3. \/ /\ Head(queue).op = "launch" /\ Kernel(Head(queue).of)
         /\ results' = results
      \/ /\ Head(queue).op = "read" /\ mem' = mem
         /\ results' = [results EXCEPT ![Head(queue).of] = mem[Head(queue).of]]
  BY Zenon DEF Device
<1>4. UNCHANGED <<pc, exited, time, converged>>
  BY DEF Device, host
<1>5. /\ Len(queue) \in Nat /\ Len(queue) >= 1
      /\ queue' \in Seq(Commands) /\ Len(queue') = Len(queue) - 1
      /\ \A j \in 1 .. Len(queue) - 1 : queue'[j] = queue[j + 1]
  BY <1>1
<1>. QED  BY <1>2, <1>3, <1>4, <1>5

(* The numbers of the commands are numbers.                                *)
LEMMA NumbersTyped ==
  ASSUME OclTyped
  PROVE  /\ Issued \in Int /\ Issued >= -1 /\ Extra \in {0, 1, 2}
         /\ Len(queue) \in Nat
BY DEF OclTyped, Issued, Extra

(* The numbers of the commands left do not depend on the device.           *)
LEMMA SameNumbers ==
  ASSUME OclTyped, UNCHANGED <<pc, time>>
  PROVE  /\ Issued' = Issued /\ Extra' = Extra
         /\ Issued \in Int /\ Issued >= -1 /\ Extra \in {0, 1, 2}
BY DEF OclTyped, Issued, Extra

(* What is left in the queue are still the commands issued last.           *)
LEMMA DeviceKeepsQueue ==
  ASSUME OclInv, Device
  PROVE  OclQueue'
<1> DEFINE n == Len(queue)
<1>1. /\ n \in Nat /\ n >= 1 /\ Len(queue') = n - 1
      /\ \A j \in 1 .. n - 1 : queue'[j] = queue[j + 1]
      /\ pc' = pc /\ time' = time
  BY DeviceTakes
<1>2. /\ Issued' = Issued /\ Extra' = Extra
      /\ Issued \in Int /\ Extra \in {0, 1, 2}
  BY <1>1, SameNumbers DEF OclInv
<1>3. Len(queue') <= Extra' + Issued' + 1
  BY <1>1, <1>2 DEF OclInv, OclQueue, OclNumbers
<1>4. ASSUME NEW j \in 1 .. Len(queue') - Extra'
      PROVE  queue'[j] = StepKernel(Issued' + Extra' - Len(queue') + j - 1)
  <2>1. j \in 1 .. n - 1 /\ j + 1 \in 1 .. n - Extra
    BY <1>1, <1>2
  <2>2. queue[j + 1] = StepKernel(Issued + Extra - n + (j + 1) - 1)
    BY <2>1 DEF OclInv, OclQueue, OclNumbers
  <2>3. Issued + Extra - n + (j + 1) - 1 = Issued + Extra - (n - 1) + j - 1
    BY <1>1, <1>2, <2>1
  <2>. QED  BY <1>1, <1>2, <2>1, <2>2, <2>3
<1>5. ASSUME NEW l, NEW c, LastIs(l, c) PROVE LastIs(l, c)'
  BY <1>1, <1>5 DEF LastIs
<1>6. /\ pc' = "norm" /\ Len(queue') >= 2 => queue'[Len(queue') - 1] = Launch("monitor")
      /\ pc' = "velocity" /\ Len(queue') >= 2 =>
           queue'[Len(queue') - 1] = Launch("extract")
  BY <1>1 DEF OclInv, OclQueue, OclNumbers
<1>7. /\ pc' = "bitmap" /\ time' > 0 => Len(queue') = 0
      /\ pc' = "report" /\ time' > 0 => Len(queue') <= Extra'
      /\ pc' = "export" => Len(queue') <= 1
  BY <1>1, <1>2 DEF OclInv, OclQueue, OclNumbers
<1>8. /\ LastIs("delta", Launch("monitor"))' /\ LastIs("norm", ReadOf("delta"))'
      /\ Images => LastIs("report", ReadOf("bitmap"))'
      /\ LastIs("density", Launch("extract"))'
      /\ LastIs("velocity", ReadOf("density"))'
      /\ LastIs("export", ReadOf("velocity"))'
  BY <1>5 DEF OclInv, OclQueue, Launch, ReadOf
<1>. QED  BY <1>3, <1>4, <1>6, <1>7, <1>8 DEF OclQueue, OclNumbers

(* A kernel of a step, or the initial one, moves the lattices to the next  *)
(* step.                                                                   *)
LEMMA DeviceStep ==
  ASSUME OclInv, Device, Len(queue) > Extra
  PROVE  OclTyped' /\ OclMem' /\ OclRead'
<1> DEFINE n == Len(queue)
<1>1. /\ n \in Nat /\ n >= 1 /\ Len(queue') = n - 1 /\ queue' \in Seq(Commands)
      /\ pc' = pc /\ time' = time /\ converged' = converged /\ n > Extra
  BY DeviceTakes
<1>2. /\ Issued' = Issued /\ Extra' = Extra /\ n <= Extra + Issued + 1
      /\ Issued \in Int /\ Extra \in {0, 1, 2}
  BY <1>1, SameNumbers DEF OclInv, OclQueue, OclNumbers
<1>3. /\ Done \in Int /\ Done >= -1 /\ Done' = Done + 1
  BY <1>1, <1>2 DEF Done
<1>4. queue[1] = StepKernel(Done)
  <2>1. 1 \in 1 .. n - Extra /\ Issued + Extra - n + 1 - 1 = Done
    BY <1>1, <1>2 DEF Done
  <2>. QED  BY <2>1 DEF OclInv, OclQueue, OclNumbers
<1>5. /\ queue[1].op = "launch"
      /\ queue[1].of = IF Done = -1 THEN "init"
                       ELSE IF Done % 2 = 1 THEN "odd" ELSE "even"
  BY <1>4 DEF StepKernel, Launch
<1>6. Kernel(queue[1].of) /\ results' = results
  BY <1>5, DeviceTakes
<1>7. mem \in DeviceArrays /\ Lattices(Done) /\ DOMAIN results = Copied
  BY DEF OclInv, OclTyped, OclMem
<1>8. /\ ~ HasMonitored' /\ ~ HasExtracted'
      /\ (ToMonitor' => ToMonitor)
  <2>1. /\ pc = "norm" => Extra = 2
        /\ pc = "velocity" => Extra = 2
        /\ pc \in {"delta", "density", "export"} => Extra = 1
    BY DEF Extra
  <2>2. /\ ~ (pc = "bitmap" /\ time > 0) /\ ~ (pc = "report" /\ time > 0)
        /\ pc # "export"
    BY <1>1, <1>2, <2>1 DEF OclInv, OclQueue, OclNumbers
  <2>3. ~ HasMonitored' /\ ~ HasExtracted'
    BY <1>1, <2>1, <2>2 DEF HasMonitored, HasExtracted
  <2>4. ToMonitor' => ToMonitor
    BY <1>1 DEF ToMonitor
  <2>. QED  BY <2>3, <2>4
<1>9. OclRead'
  BY <1>1, <1>8 DEF OclRead, Extra, HasExtracted
<1>10. CASE Done = -1
  <2>1. /\ mem' \in DeviceArrays /\ mem'.even = 0 /\ mem'.velocity = 0
        /\ Images => mem'.bitmap = 0
    BY <1>5, <1>6, <1>7, <1>10, InitKernel
  <2>2. OclTyped'
    BY <1>1, <1>6, <1>7, <2>1 DEF OclInv, OclTyped
  <2>3. Lattices(Done)'
    BY <1>3, <1>10, <2>1 DEF Lattices
  <2>4. ToMonitor' =>
          LastPeriod(IF Done = -1 THEN 0 ELSE mem.velocity, time)'
    BY <1>1, <1>3, <1>8, <1>10, <2>1 DEF OclInv, OclMem, LastPeriod
  <2>. QED  BY <1>8, <1>9, <2>1, <2>2, <2>3, <2>4 DEF OclMem
<1>11. CASE Done # -1
  <2> DEFINE k == IF Done % 2 = 1 THEN "odd" ELSE "even"
  <2>1. /\ k \in {"even", "odd"} /\ queue[1].of = k /\ Done \in Nat
        /\ mem[k] = Done
    BY <1>3, <1>5, <1>7, <1>11 DEF Lattices
  <2>2. /\ mem' \in DeviceArrays /\ mem'[k] = Done
        /\ mem'[IF k = "odd" THEN "even" ELSE "odd"] = Done + 1
        /\ mem'.velocity = mem.velocity /\ mem'.bitmap = mem.bitmap
    <3> HIDE DEF k
    <3>. QED  BY <1>6, <1>7, <2>1, ComputeKernel
  <2>3. OclTyped'
    BY <1>1, <1>6, <1>7, <2>2 DEF OclInv, OclTyped
  <2>4. Lattices(Done)'
    <3>1. (Done + 1) % 2 = 1 <=> Done % 2 # 1
      BY <2>1
    <3>. QED  BY <1>3, <2>1, <2>2, <3>1 DEF Lattices
  <2>5. ToMonitor' =>
          LastPeriod(IF Done = -1 THEN 0 ELSE mem.velocity, time)'
    BY <1>1, <1>3, <1>8, <1>11, <2>1, <2>2 DEF OclInv, OclMem, LastPeriod
  <2>6. Images /\ pc' \in {"bitmap", "report"} /\ time' = 0 /\ Done' >= 0 =>
          mem'.bitmap = 0
    BY <1>1, <2>1, <2>2 DEF OclInv, OclMem
  <2>. QED  BY <1>8, <1>9, <2>3, <2>4, <2>5, <2>6 DEF OclMem
<1>. QED  BY <1>10, <1>11

(* The source of monitoring and extraction is the lattice of the step,     *)
(* because only even steps are monitored or last.                          *)
LEMMA EvenSource ==
  ASSUME OclInv, Len(queue) <= Extra,
         pc \in {"delta", "norm", "density", "velocity"}
  PROVE  /\ pc \in {"delta", "norm"} => mem["even"] = time
         /\ pc \in {"density", "velocity"} => mem["even"] = time - 1
         /\ Done # -1
<1>1. time \in Nat /\ Done = Issued /\ Lattices(Done)
  BY NumbersTyped DEF OclInv, OclTyped, OclMem, Done
<1>2. CASE pc \in {"delta", "norm"}
  <2>1. time % 2 = 0
    BY <1>1, <1>2, PeriodsAreEven DEF OclInv, OclLoop, Due
  <2>2. Done = time + 1
    BY <1>1, <1>2 DEF Issued
  <2>. QED  BY <1>1, <1>2, <2>1, <2>2 DEF Lattices
<1>3. CASE pc \in {"density", "velocity"}
  <2>1. (time - 1) % 2 = 0 /\ time > 0
    BY <1>1, <1>3 DEF OclInv, OclLoop, AfterLoop
  <2>2. Done = time
    BY <1>1, <1>3 DEF Issued
  <2>. QED  BY <1>1, <1>3, <2>1, <2>2 DEF Lattices
<1>. QED  BY <1>2, <1>3

(* The commands after the kernels of the steps do what they are for.       *)
LEMMA DeviceEnd ==
  ASSUME OclInv, Device, Len(queue) <= Extra
  PROVE  OclTyped' /\ OclMem' /\ OclRead'
<1> DEFINE n == Len(queue)
<1>1. /\ n \in Nat /\ n >= 1 /\ Len(queue') = n - 1 /\ queue' \in Seq(Commands)
      /\ pc' = pc /\ time' = time /\ converged' = converged /\ n <= Extra
      /\ time \in Nat /\ mem \in DeviceArrays /\ DOMAIN results = Copied
  BY DeviceTakes DEF OclInv, OclTyped
<1>2. /\ Issued' = Issued /\ Extra' = Extra
      /\ Issued \in Int /\ Extra \in {0, 1, 2}
  BY <1>1, SameNumbers DEF OclInv
<1>3. Done = Issued /\ Done' = Done
  BY <1>1, <1>2 DEF Done
<1>4. \/ pc \in {"norm", "velocity"} /\ n \in {1, 2}
      \/ pc \in {"delta", "density", "export"} /\ n = 1
      \/ pc = "report" /\ Images /\ n = 1
  <2>1. n = 1 \/ (n = 2 /\ Extra = 2)
    BY <1>1, <1>2
  <2>2. /\ Extra = 2 => pc \in {"norm", "velocity"}
        /\ Extra = 1 => \/ pc \in {"delta", "density", "export"}
                        \/ pc = "report" /\ Images
    BY DEF Extra
  <2>. QED  BY <1>1, <1>2, <2>1, <2>2
<1>5. /\ pc = "delta" => queue[n] = Launch("monitor")
      /\ pc = "norm" => queue[n] = ReadOf("delta")
      /\ pc = "report" /\ Images => queue[n] = ReadOf("bitmap")
      /\ pc = "density" => queue[n] = Launch("extract")
      /\ pc = "velocity" => queue[n] = ReadOf("density")
      /\ pc = "export" => queue[n] = ReadOf("velocity")
      /\ pc = "norm" /\ n >= 2 => queue[n - 1] = Launch("monitor")
      /\ pc = "velocity" /\ n >= 2 => queue[n - 1] = Launch("extract")
  BY <1>1 DEF OclInv, OclQueue, LastIs
<1>6. CASE (pc = "delta" /\ n = 1) \/ (pc = "norm" /\ n = 2)
  <2>1. queue[1] = Launch("monitor")
    BY <1>5, <1>6
  <2>2. Kernel("monitor") /\ results' = results
    BY <2>1, DeviceTakes DEF Launch
  <2>3. mem["even"] = time /\ Done # -1
    BY <1>1, <1>6, EvenSource
  <2>4. LastPeriod(mem.velocity, time) /\ Due(time)
    <3>1. ToMonitor
      BY <1>6 DEF ToMonitor
    <3>2. LastPeriod(IF Done = -1 THEN 0 ELSE mem.velocity, time)
      BY <3>1 DEF OclInv, OclMem
    <3>3. Due(time)
      BY <1>6 DEF OclInv, OclLoop
    <3>. QED  BY <2>3, <3>2, <3>3
  <2>5. mem.velocity = time - Period
    BY <1>1, <2>4, DueStep DEF Due, SrcMono!Due
  <2>6. /\ mem' \in DeviceArrays /\ mem'.velocity = time
        /\ \A l \in {"even", "odd"} : mem'[l] = mem[l]
        /\ mem'.delta \in Norms
        /\ Images => mem'.bitmap = time
    BY <1>1, <2>2, <2>3, <2>5, MonitorKernel DEF Norms
  <2>7. OclTyped'
    BY <1>1, <2>2, <2>6 DEF OclInv, OclTyped
  <2>8. Lattices(Done)'
    BY <1>3, <2>6 DEF OclInv, OclMem, Lattices
  <2>9. ~ ToMonitor' /\ ~ HasExtracted' /\ pc' \notin {"bitmap", "report"}
    <3>1. CASE pc = "delta" /\ n = 1
      BY <1>1, <3>1 DEF ToMonitor, HasExtracted
    <3>2. CASE pc = "norm" /\ n = 2
      BY <1>1, <3>2 DEF ToMonitor, HasExtracted
    <3>. QED  BY <1>6, <3>1, <3>2
  <2>10. OclRead'
    <3>1. CASE pc = "delta" /\ n = 1
      BY <1>1, <3>1 DEF OclRead
    <3>2. CASE pc = "norm" /\ n = 2
      BY <1>1, <3>2 DEF OclRead
    <3>. QED  BY <1>6, <3>1, <3>2
  <2>11. mem'.delta \in Norms'
    BY <1>1, <2>6 DEF Norms
  <2>. QED  BY <1>1, <2>6, <2>7, <2>8, <2>9, <2>10, <2>11 DEF OclMem
<1>7. CASE (pc = "density" /\ n = 1) \/ (pc = "velocity" /\ n = 2)
  <2>1. queue[1] = Launch("extract")
    BY <1>5, <1>7
  <2>2. Kernel("extract") /\ results' = results
    BY <2>1, DeviceTakes DEF Launch
  <2>3. mem["even"] = time - 1
    BY <1>1, <1>7, EvenSource
  <2>4. /\ mem' \in DeviceArrays
        /\ \A l \in {"even", "odd"} : mem'[l] = mem[l]
        /\ mem'.density = time - 1 /\ mem'.velocity = time - 1
    BY <1>1, <2>2, <2>3, ExtractKernel
  <2>5. OclTyped'
    BY <1>1, <2>2, <2>4 DEF OclInv, OclTyped
  <2>6. Lattices(Done)'
    BY <1>3, <2>4 DEF OclInv, OclMem, Lattices
  <2>7. ~ ToMonitor' /\ ~ HasMonitored' /\ pc' \notin {"bitmap", "report"}
    BY <1>1, <1>7 DEF ToMonitor, HasMonitored
  <2>8. OclRead'
    <3>1. CASE pc = "density" /\ n = 1
      BY <1>1, <3>1 DEF OclRead
    <3>2. CASE pc = "velocity" /\ n = 2
      BY <1>1, <3>2 DEF OclRead
    <3>. QED  BY <1>7, <3>1, <3>2
  <2>. QED  BY <1>1, <2>4, <2>5, <2>6, <2>7, <2>8 DEF OclMem
<1>8. ASSUME NEW a \in Copied, queue[1] = ReadOf(a),
             n = 1, pc \in {"norm", "report", "velocity", "export"},
             pc = "report" => Images
      PROVE  /\ OclTyped' /\ OclMem' /\ results'[a] = mem[a]
             /\ \A b \in Copied \ {a} : results'[b] = results[b]
  <2>1. mem' = mem /\ results' = [results EXCEPT ![a] = mem[a]]
    BY <1>8, DeviceTakes DEF ReadOf
  <2>2. /\ results'[a] = mem[a] /\ DOMAIN results' = Copied
        /\ \A b \in Copied \ {a} : results'[b] = results[b]
    BY <1>1, <2>1
  <2>3. OclTyped'
    BY <1>1, <2>1, <2>2 DEF OclInv, OclTyped
  <2>4. Lattices(Done)'
    BY <1>3, <2>1 DEF OclInv, OclMem, Lattices
  <2>5. /\ ToMonitor' <=> ToMonitor
        /\ HasMonitored' <=> HasMonitored
        /\ HasExtracted' <=> HasExtracted
    BY <1>1, <1>8 DEF ToMonitor, HasMonitored, HasExtracted
  <2>6. OclMem'
    BY <1>1, <1>3, <2>1, <2>4, <2>5 DEF OclInv, OclMem, Norms, LastPeriod
  <2>. QED  BY <2>2, <2>3, <2>6
<1>9. CASE pc = "norm" /\ n = 1
  <2>1. OclTyped' /\ OclMem' /\ results'["delta"] = mem["delta"]
    BY <1>5, <1>8, <1>9 DEF Copied
  <2>2. mem.delta \in Norms /\ Norms' = Norms
    BY <1>1, <1>9 DEF OclInv, OclMem, HasMonitored, Norms
  <2>. QED  BY <1>1, <1>9, <2>1, <2>2 DEF OclRead
<1>10. CASE pc = "report" /\ Images /\ n = 1
  <2>1. OclTyped' /\ OclMem' /\ results'["bitmap"] = mem["bitmap"]
    BY <1>5, <1>8, <1>10 DEF Copied
  <2>2. mem.bitmap = time
    <3>1. CASE time = 0
      BY <1>3, <1>10, <3>1 DEF OclInv, OclMem, Issued
    <3>2. CASE time > 0
      BY <1>10, <3>2 DEF OclInv, OclMem, HasMonitored
    <3>. QED  BY <1>1, <3>1, <3>2
  <2>. QED  BY <1>1, <1>10, <2>1, <2>2 DEF OclRead
<1>11. CASE pc = "velocity" /\ n = 1
  <2>1. OclTyped' /\ OclMem' /\ results'["density"] = mem["density"]
    BY <1>5, <1>8, <1>11 DEF Copied
  <2>2. mem.density = time - 1
    BY <1>11 DEF OclInv, OclMem, HasExtracted
  <2>. QED  BY <1>1, <1>11, <2>1, <2>2 DEF OclRead
<1>12. CASE pc = "export" /\ n = 1
  <2>1. /\ OclTyped' /\ OclMem' /\ results'["velocity"] = mem["velocity"]
        /\ results'["density"] = results["density"]
    BY <1>5, <1>8, <1>12 DEF Copied
  <2>2. mem.velocity = time - 1 /\ results.density = time - 1
    BY <1>12 DEF OclInv, OclMem, OclRead, HasExtracted
  <2>. QED  BY <1>1, <1>12, <2>1, <2>2 DEF OclRead
<1>. QED  BY <1>4, <1>6, <1>7, <1>9, <1>10, <1>11, <1>12

(* No command of the device breaks the invariant.                          *)
LEMMA DeviceKeeps ==
  ASSUME OclInv, Device
  PROVE  OclInv'
<1>1. OclLoop'
  BY DeviceTakes DEF OclInv, OclLoop
<1>2. Len(queue) > Extra \/ Len(queue) <= Extra
  BY NumbersTyped DEF OclInv
<1>. QED
  BY <1>1, <1>2, DeviceKeepsQueue, DeviceStep, DeviceEnd DEF OclInv

(* A host that is past a blocking read finds the queue empty.              *)
LEMMA ReadReturned ==
  ASSUME OclInv, NEW label, HostAt(label)
  PROVE  /\ \A j \in 1 .. Len(queue) : queue[j].op # "read"
         /\ pc \in {"norm", "velocity", "export"} => Len(queue) = 0
         /\ pc = "report" /\ Images => Len(queue) = 0
<1>1. \A j \in 1 .. Len(queue) : queue[j].op # "read"
  BY DEF HostAt, InCall, OclInv, OclTyped
<1>2. Len(queue) \in Nat
  BY NumbersTyped DEF OclInv
<1>3. ASSUME NEW a, LastIs(pc, ReadOf(a)) PROVE Len(queue) = 0
  BY <1>1, <1>2, <1>3 DEF LastIs, ReadOf
<1>4. /\ pc = "norm" => LastIs(pc, ReadOf("delta"))
      /\ pc = "velocity" => LastIs(pc, ReadOf("density"))
      /\ pc = "export" => LastIs(pc, ReadOf("velocity"))
      /\ pc = "report" /\ Images => LastIs(pc, ReadOf("bitmap"))
  BY DEF OclInv, OclQueue, OclNumbers
<1>. QED  BY <1>1, <1>3, <1>4

(* A host that launches or reads adds a command at the end of the queue.   *)
LEMMA HostEnqueues ==
  ASSUME OclInv, NEW c \in Commands, NEW label, Enqueue(c, label)
  PROVE  /\ queue' \in Seq(Commands) /\ Len(queue') = Len(queue) + 1
         /\ queue'[Len(queue) + 1] = c
         /\ \A j \in 1 .. Len(queue) : queue'[j] = queue[j]
         /\ pc' = label /\ UNCHANGED <<exited, mem, results>>
BY DEF Enqueue, OclInv, OclTyped

(* A command that is added shifts no command of the queue.                 *)
LEMMA EnqueueKeepsNumbers ==
  ASSUME OclInv, NEW c \in Commands, NEW label, Enqueue(c, label),
         \/ /\ Extra = 0 /\ Extra' = 0
            /\ Issued' = Issued + 1 /\ c = StepKernel(Issued)
         \/ Extra' = Extra + 1 /\ Issued' = Issued
         \/ Len(queue) = 0 /\ Extra' = 1 /\ Issued' = Issued
  PROVE  OclNumbers' /\ Done' = Done
<1> DEFINE n == Len(queue)
<1>1. /\ n \in Nat /\ Issued \in Int /\ Issued >= -1 /\ Extra \in {0, 1, 2}
      /\ n <= Extra + Issued + 1
  BY NumbersTyped DEF OclInv, OclQueue, OclNumbers
<1>2. /\ Len(queue') = n + 1 /\ queue'[n + 1] = c
      /\ \A j \in 1 .. n : queue'[j] = queue[j]
  BY HostEnqueues
<1>3. \A j \in 1 .. n - Extra : queue[j] = StepKernel(Issued + Extra - n + j - 1)
  BY DEF OclInv, OclQueue, OclNumbers
<1>4. CASE Extra = 0 /\ Extra' = 0 /\ Issued' = Issued + 1 /\ c = StepKernel(Issued)
  <2>1. ASSUME NEW j \in 1 .. n + 1
        PROVE  queue'[j] = StepKernel((Issued + 1) + 0 - (n + 1) + j - 1)
    <3>1. CASE j = n + 1
      <4>1. (Issued + 1) + 0 - (n + 1) + j - 1 = Issued
        BY <1>1, <3>1
      <4>. QED  BY <1>2, <1>4, <3>1, <4>1
    <3>2. CASE j # n + 1
      <4>1. j \in 1 .. n /\ j \in 1 .. n - Extra
        BY <1>1, <1>4, <3>2
      <4>2. (Issued + 1) + 0 - (n + 1) + j - 1 = Issued + Extra - n + j - 1
        BY <1>1, <1>4, <4>1
      <4>. QED  BY <1>2, <1>3, <4>1, <4>2
    <3>. QED  BY <3>1, <3>2
  <2>2. Len(queue') <= Extra' + Issued' + 1
    BY <1>1, <1>2, <1>4
  <2>3. Done' = Done
    BY <1>1, <1>2, <1>4 DEF Done
  <2>4. n + 1 - 0 = n + 1
    BY <1>1
  <2>. QED  BY <1>2, <1>4, <2>1, <2>2, <2>3, <2>4 DEF OclNumbers
<1>5. CASE Extra' = Extra + 1 /\ Issued' = Issued
  <2>1. ASSUME NEW j \in 1 .. (n + 1) - (Extra + 1)
        PROVE  queue'[j] = StepKernel(Issued + (Extra + 1) - (n + 1) + j - 1)
    <3>1. j \in 1 .. n /\ j \in 1 .. n - Extra
      BY <1>1
    <3>2. Issued + (Extra + 1) - (n + 1) + j - 1 = Issued + Extra - n + j - 1
      BY <1>1
    <3>. QED  BY <1>2, <1>3, <3>1, <3>2
  <2>2. Len(queue') <= Extra' + Issued' + 1
    BY <1>1, <1>2, <1>5
  <2>3. Done' = Done
    BY <1>1, <1>2, <1>5 DEF Done
  <2>. QED  BY <1>2, <1>5, <2>1, <2>2, <2>3 DEF OclNumbers
<1>6. CASE Len(queue) = 0 /\ Extra' = 1 /\ Issued' = Issued
  <2>1. Done' = Done
    BY <1>1, <1>2, <1>6 DEF Done
  <2>. QED  BY <1>1, <1>2, <1>6, <2>1 DEF OclNumbers
<1>. QED  BY <1>4, <1>5, <1>6

(* The numbers do not change either when nothing is added.                 *)
LEMMA MoveKeepsNumbers ==
  ASSUME OclInv, queue' = queue, Issued' = Issued, Extra' \in {0, 1, 2},
         Len(queue) = 0 \/ Extra' = Extra
  PROVE  OclNumbers' /\ Done' = Done
<1>1. /\ Issued \in Int /\ Issued >= -1 /\ Extra \in {0, 1, 2} /\ Len(queue) \in Nat
      /\ OclNumbers
  BY NumbersTyped DEF OclInv, OclQueue
<1>2. CASE Len(queue) = 0
  <2>1. Len(queue') = 0
    BY <1>2
  <2>2. Issued' \in Int /\ Issued' >= -1 /\ Extra' \in {0, 1, 2}
    BY <1>1
  <2>3. ~ (Len(queue) > Extra) /\ ~ (Len(queue') > Extra')
    BY <1>1, <1>2, <2>1, <2>2
  <2>4. Done' = Done
    BY <2>3 DEF Done
  <2>5. Len(queue') <= Extra' + Issued' + 1
    <3>1. \A x, y \in Int : x >= 0 /\ y >= -1 => 0 <= x + y + 1
      OBVIOUS
    <3>2. Extra' \in Int /\ Extra' >= 0 /\ Issued' \in Int /\ Issued' >= -1
      BY <2>2
    <3>3. 0 <= Extra' + Issued' + 1
      BY <3>1, <3>2
    <3>. QED  BY <2>1, <3>3
  <2>6. ~ \E j : j \in 1 .. Len(queue') - Extra'
    BY <2>1, <2>2
  <2>. QED  BY <2>4, <2>5, <2>6 DEF OclNumbers
<1>3. CASE Extra' = Extra
  BY <1>1, <1>3 DEF OclNumbers, Done
<1>. QED  BY <1>2, <1>3

(* The initial kernel is the first command.                                *)
LEMMA LaunchInitKeeps ==
  ASSUME OclInv, LaunchInit
  PROVE  OclInv'
<1>1. /\ pc = "init" /\ time' = time /\ converged' = converged /\ time = 0
      /\ ~ converged /\ Launch("init") \in Commands
      /\ Enqueue(Launch("init"), IF Images THEN "bitmap" ELSE "report")
  BY DEF LaunchInit, HostAt, OclInv, OclLoop, Launch, Commands
<1>2. /\ queue' \in Seq(Commands) /\ Len(queue') = Len(queue) + 1
      /\ pc' = IF Images THEN "bitmap" ELSE "report"
      /\ mem' = mem /\ results' = results
  BY <1>1, HostEnqueues
<1>3. /\ Issued = -1 /\ Extra = 0 /\ Issued' = 0 /\ Extra' = 0
      /\ Launch("init") = StepKernel(Issued)
  BY <1>1, <1>2 DEF Issued, Extra, StepKernel
<1>4. OclNumbers' /\ Done' = Done
  BY <1>1, <1>3, EnqueueKeepsNumbers
<1>5. Done = -1
  BY <1>3, NumbersTyped DEF Done, OclInv, OclQueue, OclNumbers
<1>6. OclTyped' /\ OclLoop'
  BY <1>1, <1>2, ConfigAssumption
     DEF OclInv, OclTyped, OclLoop, Calls, Copied, AfterLoop
<1>7. OclQueue'
  BY <1>1, <1>2, <1>4 DEF OclQueue, LastIs
<1>8. Lattices(Done)'
  BY <1>2, <1>4 DEF OclInv, OclMem, Lattices
<1>9. LastPeriod(IF Done = -1 THEN 0 ELSE mem.velocity, time)'
  BY <1>1, <1>2, <1>4 DEF OclInv, OclMem, ToMonitor, LastPeriod
<1>10. OclMem' /\ OclRead'
  BY <1>1, <1>2, <1>4, <1>5, <1>8, <1>9
     DEF OclMem, OclRead, HasMonitored, HasExtracted
<1>. QED  BY <1>6, <1>7, <1>10 DEF OclInv

(* The kernel of a step is launched on the lattice of its parity, and the  *)
(* host goes on to the next step without waiting for it.                   *)
LEMMA LaunchComputeKeeps ==
  ASSUME OclInv, LaunchCompute
  PROVE  OclInv'
<1> DEFINE k == Launch(IF time % 2 = 1 THEN "odd" ELSE "even")
           after == IF Due(time) THEN "monitor" ELSE Turn(NextTime(time), converged)
<1>1. /\ pc = "compute" /\ converged' = converged /\ ~ converged
      /\ time \in Nat /\ time <= Duration /\ k \in Commands /\ Enqueue(k, after)
      /\ time' = IF Due(time) THEN time ELSE time + 1
  BY DEF LaunchCompute, HostAt, OclInv, OclTyped, OclLoop, Launch, Commands, NextTime
<1> HIDE DEF k
<1>2. /\ queue' \in Seq(Commands) /\ Len(queue') = Len(queue) + 1
      /\ pc' = after /\ mem' = mem /\ results' = results
  BY <1>1, HostEnqueues
<1>3. after = IF Due(time) THEN "monitor" ELSE IF time + 1 <= Duration THEN "compute"
              ELSE IF Export THEN "extract" ELSE "clear"
  BY <1>1 DEF Turn, LoopTest, NextTime
<1> HIDE DEF after
<1>4. pc' \in {"monitor", "compute", "extract", "clear"}
  BY <1>2, <1>3
<1>5. /\ Issued = time /\ Extra = 0 /\ Issued' = time + 1 /\ Extra' = 0
      /\ k = StepKernel(Issued)
  BY <1>1, <1>2, <1>3 DEF Issued, Extra, StepKernel, k
<1>6. OclNumbers' /\ Done' = Done
  BY <1>1, <1>5, EnqueueKeepsNumbers
<1>7. OclTyped'
  BY <1>1, <1>2, <1>4 DEF OclInv, OclTyped, Calls
<1>8. OclLoop'
  <2>1. Duration \in Nat /\ Duration % 2 = 0
    BY EvenConfig
  <2>. QED  BY <1>1, <1>2, <1>3, <2>1 DEF OclLoop, AfterLoop, Due
<1>9. OclQueue'
  BY <1>4, <1>6 DEF OclQueue, LastIs
<1>10. Lattices(Done)'
  BY <1>2, <1>6 DEF OclInv, OclMem, Lattices
<1>11. ASSUME pc' \in {"monitor", "compute"}
       PROVE  LastPeriod(IF Done = -1 THEN 0 ELSE mem.velocity, time)'
  <2> DEFINE v == IF Done = -1 THEN 0 ELSE mem.velocity
  <2>1. LastPeriod(v, time) /\ v' = v
    BY <1>1, <1>2, <1>6 DEF OclInv, OclMem, ToMonitor
  <2>2. LastPeriod(v, time')
    <3> HIDE DEF v
    <3>. QED  BY <1>1, <2>1, LaterStep DEF Due, SrcMono!Due
  <2>. QED  BY <2>1, <2>2 DEF LastPeriod
<1>12. OclMem' /\ OclRead'
  BY <1>4, <1>10, <1>11 DEF OclMem, OclRead, ToMonitor, HasMonitored, HasExtracted
<1>. QED  BY <1>7, <1>8, <1>9, <1>12 DEF OclInv

(* The monitoring kernel comes after the kernel of its step.               *)
LEMMA LaunchMonitorKeeps ==
  ASSUME OclInv, LaunchMonitor
  PROVE  OclInv'
<1>1. /\ pc = "monitor" /\ time' = time /\ converged' = converged
      /\ Launch("monitor") \in Commands /\ Enqueue(Launch("monitor"), "delta")
  BY DEF LaunchMonitor, HostAt, Launch, Commands
<1>2. /\ queue' \in Seq(Commands) /\ Len(queue') = Len(queue) + 1
      /\ queue'[Len(queue) + 1] = Launch("monitor") /\ Len(queue) \in Nat
      /\ pc' = "delta" /\ mem' = mem /\ results' = results
  BY <1>1, HostEnqueues, NumbersTyped DEF OclInv
<1>3. Issued' = Issued /\ Extra = 0 /\ Extra' = 1
  BY <1>1, <1>2 DEF Issued, Extra
<1>4. OclNumbers' /\ Done' = Done
  BY <1>1, <1>3, EnqueueKeepsNumbers
<1>5. OclTyped' /\ OclLoop'
  BY <1>1, <1>2 DEF OclInv, OclTyped, OclLoop, Calls, Copied, AfterLoop, Due
<1>6. OclQueue'
  BY <1>2, <1>4 DEF OclQueue, LastIs
<1>7. Lattices(Done)'
  BY <1>2, <1>4 DEF OclInv, OclMem, Lattices
<1>8. LastPeriod(IF Done = -1 THEN 0 ELSE mem.velocity, time)'
  BY <1>1, <1>2, <1>4 DEF OclInv, OclMem, ToMonitor, LastPeriod
<1>9. OclMem' /\ OclRead'
  BY <1>1, <1>2, <1>7, <1>8 DEF OclMem, OclRead, HasMonitored, HasExtracted
<1>. QED  BY <1>5, <1>6, <1>9 DEF OclInv

(* The extraction kernel comes after those of all the steps.               *)
LEMMA LaunchExtractKeeps ==
  ASSUME OclInv, LaunchExtract
  PROVE  OclInv'
<1>1. /\ pc = "extract" /\ time' = time /\ converged' = converged
      /\ Launch("extract") \in Commands /\ Enqueue(Launch("extract"), "density")
  BY DEF LaunchExtract, HostAt, Launch, Commands
<1>2. /\ queue' \in Seq(Commands) /\ Len(queue') = Len(queue) + 1
      /\ queue'[Len(queue) + 1] = Launch("extract") /\ Len(queue) \in Nat
      /\ pc' = "density" /\ mem' = mem /\ results' = results
  BY <1>1, HostEnqueues, NumbersTyped DEF OclInv
<1>3. Issued' = Issued /\ Extra = 0 /\ Extra' = 1
  BY <1>1, <1>2 DEF Issued, Extra
<1>4. OclNumbers' /\ Done' = Done
  BY <1>1, <1>3, EnqueueKeepsNumbers
<1>5. OclTyped' /\ OclLoop'
  BY <1>1, <1>2 DEF OclInv, OclTyped, OclLoop, Calls, Copied, AfterLoop, Due
<1>6. OclQueue'
  BY <1>2, <1>4 DEF OclQueue, LastIs
<1>7. Lattices(Done)'
  BY <1>2, <1>4 DEF OclInv, OclMem, Lattices
<1>8. OclMem' /\ OclRead'
  BY <1>1, <1>2, <1>7 DEF OclMem, OclRead, HasMonitored, HasExtracted, ToMonitor
<1>. QED  BY <1>5, <1>6, <1>8 DEF OclInv

(* A read is enqueued last, and changes nothing before it is executed.     *)
LEMMA ReadEnqueues ==
  ASSUME OclInv, NEW a \in Copied, ReadBuffer(a)
  PROVE  /\ pc = a /\ time' = time /\ converged' = converged
         /\ ReadOf(a) \in Commands /\ Enqueue(ReadOf(a), AfterRead[a])
         /\ queue' \in Seq(Commands) /\ Len(queue') = Len(queue) + 1
         /\ queue'[Len(queue) + 1] = ReadOf(a) /\ Len(queue) \in Nat
         /\ \A j \in 1 .. Len(queue) : queue'[j] = queue[j]
         /\ pc' = AfterRead[a] /\ mem' = mem /\ results' = results
<1>1. /\ pc = a /\ time' = time /\ converged' = converged
      /\ Enqueue(ReadOf(a), AfterRead[a]) /\ ReadOf(a) \in Commands
  BY DEF ReadBuffer, HostAt, ReadOf, Commands
<1>. QED  BY <1>1, HostEnqueues, NumbersTyped DEF OclInv

(* The variations are read after the monitoring kernel of their step.      *)
LEMMA ReadDeltaKeeps ==
  ASSUME OclInv, ReadBuffer("delta")
  PROVE  OclInv'
<1>1. "delta" \in Copied /\ AfterRead["delta"] = "norm"
  BY DEF Copied, AfterRead
<1>2. /\ pc = "delta" /\ time' = time /\ converged' = converged
      /\ ReadOf("delta") \in Commands /\ Enqueue(ReadOf("delta"), "norm")
      /\ queue' \in Seq(Commands) /\ Len(queue') = Len(queue) + 1
      /\ queue'[Len(queue) + 1] = ReadOf("delta") /\ Len(queue) \in Nat
      /\ \A j \in 1 .. Len(queue) : queue'[j] = queue[j]
      /\ pc' = "norm" /\ mem' = mem /\ results' = results
  BY <1>1, ReadEnqueues
<1>3. Issued' = Issued /\ Extra = 1 /\ Extra' = Extra + 1
  BY <1>2 DEF Issued, Extra
<1>4. OclNumbers' /\ Done' = Done
  BY <1>2, <1>3, EnqueueKeepsNumbers
<1>5. OclTyped' /\ OclLoop'
  BY <1>2 DEF OclInv, OclTyped, OclLoop, Calls, Copied, AfterLoop, Due
<1>6. Len(queue) >= 1 => queue'[Len(queue)] = Launch("monitor")
  BY <1>2 DEF OclInv, OclQueue, LastIs
<1>7. OclQueue'
  BY <1>2, <1>4, <1>6 DEF OclQueue, LastIs
<1>8. Lattices(Done)'
  BY <1>2, <1>4 DEF OclInv, OclMem, Lattices
<1>9. ToMonitor' => LastPeriod(IF Done = -1 THEN 0 ELSE mem.velocity, time)'
  BY <1>2, <1>4 DEF OclInv, OclMem, ToMonitor, LastPeriod
<1>10. HasMonitored' => HasMonitored
  BY <1>2 DEF HasMonitored
<1>11. OclMem' /\ OclRead'
  BY <1>2, <1>8, <1>9, <1>10 DEF OclInv, OclMem, OclRead, Norms, HasExtracted
<1>. QED  BY <1>5, <1>7, <1>11 DEF OclInv

(* The picture is read after the monitoring, or at first after the initial *)
(* kernel, however many kernels are still queued.                          *)
LEMMA ReadBitmapKeeps ==
  ASSUME OclInv, ReadBuffer("bitmap")
  PROVE  OclInv'
<1>1. "bitmap" \in Copied /\ AfterRead["bitmap"] = "report"
  BY DEF Copied, AfterRead
<1>2. /\ pc = "bitmap" /\ time' = time /\ converged' = converged
      /\ ReadOf("bitmap") \in Commands /\ Enqueue(ReadOf("bitmap"), "report")
      /\ queue' \in Seq(Commands) /\ Len(queue') = Len(queue) + 1
      /\ queue'[Len(queue) + 1] = ReadOf("bitmap") /\ Len(queue) \in Nat
      /\ pc' = "report" /\ mem' = mem /\ results' = results
  BY <1>1, ReadEnqueues
<1>3. Images /\ (time > 0 => Len(queue) = 0)
  BY <1>2 DEF OclInv, OclLoop, OclQueue, OclNumbers
<1>4. Issued' = Issued /\ Extra = 0 /\ Extra' = 1
  BY <1>2, <1>3 DEF Issued, Extra
<1>5. OclNumbers' /\ Done' = Done
  BY <1>2, <1>4, EnqueueKeepsNumbers
<1>6. OclTyped' /\ OclLoop'
  BY <1>2 DEF OclInv, OclTyped, OclLoop, Calls, Copied, AfterLoop, Due
<1>7. OclQueue'
  BY <1>2, <1>3, <1>4, <1>5 DEF OclQueue, LastIs
<1>8. Lattices(Done)'
  BY <1>2, <1>5 DEF OclInv, OclMem, Lattices
<1>9. ToMonitor' => LastPeriod(IF Done = -1 THEN 0 ELSE mem.velocity, time)'
  BY <1>2, <1>5 DEF OclInv, OclMem, ToMonitor, LastPeriod
<1>10. HasMonitored' => HasMonitored
  BY <1>2 DEF HasMonitored
<1>11. OclMem' /\ OclRead'
  BY <1>2, <1>5, <1>8, <1>9, <1>10 DEF OclInv, OclMem, OclRead, Norms, HasExtracted
<1>. QED  BY <1>6, <1>7, <1>11 DEF OclInv

(* The density is read after the extraction kernel.                        *)
LEMMA ReadDensityKeeps ==
  ASSUME OclInv, ReadBuffer("density")
  PROVE  OclInv'
<1>1. "density" \in Copied /\ AfterRead["density"] = "velocity"
  BY DEF Copied, AfterRead
<1>2. /\ pc = "density" /\ time' = time /\ converged' = converged
      /\ ReadOf("density") \in Commands /\ Enqueue(ReadOf("density"), "velocity")
      /\ queue' \in Seq(Commands) /\ Len(queue') = Len(queue) + 1
      /\ queue'[Len(queue) + 1] = ReadOf("density") /\ Len(queue) \in Nat
      /\ \A j \in 1 .. Len(queue) : queue'[j] = queue[j]
      /\ pc' = "velocity" /\ mem' = mem /\ results' = results
  BY <1>1, ReadEnqueues
<1>3. Issued' = Issued /\ Extra = 1 /\ Extra' = Extra + 1
  BY <1>2 DEF Issued, Extra
<1>4. OclNumbers' /\ Done' = Done
  BY <1>2, <1>3, EnqueueKeepsNumbers
<1>5. OclTyped' /\ OclLoop'
  BY <1>2 DEF OclInv, OclTyped, OclLoop, Calls, Copied, AfterLoop, Due
<1>6. Len(queue) >= 1 => queue'[Len(queue)] = Launch("extract")
  BY <1>2 DEF OclInv, OclQueue, LastIs
<1>7. OclQueue'
  BY <1>2, <1>4, <1>6 DEF OclQueue, LastIs
<1>8. Lattices(Done)'
  BY <1>2, <1>4 DEF OclInv, OclMem, Lattices
<1>9. HasExtracted' => HasExtracted
  BY <1>2 DEF HasExtracted
<1>10. OclMem' /\ OclRead'
  BY <1>2, <1>8, <1>9 DEF OclInv, OclMem, OclRead, HasMonitored, ToMonitor
<1>. QED  BY <1>5, <1>7, <1>10 DEF OclInv

(* The second read of the export finds the queue empty, because the first  *)
(* has returned.                                                           *)
LEMMA ReadVelocityKeeps ==
  ASSUME OclInv, ReadBuffer("velocity")
  PROVE  OclInv'
<1>1. "velocity" \in Copied /\ AfterRead["velocity"] = "export"
  BY DEF Copied, AfterRead
<1>2. /\ pc = "velocity" /\ time' = time /\ converged' = converged
      /\ ReadOf("velocity") \in Commands /\ Enqueue(ReadOf("velocity"), "export")
      /\ queue' \in Seq(Commands) /\ Len(queue') = Len(queue) + 1
      /\ queue'[Len(queue) + 1] = ReadOf("velocity")
      /\ pc' = "export" /\ mem' = mem /\ results' = results
  BY <1>1, ReadEnqueues
<1>3. Len(queue) = 0
  BY <1>2, ReadReturned DEF ReadBuffer
<1>4. Issued' = Issued /\ Extra' = 1
  BY <1>2 DEF Issued, Extra
<1>5. OclNumbers' /\ Done' = Done
  BY <1>2, <1>3, <1>4, EnqueueKeepsNumbers
<1>6. OclTyped' /\ OclLoop'
  BY <1>2 DEF OclInv, OclTyped, OclLoop, Calls, Copied, AfterLoop, Due
<1>7. OclQueue'
  BY <1>2, <1>3, <1>5 DEF OclQueue, LastIs
<1>8. Lattices(Done)'
  BY <1>2, <1>5 DEF OclInv, OclMem, Lattices
<1>9. mem.density = time - 1 /\ mem.velocity = time - 1 /\ results.density = time - 1
  BY <1>2, <1>3 DEF OclInv, OclMem, OclRead, HasExtracted
<1>10. OclMem' /\ OclRead'
  BY <1>2, <1>3, <1>8, <1>9 DEF OclMem, OclRead, HasMonitored, ToMonitor
<1>. QED  BY <1>6, <1>7, <1>10 DEF OclInv

(* The host takes the norm of what it has read, with nothing left to do.   *)
LEMMA NormKeeps ==
  ASSUME OclInv, Norm
  PROVE  OclInv'
<1>1. /\ pc = "norm" /\ HostAt("norm") /\ time' = time /\ converged' \in BOOLEAN
      /\ queue' = queue /\ mem' = mem /\ results' = results
      /\ pc' = IF Images THEN "bitmap" ELSE "report"
  BY DEF Norm, HostAt, OclInv, OclTyped
<1>2. /\ Len(queue) = 0 /\ Due(time) /\ time > 0 /\ time <= Duration
  BY <1>1, ReadReturned DEF OclInv, OclLoop, Due
<1>3. Issued' = Issued /\ Extra' = 0
  BY <1>1, <1>2 DEF Issued, Extra
<1>4. OclNumbers' /\ Done' = Done
  BY <1>1, <1>2, <1>3, MoveKeepsNumbers
<1>5. OclTyped'
  BY <1>1 DEF OclInv, OclTyped, Calls, Copied
<1>6. OclLoop'
  BY <1>1, <1>2 DEF OclLoop, AfterLoop, Due
<1>7. OclQueue'
  BY <1>1, <1>2, <1>3, <1>4 DEF OclQueue, LastIs
<1>8. Lattices(Done)'
  BY <1>1, <1>4 DEF OclInv, OclMem, Lattices
<1>9. /\ mem.velocity = time /\ (Images => mem.bitmap = time)
      /\ mem.delta \in Norms /\ Norms' = Norms
  BY <1>1, <1>2 DEF OclInv, OclMem, HasMonitored, Norms
<1>10. OclMem' /\ OclRead'
  BY <1>1, <1>2, <1>8, <1>9 DEF OclMem, OclRead, HasExtracted, ToMonitor
<1>. QED  BY <1>5, <1>6, <1>7, <1>10 DEF OclInv

(* After a report the host goes on with the next step; the first report,   *)
(* before the loop, is of no step.                                         *)
LEMMA ReportKeeps ==
  ASSUME OclInv, Report
  PROVE  OclInv'
<1>1. /\ pc = "report" /\ HostAt("report") /\ converged' = converged
      /\ queue' = queue /\ mem' = mem /\ results' = results
      /\ time \in Nat /\ time <= Duration
      /\ time' = IF time = 0 THEN 0 ELSE time + 1
      /\ pc' = IF time' <= Duration /\ ~ converged THEN "compute"
               ELSE IF Export THEN "extract" ELSE "clear"
  BY DEF Report, HostAt, OclInv, OclTyped, OclLoop, Turn, LoopTest, NextTime
<1>2. pc' \in {"compute", "extract", "clear"}
  BY <1>1
<1>3. Len(queue) \in Nat /\ (Images => Len(queue) = 0)
  BY <1>1, ReadReturned, NumbersTyped DEF OclInv
<1>4. OclTyped'
  BY <1>1, <1>2 DEF OclInv, OclTyped, Calls
<1>5. CASE time = 0
  <2>1. /\ ~ converged /\ Duration \in Nat
    BY <1>1, <1>5, EvenConfig DEF OclInv, OclLoop
  <2>2. pc' = "compute" /\ time' = time
    BY <1>1, <1>5, <2>1
  <2>3. Issued' = Issued /\ Extra' = 0 /\ (Len(queue) = 0 \/ Extra' = Extra)
    BY <1>1, <1>3, <1>5, <2>2 DEF Issued, Extra
  <2>4. OclNumbers' /\ Done' = Done
    BY <1>1, <2>3, MoveKeepsNumbers
  <2>5. OclLoop'
    BY <1>1, <2>1, <2>2 DEF OclLoop, AfterLoop
  <2>6. OclQueue'
    BY <2>2, <2>4 DEF OclQueue, LastIs
  <2>7. Lattices(Done)'
    BY <1>1, <2>4 DEF OclInv, OclMem, Lattices
  <2>8. LastPeriod(IF Done = -1 THEN 0 ELSE mem.velocity, time)'
    BY <1>1, <1>5, <2>2, <2>4 DEF OclInv, OclMem, ToMonitor, LastPeriod
  <2>9. OclMem' /\ OclRead'
    BY <2>2, <2>7, <2>8 DEF OclMem, OclRead, HasExtracted, HasMonitored
  <2>. QED  BY <1>4, <2>5, <2>6, <2>9 DEF OclInv
<1>6. CASE time > 0
  <2>1. Due(time) /\ Len(queue) <= Extra
    BY <1>1, <1>6 DEF OclInv, OclLoop, OclQueue, OclNumbers
  <2>2. Len(queue) = 0
    BY <1>1, <1>3, <2>1 DEF Extra
  <2>3. Issued' = Issued /\ Extra' = 0 /\ Issued = time + 1
    BY <1>1, <1>2, <1>6 DEF Issued, Extra
  <2>4. OclNumbers' /\ Done' = Done
    BY <1>1, <2>2, <2>3, MoveKeepsNumbers
  <2>5. Done = time + 1
    BY <2>1, <2>2, <2>3, NumbersTyped DEF Done, OclInv
  <2>6. time % 2 = 0 /\ time' = time + 1
    BY <1>1, <1>6, <2>1, PeriodsAreEven DEF Due
  <2>7. OclLoop'
    BY <1>1, <1>2, <2>6 DEF OclLoop, AfterLoop
  <2>8. OclQueue'
    BY <1>2, <2>4 DEF OclQueue, LastIs
  <2>9. Lattices(Done)'
    BY <1>1, <2>4 DEF OclInv, OclMem, Lattices
  <2>10. LastPeriod(IF Done = -1 THEN 0 ELSE mem.velocity, time)'
    <3>1. mem.velocity = time /\ Period \in Nat
      BY <1>1, <1>6, EvenConfig DEF OclInv, OclMem, HasMonitored
    <3>2. LastPeriod(time, time + 1) /\ Done # -1
      BY <1>1, <2>1, <2>5, <3>1, EvenConfig DEF LastPeriod, Due
    <3>. QED  BY <1>1, <2>4, <2>6, <3>1, <3>2 DEF LastPeriod
  <2>11. OclMem' /\ OclRead'
    BY <1>2, <2>9, <2>10 DEF OclMem, OclRead, HasExtracted, HasMonitored
  <2>. QED  BY <1>4, <2>7, <2>8, <2>11 DEF OclInv
<1>. QED  BY <1>1, <1>5, <1>6

(* Past the last read nothing is left of what was to be exported.          *)
LEMMA EndKeeps ==
  ASSUME OclInv, ExportResults \/ Clear
  PROVE  OclInv'
<1>1. /\ pc \in {"export", "clear"} /\ pc' \in {"clear", "ended"}
      /\ UNCHANGED <<time, converged, queue, mem, results>>
      /\ pc = "export" => Len(queue) = 0
  <2>1. CASE ExportResults
    BY <2>1, ReadReturned DEF ExportResults, HostAt
  <2>2. CASE Clear
    BY <2>2 DEF Clear, HostAt
  <2>. QED  BY <2>1, <2>2
<1>2. Issued' = Issued /\ Extra' = 0 /\ (Len(queue) = 0 \/ Extra' = Extra)
  BY <1>1 DEF Issued, Extra
<1>3. OclNumbers' /\ Done' = Done
  BY <1>1, <1>2, MoveKeepsNumbers
<1>4. OclTyped'
  BY <1>1 DEF OclInv, OclTyped, Calls
<1>5. OclLoop'
  BY <1>1 DEF OclInv, OclLoop, AfterLoop
<1>6. OclQueue'
  BY <1>1, <1>3 DEF OclQueue, LastIs
<1>7. Lattices(Done)'
  BY <1>1, <1>3 DEF OclInv, OclMem, Lattices
<1>8. OclMem' /\ OclRead'
  BY <1>1, <1>7 DEF OclMem, OclRead, HasExtracted, HasMonitored, ToMonitor
<1>. QED  BY <1>4, <1>5, <1>6, <1>8 DEF OclInv

(* To exit, or to be somewhere else in another program, changes nothing.   *)
LEMMA IdleKeeps ==
  ASSUME OclInv, UNCHANGED <<pc, time, converged, queue, mem, results>>
  PROVE  OclInv'
<1>1. Issued' = Issued /\ Extra' = Extra
  BY DEF Issued, Extra
<1>2. Done' = Done
  BY <1>1 DEF Done
<1>3. OclTyped' /\ OclLoop'
  BY DEF OclInv, OclTyped, OclLoop, Due
<1>4. OclQueue'
  BY <1>1 DEF OclInv, OclQueue, OclNumbers, LastIs
<1>5. OclMem' /\ OclRead'
  BY <1>2 DEF OclInv, OclMem, OclRead, Norms, Lattices, LastPeriod, ToMonitor,
     HasMonitored, HasExtracted
<1>. QED  BY <1>3, <1>4, <1>5 DEF OclInv

(* The host has enqueued nothing, and nothing has been computed.           *)
LEMMA OclInit == Init => OclInv
<1> SUFFICES ASSUME Init PROVE OclInv
  OBVIOUS
<1>1. /\ pc = "init" /\ time = 0 /\ ~ converged /\ converged \in BOOLEAN
      /\ queue = <<>> /\ Len(queue) = 0
      /\ mem = [even |-> -1, odd |-> -1, velocity |-> -1, delta |-> <<-1, -1>>,
                bitmap |-> -1, density |-> -1]
      /\ DOMAIN results = Copied
  BY DEF Init, Undefined
<1>2. Issued = -1 /\ Extra = 0 /\ Done = -1
  BY <1>1 DEF Issued, Extra, Done
<1>3. OclTyped /\ OclLoop
  BY <1>1, EvenConfig DEF OclTyped, OclLoop, Calls, DeviceArrays, AfterLoop
<1>4. OclQueue
  BY <1>1, <1>2 DEF OclQueue, OclNumbers, LastIs
<1>5. LastPeriod(0, 0)
  BY EvenConfig, ModSmall DEF LastPeriod
<1>6. OclMem /\ OclRead
  BY <1>1, <1>2, <1>5
     DEF OclMem, OclRead, Lattices, ToMonitor, HasMonitored, HasExtracted
<1>. QED  BY <1>3, <1>4, <1>6 DEF OclInv

(* No step of the host or of its device breaks the invariant.              *)
LEMMA OclNext == OclInv /\ [AllNext]_all => OclInv'
<1> SUFFICES ASSUME OclInv, [AllNext]_all PROVE OclInv'
  OBVIOUS
<1>1. CASE UNCHANGED vars
  BY <1>1, IdleKeeps DEF vars, host
<1>2. CASE HostStep
  <2>1. ASSUME NEW a \in Copied, ReadBuffer(a) PROVE OclInv'
    BY <2>1, ReadDeltaKeeps, ReadBitmapKeeps, ReadDensityKeeps, ReadVelocityKeeps
       DEF Copied
  <2>. QED
    BY <1>2, <2>1, LaunchInitKeeps, LaunchComputeKeeps, LaunchMonitorKeeps,
       LaunchExtractKeeps, NormKeeps, ReportKeeps, EndKeeps DEF HostStep
<1>3. CASE ExitOnFail
  BY <1>3, IdleKeeps DEF ExitOnFail
<1>4. CASE OpenCL(Next)
  BY <1>1, <1>2, <1>3, <1>4, DeviceKeeps DEF OpenCL, Next, Finished
<1>. QED  BY <1>1, <1>4 DEF AllNext, Sequential, all

(* The two invariants hold in every behaviour.                             *)
LEMMA ProgramsInvariance == AllSpec => [](SeqInv /\ OclInv)
<1>1. AllInit => SeqInv /\ OclInv
  BY SeqInit, OclInit DEF AllInit
<1>2. (SeqInv /\ OclInv) /\ [AllNext]_all => (SeqInv /\ OclInv)'
  BY SeqBaseNext, MonoNext, OclNext DEF SeqInv
<1>. QED  BY <1>1, <1>2, PTL DEF AllSpec
-----------------------------------------------------------------------------
(* OpenCL, src_mono and src_ppcg decide on a norm of this step, for every  *)
(* duration and period that getConfig accepts.  It is over one period,     *)
(* except that the last norm of src_mono is over one step when Duration is *)
(* a multiple of Period, and that the OpenCL kernel may read undefined     *)
(* contents of its write-only buffer (data.c:70), but none of another step.*)
THEOREM NormsOfTheirStepsHolds == AllSpec => []NormsOfTheirSteps
<1>1. SeqInv /\ OclInv => NormsOfTheirSteps
  <2> SUFFICES ASSUME SeqInv, OclInv PROVE NormsOfTheirSteps
    OBVIOUS
  <2>1. /\ program = "mono" => SrcMono!NormOfStoredStep
        /\ program = "ppcg" => SrcPpcg!NormOfStoredStep
    BY DEF SeqInv, SeqBase, SeqMem, SrcMono!NormOfStoredStep,
       SrcPpcg!NormOfStoredStep, SrcPpcg!Stored
  <2>2. ASSUME HostAt("norm") PROVE results.delta \in Norms
    <3>1. pc = "norm" /\ Len(queue) = 0
      BY <2>2, ReadReturned DEF HostAt
    <3>. QED  BY <3>1 DEF OclInv, OclRead
  <2>. QED  BY <2>1, <2>2 DEF NormsOfTheirSteps, NormOfNoOtherPeriod, Norms
<1>. QED  BY <1>1, ProgramsInvariance, PTL

(* An image is of the step whose number it gets, density and velocity are  *)
(* both exported of the last step, whatever the order in which the device  *)
(* and the host go on, and after an early convergence too.  In src_mono    *)
(* the density is of step Duration - 1 or was never written, the velocity  *)
(* of that step or of the last monitoring, for every duration and period.  *)
THEOREM ReportsOfTheirStepHolds == AllSpec => []ReportsOfTheirStep
<1>1. SeqInv /\ OclInv => ReportsOfTheirStep
  <2> SUFFICES ASSUME SeqInv, OclInv PROVE ReportsOfTheirStep
    OBVIOUS
  <2>1. /\ program = "ppcg" => SrcPpcg!ExportOfExtractedStep
        /\ program = "mono" => SrcMono!ExportOfExtractedStep
    BY DEF SeqInv, SeqBase, SeqMem, MonoMem, SrcPpcg!ExportOfExtractedStep,
       SrcMono!ExportOfExtractedStep, SrcMono!None
  <2>2. ASSUME HostAt("report"), Images PROVE results.bitmap = time
    <3>1. pc = "report" /\ Len(queue) = 0
      BY <2>2, ReadReturned DEF HostAt
    <3>. QED  BY <2>2, <3>1 DEF OclInv, OclRead
  <2>3. ASSUME HostAt("export")
        PROVE  results.density = time - 1 /\ results.velocity = time - 1
    <3>1. pc = "export" /\ Len(queue) = 0
      BY <2>3, ReadReturned DEF HostAt
    <3>. QED  BY <3>1 DEF OclInv, OclRead
  <2>. QED
    BY <2>1, <2>2, <2>3 DEF ReportsOfTheirStep, ImageOfThisStep, ExportOfLastStep
<1>. QED  BY <1>1, ProgramsInvariance, PTL

(* Host and device together, src_mono and src_ppcg run the sequential loop *)
(* of the clusters: the host leaves it early only after a monitoring.      *)
THEOREM EachImplementsLoopHolds == AllSpec => EachImplementsLoop
<1>1. AllInit => Loop!Init /\ SrcMono!Loop!Init
  BY DEF AllInit, Init, SrcMono!Init, Loop!Init, SrcMono!Loop!Init, AfterLoop
<1>2. OclInv /\ [AllNext]_all => [Loop!Next]_<<time, pc \notin AfterLoop>>
  <2> SUFFICES ASSUME OclInv, [AllNext]_all
               PROVE  \/ Loop!Turn
                      \/ time' = time /\ (pc' \notin AfterLoop) = (pc \notin AfterLoop)
    BY DEF Loop!Next
  <2>1. CASE UNCHANGED <<pc, time>>
    BY <2>1
  <2>2. CASE LaunchCompute
    <3>1. /\ pc = "compute" /\ ~ converged
          /\ time' = IF Due(time) THEN time ELSE time + 1
          /\ pc' = IF Due(time) THEN "monitor"
                   ELSE IF time + 1 <= Duration THEN "compute"
                   ELSE IF Export THEN "extract" ELSE "clear"
      BY <2>2 DEF LaunchCompute, Enqueue, HostAt, OclInv, OclLoop, Turn, LoopTest,
         NextTime
    <3>. QED  BY <3>1 DEF Loop!Turn, AfterLoop
  <2>3. CASE Report
    <3>1. /\ pc = "report" /\ time' = IF time = 0 THEN 0 ELSE time + 1
          /\ pc' = IF time' <= Duration /\ ~ converged THEN "compute"
                   ELSE IF Export THEN "extract" ELSE "clear"
          /\ IF time = 0 THEN ~ converged ELSE Due(time)
          /\ time <= Duration
      BY <2>3 DEF Report, HostAt, OclInv, OclLoop, Turn, LoopTest, NextTime
    <3>2. CASE time = 0
      BY <3>1, <3>2 DEF AfterLoop
    <3>3. CASE time # 0
      BY <3>1, <3>3 DEF Loop!Turn, Loop!Monitored, Due, AfterLoop
    <3>. QED  BY <3>2, <3>3
  <2>4. CASE LaunchInit \/ LaunchMonitor \/ LaunchExtract \/ Norm
             \/ ExportResults \/ Clear
    BY <2>4 DEF LaunchInit, LaunchMonitor, LaunchExtract, Norm, ExportResults, Clear,
       Enqueue, HostAt, AfterLoop
  <2>5. ASSUME NEW a \in Copied, ReadBuffer(a)
        PROVE  time' = time /\ (pc' \notin AfterLoop) = (pc \notin AfterLoop)
    BY <2>5 DEF ReadBuffer, Enqueue, HostAt, AfterRead, Copied, AfterLoop
  <2>6. CASE OpenCL(Next)
    BY <2>1, <2>2, <2>3, <2>4, <2>5, <2>6
       DEF OpenCL, Next, HostStep, ExitOnFail, Device, Finished, vars, host
  <2>. QED  BY <2>1, <2>6 DEF AllNext, Sequential, all, vars, host
<1>3. SeqInv /\ [AllNext]_all =>
        [SrcMono!Loop!Next]_<<step, phase \notin {"export", "exported"}>>
  <2> SUFFICES ASSUME SeqInv, [AllNext]_all
               PROVE  \/ SrcMono!Loop!Turn
                      \/ /\ step' = step
                         /\ (phase' \notin {"export", "exported"}) =
                              (phase \notin {"export", "exported"})
    BY DEF SrcMono!Loop!Next
  <2>1. CASE UNCHANGED <<phase, step>>
    BY <2>1
  <2>2. ASSUME NEW v \in BOOLEAN, step' = step + 1, SrcMono!Due(step) \/ ~ v,
               phase \in {"compute", "norm"},
               phase' = IF step + 1 <= Duration /\ ~ v THEN "compute" ELSE "export"
        PROVE  SrcMono!Loop!Turn
    BY <2>2 DEF SrcMono!Loop!Turn, SrcMono!Loop!Monitored, SrcMono!Due
  <2>3. CASE SrcMono!Compute \/ SrcPpcg!Compute
    <3>1. phase = "compute" /\ ~ verdict /\ verdict \in BOOLEAN
      BY <2>3 DEF SrcMono!Compute, SrcPpcg!Compute, SeqInv, SeqBase, SeqTyped, SeqLoop
    <3>2. \/ step' = step /\ phase' \in {"norm", "monitor"}
          \/ SrcMono!NextTurn(verdict) \/ SrcPpcg!NextTurn(verdict)
      BY <2>3 DEF SrcMono!Compute, SrcPpcg!Compute
    <3>3. CASE step' = step /\ phase' \in {"norm", "monitor"}
      BY <3>1, <3>3
    <3>4. CASE SrcMono!NextTurn(verdict) \/ SrcPpcg!NextTurn(verdict)
      <4>1. /\ step' = step + 1
            /\ phase' = IF step + 1 <= Duration /\ ~ verdict THEN "compute"
                        ELSE "export"
        BY <3>4 DEF SrcMono!NextTurn, SrcMono!NextStep, SrcMono!LoopTest,
           SrcPpcg!NextTurn, SrcPpcg!NextStep, SrcPpcg!LoopTest
      <4>. QED  BY <2>2, <3>1, <4>1
    <3>. QED  BY <3>2, <3>3, <3>4
  <2>4. CASE SrcMono!Norm \/ SrcPpcg!Norm
    <3>1. phase = "norm" /\ SrcMono!Due(step)
      BY <2>4 DEF SrcMono!Norm, SrcPpcg!Norm, SeqInv, SeqBase, SeqLoop
    <3>2. PICK small \in BOOLEAN :
            SrcMono!NextTurn(verdict \/ small) \/ SrcPpcg!NextTurn(verdict \/ small)
      BY <2>4 DEF SrcMono!Norm, SrcPpcg!Norm
    <3>3. /\ step' = step + 1
          /\ phase' = IF step + 1 <= Duration /\ ~ (verdict \/ small)
                      THEN "compute" ELSE "export"
      BY <3>2 DEF SrcMono!NextTurn, SrcMono!NextStep, SrcMono!LoopTest,
         SrcPpcg!NextTurn, SrcPpcg!NextStep, SrcPpcg!LoopTest
    <3>4. (verdict \/ small) \in BOOLEAN
      OBVIOUS
    <3>. QED  BY <2>2, <3>1, <3>3, <3>4
  <2>5. CASE SrcMono!Monitor \/ SrcPpcg!Monitor \/ SrcMono!Extract \/ SrcPpcg!Extract
    BY <2>5 DEF SrcMono!Monitor, SrcPpcg!Monitor, SrcMono!Extract, SrcPpcg!Extract
  <2>. QED  BY <2>1, <2>3, <2>4, <2>5
       DEF AllNext, OpenCL, Sequential, all, sequential, SrcMono!Next, SrcPpcg!Next,
       SrcMono!Program, SrcPpcg!Program, SrcMono!Finished, SrcPpcg!Finished,
       SrcMono!vars, SrcPpcg!vars
<1>. QED
  BY <1>1, <1>2, <1>3, ProgramsInvariance, PTL
     DEF AllSpec, EachImplementsLoop, ImplementsLoop, SrcMono!ImplementsLoop,
     Loop!Spec, SrcMono!Loop!Spec
=============================================================================
