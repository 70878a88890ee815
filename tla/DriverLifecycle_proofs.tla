----------------------- MODULE DriverLifecycle_proofs -----------------------
(***************************************************************************)
(* Proofs about DriverLifecycle.  Whatever probe and remove have done so   *)
(* far, what the driver holds are the first so many resources of           *)
(* ProbeOrder: all that is needed to hold one was acquired before it and   *)
(* is released after it.                                                   *)
(***************************************************************************)
EXTENDS DriverLifecycle, TLAPS

----------------------------------------------------------------------------
(* The orders.                                                              *)

Acquired(n) == {ProbeOrder[i] : i \in 1 .. n}

\* How many resources, in the order of ProbeOrder, are held
Level ==
    IF pc = "probe" THEN at - 1
    ELSE IF pc = "unwind" THEN at
    ELSE IF pc = "loaded" THEN 9
    ELSE IF pc = "remove" THEN IF at <= 5 THEN 9 ELSE IF at <= 9 THEN 14 - at ELSE 1
    ELSE 0

LEMMA ProbeOrderIs ==
    /\ Len(ProbeOrder) = 9 /\ DOMAIN ProbeOrder = 1 .. 9
    /\ ProbeOrder[1] = "nd" /\ ProbeOrder[2] = "tilt_gpio"
    /\ ProbeOrder[3] = "ultra_trig_gpio" /\ ProbeOrder[4] = "ultra_echo_gpio"
    /\ ProbeOrder[5] = "led_gpio" /\ ProbeOrder[6] = "tilt_irq" /\ ProbeOrder[7] = "ultra_irq"
    /\ ProbeOrder[8] = "miscdev" /\ ProbeOrder[9] = "proc_entry"
BY DEF ProbeOrder

LEMMA RemoveOrderIs ==
    /\ Len(RemoveOrder) = 10
    /\ RemoveOrder[1] = "gdev" /\ RemoveOrder[2] = "timer" /\ RemoveOrder[3] = "tilt_work"
    /\ RemoveOrder[4] = "fusion_work" /\ RemoveOrder[5] = "proc_entry"
    /\ RemoveOrder[6] = "miscdev" /\ RemoveOrder[7] = "ultra_irq"
    /\ RemoveOrder[8] = "tilt_irq" /\ RemoveOrder[9] = "gpios" /\ RemoveOrder[10] = "nd"
BY DEF RemoveOrder

\* No resource is acquired twice.
LEMMA ProbeOrderInjective ==
    ASSUME NEW i \in 1 .. 9, NEW j \in 1 .. 9, i # j
    PROVE  ProbeOrder[i] # ProbeOrder[j]
BY ProbeOrderIs

\* Who is among the first n.
LEMMA WhoIsAcquired ==
    ASSUME NEW n \in 0 .. 9
    PROVE  /\ "nd" \in Acquired(n) <=> n >= 1
           /\ Gpios \subseteq Acquired(n) <=> n >= 5
           /\ "tilt_irq" \in Acquired(n) <=> n >= 6
           /\ "ultra_irq" \in Acquired(n) <=> n >= 7
           /\ "miscdev" \in Acquired(n) <=> n >= 8
           /\ "proc_entry" \in Acquired(n) <=> n >= 9
<1>1. ASSUME NEW i \in 1 .. 9
      PROVE  ProbeOrder[i] \in Acquired(n) <=> n >= i
  BY ProbeOrderInjective DEF Acquired
<1> QED
  BY <1>1, ProbeOrderIs DEF Gpios

LEMMA AcquiredSteps ==
    ASSUME NEW n \in 0 .. 9
    PROVE  /\ Acquired(n) \subseteq Resources
           /\ n = 0 => Acquired(n) = {}
           /\ n = 9 => Acquired(n) = Resources
           /\ n < 9 => Acquired(n + 1) = Acquired(n) \cup {ProbeOrder[n + 1]}
           /\ n > 0 => Acquired(n - 1) = Acquired(n) \ {ProbeOrder[n]}
<1>1. Resources = {ProbeOrder[i] : i \in 1 .. 9}
  BY ProbeOrderIs DEF Resources, Range
<1>2. n < 9 => Acquired(n + 1) = Acquired(n) \cup {ProbeOrder[n + 1]}
  BY DEF Acquired
<1>3. ASSUME n > 0
      PROVE  Acquired(n - 1) = Acquired(n) \ {ProbeOrder[n]}
  <2>1. ProbeOrder[n] \notin Acquired(n - 1)
    BY <1>3, ProbeOrderInjective DEF Acquired
  <2>2. Acquired(n) = Acquired(n - 1) \cup {ProbeOrder[n]}
    BY <1>3 DEF Acquired
  <2> QED
    BY <2>1, <2>2
<1> QED
  BY <1>1, <1>2, <1>3 DEF Acquired

\* free_gpios gives back the four that follow the structure.
LEMMA GpiosAreAcquired == Acquired(5) \ Gpios = Acquired(1)
<1>1. Acquired(1) = {"nd"}
  BY ProbeOrderIs DEF Acquired
<1>2. Acquired(5) = {"nd", "tilt_gpio", "ultra_trig_gpio", "ultra_echo_gpio", "led_gpio"}
  BY ProbeOrderIs DEF Acquired
<1> QED
  BY <1>1, <1>2 DEF Gpios

----------------------------------------------------------------------------
(* The inductive invariant.                                                 *)

\* Where probe and remove can be, and what they hold there.
HeldInv ==
    /\ pc \in {"probe", "unwind", "failed", "loaded", "remove", "unloaded"}
    /\ at \in 0 .. 11
    /\ pc = "probe" => at \in 1 .. 10
    /\ pc = "unwind" => at \in 0 .. 9
    /\ pc = "remove" => at \in 1 .. 10
    /\ held = Acquired(Level)
    /\ gdev \in BOOLEAN
    /\ gdev => pc = "loaded" \/ (pc = "remove" /\ at = 1)

\* Who is inside still has the resource through which it got in.
UsersInv ==
    /\ handlers \subseteq held \cap Irqs
    /\ stats \in BOOLEAN /\ file \in BOOLEAN
    /\ stats => "proc_entry" \in held

\* A tilt work comes of an edge; a fusion work without one comes of the timer, which
\* remove stops before it cancels the work.
WorksInv ==
    /\ timer \in BOOLEAN /\ lateEdge \in BOOLEAN
    /\ tiltWork \subseteq {"pending", "running"}
    /\ fusionWork \subseteq {"pending", "running"}
    /\ timer => pc = "loaded" \/ (pc = "remove" /\ at <= 2)
    /\ tiltWork # {} => lateEdge
    /\ fusionWork # {} => lateEdge \/ pc = "loaded" \/ (pc = "remove" /\ at <= 4)

LEMMA LevelInRange == HeldInv => Level \in 0 .. 9
BY DEF HeldInv, Level

LEMMA HeldInvariant == Spec => [](HeldInv /\ UsersInv)
<1> USE DEF driver, works, users
<1>1. Init => HeldInv /\ UsersInv
  <2> SUFFICES ASSUME Init PROVE HeldInv /\ UsersInv
    OBVIOUS
  <2>1. Level = 0 /\ Acquired(0) = {}
    BY AcquiredSteps DEF Init, Level
  <2>2. /\ pc = "probe" /\ at = 1 /\ held = {} /\ handlers = {}
        /\ ~gdev /\ gdev \in BOOLEAN /\ ~stats /\ stats \in BOOLEAN /\ file \in BOOLEAN
    BY DEF Init
  <2> QED
    BY <2>1, <2>2 DEF HeldInv, UsersInv
<1>2. HeldInv /\ UsersInv /\ [Next]_vars => (HeldInv /\ UsersInv)'
  <2> SUFFICES ASSUME HeldInv, UsersInv, Next \/ UNCHANGED vars
               PROVE  (HeldInv /\ UsersInv)'
    OBVIOUS
  <2>0. Level \in 0 .. 9
    BY LevelInRange
  <2>1. CASE Acquire
    <3>1. /\ pc = "probe" /\ pc' = "probe" /\ at \in 1 .. 9 /\ at' = at + 1
          /\ held' = held \cup {ProbeOrder[at]} /\ gdev' = gdev /\ UNCHANGED users
      BY <2>1, ProbeOrderIs DEF Acquire, HeldInv
    <3>2. Level = at - 1 /\ Level' = at
      BY <3>1 DEF Level
    <3>3. held' = Acquired(at)
      <4>1. at - 1 \in 0 .. 9 /\ at - 1 < 9 /\ (at - 1) + 1 = at
        BY <3>1
      <4>2. Acquired(at) = Acquired(at - 1) \cup {ProbeOrder[at]}
        BY <4>1, AcquiredSteps
      <4> QED
        BY <3>1, <3>2, <4>2 DEF HeldInv
    <3> QED
      BY <3>1, <3>2, <3>3 DEF HeldInv, UsersInv
  <2>2. CASE AcquireFails \/ DirectionFails
    <3>1. /\ pc = "probe" /\ pc' = "unwind" /\ at' = at - 1 /\ at' \in 0 .. 9
          /\ held' = held /\ gdev' = gdev /\ UNCHANGED users
      BY <2>2, ProbeOrderIs DEF AcquireFails, DirectionFails, UnwindFrom, HeldInv
    <3>2. Level' = Level
      BY <3>1 DEF Level
    <3> QED
      BY <3>1, <3>2 DEF HeldInv, UsersInv
  <2>3. CASE Publish
    <3>1. /\ pc = "probe" /\ pc' = "loaded" /\ at = 10 /\ at' = 0
          /\ held' = held /\ gdev' = TRUE /\ UNCHANGED users
      BY <2>3, ProbeOrderIs DEF Publish
    <3>2. Level' = Level
      BY <3>1 DEF Level
    <3> QED
      BY <3>1, <3>2 DEF HeldInv, UsersInv
  <2>4. CASE Unwind
    <3>1. /\ pc = "unwind" /\ gdev' = gdev /\ ~gdev /\ UNCHANGED users
          /\ Level = at /\ at \in 0 .. 9
      BY <2>4 DEF Unwind, HeldInv, Level
    <3>2. CASE at > 0
      <4>1. /\ Releasable(ProbeOrder[at]) /\ held' = held \ {ProbeOrder[at]}
            /\ at' = at - 1 /\ pc' = pc /\ at' \in 0 .. 8
        BY <2>4, <3>1, <3>2 DEF Unwind
      <4>2. Level' = at - 1 /\ held' = Acquired(at - 1)
        BY <3>1, <3>2, <4>1, AcquiredSteps DEF HeldInv, Level
      <4>3. UsersInv'
        BY <3>1, <4>1 DEF UsersInv, Releasable
      <4> QED
        BY <3>1, <4>1, <4>2, <4>3 DEF HeldInv
    <3>3. CASE at = 0
      <4>1. at' = at /\ held' = held /\ pc' = "failed"
        BY <2>4, <3>3 DEF Unwind
      <4>2. Level' = Level
        BY <3>1, <3>3, <4>1 DEF Level
      <4> QED
        BY <3>1, <4>1, <4>2 DEF HeldInv, UsersInv
    <3> QED
      BY <3>1, <3>2, <3>3
  <2>5. CASE RemoveStart
    <3>1. /\ pc = "loaded" /\ pc' = "remove" /\ at' = 1
          /\ held' = held /\ gdev' = gdev /\ UNCHANGED users
      BY <2>5 DEF RemoveStart
    <3>2. Level' = Level
      BY <3>1 DEF Level
    <3> QED
      BY <3>1, <3>2 DEF HeldInv, UsersInv
  <2>6. CASE ClearGdev
    <3>1. /\ pc = "remove" /\ at = 1 /\ at' = 2 /\ pc' = "remove"
          /\ held' = held /\ UNCHANGED users
      BY <2>6, RemoveOrderIs DEF ClearGdev, AtRemoveStep, NextRemoveStep, HeldInv
    <3>2. gdev' \in BOOLEAN /\ ~gdev'
      BY <2>6 DEF ClearGdev
    <3>3. Level' = Level
      BY <3>1 DEF Level
    <3> QED
      BY <3>1, <3>2, <3>3 DEF HeldInv, UsersInv
  <2>7. CASE CancelTimer \/ CancelTiltWork \/ CancelFusionWork
    <3>1. /\ pc = "remove" /\ at \in 2 .. 4 /\ at' = at + 1 /\ pc' = "remove"
          /\ held' = held /\ gdev' = gdev /\ UNCHANGED users
      BY <2>7, RemoveOrderIs
         DEF CancelTimer, CancelTiltWork, CancelFusionWork, AtRemoveStep, NextRemoveStep, HeldInv
    <3>2. Level' = Level
      BY <3>1 DEF Level
    <3> QED
      BY <3>1, <3>2 DEF HeldInv, UsersInv
  <2>8. CASE Release
    <3>1. PICK s \in Resources \cup {"gpios"} :
            /\ pc = "remove" /\ at \in 1 .. 10 /\ RemoveOrder[at] = s
            /\ Releasable(s)
            /\ held' = held \ (IF s = "gpios" THEN Gpios ELSE {s})
      BY <2>8 DEF Release, AtRemoveStep, HeldInv
    <3>2. /\ at' = at + 1 /\ pc' = (IF at = 10 THEN "unloaded" ELSE "remove")
          /\ gdev' = gdev /\ UNCHANGED users
      BY <2>8, <3>1, RemoveOrderIs DEF Release, NextRemoveStep
    <3>3. at \in 5 .. 10
      <4>1. "gdev" \notin Resources \cup {"gpios"} /\ "timer" \notin Resources \cup {"gpios"}
            /\ "tilt_work" \notin Resources \cup {"gpios"}
            /\ "fusion_work" \notin Resources \cup {"gpios"}
        BY ProbeOrderIs DEF Resources, Range
      <4> QED
        BY <3>1, <4>1, RemoveOrderIs
    <3>4. CASE at \in 5 .. 8
      <4>1. Level = 14 - at /\ Level' = 13 - at
        BY <3>1, <3>2, <3>4 DEF Level
      <4>2. ProbeOrder[14 - at] = s /\ s # "gpios"
        BY <3>1, <3>4, ProbeOrderIs, RemoveOrderIs
      <4>3. held' = Acquired(13 - at)
        <5>1. 14 - at \in 0 .. 9 /\ 14 - at > 0 /\ (14 - at) - 1 = 13 - at
          BY <3>4
        <5>2. Acquired(13 - at) = Acquired(14 - at) \ {ProbeOrder[14 - at]}
          BY <5>1, AcquiredSteps
        <5> QED
          BY <3>1, <4>1, <4>2, <5>2 DEF HeldInv
      <4>4. UsersInv'
        BY <3>1, <3>2, <4>2 DEF UsersInv, Releasable
      <4> QED
        BY <3>1, <3>2, <3>4, <4>1, <4>3, <4>4 DEF HeldInv
    <3>5. CASE at = 9
      <4>1. Level = 5 /\ Level' = 1 /\ s = "gpios"
        BY <3>1, <3>2, <3>5, RemoveOrderIs DEF Level
      <4>2. held' = Acquired(1)
        BY <3>1, <4>1, GpiosAreAcquired DEF HeldInv
      <4>3. handlers = {} /\ ~stats
        <5>1. "tilt_irq" \notin held /\ "ultra_irq" \notin held /\ "proc_entry" \notin held
          BY <4>1, WhoIsAcquired DEF HeldInv
        <5> QED
          BY <5>1 DEF UsersInv, Irqs
      <4> QED
        BY <3>1, <3>2, <3>5, <4>1, <4>2, <4>3 DEF HeldInv, UsersInv
    <3>6. CASE at = 10
      <4>1. Level = 1 /\ Level' = 0 /\ s = "nd" /\ ProbeOrder[1] = "nd"
        BY <3>1, <3>2, <3>6, RemoveOrderIs, ProbeOrderIs DEF Level
      <4>2. held' = Acquired(0)
        <5>1. Acquired(1 - 1) = Acquired(1) \ {ProbeOrder[1]}
          BY AcquiredSteps
        <5> QED
          BY <3>1, <4>1, <5>1 DEF HeldInv
      <4>3. handlers = {} /\ ~stats
        <5>1. "tilt_irq" \notin held /\ "ultra_irq" \notin held /\ "proc_entry" \notin held
          BY <4>1, WhoIsAcquired DEF HeldInv
        <5> QED
          BY <5>1 DEF UsersInv, Irqs
      <4> QED
        BY <3>1, <3>2, <3>6, <4>1, <4>2, <4>3 DEF HeldInv, UsersInv
    <3> QED
      BY <3>3, <3>4, <3>5, <3>6
  <2>9. CASE Running
    <3>1. UNCHANGED driver
      BY <2>9 DEF Running, IrqStart, TiltIrqEnd, UltraIrqEnd, TiltWorkStart, TiltWorkEnd,
         FusionWorkStart, FusionWorkEnd, SampleTimer, StatsStart, StatsEnd, OpenFile, CloseFile
    <3>2. HeldInv'
      BY <3>1 DEF HeldInv, Level
    <3>3. UsersInv'
      <4>1. CASE \E irq \in Irqs : IrqStart(irq)
        BY <3>1, <4>1 DEF UsersInv, IrqStart
      <4>2. CASE TiltIrqEnd \/ UltraIrqEnd
        BY <3>1, <4>2 DEF UsersInv, TiltIrqEnd, UltraIrqEnd
      <4>3. CASE TiltWorkStart \/ TiltWorkEnd \/ FusionWorkStart \/ FusionWorkEnd \/ SampleTimer
        BY <3>1, <4>3 DEF UsersInv, TiltWorkStart, TiltWorkEnd, FusionWorkStart,
           FusionWorkEnd, SampleTimer
      <4>4. CASE StatsStart
        BY <3>1, <4>4 DEF UsersInv, StatsStart
      <4>5. CASE StatsEnd
        BY <3>1, <4>5 DEF UsersInv, StatsEnd
      <4>6. CASE OpenFile \/ CloseFile
        <5>1. UNCHANGED <<handlers, stats>>
          BY <4>6 DEF OpenFile, CloseFile
        <5>2. file' \in BOOLEAN
          BY <4>6 DEF OpenFile, CloseFile
        <5> QED
          BY <3>1, <5>1, <5>2 DEF UsersInv
      <4> QED
        BY <2>9, <4>1, <4>2, <4>3, <4>4, <4>5, <4>6 DEF Running
    <3> QED
      BY <3>2, <3>3
  <2>10. CASE UNCHANGED vars
    BY <2>10 DEF vars, HeldInv, Level, UsersInv
  <2> QED
    BY <2>1, <2>2, <2>3, <2>4, <2>5, <2>6, <2>7, <2>8, <2>9, <2>10 DEF Next, Probe, Remove
<1> QED
  BY <1>1, <1>2, PTL DEF Spec

LEMMA WorksInvariant == Spec => []WorksInv
<1> USE DEF driver, works, users
<1>1. Init => WorksInv
  BY DEF Init, WorksInv
<1>2. HeldInv /\ WorksInv /\ [Next]_vars => WorksInv'
  <2> SUFFICES ASSUME HeldInv, WorksInv, Next \/ UNCHANGED vars
               PROVE  WorksInv'
    OBVIOUS
  <2> USE DEF WorksInv
  <2>1. CASE Acquire \/ AcquireFails \/ DirectionFails \/ Unwind
    <3>1. pc \in {"probe", "unwind"} /\ UNCHANGED <<works, lateEdge>>
      BY <2>1 DEF Acquire, AcquireFails, DirectionFails, Unwind
    <3> QED
      BY <3>1
  <2>2. CASE Publish
    BY <2>2 DEF Publish
  <2>3. CASE RemoveStart
    BY <2>3 DEF RemoveStart
  <2>4. CASE ClearGdev
    <3>1. pc = "remove" /\ at = 1 /\ at' = 2 /\ pc' = "remove"
      BY <2>4, RemoveOrderIs DEF ClearGdev, AtRemoveStep, NextRemoveStep, HeldInv
    <3> QED
      BY <2>4, <3>1 DEF ClearGdev
  <2>5. CASE CancelTimer
    <3>1. pc = "remove" /\ at = 2 /\ at' = 3 /\ pc' = "remove"
      BY <2>5, RemoveOrderIs DEF CancelTimer, AtRemoveStep, NextRemoveStep, HeldInv
    <3>2. timer' \in BOOLEAN /\ ~timer' /\ UNCHANGED <<tiltWork, fusionWork, lateEdge>>
      BY <2>5 DEF CancelTimer
    <3> QED
      BY <3>1, <3>2
  <2>6. CASE CancelTiltWork
    <3>1. pc = "remove" /\ at = 3 /\ at' = 4 /\ pc' = "remove"
      BY <2>6, RemoveOrderIs DEF CancelTiltWork, AtRemoveStep, NextRemoveStep, HeldInv
    <3>2. tiltWork' = {} /\ UNCHANGED <<timer, fusionWork>>
      BY <2>6 DEF CancelTiltWork
    <3>3. lateEdge' \in BOOLEAN
      BY <2>6 DEF CancelTiltWork
    <3>4. ~timer
      BY <3>1
    <3> QED
      BY <3>1, <3>2, <3>3, <3>4
  <2>7. CASE CancelFusionWork
    <3>1. pc = "remove" /\ at = 4 /\ at' = 5 /\ pc' = "remove"
      BY <2>7, RemoveOrderIs DEF CancelFusionWork, AtRemoveStep, NextRemoveStep, HeldInv
    <3> QED
      BY <2>7, <3>1 DEF CancelFusionWork
  <2>8. CASE Release
    <3>1. at \in 5 .. 10 /\ pc = "remove"
      <4>1. "gdev" \notin Resources \cup {"gpios"} /\ "timer" \notin Resources \cup {"gpios"}
            /\ "tilt_work" \notin Resources \cup {"gpios"}
            /\ "fusion_work" \notin Resources \cup {"gpios"}
        BY ProbeOrderIs DEF Resources, Range
      <4> QED
        BY <2>8, <4>1, RemoveOrderIs DEF Release, AtRemoveStep, HeldInv
    <3> QED
      BY <2>8, <3>1 DEF Release
  <2>9. CASE Running
    <3>1. CASE TiltIrqEnd \/ TiltWorkStart \/ TiltWorkEnd
      <4>1. UNCHANGED <<pc, at, timer>>
        BY <3>1 DEF TiltIrqEnd, TiltWorkStart, TiltWorkEnd
      <4>2. /\ lateEdge' \in BOOLEAN /\ (lateEdge' \/ UNCHANGED lateEdge)
            /\ tiltWork' \subseteq {"pending", "running"}
            /\ fusionWork' \subseteq {"pending", "running"}
        BY <3>1 DEF TiltIrqEnd, TiltWorkStart, TiltWorkEnd
      <4>3. /\ tiltWork' # {} => lateEdge'
            /\ fusionWork' # {} => lateEdge' \/ fusionWork # {}
        BY <3>1 DEF TiltIrqEnd, TiltWorkStart, TiltWorkEnd
      <4> QED
        BY <4>1, <4>2, <4>3
    <3>2. CASE FusionWorkStart \/ FusionWorkEnd \/ SampleTimer
      <4>1. UNCHANGED <<pc, at, timer, tiltWork, lateEdge>>
        BY <3>2 DEF FusionWorkStart, FusionWorkEnd, SampleTimer
      <4>2. /\ fusionWork' \subseteq {"pending", "running"}
            /\ fusionWork' # {} => fusionWork # {} \/ timer
        BY <3>2 DEF FusionWorkStart, FusionWorkEnd, SampleTimer
      <4> QED
        BY <4>1, <4>2 DEF HeldInv
    <3>3. CASE \/ \E irq \in Irqs : IrqStart(irq)
               \/ UltraIrqEnd \/ StatsStart \/ StatsEnd \/ OpenFile \/ CloseFile
      <4>1. UNCHANGED <<pc, at, timer, tiltWork, fusionWork, lateEdge>>
        BY <3>3 DEF IrqStart, UltraIrqEnd, StatsStart, StatsEnd, OpenFile, CloseFile
      <4> QED
        BY <4>1
    <3> QED
      BY <2>9, <3>1, <3>2, <3>3 DEF Running
  <2>10. CASE UNCHANGED vars
    BY <2>10 DEF vars
  <2> QED
    BY <2>1, <2>2, <2>3, <2>4, <2>5, <2>6, <2>7, <2>8, <2>9, <2>10 DEF Next, Probe, Remove
<1> QED
  BY <1>1, <1>2, HeldInvariant, PTL DEF Spec

----------------------------------------------------------------------------
(* What follows.                                                            *)

\* Types; and while gdev points to a device, that has everything.
THEOREM TypeCorrect == Spec => []TypeOK
<1>1. HeldInv /\ UsersInv /\ WorksInv => TypeOK
  <2> SUFFICES ASSUME HeldInv, UsersInv, WorksInv PROVE TypeOK
    OBVIOUS
  <2>1. held \subseteq Resources
    BY LevelInRange, AcquiredSteps DEF HeldInv
  <2>2. gdev => held = Resources
    <3>1. gdev => Level = 9
      BY DEF HeldInv, Level
    <3> QED
      BY <3>1, AcquiredSteps DEF HeldInv
  <2> QED
    BY <2>1, <2>2, RemoveOrderIs DEF HeldInv, UsersInv, WorksInv, TypeOK
<1> QED
  BY <1>1, HeldInvariant, WorksInvariant, PTL

\* A probe that fails at any step, and an unload, release everything.
THEOREM NothingLeft == Spec => []NothingLeftHeld
<1>1. HeldInv => NothingLeftHeld
  BY AcquiredSteps DEF HeldInv, Level, NothingLeftHeld
<1> QED
  BY <1>1, HeldInvariant, PTL

\* Who runs has the device structure, and a handler the GPIOs, at every moment of
\* probe, its unwinding and remove.
THEOREM UsersAreSafe == Spec => []UsersHaveDevice
<1>1. HeldInv /\ UsersInv => UsersHaveDevice
  <2> SUFFICES ASSUME HeldInv, UsersInv PROVE UsersHaveDevice
    OBVIOUS
  <2>1. Level \in 0 .. 9 /\ held = Acquired(Level)
    BY LevelInRange DEF HeldInv
  <2>2. handlers # {} => Level >= 6
    BY <2>1, WhoIsAcquired DEF UsersInv, Irqs
  <2>3. stats => Level >= 9
    BY <2>1, WhoIsAcquired DEF UsersInv
  <2> QED
    BY <2>1, <2>2, <2>3, WhoIsAcquired DEF UsersHaveDevice
<1> QED
  BY <1>1, HeldInvariant, PTL

\* Only a late edge of the tilt pin leaves work for a device that is gone.
THEOREM OnlyLateEdge == Spec => []WorkLeftOnlyByLateEdge
<1>1. HeldInv /\ WorksInv => WorkLeftOnlyByLateEdge
  <2> SUFFICES ASSUME HeldInv, WorksInv, "nd" \notin held,
                      timer \/ tiltWork # {} \/ fusionWork # {}, ~lateEdge
               PROVE  FALSE
    BY DEF WorkLeftOnlyByLateEdge, WorksInv
  <2>1. pc \in {"loaded", "remove"}
    BY DEF WorksInv
  <2>2. Level >= 1 /\ Level \in 0 .. 9
    BY <2>1 DEF Level, HeldInv
  <2> QED
    BY <2>2, WhoIsAcquired DEF HeldInv
<1> QED
  BY <1>1, HeldInvariant, WorksInvariant, PTL
=============================================================================
