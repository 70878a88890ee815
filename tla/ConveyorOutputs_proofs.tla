----------------------- MODULE ConveyorOutputs_proofs -----------------------
(***************************************************************************)
(* Proofs about ConveyorNode, for all confirm and clear counts and every   *)
(* width of the streak counters, and about ConveyorOutputs: it adds        *)
(* outputs to ConveyorNode without changing its behaviour, and the outputs *)
(* are confused only by overlap.                                           *)
(***************************************************************************)
EXTENDS ConveyorOutputs, TLAPS

----------------------------------------------------------------------------
(* ConveyorNode: the fused state.                                           *)


\* The decision function stays inside its enumeration.
LEMMA EvaluateStateType ==
    ASSUME NEW t \in TiltStates, NEW b \in BlockageStates
    PROVE  EvaluateState(t, b) \in ConveyorStates
BY DEF EvaluateState, TiltStates, BlockageStates, ConveyorStates

\* A streak wraps within its width, as unsigned int does.
LEMMA NextStreakType ==
    ASSUME NEW n \in 0 .. StreakMod - 1
    PROVE  NextStreak(n) \in 0 .. StreakMod - 1 /\ 0 \in 0 .. StreakMod - 1
BY CountAssumption DEF NextStreak

\* Type correctness: every variable of the driver stays in its C type's range.
THEOREM TypeCorrect == Spec => []TypeOK
<1> USE DEF pinVars, stateVars, streakVars, fusionVars, localVars, Goto
<1>1. Init => TypeOK
  <2> SUFFICES ASSUME Init PROVE TypeOK
    OBVIOUS
  <2>1. 0 \in 0 .. StreakMod - 1
    BY CountAssumption
  <2> QED
    BY <2>1 DEF Init, TypeOK, TiltStates, BlockageStates, ConveyorStates, PushStages
<1>2. TypeOK /\ [Next]_vars => TypeOK'
  <2> SUFFICES ASSUME TypeOK, [Next]_vars PROVE TypeOK'
    OBVIOUS
  <2>1. CASE PinChange
    BY <2>1 DEF PinChange, TypeOK, TiltStates
  <2>2. CASE TiltIrq
    BY <2>2 DEF TiltIrq, ModTiltWork, TypeOK
  <2>3. CASE TiltDebounceExpires
    BY <2>3 DEF TiltDebounceExpires, TypeOK
  <2>4. ASSUME NEW t \in Threads, PushEvent(t) PROVE TypeOK'
    BY <2>4 DEF PushEvent, PushSnapshot, PushEnqueue, PushAlarm, PushStep, AfterPush,
       PushStages, Threads, TypeOK
  <2>5. CASE TiltEvalWork
    <3>1. CASE TiltEvalStart
      BY <3>1 DEF TiltEvalStart, TypeOK
    <3>2. CASE TiltEvalRead
      BY <3>2 DEF TiltEvalRead, TypeOK
    <3>3. CASE TiltEvalCommit
      <4>1. EvaluateState(tPin, blockage) \in ConveyorStates
        BY EvaluateStateType DEF TypeOK
      <4> QED
        BY <3>3, <4>1 DEF TiltEvalCommit, TypeOK, TiltStates, PushStages
    <3>4. CASE TiltEvalSchedule
      BY <3>4 DEF TiltEvalSchedule, ScheduleFusion, TypeOK
    <3> QED
      BY <2>5, <2>4, <3>1, <3>2, <3>3, <3>4 DEF TiltEvalWork, Threads
  <2>6. CASE FusionWork
    <3>1. CASE FusionStart
      BY <3>1 DEF FusionStart, TypeOK
    <3>2. CASE FusionSample
      BY <3>2 DEF FusionSample, TypeOK
    <3>3. CASE FusionFuse
      <4>1. blockStreak' \in 0 .. StreakMod - 1 /\ clearStreak' \in 0 .. StreakMod - 1
        BY <3>3, NextStreakType DEF FusionFuse, TypeOK
      <4>2. fBlockage' \in BlockageStates
        BY <3>3 DEF FusionFuse, NewBlockage, TypeOK, BlockageStates
      <4> QED
        BY <3>3, <4>1, <4>2 DEF FusionFuse, TypeOK
    <3>4. CASE FusionCommit
      <4>1. NewState \in ConveyorStates
        BY EvaluateStateType DEF TypeOK, NewState
      <4> QED
        BY <3>4, <4>1 DEF FusionCommit, TypeOK, TiltStates, BlockageStates, PushStages
    <3> QED
      BY <2>6, <2>4, <3>1, <3>2, <3>3, <3>4 DEF FusionWork, Threads
  <2>7. CASE Probe
    <3>1. CASE ProbeReadPin
      <4>1. EvaluateState(tiltPin, "CLEAR") \in ConveyorStates
        BY EvaluateStateType DEF TypeOK, BlockageStates
      <4> QED
        BY <3>1, <4>1 DEF ProbeReadPin, TypeOK, BlockageStates
    <3>2. CASE ProbeRequestIrq
      BY <3>2 DEF ProbeRequestIrq, TypeOK, PushStages
    <3>3. CASE ProbeStartTimer
      BY <3>3 DEF ProbeStartTimer, TypeOK
    <3> QED
      BY <2>7, <2>4, <3>1, <3>2, <3>3 DEF Probe, Threads
  <2>8. CASE SampleTimer
    BY <2>8 DEF SampleTimer, ScheduleFusion, TypeOK
  <2>9. CASE UNCHANGED vars
    BY <2>9 DEF vars, TypeOK
  <2> QED
    BY <2>1, <2>2, <2>3, <2>5, <2>6, <2>7, <2>8, <2>9 DEF Next
<1> QED
  BY <1>1, <1>2, PTL DEF Spec

----------------------------------------------------------------------------
(***************************************************************************)
(* The state.  A fusion run can store a state computed from an outdated    *)
(* tilt; the invariant says that whenever that has happened, or is about   *)
(* to, the tilt's own thread still owes a schedule_work() or the work item *)
(* is already pending, so another run follows that reads the new tilt.     *)
(***************************************************************************)

\* Start-up is alone, and afterwards a stale state is always being repaired.
THEOREM StateInvariant == Spec => []StateInv
<1> USE DEF pinVars, stateVars, streakVars, fusionVars, localVars, Goto, StartUpAlone,
        IrqRequested, TiltEvalWillSchedule, FusionComing, PushStages
<1>1. Init => StateInv
  BY DEF Init, StateInv, RepairComing, StaleRunNotLast, EvaluateState, TiltStates
<1>2. TypeOK /\ StateInv /\ [Next]_vars => StateInv'
  <2> SUFFICES ASSUME TypeOK, StateInv, [Next]_vars PROVE StateInv'
    OBVIOUS
  <2> USE DEF StateInv, RepairComing, StaleRunNotLast, TypeOK
  <2>1. CASE PinChange
    BY <2>1 DEF PinChange
  <2>2. CASE TiltIrq
    BY <2>2 DEF TiltIrq, ModTiltWork
  <2>3. CASE TiltDebounceExpires
    BY <2>3 DEF TiltDebounceExpires
  <2>4. ASSUME NEW t \in Threads, PushEvent(t) PROVE StateInv'
    BY <2>4 DEF PushEvent, PushSnapshot, PushEnqueue, PushAlarm, PushStep, AfterPush, Threads
  <2>5. CASE TiltEvalWork
    <3>1. CASE TiltEvalStart
      BY <3>1 DEF TiltEvalStart
    <3>2. CASE TiltEvalRead
      BY <3>2 DEF TiltEvalRead
    <3>3. CASE TiltEvalCommit
      BY <3>3 DEF TiltEvalCommit
    <3>4. CASE TiltEvalSchedule
      BY <3>4 DEF TiltEvalSchedule, ScheduleFusion
    <3> QED
      BY <2>5, <2>4, <3>1, <3>2, <3>3, <3>4 DEF TiltEvalWork, Threads
  <2>6. CASE FusionWork
    <3>1. CASE FusionStart
      BY <3>1 DEF FusionStart
    <3>2. CASE FusionSample
      BY <3>2 DEF FusionSample
    <3>3. CASE FusionFuse
      BY <3>3 DEF FusionFuse
    <3>4. CASE FusionCommit
      <4>1. fTilt = tilt => state' = EvaluateState(tilt, blockage')
        BY <3>4 DEF FusionCommit, NewState
      <4>2. fTilt # tilt => FusionComing /\ FusionComing'
        BY <3>4 DEF FusionCommit
      <4> QED
        BY <3>4, <4>1, <4>2 DEF FusionCommit
    <3> QED
      BY <2>6, <2>4, <3>1, <3>2, <3>3, <3>4 DEF FusionWork, Threads
  <2>7. CASE Probe
    <3>1. CASE ProbeReadPin
      BY <3>1 DEF ProbeReadPin
    <3>2. CASE ProbeRequestIrq
      BY <3>2 DEF ProbeRequestIrq
    <3>3. CASE ProbeStartTimer
      BY <3>3 DEF ProbeStartTimer
    <3> QED
      BY <2>7, <2>4, <3>1, <3>2, <3>3 DEF Probe, Threads
  <2>8. CASE SampleTimer
    BY <2>8 DEF SampleTimer, ScheduleFusion
  <2>9. CASE UNCHANGED vars
    BY <2>9 DEF vars
  <2> QED
    BY <2>1, <2>2, <2>3, <2>5, <2>6, <2>7, <2>8, <2>9 DEF Next
<1> QED
  BY <1>1, <1>2, TypeCorrect, PTL DEF Spec

\* Once all work is done the state is the one of the inputs, for every
\* interleaving of the two work items, the timer and start-up.
THEOREM SettledState == Spec => []SettledStateIsFused
<1>1. StateInv => SettledStateIsFused
  BY DEF StateInv, RepairComing, FusionComing, TiltEvalWillSchedule, PushStages,
     SettledStateIsFused, Quiescent
<1> QED
  BY <1>1, StateInvariant, PTL

----------------------------------------------------------------------------
(***************************************************************************)
(* The tilt.  mod_delayed_work() re-arms the item even while its function  *)
(* runs; so an edge that comes after the pin was read leaves another run   *)
(* to come.                                                                *)
(***************************************************************************)

\* After the first handled edge, a tilt that is not the pin's is being re-read.
THEOREM TiltInvariant == Spec => []RereadComing
<1> USE DEF pinVars, stateVars, streakVars, fusionVars, localVars, Goto, IrqRequested,
        EdgeComing
<1>1. Init => RereadComing
  BY DEF Init, RereadComing
<1>2. TypeOK /\ StartUpAlone /\ RereadComing /\ [Next]_vars => RereadComing'
  <2> SUFFICES ASSUME TypeOK, StartUpAlone, RereadComing, [Next]_vars PROVE RereadComing'
    OBVIOUS
  <2> USE DEF RereadComing, StartUpAlone, TypeOK
  <2>1. CASE PinChange
    BY <2>1 DEF PinChange
  <2>2. CASE TiltIrq
    BY <2>2 DEF TiltIrq, ModTiltWork
  <2>3. CASE TiltDebounceExpires
    BY <2>3 DEF TiltDebounceExpires
  <2>4. ASSUME NEW t \in Threads, PushEvent(t) PROVE RereadComing'
    <3>1. CASE t = "tilt"
      <4>1. pc["tilt"] \in PushStages /\ pc'["tilt"] \in PushStages \cup {"schedule"}
        BY <2>4, <3>1 DEF PushEvent, PushSnapshot, PushEnqueue, PushAlarm, PushStep,
           AfterPush, PushStages
      <4> QED
        BY <4>1, <2>4 DEF PushStages, PushEvent, PushSnapshot, PushEnqueue, PushAlarm, PushStep
    <3>2. CASE t # "tilt"
      <4>1. pc'["tilt"] = pc["tilt"]
        BY <2>4, <3>2 DEF PushEvent, PushSnapshot, PushEnqueue, PushAlarm, PushStep
      <4> QED
        BY <4>1, <2>4 DEF PushEvent, PushSnapshot, PushEnqueue, PushAlarm, PushStep
    <3> QED
      BY <3>1, <3>2
  <2>5. CASE TiltEvalWork
    <3>1. CASE TiltEvalStart
      BY <3>1 DEF TiltEvalStart
    <3>2. CASE TiltEvalRead
      BY <3>2 DEF TiltEvalRead
    <3>3. CASE TiltEvalCommit
      BY <3>3 DEF TiltEvalCommit
    <3>4. CASE TiltEvalSchedule
      BY <3>4 DEF TiltEvalSchedule, ScheduleFusion
    <3> QED
      BY <2>5, <2>4, <3>1, <3>2, <3>3, <3>4 DEF TiltEvalWork, Threads
  <2>6. CASE FusionWork
    <3>1. ASSUME PushEvent("fusion") PROVE RereadComing'
      BY <3>1, <2>4 DEF Threads
    <3> QED
      BY <2>6, <3>1 DEF FusionWork, FusionStart, FusionSample, FusionFuse, FusionCommit
  <2>7. CASE Probe
    <3>1. ASSUME PushEvent("probe") PROVE RereadComing'
      BY <3>1, <2>4 DEF Threads
    <3> QED
      BY <2>7, <3>1 DEF Probe, ProbeReadPin, ProbeRequestIrq, ProbeStartTimer
  <2>8. CASE SampleTimer
    BY <2>8 DEF SampleTimer, ScheduleFusion
  <2>9. CASE UNCHANGED vars
    BY <2>9 DEF vars
  <2> QED
    BY <2>1, <2>2, <2>3, <2>5, <2>6, <2>7, <2>8, <2>9 DEF Next
<1>3. StateInv => StartUpAlone
  BY DEF StateInv
<1> QED
  BY <1>1, <1>2, <1>3, TypeCorrect, StateInvariant, PTL DEF Spec

\* Once all work is done, and an edge was ever handled, the tilt is the pin's.
THEOREM SettledTilt == Spec => []SettledTiltIsPin
<1>1. RereadComing => SettledTiltIsPin
  BY DEF RereadComing, EdgeComing, SettledTiltIsPin, Quiescent
<1> QED
  BY <1>1, TiltInvariant, PTL

----------------------------------------------------------------------------
(* ConveyorOutputs.                                                         *)

\* Every step with outputs is a step of the driver, or leaves it alone.
LEMMA OutStepIsStep == [OutNext]_allVars => [Next]_vars
<1> SUFFICES ASSUME [OutNext]_allVars PROVE [Next]_vars
  OBVIOUS
<1>1. CASE Silent
  BY <1>1 DEF Silent, Next, TiltEvalWork, FusionWork, Probe
<1>2. CASE SetFusedState
  BY <1>2 DEF SetFusedState, Next, FusionWork
<1>3. ASSUME NEW t \in Threads, Snapshot(t) \/ Enqueue(t) \/ SetAlarm(t)
      PROVE  Next
  <2>1. PushEvent(t)
    BY <1>3 DEF Snapshot, Enqueue, SetAlarm, PushEvent
  <2> QED
    BY <2>1 DEF Threads, Next, TiltEvalWork, FusionWork, Probe
<1>4. CASE UNCHANGED allVars
  BY <1>4 DEF allVars
<1> QED
  BY <1>1, <1>2, <1>3, <1>4 DEF OutNext

\* The outputs never steer the driver: ConveyorOutputs implements ConveyorNode,
\* so whatever is proved of the fused state holds with the outputs as well.
THEOREM OutputsImplementNode == OutSpec => Spec
<1>1. OutInit => Init
  BY DEF OutInit
<1> QED
  BY <1>1, OutStepIsStep, PTL DEF OutSpec, Spec

\* Type correctness of the outputs.
THEOREM OutTypeCorrect == OutSpec => []OutTypeOK
<1> USE DEF OutTypeOK
<1>1. OutInit /\ TypeOK => OutTypeOK
  BY DEF OutInit, NoEvent
<1>2. OutTypeOK /\ TypeOK' /\ [OutNext]_allVars => OutTypeOK'
  <2> SUFFICES ASSUME OutTypeOK, TypeOK', [OutNext]_allVars PROVE OutTypeOK'
    OBVIOUS
  <2>1. CASE Silent
    BY <2>1 DEF Silent, outVars
  <2>2. CASE SetFusedState
    BY <2>2 DEF SetFusedState, Reasons
  <2>3. ASSUME NEW t \in Threads, Snapshot(t) PROVE OutTypeOK'
    <3>1. ReasonFlags(t) \in SUBSET Reasons
      BY DEF ReasonFlags, Reasons, Threads
    <3>2. [state |-> state, tilt |-> tilt, blockage |-> blockage,
           reason |-> ReasonFlags(t)] \in Events
      BY <3>1 DEF Events, TypeOK
    <3>3. ev' \in [Threads -> Events \cup {NoEvent}]
      BY <2>3, <3>2 DEF Snapshot
    <3>4. overlap' \in BOOLEAN
      BY <2>3 DEF Snapshot
    <3> QED
      BY <2>3, <3>3, <3>4 DEF Snapshot
  <2>4. ASSUME NEW t \in Threads, Enqueue(t) PROVE OutTypeOK'
    <3>1. ev[t].state \in ConveyorStates \cup {"NONE"}
      BY DEF Events, NoEvent
    <3> QED
      BY <2>4, <3>1 DEF Enqueue
  <2>5. ASSUME NEW t \in Threads, SetAlarm(t) PROVE OutTypeOK'
    <3>1. led' \in BOOLEAN
      BY <2>5 DEF SetAlarm
    <3>2. ev' \in [Threads -> Events \cup {NoEvent}]
      BY <2>5 DEF SetAlarm
    <3> QED
      BY <2>5, <3>1, <3>2 DEF SetAlarm
  <2>6. CASE UNCHANGED allVars
    BY <2>6 DEF allVars, outVars
  <2> QED
    BY <2>1, <2>2, <2>3, <2>4, <2>5, <2>6 DEF OutNext
<1> QED
  BY <1>1, <1>2, OutputsImplementNode, TypeCorrect, PTL DEF OutSpec

----------------------------------------------------------------------------
(***************************************************************************)
(* The outputs.  Every commit that changes the state is followed by a      *)
(* snapshot of its own.  While no two push_events overlap, the one that    *)
(* snapshots last also writes the queue and the alarm last.                *)
(***************************************************************************)

\* A step that moves the state leaves a snapshot to come.
LEMMA StateChangeAnnounced ==
    ASSUME TypeOK, Silent \/ SetFusedState, ~AnnouncementComing'
    PROVE  ~AnnouncementComing /\ UNCHANGED state
<1> USE DEF AnnouncementComing, Threads, Goto, TypeOK
<1>1. CASE SetFusedState
  BY <1>1 DEF SetFusedState, FusionCommit, FusionChanges
<1>2. CASE Silent
  <2>1. CASE TiltEvalCommit
    BY <2>1 DEF TiltEvalCommit
  <2>2. CASE ProbeReadPin \/ ProbeRequestIrq \/ ProbeStartTimer
    BY <2>2 DEF ProbeReadPin, ProbeRequestIrq, ProbeStartTimer, stateVars
  <2>3. CASE PinChange \/ TiltIrq \/ TiltDebounceExpires \/ SampleTimer
    BY <2>3 DEF PinChange, TiltIrq, TiltDebounceExpires, SampleTimer, stateVars
  <2>4. CASE TiltEvalStart \/ TiltEvalRead \/ TiltEvalSchedule
    BY <2>4 DEF TiltEvalStart, TiltEvalRead, TiltEvalSchedule, stateVars
  <2>5. CASE FusionStart \/ FusionSample \/ FusionFuse
    BY <2>5 DEF FusionStart, FusionSample, FusionFuse, stateVars
  <2> QED
    BY <1>2, <2>1, <2>2, <2>3, <2>4, <2>5 DEF Silent
<1> QED
  BY <1>1, <1>2

\* Nor does it enter or leave the middle of a push_event.
LEMMA PushStagesKept ==
    ASSUME TypeOK, Silent \/ SetFusedState, NEW t \in Threads
    PROVE  /\ InPush(t)' = InPush(t)
           /\ (pc[t] = "alarm")' = (pc[t] = "alarm")
<1> USE DEF InPush, Threads, Goto, TypeOK, PushStages
<1>1. CASE SetFusedState
  BY <1>1 DEF SetFusedState, FusionCommit
<1>2. CASE Silent
  <2>1. CASE TiltEvalCommit
    BY <2>1 DEF TiltEvalCommit
  <2>2. CASE ProbeReadPin \/ ProbeRequestIrq \/ ProbeStartTimer
    BY <2>2 DEF ProbeReadPin, ProbeRequestIrq, ProbeStartTimer
  <2>3. CASE PinChange \/ TiltIrq \/ TiltDebounceExpires \/ SampleTimer
    BY <2>3 DEF PinChange, TiltIrq, TiltDebounceExpires, SampleTimer
  <2>4. CASE TiltEvalStart \/ TiltEvalRead \/ TiltEvalSchedule
    BY <2>4 DEF TiltEvalStart, TiltEvalRead, TiltEvalSchedule
  <2>5. CASE FusionStart \/ FusionSample \/ FusionFuse
    BY <2>5 DEF FusionStart, FusionSample, FusionFuse
  <2> QED
    BY <1>2, <2>1, <2>2, <2>3, <2>4, <2>5 DEF Silent
<1> QED
  BY <1>1, <1>2

\* With no overlap, one push_event at most is under way, and unless another
\* one is sure to come, all that is put out is the state of now.
THEOREM OutputsInvariant == OutSpec => []OutputsInv
<1>1. OutInit => OutputsInv
  BY DEF OutInit, Init, OutputsInv, AnnouncementComing, InPush, Threads
<1>2. OutTypeOK /\ OutputsInv /\ [OutNext]_allVars => OutputsInv'
  <2> SUFFICES ASSUME OutTypeOK, OutputsInv, [OutNext]_allVars PROVE OutputsInv'
    OBVIOUS
  <2>0. TypeOK
    BY DEF OutTypeOK
  <2>1. CASE Silent \/ SetFusedState
    <3> SUFFICES ASSUME ~overlap'
                 PROVE  /\ \A t, u \in Threads : InPush(t)' /\ InPush(u)' => t = u
                        /\ AnnouncementComing' \/ OutputsCurrent'
      BY DEF OutputsInv
    <3>1. ~overlap /\ UNCHANGED <<ev, newest, led>>
      BY <2>1 DEF Silent, SetFusedState, outVars
    <3>2. \A t, u \in Threads : InPush(t)' /\ InPush(u)' => t = u
      BY <2>0, <2>1, <3>1, PushStagesKept DEF OutputsInv
    <3>3. ASSUME ~AnnouncementComing' PROVE OutputsCurrent'
      <4>1. ~AnnouncementComing /\ UNCHANGED state
        BY <2>0, <2>1, <3>3, StateChangeAnnounced
      <4>2. OutputsCurrent
        BY <3>1, <4>1 DEF OutputsInv
      <4>3. \A t \in Threads : /\ InPush(t)' = InPush(t)
                               /\ (pc'[t] = "alarm") = (pc[t] = "alarm")
        BY <2>0, <2>1, PushStagesKept
      <4> QED
        BY <3>1, <4>1, <4>2, <4>3 DEF OutputsCurrent
    <3> QED
      BY <3>2, <3>3
  <2>2. ASSUME NEW t \in Threads, Snapshot(t), ~overlap'
        PROVE  OutputsInv'
    <3>1. \A u \in Threads : u # t => ~InPush(u)
      BY <2>2 DEF Snapshot
    <3>2. \A u \in Threads : u # t => ~InPush(u)' /\ pc'[u] # "alarm"
      BY <2>2, <3>1, <2>0 DEF Snapshot, PushSnapshot, PushStep, Goto, InPush, TypeOK, Threads
    <3>3. InPush(t)' /\ pc'[t] = "enqueue"
      BY <2>2, <2>0 DEF Snapshot, PushSnapshot, PushStep, Goto, InPush, TypeOK, Threads
    <3>4. ev'[t].state = state'
      BY <2>2 DEF Snapshot, PushSnapshot, PushStep, stateVars, OutTypeOK
    <3> QED
      BY <3>2, <3>3, <3>4 DEF OutputsInv, OutputsCurrent
  <2>3. ASSUME NEW t \in Threads, Enqueue(t), ~overlap'
        PROVE  OutputsInv'
    <3>1. ~overlap /\ UNCHANGED <<state, ev>> /\ newest' = ev[t].state
      BY <2>3 DEF Enqueue, PushEnqueue, PushStep, stateVars
    <3>2. InPush(t) /\ InPush(t)'
      BY <2>3, <2>0 DEF Enqueue, PushEnqueue, PushStep, Goto, InPush, TypeOK, Threads
    <3>3. \A u \in Threads : u # t => /\ pc'[u] = pc[u]
                                      /\ ~InPush(u) /\ ~InPush(u)'
      BY <2>3, <3>1, <3>2, <2>0
         DEF Enqueue, PushEnqueue, PushStep, Goto, InPush, TypeOK, Threads, OutputsInv
    <3>4. AnnouncementComing => AnnouncementComing'
      BY <2>3, <3>2, <3>3, <2>0
         DEF AnnouncementComing, Enqueue, PushEnqueue, PushStep, Goto, TypeOK, Threads
    <3>5. ASSUME OutputsCurrent PROVE OutputsCurrent'
      BY <3>1, <3>2, <3>3, <3>5 DEF OutputsCurrent, InPush
    <3> QED
      BY <3>1, <3>2, <3>3, <3>4, <3>5 DEF OutputsInv
  <2>4. ASSUME NEW t \in Threads, SetAlarm(t), ~overlap'
        PROVE  OutputsInv'
    <3>1. /\ ~overlap
          /\ UNCHANGED <<state, newest>>
          /\ led' = (ev[t].state = "CRITICAL_FAULT")
      BY <2>4 DEF SetAlarm, PushAlarm, PushStep, stateVars
    <3>2. pc[t] = "alarm" /\ InPush(t)
      BY <2>4 DEF SetAlarm, PushAlarm, PushStep, InPush
    <3>3. ~InPush(t)' /\ pc'[t] # "alarm"
      BY <2>4, <2>0 DEF SetAlarm, PushAlarm, PushStep, AfterPush, Goto, InPush, TypeOK, Threads
    <3>4. \A u \in Threads : u # t => /\ pc'[u] = pc[u]
                                      /\ ~InPush(u) /\ ~InPush(u)'
      BY <2>4, <3>1, <3>2, <2>0
         DEF SetAlarm, PushAlarm, PushStep, Goto, InPush, TypeOK, Threads, OutputsInv
    <3>5. AnnouncementComing => AnnouncementComing'
      BY <2>4, <3>2, <3>4, <2>0
         DEF AnnouncementComing, SetAlarm, PushAlarm, PushStep, AfterPush, Goto, TypeOK,
             Threads, PushStages
    <3>6. ASSUME OutputsCurrent PROVE OutputsCurrent'
      BY <3>1, <3>2, <3>3, <3>4, <3>6 DEF OutputsCurrent, InPush
    <3> QED
      BY <3>1, <3>3, <3>4, <3>5, <3>6 DEF OutputsInv
  <2>5. CASE UNCHANGED allVars
    BY <2>5 DEF allVars, vars, stateVars, outVars, OutputsInv, AnnouncementComing,
       OutputsCurrent, InPush
  <2>6. overlap' => OutputsInv'
    BY DEF OutputsInv
  <2> QED
    BY <2>1, <2>2, <2>3, <2>4, <2>5, <2>6 DEF OutNext
<1> QED
  BY <1>1, <1>2, OutTypeCorrect, PTL DEF OutSpec

\* When the last push_event ran alone and all work is done, the newest event
\* and the alarm GPIO show the fused state.
THEOREM SettledOutputs == OutSpec => []SettledOutputsAgree
<1>1. OutputsInv => SettledOutputsAgree
  BY DEF OutputsInv, OutputsCurrent, AnnouncementComing, InPush, SettledOutputsAgree,
     Quiescent, Threads
<1> QED
  BY <1>1, OutputsInvariant, PTL
=============================================================================
