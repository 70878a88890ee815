---------------------------- MODULE ConveyorNode ----------------------------
(***************************************************************************)
(* The fused state machine of the conveyor_node kernel module: the tilt    *)
(* interrupt and its debounced work, the fusion work, the sampling timer,  *)
(* and probe's start-up.  Of push_event, which all three of them call,     *)
(* only the time it takes is here; ConveyorOutputs adds what it puts out.  *)
(*                                                                         *)
(* An action is what one thread does between two points where another can  *)
(* be seen: a critical section of state_lock or q_lock, a GPIO access, a   *)
(* work item taken from or put on the work queue.  tilt_eval_work and      *)
(* fusion_work are distinct items of system_wq: neither runs twice at      *)
(* once, each runs beside the other and beside probe.                      *)
(*                                                                         *)
(* The pin is read through tilt_active_level, so it has the values of      *)
(* TiltStates.  Whether a sample is blocked is the sensors' choice.        *)
(***************************************************************************)
EXTENDS Naturals, ConveyorTypes

CONSTANTS ConfirmCount,  \* blockage_confirm_count
          ClearCount,    \* blockage_clear_count
          StreakMod      \* 2^32 in the code: the streaks are unsigned int

ASSUME CountAssumption ==
    /\ ConfirmCount \in Nat
    /\ ClearCount \in Nat
    /\ StreakMod \in Nat \ {0}

Threads == {"probe", "tilt", "fusion"}

VARIABLES
    tiltPin,        \* level on the tilt GPIO
    tiltEdge,       \* an edge is latched, its interrupt not served yet
    tiltWork,       \* tilt_eval_work: not pending, timer armed, or queued
    fusionPending,  \* fusion_work is on the work queue
    tilt, blockage, state,    \* the fused state, under state_lock
    blockStreak, clearStreak,
    pc,             \* where each thread is; its locals are reset once dead
    tPin,           \* tilt_eval_work_fn's value
    fTilt, fBlocked, fBlockage, \* fusion_work_fn's tilt, raw_blocked, new_blockage
    edgeHandled     \* history: a tilt interrupt has been served

pinVars    == <<tiltPin, tiltEdge, edgeHandled>>
stateVars  == <<tilt, blockage, state>>
streakVars == <<blockStreak, clearStreak>>
fusionVars == <<fTilt, fBlocked, fBlockage>>
localVars  == <<tPin, fusionVars>>
vars == <<pinVars, tiltWork, fusionPending, stateVars, streakVars, pc, localVars>>

Goto(t, label) == pc' = [pc EXCEPT ![t] = label]

----------------------------------------------------------------------------
(* Deliberately wrong variants of definitions below.  No specification uses *)
(* them; PROJECT.json names them to show that each property can fail.       *)

\* No re-arming for an edge that comes while the work function runs.
ModTiltWorkUnlessRunning == tiltWork' = IF pc["tilt"] = "idle" THEN "armed" ELSE tiltWork

\* tilt_eval_work_fn without its closing schedule_work().
TiltEvalScheduleSkipped ==
    /\ pc["tilt"] = "schedule"
    /\ Goto("tilt", "idle")
    /\ UNCHANGED <<pinVars, tiltWork, fusionPending, stateVars, streakVars, localVars>>

\* set_fused_state() storing the new state only along with a new blockage.
NewStateOnBlockageChange ==
    IF blockage # fBlockage THEN EvaluateState(fTilt, fBlockage) ELSE state

\* set_fused_state() announcing changes of the blockage only.
FusionAnnouncesBlockageOnly == blockage # fBlockage

\* A streak kept in a wider integer than the code's.
NextStreakUnbounded(n) == n + 1

----------------------------------------------------------------------------
(* The kernel's work queue, as this driver uses it.                         *)

\* mod_delayed_work(): whatever the item's state, its timer starts again.
ModTiltWork == tiltWork' = "armed"

\* schedule_work(): pending until taken; a running item can be pending again.
ScheduleFusion == fusionPending' = TRUE

\* The debounce timer runs out and the item goes on the work queue.
TiltDebounceExpires ==
    /\ tiltWork = "armed"
    /\ tiltWork' = "queued"
    /\ UNCHANGED <<pinVars, fusionPending, stateVars, streakVars, pc, localVars>>

----------------------------------------------------------------------------
(* The tilt switch and its interrupt.                                       *)

IrqRequested == pc["probe"] \notin {"readPin", "requestIrq"}

\* The switch moves or bounces.  Before request_irq() no edge is latched.
PinChange ==
    /\ tiltPin' \in TiltStates \ {tiltPin}
    /\ tiltEdge' = (tiltEdge \/ IrqRequested)
    /\ UNCHANGED <<edgeHandled, tiltWork, fusionPending, stateVars, streakVars, pc,
                   localVars>>

TiltIrq ==
    /\ tiltEdge
    /\ tiltEdge' = FALSE
    /\ edgeHandled' = TRUE
    /\ ModTiltWork
    /\ UNCHANGED <<tiltPin, fusionPending, stateVars, streakVars, pc, localVars>>

----------------------------------------------------------------------------
(* push_event(): a copy of the state is taken, it goes in the queue, then   *)
(* the alarm is set; nothing spans the three.                               *)

PushStages == {"snapshot", "enqueue", "alarm"}

\* Where each caller resumes.
AfterPush == [probe |-> "startTimer", tilt |-> "schedule", fusion |-> "idle"]

PushStep(t, from, to) ==
    /\ pc[t] = from
    /\ Goto(t, to)
    /\ UNCHANGED <<pinVars, tiltWork, fusionPending, stateVars, streakVars, localVars>>

PushSnapshot(t) == PushStep(t, "snapshot", "enqueue")
PushEnqueue(t)  == PushStep(t, "enqueue", "alarm")
PushAlarm(t)    == PushStep(t, "alarm", AfterPush[t])

PushEvent(t) == PushSnapshot(t) \/ PushEnqueue(t) \/ PushAlarm(t)

----------------------------------------------------------------------------
(* tilt_eval_work_fn                                                        *)

TiltEvalStart ==
    /\ pc["tilt"] = "idle"
    /\ tiltWork = "queued"
    /\ tiltWork' = "idle"
    /\ Goto("tilt", "readPin")
    /\ UNCHANGED <<pinVars, fusionPending, stateVars, streakVars, localVars>>

\* The pin is read with no lock held.
TiltEvalRead ==
    /\ pc["tilt"] = "readPin"
    /\ tPin' = tiltPin
    /\ Goto("tilt", "commit")
    /\ UNCHANGED <<pinVars, tiltWork, fusionPending, stateVars, streakVars, fusionVars>>

TiltEvalCommit ==
    /\ pc["tilt"] = "commit"
    /\ tilt' = tPin
    /\ IF tilt # tPin
       THEN /\ state' = EvaluateState(tPin, blockage)
            /\ Goto("tilt", "snapshot")
       ELSE /\ UNCHANGED state
            /\ Goto("tilt", "schedule")
    /\ tPin' = "LEVEL"
    /\ UNCHANGED <<pinVars, tiltWork, fusionPending, blockage, streakVars, fusionVars>>

TiltEvalSchedule ==
    /\ pc["tilt"] = "schedule"
    /\ ScheduleFusion
    /\ Goto("tilt", "idle")
    /\ UNCHANGED <<pinVars, tiltWork, stateVars, streakVars, localVars>>

TiltEvalWork ==
    \/ TiltEvalStart \/ TiltEvalRead \/ TiltEvalCommit
    \/ PushEvent("tilt") \/ TiltEvalSchedule

----------------------------------------------------------------------------
(* fusion_work_fn                                                           *)

FusionStart ==
    /\ pc["fusion"] = "idle"
    /\ fusionPending
    /\ fusionPending' = FALSE
    /\ Goto("fusion", "sample")
    /\ UNCHANGED <<pinVars, tiltWork, stateVars, streakVars, localVars>>

\* First critical section: the tilt is copied, and the readings settle what
\* the sample says.  A failed ADC read counts as an unblocked light path.
FusionSample ==
    /\ pc["fusion"] = "sample"
    /\ fTilt' = tilt
    /\ fBlocked' \in BOOLEAN
    /\ Goto("fusion", "fuse")
    /\ UNCHANGED <<pinVars, tiltWork, fusionPending, stateVars, streakVars,
                   tPin, fBlockage>>

NextStreak(n) == (n + 1) % StreakMod

\* new_blockage, by streaks b and c
NewBlockage(b, c) ==
    IF b >= ConfirmCount THEN "BLOCKED"
    ELSE IF c >= ClearCount THEN "CLEAR" ELSE blockage

\* Second critical section: one of the streaks grows, the other is reset,
\* and new_blockage follows; NewState is the new_state that comes with it.
FusionFuse ==
    /\ pc["fusion"] = "fuse"
    /\ blockStreak' = IF fBlocked THEN NextStreak(blockStreak) ELSE 0
    /\ clearStreak' = IF fBlocked THEN 0 ELSE NextStreak(clearStreak)
    /\ fBlockage' = NewBlockage(blockStreak', clearStreak')
    /\ fBlocked' = FALSE
    /\ Goto("fusion", "commit")
    /\ UNCHANGED <<pinVars, tiltWork, fusionPending, stateVars, tPin, fTilt>>

NewState == EvaluateState(fTilt, fBlockage)

\* The tests of set_fused_state()
FusionChanges == blockage # fBlockage \/ state # NewState

\* Third critical section, in set_fused_state(); the locals are done with.
FusionCommit ==
    /\ pc["fusion"] = "commit"
    /\ blockage' = fBlockage
    /\ state' = NewState
    /\ Goto("fusion", IF FusionChanges THEN "snapshot" ELSE "idle")
    /\ fTilt' = "LEVEL"
    /\ fBlockage' = "CLEAR"
    /\ UNCHANGED <<pinVars, tiltWork, fusionPending, tilt, streakVars, tPin, fBlocked>>

FusionWork ==
    \/ FusionStart \/ FusionSample \/ FusionFuse \/ FusionCommit
    \/ PushEvent("fusion")

----------------------------------------------------------------------------
(* conveyor_probe: the part after the queue and the locks exist.            *)

ProbeReadPin ==
    /\ pc["probe"] = "readPin"
    /\ tilt' = tiltPin
    /\ blockage' = "CLEAR"
    /\ state' = EvaluateState(tiltPin, "CLEAR")
    /\ Goto("probe", "requestIrq")
    /\ UNCHANGED <<pinVars, tiltWork, fusionPending, streakVars, localVars>>

ProbeRequestIrq ==
    /\ pc["probe"] = "requestIrq"
    /\ Goto("probe", "snapshot")
    /\ UNCHANGED <<pinVars, tiltWork, fusionPending, stateVars, streakVars, localVars>>

ProbeStartTimer ==
    /\ pc["probe"] = "startTimer"
    /\ Goto("probe", "done")
    /\ UNCHANGED <<pinVars, tiltWork, fusionPending, stateVars, streakVars, localVars>>

Probe == ProbeReadPin \/ ProbeRequestIrq \/ PushEvent("probe") \/ ProbeStartTimer

\* sample_timer_fn, from hrtimer_start() on
SampleTimer ==
    /\ pc["probe"] = "done"
    /\ ScheduleFusion
    /\ UNCHANGED <<pinVars, tiltWork, stateVars, streakVars, pc, localVars>>

----------------------------------------------------------------------------
\* kzalloc() zeroes the device: LEVEL, CLEAR and RUNNING_OK are the zero values.
Init ==
    /\ tiltPin \in TiltStates
    /\ tiltEdge = FALSE
    /\ edgeHandled = FALSE
    /\ tiltWork = "idle"
    /\ fusionPending = FALSE
    /\ tilt = "LEVEL"
    /\ blockage = "CLEAR"
    /\ state = "RUNNING_OK"
    /\ blockStreak = 0
    /\ clearStreak = 0
    /\ pc = [probe |-> "readPin", tilt |-> "idle", fusion |-> "idle"]
    /\ tPin = "LEVEL"
    /\ fTilt = "LEVEL"
    /\ fBlocked = FALSE
    /\ fBlockage = "CLEAR"

Next ==
    \/ PinChange
    \/ TiltIrq
    \/ TiltDebounceExpires
    \/ TiltEvalWork
    \/ FusionWork
    \/ Probe
    \/ SampleTimer

Spec == Init /\ [][Next]_vars

(***************************************************************************)
(* Interrupts are served, timers run out, probe is not abandoned and the   *)
(* work queue's workers run what is queued.  The switch owes nothing, and  *)
(* as every edge restarts the debounce timer, its expiry is owed only when *)
(* no edge keeps coming.                                                   *)
(***************************************************************************)
Fairness ==
    /\ WF_vars(TiltIrq)
    /\ WF_vars(~tiltEdge /\ TiltDebounceExpires)
    /\ WF_vars(TiltEvalWork)
    /\ WF_vars(FusionWork)
    /\ WF_vars(Probe)
    /\ WF_vars(SampleTimer)

FairSpec == Spec /\ Fairness

----------------------------------------------------------------------------
TypeOK ==
    /\ tiltPin \in TiltStates
    /\ tiltEdge \in BOOLEAN
    /\ edgeHandled \in BOOLEAN
    /\ tiltWork \in {"idle", "armed", "queued"}
    /\ fusionPending \in BOOLEAN
    /\ tilt \in TiltStates
    /\ blockage \in BlockageStates
    /\ state \in ConveyorStates
    /\ blockStreak \in 0 .. StreakMod - 1
    /\ clearStreak \in 0 .. StreakMod - 1
    /\ pc \in [probe  : {"readPin", "requestIrq", "startTimer", "done"} \cup PushStages,
               tilt   : {"idle", "readPin", "commit", "schedule"} \cup PushStages,
               fusion : {"idle", "sample", "fuse", "commit"} \cup PushStages]
    /\ tPin \in TiltStates
    /\ fTilt \in TiltStates
    /\ fBlocked \in BOOLEAN
    /\ fBlockage \in BlockageStates

\* Nothing is running, queued or latched; the next step is the switch's or
\* the timer's.
Quiescent ==
    /\ pc = [probe |-> "done", tilt |-> "idle", fusion |-> "idle"]
    /\ ~fusionPending
    /\ tiltWork = "idle"
    /\ ~tiltEdge

(***************************************************************************)
(* The inductive invariants behind the two properties below.               *)
(***************************************************************************)

\* Before request_irq() and hrtimer_start() nothing else runs.
StartUpAlone ==
    /\ ~IrqRequested =>
           /\ ~tiltEdge /\ ~edgeHandled
           /\ tiltWork = "idle" /\ pc["tilt"] = "idle"
           /\ ~fusionPending /\ pc["fusion"] = "idle"
    /\ state # EvaluateState(tilt, blockage) => IrqRequested

\* tilt_eval_work_fn is past its commit: its schedule_work() is to come.
TiltEvalWillSchedule == pc["tilt"] \in PushStages \cup {"schedule"}

\* Another fusion run is certain to start, and to read today's tilt.
FusionComing == fusionPending \/ TiltEvalWillSchedule

\* A state that does not fit is about to be overwritten from the tilt of now.
RepairComing ==
    state # EvaluateState(tilt, blockage) =>
        \/ FusionComing
        \/ pc["fusion"] = "sample"
        \/ pc["fusion"] \in {"fuse", "commit"} /\ fTilt = tilt

\* A run holding an outdated tilt is not the last.
StaleRunNotLast ==
    pc["fusion"] \in {"fuse", "commit"} /\ fTilt # tilt => FusionComing

StateInv == StartUpAlone /\ RepairComing /\ StaleRunNotLast

\* A tilt that is not the switch's is about to be read again.
EdgeComing == tiltEdge \/ tiltWork # "idle"

RereadComing ==
    edgeHandled =>
        \/ tilt = tiltPin /\ pc["tilt"] # "commit"
        \/ EdgeComing
        \/ pc["tilt"] = "readPin"
        \/ pc["tilt"] = "commit" /\ tPin = tiltPin

(***************************************************************************)
(* fusion_work_fn copies the tilt in one critical section and stores a     *)
(* state computed from the copy in another, so it can overwrite a newer    *)
(* state with a stale one.  tilt_eval_work_fn's closing schedule_work()    *)
(* repairs it: once all work is done the state fits the inputs.            *)
(***************************************************************************)
SettledStateIsFused == Quiescent => state = EvaluateState(tilt, blockage)

\* Once an edge has been handled, no bounce pattern and no edge during
\* tilt_eval_work_fn leaves a tilt that is not the switch's.  Before, a switch
\* that moves between probe's read and its request_irq() goes unnoticed.
SettledTiltIsPin == Quiescent /\ edgeHandled => tilt = tiltPin

\* A stale state never stays: whatever the interleaving, the state is the
\* one of the inputs again and again.
StateRepaired == []<>(state = EvaluateState(tilt, blockage))

\* A switch that comes to rest after an edge was handled is reported for good.
TiltFollowsPin ==
    \A v \in TiltStates : <>[](tiltPin = v) /\ <>edgeHandled => <>[](tilt = v)
=============================================================================
