--------------------------- MODULE ConveyorOutputs ---------------------------
(***************************************************************************)
(* What push_event() puts out: the event it copies under state_lock, the   *)
(* queue it then appends it to, and the alarm GPIO it sets from the same   *)
(* copy.  The steps are those of ConveyorNode; here each also moves the    *)
(* data.  Of the queue only the newest event is kept (EventQueue has the   *)
(* ring), and of that the state.                                           *)
(***************************************************************************)
EXTENDS ConveyorNode

VARIABLES
    fReason,   \* fusion_work_fn's reason_flags, the REASON_*_CHANGED bits
    ev,        \* push_event's copy, one per caller
    newest,    \* the state in the event last put in the queue
    led,       \* the alarm GPIO
    overlap    \* history: the last push_event started during another one

outVars == <<fReason, ev, newest, led, overlap>>
allVars == <<vars, outVars>>

NoEvent == [state |-> "NONE"]

----------------------------------------------------------------------------
InPush(t) == pc[t] \in {"enqueue", "alarm"}

\* The reason_flags each caller passes.
ReasonFlags(t) == CASE t = "probe"  -> Reasons
                    [] t = "tilt"   -> {"TILT_CHANGED"}
                    [] t = "fusion" -> fReason

Snapshot(t) ==
    /\ PushSnapshot(t)
    /\ ev' = [ev EXCEPT ![t] = [state |-> state, tilt |-> tilt, blockage |-> blockage,
                                reason |-> ReasonFlags(t)]]
    /\ overlap' = \E u \in Threads \ {t} : InPush(u)
    /\ fReason' = IF t = "fusion" THEN {} ELSE fReason
    /\ UNCHANGED <<newest, led>>

Enqueue(t) ==
    /\ PushEnqueue(t)
    /\ newest' = ev[t].state
    /\ UNCHANGED <<fReason, ev, led, overlap>>

SetAlarm(t) ==
    /\ PushAlarm(t)
    /\ led' = (ev[t].state = "CRITICAL_FAULT")
    /\ ev' = [ev EXCEPT ![t] = NoEvent]
    /\ UNCHANGED <<fReason, newest, overlap>>

\* set_fused_state() adds REASON_BLOCKAGE_CHANGED to the caller's flags.
SetFusedState ==
    /\ FusionCommit
    /\ fReason' = IF blockage # fBlockage THEN {"BLOCKAGE_CHANGED"} ELSE {}
    /\ UNCHANGED <<ev, newest, led, overlap>>

\* The steps that put nothing out.
Silent ==
    /\ \/ PinChange \/ TiltIrq \/ TiltDebounceExpires \/ SampleTimer
       \/ TiltEvalStart \/ TiltEvalRead \/ TiltEvalCommit \/ TiltEvalSchedule
       \/ FusionStart \/ FusionSample \/ FusionFuse
       \/ ProbeReadPin \/ ProbeRequestIrq \/ ProbeStartTimer
    /\ UNCHANGED outVars

OutInit ==
    /\ Init
    /\ fReason = {}
    /\ ev = [t \in Threads |-> NoEvent]
    /\ newest = "NONE"
    /\ led = FALSE
    /\ overlap = FALSE

OutNext ==
    \/ Silent
    \/ SetFusedState
    \/ \E t \in Threads : Snapshot(t) \/ Enqueue(t) \/ SetAlarm(t)

OutSpec == OutInit /\ [][OutNext]_allVars

----------------------------------------------------------------------------
OutTypeOK ==
    /\ TypeOK
    /\ fReason \in SUBSET Reasons
    /\ ev \in [Threads -> Events \cup {NoEvent}]
    /\ newest \in ConveyorStates \cup {"NONE"}
    /\ led \in BOOLEAN
    /\ overlap \in BOOLEAN

(***************************************************************************)
(* The inductive invariant behind SettledOutputsAgree.                     *)
(***************************************************************************)

\* A push_event that has yet to copy the state is certain.
AnnouncementComing ==
    pc["probe"] \in {"readPin", "requestIrq"} \/ \E t \in Threads : pc[t] = "snapshot"

\* What has been put out so far, and what is still to be, is the state of now.
OutputsCurrent ==
    /\ \A t \in Threads : InPush(t) => ev[t].state = state
    /\ \A t \in Threads : pc[t] = "alarm" => newest = state
    /\ (\A t \in Threads : ~InPush(t)) => newest = state /\ led = (state = "CRITICAL_FAULT")

OutputsInv ==
    ~overlap => /\ \A t, u \in Threads : InPush(t) /\ InPush(u) => t = u
                /\ AnnouncementComing \/ OutputsCurrent

\* Only concurrency confuses the outputs: when the last push_event ran alone,
\* queue and alarm agree with the state once all work is done, although the
\* state may have moved between a commit, its snapshot and its announcement.
SettledOutputsAgree ==
    Quiescent /\ ~overlap => newest = state /\ led = (state = "CRITICAL_FAULT")

(***************************************************************************)
(* What the documents say and the code does not keep.                      *)
(***************************************************************************)

\* The alarm is lit exactly in CRITICAL_FAULT, once all work is done.
LedShowsCritical == Quiescent => led = (state = "CRITICAL_FAULT")

\* An event's state is the one of its own tilt and blockage.
EventConsistent ==
    \A t \in Threads : InPush(t) => ev[t].state = EvaluateState(ev[t].tilt, ev[t].blockage)
=============================================================================
