----------------------------- MODULE Ultrasonic -----------------------------
(***************************************************************************)
(* The ultrasonic measurement of conveyor_node: fusion_work_fn samples the *)
(* last distance and pings the sensor for the next one; the echo comes     *)
(* back as two edges of a GPIO, which ultra_irq_handler times.             *)
(*                                                                         *)
(* The interrupt is edge triggered: an edge is latched, a second one that  *)
(* comes before the first is served is not told from it, and the handler   *)
(* reads whatever level the pin has by then.  So a short echo can be over  *)
(* before its first edge is served.                                        *)
(*                                                                         *)
(* The sensor (HC-SR04, external) answers one ping with one pulse, or not  *)
(* at all; a pulse's measured length is any.  Sensing adds the light path, *)
(* and what follows from a sample.                                         *)
(***************************************************************************)
EXTENDS Integers

CONSTANTS MaxDist,     \* ultra_max_dist_cm
          Tolerance,   \* ultra_tolerance_cm
          Measurable   \* bound of the model: the distances that are measured

ASSUME MeasureAssumption ==
    /\ MaxDist \in Int
    /\ Tolerance \in Int
    /\ Measurable \subseteq Nat

VARIABLES
    sensor,      \* "ready", "pinged", or "high" while its echo pin is up
    edge,        \* an edge of the echo pin is latched
    phase,       \* echo_phase
    hpc, hLevel, hDistance,       \* ultra_irq_handler: value, new_distance
    distance, prev, fresh,        \* distance_cm, prev_distance_cm, distance_fresh
    fpc, fDistance, fPrev, fFresh,\* fusion_work_fn and its copies of these
    stable,      \* the last distance_stable
    lostEcho     \* history: a ping was not answered, or its pulse too short

sensorVars  == <<sensor, edge>>
handlerVars == <<hpc, hLevel, hDistance>>
dataVars    == <<distance, prev, fresh>>
fusionVars  == <<fpc, fDistance, fPrev, fFresh>>
vars == <<sensorVars, phase, handlerVars, dataVars, fusionVars, stable, lostEcho>>

NoDistance == -1
Distances  == Measurable \cup {0}

\* |x - y|
Diff(x, y) == IF x < y THEN y - x ELSE x - y

----------------------------------------------------------------------------
(* Deliberately wrong variants; PROJECT.json names them to show that each   *)
(* property can fail.                                                       *)

\* A trigger that does not look at the phase.
MayTriggerAlways == TRUE

\* A handler that stores whatever came out, the error value too.
AfterPhaseStore(d) == "store"

\* fusion_work_fn leaving distance_fresh set.
FreshKept == fresh

\* A handler that times a pulse and goes back to phase 1.
PhaseAfterEchoWaiting == 1

----------------------------------------------------------------------------
(* The sensor.                                                              *)

EchoRises ==
    /\ sensor = "pinged"
    /\ sensor' = "high"
    /\ edge' = TRUE
    /\ UNCHANGED <<phase, handlerVars, dataVars, fusionVars, stable, lostEcho>>

\* The pulse was too short if no handler has read it high.
EchoFalls ==
    /\ sensor = "high"
    /\ sensor' = "ready"
    /\ lostEcho' = (lostEcho \/ edge \/ hpc = "read")
    /\ edge' = TRUE
    /\ UNCHANGED <<phase, handlerVars, dataVars, fusionVars, stable>>

NoEcho ==
    /\ sensor = "pinged"
    /\ sensor' = "ready"
    /\ lostEcho' = TRUE
    /\ UNCHANGED <<edge, phase, handlerVars, dataVars, fusionVars, stable>>

----------------------------------------------------------------------------
(* ultra_irq_handler                                                        *)

HandlerStart ==
    /\ hpc = "idle"
    /\ edge
    /\ edge' = FALSE
    /\ hpc' = "read"
    /\ UNCHANGED <<sensor, phase, hLevel, hDistance, dataVars, fusionVars, stable,
                   lostEcho>>

HandlerRead ==
    /\ hpc = "read"
    /\ hLevel' = IF sensor = "high" THEN 1 ELSE 0
    /\ hpc' = "phase"
    /\ UNCHANGED <<sensorVars, phase, hDistance, dataVars, fusionVars, stable, lostEcho>>

EchoStarts == hLevel = 1 /\ phase = 1
EchoEnds   == hLevel = 0 /\ phase = 2

PhaseAfterEcho == 3

AfterPhase(d) == IF d = NoDistance THEN "idle" ELSE "store"

\* The critical section of data_lock.  The pulse's length gives a distance,
\* or none if it is zero or above 40 ms.
HandlerPhase ==
    /\ hpc = "phase"
    /\ phase' = IF EchoStarts THEN 2 ELSE IF EchoEnds THEN PhaseAfterEcho ELSE phase
    /\ hDistance' \in IF EchoEnds THEN Measurable \cup {NoDistance} ELSE {NoDistance}
    /\ hpc' = AfterPhase(hDistance')
    /\ hLevel' = 0
    /\ UNCHANGED <<sensorVars, dataVars, fusionVars, stable, lostEcho>>

\* The critical section of state_lock
HandlerStore ==
    /\ hpc = "store"
    /\ distance' = hDistance
    /\ fresh' = TRUE
    /\ hpc' = "idle"
    /\ hDistance' = NoDistance
    /\ UNCHANGED <<sensorVars, phase, hLevel, prev, fusionVars, stable, lostEcho>>

UltraIrq == HandlerStart \/ HandlerRead \/ HandlerPhase \/ HandlerStore

----------------------------------------------------------------------------
(* fusion_work_fn                                                           *)

FusionStart ==
    /\ fpc = "idle"
    /\ fpc' = "sample"
    /\ UNCHANGED <<sensorVars, phase, handlerVars, dataVars, fDistance, fPrev, fFresh,
                   stable, lostEcho>>

FreshAfterSample == FALSE

\* First critical section
FusionSample ==
    /\ fpc = "sample"
    /\ fDistance' = distance
    /\ fPrev' = prev
    /\ fFresh' = fresh
    /\ fresh' = FreshAfterSample
    /\ fpc' = "judge"
    /\ UNCHANGED <<sensorVars, phase, handlerVars, distance, prev, stable, lostEcho>>

DistanceStable ==
    /\ fFresh
    /\ fDistance > 0
    /\ fDistance < MaxDist
    /\ Diff(fDistance, fPrev) <= Tolerance

\* Second critical section
FusionJudge ==
    /\ fpc = "judge"
    /\ stable' = DistanceStable
    /\ prev' = fDistance
    /\ fpc' = "trigger"
    /\ fDistance' = 0 /\ fPrev' = 0 /\ fFresh' = FALSE
    /\ UNCHANGED <<sensorVars, phase, handlerVars, distance, fresh, lostEcho>>

MayTrigger == phase \in {0, 3}

\* trigger_ultrasonic: refused while an echo is awaited or timed
Trigger ==
    /\ fpc = "trigger"
    /\ IF MayTrigger THEN phase' = 1 /\ fpc' = "pulse"
                     ELSE phase' = phase /\ fpc' = "idle"
    /\ UNCHANGED <<sensorVars, handlerVars, dataVars, fDistance, fPrev, fFresh, stable,
                   lostEcho>>

\* The pulse on the trigger GPIO; a sensor still at work ignores it.
Pulse ==
    /\ fpc = "pulse"
    /\ sensor' = IF sensor = "ready" THEN "pinged" ELSE sensor
    /\ fpc' = "idle"
    /\ UNCHANGED <<edge, phase, handlerVars, dataVars, fDistance, fPrev, fFresh, stable,
                   lostEcho>>

FusionWork == FusionStart \/ FusionSample \/ FusionJudge \/ Trigger \/ Pulse

----------------------------------------------------------------------------
\* conveyor_probe sets echo_phase to 3.
Init ==
    /\ sensor = "ready"
    /\ edge = FALSE
    /\ phase = 3
    /\ hpc = "idle" /\ hLevel = 0 /\ hDistance = NoDistance
    /\ distance = 0 /\ prev = 0 /\ fresh = FALSE
    /\ fpc = "idle" /\ fDistance = 0 /\ fPrev = 0 /\ fFresh = FALSE
    /\ stable = FALSE
    /\ lostEcho = FALSE

Next == EchoRises \/ EchoFalls \/ NoEcho \/ UltraIrq \/ FusionWork

Spec == Init /\ [][Next]_vars

----------------------------------------------------------------------------
DistancesOK ==
    /\ hDistance \in Measurable \cup {NoDistance}
    /\ distance \in Distances
    /\ prev \in Distances
    /\ fDistance \in Distances
    /\ fPrev \in Distances

TypeOK ==
    /\ DistancesOK
    /\ sensor \in {"ready", "pinged", "high"}
    /\ edge \in BOOLEAN
    /\ phase \in 0 .. 3
    /\ hpc \in {"idle", "read", "phase", "store"}
    /\ hLevel \in {0, 1}
    /\ fresh \in BOOLEAN
    /\ fpc \in {"idle", "sample", "judge", "trigger", "pulse"}
    /\ fFresh \in BOOLEAN
    /\ stable \in BOOLEAN
    /\ lostEcho \in BOOLEAN

(***************************************************************************)
(* The inductive invariant behind the next two properties: what phase says *)
(* about the echo pin, the latched edge and the handler.                   *)
(***************************************************************************)

\* No echo is under way and none unserved; a distance may still be stored.
Quiet == sensor = "ready" /\ ~edge /\ hpc \in {"idle", "store"}

\* The handler has read the pin high and not acted on it yet.
ReadHigh == hpc = "phase" /\ hLevel = 1

Awaiting ==
    \/ sensor = "pinged" /\ ~edge /\ hpc \in {"idle", "store"}
    \/ sensor = "high" /\ edge /\ hpc \in {"idle", "store"}
    \/ sensor = "high" /\ ~edge /\ (hpc = "read" \/ ReadHigh)
    \/ sensor = "ready" /\ edge /\ ReadHigh
    \/ sensor = "ready" /\ lostEcho /\ ~ReadHigh

Timing ==
    \/ sensor = "high" /\ ~edge /\ hpc = "idle"
    \/ sensor = "ready" /\ edge /\ hpc = "idle"
    \/ sensor = "ready" /\ ~edge /\ hpc = "read"
    \/ sensor = "ready" /\ ~edge /\ hpc = "phase" /\ hLevel = 0

EchoProtocol ==
    /\ fpc = "pulse" => phase = 1
    /\ phase \notin {1, 2} \/ fpc = "pulse" => Quiet
    /\ phase = 1 /\ fpc # "pulse" => Awaiting
    /\ phase = 2 => Timing

\* The phase keeps the pings apart: none is sent while the sensor is at work
\* on the one before or its edges are unserved, however late the handler is.
NoPingDuringEcho ==
    fpc = "pulse" => sensor = "ready" /\ ~edge /\ hpc \notin {"read", "phase"}

\* The driver awaits an echo that is not under way.
Stuck ==
    /\ phase \in {1, 2}
    /\ fpc # "pulse"
    /\ sensor = "ready" /\ ~edge /\ hpc \in {"idle", "store"}

\* Only a ping without a readable answer gets it there, no interleaving does.
StuckOnlyByLostEcho == Stuck => lostEcho

\* A driver that is stuck at least stops believing its last distance.
StuckStopsBeingStable == [](Stuck => <>[]~stable)
=============================================================================
