------------------------------ MODULE Sensing ------------------------------
(***************************************************************************)
(* What fusion_work_fn makes of its two sensors: Ultrasonic, with the      *)
(* light path's ADC, its moving average, the streaks of blocked and clear  *)
(* samples and the blockage that follows from them.                        *)
(*                                                                         *)
(* The ADC and the light on it are external: each transfer finds the       *)
(* level of the moment, or fails.  Only fusion_work_fn has to do with the  *)
(* variables added here, so its transfer is part of the step in which the  *)
(* average is stored, and the blockage part of the one that grows a        *)
(* streak; ConveyorNode has the steps between and the state that follows.  *)
(***************************************************************************)
EXTENDS Ultrasonic

CONSTANTS
    Levels,        \* the values the ADC can have
    Scale,         \* 8 in the code, as a shift by 3
    Threshold,     \* light_threshold
    BlockedBelow,  \* light_blocked_when_below
    ConfirmCount,  \* blockage_confirm_count
    ClearCount,    \* blockage_clear_count
    StreakMod      \* 2^32 in the code: the streaks are unsigned int

ASSUME SensingAssumption ==
    /\ Levels \subseteq Nat
    /\ Scale \in Nat \ {0}
    /\ Threshold \in Int
    /\ BlockedBelow \in BOOLEAN
    /\ ConfirmCount \in Nat /\ ClearCount \in Nat
    /\ StreakMod \in Nat \ {0}

VARIABLES
    adc,           \* what a transfer finds
    ema,           \* light_ema
    lValue,        \* fusion_work_fn's light_value
    blockStreak, clearStreak,
    blockage,
    lowest, highest  \* history: of the levels read so far

averageVars == <<ema, lowest, highest>>
streakVars  == <<blockStreak, clearStreak, blockage>>
lightVars   == <<adc, averageVars, lValue, streakVars>>
senseVars   == <<vars, lightVars>>

ReadFails == -1
NoLevel   == -1

----------------------------------------------------------------------------
(* Deliberately wrong variants; PROJECT.json names them to show that each   *)
(* property can fail.                                                       *)

\* An average that starts at zero and not at the first level.
EmaWithUnseeded(v) == ema - (ema \div Scale) + v

\* The error value of a failed read compared as if it were a level.
LightIsBlockedUnchecked(v) == IF BlockedBelow THEN v < Threshold ELSE v > Threshold

----------------------------------------------------------------------------
LightChanges ==
    /\ adc' \in (Levels \cup {ReadFails}) \ {adc}
    /\ UNCHANGED <<vars, averageVars, lValue, streakVars>>

\* The first level, or any after an average of zero, is taken as it is.
EmaWith(v) == IF ema = 0 THEN v * Scale ELSE ema - (ema \div Scale) + v

\* First critical section, with the transfer before it
Sample ==
    /\ FusionSample
    /\ IF adc = ReadFails
       THEN /\ lValue' = ReadFails
            /\ UNCHANGED averageVars
       ELSE /\ ema' = EmaWith(adc)
            /\ lValue' = ema' \div Scale
            /\ lowest' = IF lowest = NoLevel \/ adc < lowest THEN adc ELSE lowest
            /\ highest' = IF adc > highest THEN adc ELSE highest
    /\ UNCHANGED <<adc, streakVars>>

\* light_is_blocked: a read that failed is not
LightIsBlocked(v) ==
    v # ReadFails /\ IF BlockedBelow THEN v < Threshold ELSE v > Threshold

NextStreak(n) == (n + 1) % StreakMod

NewBlockage ==
    IF blockStreak' >= ConfirmCount THEN "BLOCKED"
    ELSE IF clearStreak' >= ClearCount THEN "CLEAR" ELSE blockage

\* Second critical section, with the third for the blockage
Judge ==
    /\ FusionJudge
    /\ IF stable' \/ LightIsBlocked(lValue)
       THEN blockStreak' = NextStreak(blockStreak) /\ clearStreak' = 0
       ELSE blockStreak' = 0 /\ clearStreak' = NextStreak(clearStreak)
    /\ blockage' = NewBlockage
    /\ lValue' = ReadFails
    /\ UNCHANGED <<adc, averageVars>>

\* The steps of fusion_work_fn that have to do with the ultrasonic sensor only
OtherWork == (FusionStart \/ Trigger \/ Pulse) /\ UNCHANGED lightVars

SenseWork == Sample \/ Judge \/ OtherWork
SenseIrq  == UltraIrq /\ UNCHANGED lightVars
Echo      == (EchoRises \/ EchoFalls \/ NoEcho) /\ UNCHANGED lightVars

----------------------------------------------------------------------------
SenseInit ==
    /\ Init
    /\ adc \in Levels \cup {ReadFails}
    /\ ema = 0 /\ lowest = NoLevel /\ highest = NoLevel
    /\ lValue = ReadFails
    /\ blockStreak = 0 /\ clearStreak = 0
    /\ blockage = "CLEAR"

SenseNext == LightChanges \/ SenseWork \/ SenseIrq \/ Echo

SenseSpec == SenseInit /\ [][SenseNext]_senseVars

\* Interrupts are served, the timer keeps the fusion work coming, and the sensor
\* ends what it began, with or without an echo.  The light owes nothing.
SenseFairSpec ==
    /\ SenseSpec
    /\ WF_senseVars(SenseIrq)
    /\ WF_senseVars(SenseWork)
    /\ WF_senseVars(Echo)

----------------------------------------------------------------------------
SenseTypeOK ==
    /\ TypeOK
    /\ adc \in Levels \cup {ReadFails}
    /\ ema \in Nat
    /\ lValue \in Nat \cup {ReadFails}
    /\ lowest \in Levels \cup {NoLevel} /\ highest \in Levels \cup {NoLevel}
    /\ blockStreak \in 0 .. StreakMod - 1 /\ clearStreak \in 0 .. StreakMod - 1
    /\ blockage \in {"CLEAR", "BLOCKED"}

\* The average stays among the levels it was made of, from the first on, however
\* often its integer division rounds and whenever it starts again at zero.
AverageWithinLevels ==
    lowest # NoLevel => Scale * lowest <= ema /\ ema <= Scale * highest

Dark  == {v \in Levels : LightIsBlocked(v)}
Light == Levels \ Dark

\* A path that stays dark is reported and stays so, whatever the echoes do.  A
\* path that stays light is reported clear once no distance is believed, also
\* when reads of the ADC fail now and then.  Neither the rounding average nor the
\* streaks get in the way.
BlockageFollows ==
    /\ <>[](adc \in Dark) => <>[](blockage = "BLOCKED")
    /\ <>[](adc \in Light \cup {ReadFails}) /\ <>[]~stable => <>[](blockage = "CLEAR")
=============================================================================
