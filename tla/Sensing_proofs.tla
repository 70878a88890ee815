--------------------------- MODULE Sensing_proofs ---------------------------
(***************************************************************************)
(* Proofs about Ultrasonic, for every range, tolerance and set of          *)
(* measurable distances, and about Sensing: that it implements Ultrasonic, *)
(* so that all that is proved of that module holds of it, and that the     *)
(* average stays among the levels read, for every scale and all levels.    *)
(***************************************************************************)
EXTENDS Sensing, TLAPS

----------------------------------------------------------------------------
(* The echo protocol: Ultrasonic by itself.                                 *)

\* The handler stores only what is a distance.
StoresDistance == hpc = "store" => hDistance # NoDistance

\* The error value -1 is no distance, and it is never stored.
LEMMA DistancesTyped == Spec => [](DistancesOK /\ StoresDistance)
<1> USE DEF sensorVars, handlerVars, dataVars, fusionVars
<1>1. Init => DistancesOK /\ StoresDistance
  BY DEF Init, DistancesOK, StoresDistance, Distances
<1>2. DistancesOK /\ StoresDistance /\ [Next]_vars => (DistancesOK /\ StoresDistance)'
  <2> SUFFICES ASSUME DistancesOK, StoresDistance, [Next]_vars
               PROVE  (DistancesOK /\ StoresDistance)'
    OBVIOUS
  <2> USE DEF DistancesOK, StoresDistance, Distances
  <2>1. CASE EchoRises \/ EchoFalls \/ NoEcho
    <3>1. UNCHANGED <<handlerVars, dataVars, fusionVars>>
      BY <2>1 DEF EchoRises, EchoFalls, NoEcho
    <3> QED
      BY <3>1
  <2>2. CASE HandlerStart \/ HandlerRead
    <3>1. hpc' # "store" /\ UNCHANGED <<hDistance, dataVars, fusionVars>>
      BY <2>2 DEF HandlerStart, HandlerRead
    <3> QED
      BY <3>1
  <2>3. CASE HandlerPhase
    <3>1. /\ hDistance' \in Measurable \cup {NoDistance}
          /\ hpc' = AfterPhase(hDistance')
          /\ UNCHANGED <<dataVars, fusionVars>>
      BY <2>3 DEF HandlerPhase
    <3> QED
      BY <3>1 DEF AfterPhase
  <2>4. CASE HandlerStore
    <3>1. /\ hpc = "store" /\ hpc' = "idle"
          /\ distance' = hDistance /\ hDistance' = NoDistance
          /\ UNCHANGED <<prev, fusionVars>>
      BY <2>4 DEF HandlerStore
    <3> QED
      BY <3>1
  <2>5. CASE FusionStart \/ Trigger \/ Pulse
    <3>1. UNCHANGED <<handlerVars, dataVars, fDistance, fPrev>>
      BY <2>5 DEF FusionStart, Trigger, Pulse
    <3> QED
      BY <3>1
  <2>6. CASE FusionSample
    <3>1. /\ fDistance' = distance /\ fPrev' = prev
          /\ UNCHANGED <<handlerVars, distance, prev>>
      BY <2>6 DEF FusionSample
    <3> QED
      BY <3>1
  <2>7. CASE FusionJudge
    <3>1. /\ prev' = fDistance /\ fDistance' = 0 /\ fPrev' = 0
          /\ UNCHANGED <<handlerVars, distance>>
      BY <2>7 DEF FusionJudge
    <3> QED
      BY <3>1
  <2>8. CASE UNCHANGED vars
    BY <2>8 DEF vars
  <2> QED
    BY <2>1, <2>2, <2>3, <2>4, <2>5, <2>6, <2>7, <2>8 DEF Next, UltraIrq, FusionWork
<1> QED
  BY <1>1, <1>2, PTL DEF Spec

\* Every variable keeps its type; distance_cm is never the handler's -1.
THEOREM TypeCorrect == Spec => []TypeOK
<1> USE DEF sensorVars, handlerVars, dataVars, fusionVars
<1>1. Init /\ DistancesOK => TypeOK
  <2> SUFFICES ASSUME Init, DistancesOK PROVE TypeOK
    OBVIOUS
  <2>1. /\ sensor = "ready" /\ edge = FALSE /\ fresh = FALSE /\ fFresh = FALSE
        /\ hpc = "idle" /\ fpc = "idle" /\ stable = FALSE /\ lostEcho = FALSE
    BY DEF Init
  <2>2. phase \in 0 .. 3 /\ hLevel \in {0, 1}
    BY DEF Init
  <2> QED
    BY <2>1, <2>2 DEF TypeOK
<1>2. TypeOK /\ DistancesOK' /\ [Next]_vars => TypeOK'
  <2> SUFFICES ASSUME TypeOK, DistancesOK', [Next]_vars PROVE TypeOK'
    OBVIOUS
  <2> USE DEF TypeOK
  <2>1. CASE EchoRises \/ EchoFalls \/ NoEcho
    <3>1. CASE EchoRises
      BY <3>1 DEF EchoRises
    <3>2. CASE EchoFalls
      BY <3>2 DEF EchoFalls
    <3>3. CASE NoEcho
      BY <3>3 DEF NoEcho
    <3> QED
      BY <2>1, <3>1, <3>2, <3>3
  <2>2. CASE HandlerStart \/ HandlerRead
    BY <2>2 DEF HandlerStart, HandlerRead
  <2>3. CASE HandlerPhase
    BY <2>3 DEF HandlerPhase, AfterPhase, PhaseAfterEcho
  <2>4. CASE HandlerStore
    BY <2>4 DEF HandlerStore
  <2>5. CASE FusionStart \/ Trigger \/ Pulse
    BY <2>5 DEF FusionStart, Trigger, Pulse
  <2>6. CASE FusionSample
    <3>1. fresh' = FALSE /\ fFresh' = fresh /\ fpc' = "judge"
      BY <2>6 DEF FusionSample, FreshAfterSample
    <3>2. UNCHANGED <<sensorVars, phase, hpc, hLevel, stable, lostEcho>>
      BY <2>6 DEF FusionSample
    <3> QED
      BY <3>1, <3>2
  <2>7. CASE FusionJudge
    <3>1. stable' \in BOOLEAN
      BY <2>7 DEF FusionJudge, DistanceStable
    <3> QED
      BY <2>7, <3>1 DEF FusionJudge
  <2>8. CASE UNCHANGED vars
    <3>1. UNCHANGED <<sensorVars, phase, hpc, hLevel, fresh, fpc, fFresh, stable, lostEcho>>
      BY <2>8 DEF vars
    <3> QED
      BY <3>1
  <2> QED
    BY <2>1, <2>2, <2>3, <2>4, <2>5, <2>6, <2>7, <2>8 DEF Next, UltraIrq, FusionWork
<1> QED
  BY <1>1, <1>2, DistancesTyped, PTL DEF Spec

----------------------------------------------------------------------------
\* The phase always tells where the echo is, for every delay of the handler
\* and every moment the fusion work may choose to trigger.
THEOREM ProtocolInvariant == Spec => []EchoProtocol
<1> USE DEF sensorVars, handlerVars, dataVars, fusionVars, EchoProtocol, Quiet, ReadHigh,
        Awaiting, Timing
<1>1. Init => EchoProtocol
  BY DEF Init
<1>2. TypeOK /\ EchoProtocol /\ [Next]_vars => EchoProtocol'
  <2> SUFFICES ASSUME TypeOK, EchoProtocol, [Next]_vars PROVE EchoProtocol'
    OBVIOUS
  <2> USE DEF TypeOK
  <2>1. CASE EchoRises
    BY <2>1 DEF EchoRises
  <2>2. CASE EchoFalls
    BY <2>2 DEF EchoFalls
  <2>3. CASE NoEcho
    BY <2>3 DEF NoEcho
  <2>4. CASE HandlerStart
    BY <2>4 DEF HandlerStart
  <2>5. CASE HandlerRead
    BY <2>5 DEF HandlerRead
  <2>6. CASE HandlerPhase
    BY <2>6 DEF HandlerPhase, AfterPhase, PhaseAfterEcho, EchoStarts, EchoEnds
  <2>7. CASE HandlerStore
    BY <2>7 DEF HandlerStore
  <2>8. CASE FusionStart \/ FusionSample \/ FusionJudge
    BY <2>8 DEF FusionStart, FusionSample, FusionJudge
  <2>9. CASE Trigger
    BY <2>9 DEF Trigger, MayTrigger
  <2>10. CASE Pulse
    BY <2>10 DEF Pulse
  <2>11. CASE UNCHANGED vars
    BY <2>11 DEF vars
  <2> QED
    BY <2>1, <2>2, <2>3, <2>4, <2>5, <2>6, <2>7, <2>8, <2>9, <2>10, <2>11
       DEF Next, UltraIrq, FusionWork
<1> QED
  BY <1>1, <1>2, TypeCorrect, PTL DEF Spec

\* No ping is sent while the echo of the one before is under way or unserved.
THEOREM NoPingEarly == Spec => []NoPingDuringEcho
<1>1. EchoProtocol => NoPingDuringEcho
  BY DEF EchoProtocol, Quiet, NoPingDuringEcho
<1> QED
  BY <1>1, ProtocolInvariant, PTL

\* The driver waits for nothing only if an echo was lost.
THEOREM StuckByLoss == Spec => []StuckOnlyByLostEcho
<1>1. EchoProtocol => StuckOnlyByLostEcho
  BY DEF EchoProtocol, Awaiting, Timing, ReadHigh, Stuck, StuckOnlyByLostEcho
<1> QED
  BY <1>1, ProtocolInvariant, PTL

----------------------------------------------------------------------------
(* Arithmetic.                                                              *)

LEMMA TimesMonotone ==
    ASSUME NEW s \in Nat, NEW a \in Int, NEW b \in Int, a <= b
    PROVE  s * a <= s * b
<1>1. b = a + (b - a) /\ b - a \in Nat
  OBVIOUS
<1>2. s * (b - a) \in Nat
  BY <1>1
<1>3. s * b = s * a + s * (b - a)
  BY SMTT(30)
<1> QED
  BY <1>2, <1>3

\* The integer quotient leaves a remainder below the divisor.
LEMMA Quotient ==
    ASSUME NEW s \in Nat \ {0}, NEW e \in Nat
    PROVE  /\ e \div s \in Nat
           /\ s * (e \div s) <= e
           /\ e <= s * (e \div s) + (s - 1)
<1>1. e = s * (e \div s) + (e % s) /\ e \div s \in Int
  BY SMTT(30)
<1>2. e % s \in 0 .. s - 1
  BY SMTT(30)
<1>3. e \div s \in Nat
  BY SMTT(30)
<1> QED
  BY <1>1, <1>2, <1>3

LEMMA WidenedBounds ==
    ASSUME NEW s \in Nat \ {0}, NEW e \in Nat,
           NEW lo \in Nat, NEW hi \in Nat, NEW lo2 \in Nat, NEW hi2 \in Nat,
           s * lo <= e, e <= s * hi, lo2 <= lo, hi <= hi2
    PROVE  s * lo2 <= e /\ e <= s * hi2
<1>1. s * lo2 <= s * lo
  BY TimesMonotone
<1>2. s * hi <= s * hi2
  BY TimesMonotone
<1>3. s * lo \in Nat /\ s * lo2 \in Nat /\ s * hi \in Nat /\ s * hi2 \in Nat
  OBVIOUS
<1> QED
  BY <1>1, <1>2, <1>3

\* One level taken into an average keeps it within bounds that both are within.
LEMMA AverageStep ==
    ASSUME NEW s \in Nat \ {0}, NEW e \in Nat, NEW v \in Nat,
           NEW lo \in Nat, NEW hi \in Nat,
           s * lo <= e, e <= s * hi, lo <= v, v <= hi
    PROVE  /\ s * lo <= e - (e \div s) + v
           /\ e - (e \div s) + v <= s * hi
           /\ e - (e \div s) + v \in Nat
<1> DEFINE q == e \div s
<1>1. q \in Nat /\ s * q <= e /\ e <= s * q + (s - 1)
  BY Quotient
<1> HIDE DEF q
<1>2. s * lo <= e - q + v
  <2>1. CASE q <= lo
    BY <1>1, <2>1
  <2>2. CASE q >= lo
    <3>1. (s - 1) * lo <= (s - 1) * q
      BY <1>1, <2>2, TimesMonotone
    <3>2. (s - 1) * lo = s * lo - lo /\ (s - 1) * q = s * q - q
      BY <1>1
    <3> QED
      BY <1>1, <3>1, <3>2
  <2> QED
    BY <1>1, <2>1, <2>2
<1>3. e - q + v <= s * hi
  <2>1. CASE q >= hi
    BY <1>1, <2>1
  <2>2. CASE q + 1 <= hi
    <3>1. (s - 1) * (q + 1) <= (s - 1) * hi
      BY <1>1, <2>2, TimesMonotone
    <3>2. (s - 1) * (q + 1) = s * q + (s - 1) - q /\ (s - 1) * hi = s * hi - hi
      BY <1>1
    <3> QED
      BY <1>1, <3>1, <3>2
  <2> QED
    BY <1>1, <2>1, <2>2
<1>4. e - q + v \in Nat
  <2>1. s * lo \in Nat
    OBVIOUS
  <2> QED
    BY <1>1, <1>2, <2>1
<1> QED
  BY <1>2, <1>3, <1>4 DEF q

----------------------------------------------------------------------------
(* Every step is one of Ultrasonic's, or leaves its variables alone.        *)

THEOREM SensingImplementsUltrasonic == SenseSpec => Spec
<1>1. SenseInit => Init
  BY DEF SenseInit
<1>2. [SenseNext]_senseVars => [Next]_vars
  <2> SUFFICES ASSUME SenseNext \/ UNCHANGED senseVars
               PROVE  Next \/ UNCHANGED vars
    OBVIOUS
  <2>1. CASE LightChanges
    BY <2>1 DEF LightChanges
  <2>2. CASE SenseWork
    BY <2>2 DEF SenseWork, Sample, Judge, OtherWork, Next, FusionWork
  <2>3. CASE SenseIrq
    BY <2>3 DEF SenseIrq, Next
  <2>4. CASE Echo
    BY <2>4 DEF Echo, Next
  <2>5. CASE UNCHANGED senseVars
    BY <2>5 DEF senseVars
  <2> QED
    BY <2>1, <2>2, <2>3, <2>4, <2>5 DEF SenseNext
<1> QED
  BY <1>1, <1>2, PTL DEF SenseSpec, Spec

----------------------------------------------------------------------------
(* The average.                                                             *)

\* Before the first level the average is zero; from then on it is among them.
AverageInv ==
    /\ adc \in Levels \cup {ReadFails}
    /\ ema \in Nat
    /\ \/ lowest = NoLevel /\ highest = NoLevel /\ ema = 0
       \/ lowest \in Levels /\ highest \in Levels
    /\ AverageWithinLevels

\* What the two branches of the average have in common.
LEMMA SampleKeepsAverage ==
    ASSUME AverageInv, Sample
    PROVE  AverageInv'
<1> USE DEF AverageInv, AverageWithinLevels, averageVars, ReadFails, NoLevel
<1> USE SensingAssumption
<1>1. CASE adc = ReadFails
  BY <1>1 DEF Sample
<1>2. CASE adc # ReadFails
  <2>1. /\ adc \in Levels /\ adc \in Nat /\ adc' = adc
        /\ ema' = EmaWith(adc)
        /\ lowest' = IF lowest = NoLevel \/ adc < lowest THEN adc ELSE lowest
        /\ highest' = IF adc > highest THEN adc ELSE highest
    BY <1>2 DEF Sample
  <2>2. /\ lowest' \in Levels /\ highest' \in Levels
        /\ lowest' \in Nat /\ highest' \in Nat
        /\ lowest' <= adc /\ adc <= highest'
    BY <2>1
  <2>3. /\ EmaWith(adc) \in Nat
        /\ Scale * lowest' <= EmaWith(adc) /\ EmaWith(adc) <= Scale * highest'
    <3>1. CASE ema = 0
      <4>1. EmaWith(adc) = Scale * adc
        BY <3>1, <2>1 DEF EmaWith
      <4>2. Scale * lowest' <= Scale * adc /\ Scale * adc <= Scale * highest'
        BY <2>1, <2>2, TimesMonotone
      <4> QED
        BY <4>1, <4>2, <2>1
    <3>2. CASE ema # 0
      <4>1. lowest \in Levels /\ highest \in Levels
        BY <3>2
      <4>2. lowest \in Nat /\ highest \in Nat /\ lowest # NoLevel
        BY <4>1
      <4>3. Scale * lowest <= ema /\ ema <= Scale * highest
        BY <4>2
      <4>4. lowest' <= lowest /\ highest <= highest'
        BY <4>2, <2>1
      <4>5. /\ Scale * lowest' <= ema - (ema \div Scale) + adc
            /\ ema - (ema \div Scale) + adc <= Scale * highest'
            /\ ema - (ema \div Scale) + adc \in Nat
        <5> HIDE DEF AverageInv, AverageWithinLevels, NoLevel
        <5>1. ema \in Nat /\ Scale \in Nat \ {0}
          BY DEF AverageInv
        <5>2. Scale * lowest' <= ema /\ ema <= Scale * highest'
          BY <5>1, <4>2, <4>3, <4>4, <2>2, WidenedBounds
        <5> QED
          BY <5>1, <5>2, <2>1, <2>2, AverageStep
      <4> QED
        BY <4>5, <3>2 DEF EmaWith
    <3> QED
      BY <3>1, <3>2
  <2> QED
    BY <2>1, <2>2, <2>3
<1> QED
  BY <1>1, <1>2

LEMMA AverageInvariant == SenseSpec => []AverageInv
<1>1. SenseInit => AverageInv
  BY DEF SenseInit, AverageInv, AverageWithinLevels
<1>2. AverageInv /\ [SenseNext]_senseVars => AverageInv'
  <2> SUFFICES ASSUME AverageInv, SenseNext \/ UNCHANGED senseVars
               PROVE  AverageInv'
    OBVIOUS
  <2>1. CASE Sample
    BY <2>1, SampleKeepsAverage
  <2>2. CASE LightChanges
    <3>1. adc' \in Levels \cup {ReadFails} /\ UNCHANGED averageVars
      BY <2>2 DEF LightChanges
    <3> QED
      BY <3>1 DEF AverageInv, AverageWithinLevels, averageVars
  <2>3. CASE Judge \/ OtherWork \/ SenseIrq \/ Echo \/ UNCHANGED senseVars
    <3>1. UNCHANGED <<adc, averageVars>>
      BY <2>3 DEF Judge, OtherWork, SenseIrq, Echo, senseVars, lightVars
    <3> QED
      BY <3>1 DEF AverageInv, AverageWithinLevels, averageVars
  <2> QED
    BY <2>1, <2>2, <2>3 DEF SenseNext, SenseWork
<1> QED
  BY <1>1, <1>2, PTL DEF SenseSpec

\* The average stays among the levels it was made of, for every scale, every set
\* of levels and however the reads fail.
THEOREM AverageCorrect == SenseSpec => []AverageWithinLevels
<1>1. AverageInv => AverageWithinLevels
  BY DEF AverageInv
<1> QED
  BY <1>1, AverageInvariant, PTL

\* The types: those of Ultrasonic, of the average, and of the streaks, which wrap.
StreaksOK ==
    /\ blockStreak \in 0 .. StreakMod - 1 /\ clearStreak \in 0 .. StreakMod - 1
    /\ blockage \in {"CLEAR", "BLOCKED"}
    /\ lValue \in Nat \cup {ReadFails}

LEMMA StreaksTyped == SenseSpec => []StreaksOK
<1> USE SensingAssumption
<1>1. SenseInit => StreaksOK
  BY DEF SenseInit, StreaksOK
<1>2. AverageInv /\ AverageInv' /\ StreaksOK /\ [SenseNext]_senseVars => StreaksOK'
  <2> SUFFICES ASSUME AverageInv', StreaksOK, SenseNext \/ UNCHANGED senseVars
               PROVE  StreaksOK'
    OBVIOUS
  <2>1. CASE Sample
    <3>1. ema' \in Nat
      BY DEF AverageInv
    <3>2. lValue' \in {ReadFails, ema' \div Scale} /\ UNCHANGED streakVars
      BY <2>1 DEF Sample
    <3>3. ema' \div Scale \in Nat
      BY <3>1, Quotient
    <3> QED
      BY <3>2, <3>3 DEF StreaksOK, streakVars
  <2>2. CASE Judge
    <3>1. NextStreak(blockStreak) \in 0 .. StreakMod - 1
          /\ NextStreak(clearStreak) \in 0 .. StreakMod - 1
          /\ 0 \in 0 .. StreakMod - 1
      BY DEF StreaksOK, NextStreak
    <3>2. /\ blockStreak' \in {0, NextStreak(blockStreak)}
          /\ clearStreak' \in {0, NextStreak(clearStreak)}
          /\ blockage' = NewBlockage /\ lValue' = ReadFails
      BY <2>2 DEF Judge
    <3>3. NewBlockage \in {"CLEAR", "BLOCKED"}
      BY DEF StreaksOK, NewBlockage
    <3> QED
      BY <3>1, <3>2, <3>3 DEF StreaksOK
  <2>3. CASE LightChanges \/ OtherWork \/ SenseIrq \/ Echo \/ UNCHANGED senseVars
    <3>1. UNCHANGED <<lValue, streakVars>>
      BY <2>3 DEF LightChanges, OtherWork, SenseIrq, Echo, senseVars, lightVars
    <3> QED
      BY <3>1 DEF StreaksOK, streakVars
  <2> QED
    BY <2>1, <2>2, <2>3 DEF SenseNext, SenseWork
<1> QED
  BY <1>1, <1>2, AverageInvariant, PTL DEF SenseSpec

\* Types of the composed module.
THEOREM SenseTypeCorrect == SenseSpec => []SenseTypeOK
<1>1. TypeOK /\ AverageInv /\ StreaksOK => SenseTypeOK
  BY DEF AverageInv, StreaksOK, SenseTypeOK
<1> QED
  BY <1>1, SensingImplementsUltrasonic, TypeCorrect, AverageInvariant, StreaksTyped, PTL

\* Of the composed module too: no ping is sent while an echo is under way, and
\* only a lost echo blocks the trigger.
THEOREM SensingKeepsProtocol == SenseSpec => [](NoPingDuringEcho /\ StuckOnlyByLostEcho)
<1> QED
  BY SensingImplementsUltrasonic, NoPingEarly, StuckByLoss, PTL
=============================================================================
