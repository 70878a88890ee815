------------------------- MODULE EventQueue_proofs -------------------------
(***************************************************************************)
(* Proofs about EventQueue, for every ring size, every number of writers   *)
(* and readers, and every mix of calls.                                    *)
(***************************************************************************)
EXTENDS EventQueue, TLAPS

(***************************************************************************)
(* Ring arithmetic.                                                        *)
(***************************************************************************)

\* The slot of the i-th event when the oldest is in slot t.
LEMMA SlotOfEvent ==
    ASSUME NEW t \in Slots, NEW i \in 1 .. Size
    PROVE  /\ (t + i - 1) % Size = IF t + i <= Size THEN t + i - 1 ELSE t + i - 1 - Size
           /\ (t + i - 1) % Size \in Slots
<1>1. t + i - 1 \in 0 .. 2 * Size - 1
  BY SizeAssumption DEF Slots
<1> QED
  BY <1>1, SizeAssumption DEF Slots

\* Different events are in different slots.
LEMMA DifferentSlots ==
    ASSUME NEW t \in Slots, NEW i \in 1 .. Size, NEW j \in 1 .. Size, i # j
    PROVE  (t + i - 1) % Size # (t + j - 1) % Size
<1>1. /\ (t + i - 1) % Size = IF t + i <= Size THEN t + i - 1 ELSE t + i - 1 - Size
      /\ (t + j - 1) % Size = IF t + j <= Size THEN t + j - 1 ELSE t + j - 1 - Size
  BY SlotOfEvent
<1> QED
  BY <1>1, SizeAssumption DEF Slots

\* How far slot h is past slot t.
LEMMA Distance ==
    ASSUME NEW h \in Slots, NEW t \in Slots
    PROVE  /\ (h + Size - t) % Size = IF h >= t THEN h - t ELSE h + Size - t
           /\ (h + Size - t) % Size \in 0 .. Size - 1
BY SizeAssumption DEF Slots

\* NextSlot stays in the ring and starts over after the last slot.
LEMMA NextSlotWraps ==
    ASSUME NEW i \in Slots
    PROVE  /\ NextSlot(i) = IF i = Size - 1 THEN 0 ELSE i + 1
           /\ NextSlot(i) \in Slots
BY SizeAssumption DEF Slots, NextSlot

\* The number of occupied slots, and the slot that is appended to.
LEMMA LengthValue ==
    ASSUME head \in Slots, tail \in Slots
    PROVE  /\ Length \in 0 .. Size - 1
           /\ QueueEmpty <=> Length = 0
           /\ QueueFull <=> Length = Size - 1
           /\ head = (tail + (Length + 1) - 1) % Size
<1>1. /\ Length = IF head >= tail THEN head - tail ELSE head + Size - tail
      /\ Length \in 0 .. Size - 1
  BY Distance DEF Length
<1>2. QueueEmpty <=> Length = 0
  BY <1>1, SizeAssumption DEF Slots, QueueEmpty
<1>3. QueueFull <=> Length = Size - 1
  BY <1>1, NextSlotWraps, SizeAssumption DEF Slots, QueueFull
<1>4. head = (tail + (Length + 1) - 1) % Size
  <2>1. Length + 1 \in 1 .. Size
    BY <1>1, SizeAssumption
  <2> QED
    BY <1>1, <2>1, SlotOfEvent, SizeAssumption DEF Slots
<1> QED
  BY <1>1, <1>2, <1>3, <1>4

----------------------------------------------------------------------------
\* Type correctness: head and tail never leave the ring.
THEOREM TypeCorrect == Spec => []TypeOK
<1> USE DEF ring, readers, RGoto, Return
<1>1. Init => TypeOK
  BY SizeAssumption, ModesAssumption DEF Init, TypeOK, Slots, RLabels, Results
<1>2. TypeOK /\ [Next]_vars => TypeOK'
  <2> SUFFICES ASSUME TypeOK, [Next]_vars PROVE TypeOK'
    OBVIOUS
  <2> USE DEF TypeOK
  <2>1. ASSUME NEW w \in Writers, Push(w) PROVE TypeOK'
    <3>1. head' \in Slots /\ tail' \in Slots
      BY <2>1, NextSlotWraps DEF Push
    <3>2. q' \in [Slots -> Nat] /\ pushed' \in Nat
      BY <2>1 DEF Push
    <3>3. wpc' \in [Writers -> {"idle", "wake"}]
      BY <2>1 DEF Push
    <3> QED
      BY <2>1, <3>1, <3>2, <3>3 DEF Push
  <2>2. ASSUME NEW w \in Writers, WakeUp(w) PROVE TypeOK'
    BY <2>2 DEF WakeUp, WakeAll
  <2>3. ASSUME NEW r \in Readers, NEW m \in Modes, Call(r, m) PROVE TypeOK'
    BY <2>3 DEF Call, RLabels, Results
  <2>4. ASSUME NEW r \in Readers, Check(r) PROVE TypeOK'
    BY <2>4 DEF Check, RLabels, Results
  <2>5. ASSUME NEW r \in Readers, GoToSleep(r) PROVE TypeOK'
    BY <2>5 DEF GoToSleep, RLabels
  <2>6. ASSUME NEW r \in Readers, Recheck(r) PROVE TypeOK'
    BY <2>6 DEF Recheck, RLabels, Results
  <2>7. ASSUME NEW r \in Readers, Resume(r) PROVE TypeOK'
    BY <2>7 DEF Resume, RLabels
  <2>8. ASSUME NEW r \in Readers, Dequeue(r) PROVE TypeOK'
    <3>1. tail' \in Slots /\ taken' \in Nat
      BY <2>8, NextSlotWraps DEF Dequeue
    <3> QED
      BY <2>8, <3>1 DEF Dequeue, RLabels, Results
  <2>9. ASSUME NEW r \in Readers, CopyOut(r) PROVE TypeOK'
    BY <2>9 DEF CopyOut, RLabels, Results
  <2>10. ASSUME NEW r \in Readers, Signal(r) PROVE TypeOK'
    BY <2>10 DEF Signal, RLabels, Results
  <2>11. CASE UNCHANGED vars
    BY <2>11 DEF vars
  <2> QED
    BY <2>1, <2>2, <2>3, <2>4, <2>5, <2>6, <2>7, <2>8, <2>9, <2>10, <2>11
       DEF Next, Write, Proceed
<1> QED
  BY <1>1, <1>2, PTL DEF Spec

----------------------------------------------------------------------------
(***************************************************************************)
(* No lost wake-up.  A reader is on the wait queue before its last look,   *)
(* so an append it missed is by a writer that has its wake_up to come.     *)
(***************************************************************************)

\* No reader sleeps on a queue with an event in it unless a wake-up is due.
THEOREM NoWakeupLost == Spec => []NoLostWakeup
<1> USE DEF ring, readers, RGoto, Return, NoLostWakeup, QueueEmpty
<1>1. Init => NoLostWakeup
  BY DEF Init
<1>2. TypeOK /\ NoLostWakeup /\ [Next]_vars => NoLostWakeup'
  <2> SUFFICES ASSUME TypeOK, NoLostWakeup, [Next]_vars PROVE NoLostWakeup'
    OBVIOUS
  <2> USE DEF TypeOK
  <2>1. ASSUME NEW w \in Writers, Push(w) PROVE NoLostWakeup'
    BY <2>1 DEF Push
  <2>2. ASSUME NEW w \in Writers, WakeUp(w) PROVE NoLostWakeup'
    BY <2>2 DEF WakeUp, WakeAll
  <2>3. ASSUME NEW r \in Readers, NEW m \in Modes, Call(r, m) PROVE NoLostWakeup'
    BY <2>3 DEF Call
  <2>4. ASSUME NEW r \in Readers, Check(r) PROVE NoLostWakeup'
    BY <2>4 DEF Check
  <2>5. ASSUME NEW r \in Readers, GoToSleep(r) PROVE NoLostWakeup'
    BY <2>5 DEF GoToSleep
  <2>6. ASSUME NEW r \in Readers, Recheck(r) PROVE NoLostWakeup'
    BY <2>6 DEF Recheck
  <2>7. ASSUME NEW r \in Readers, Resume(r) PROVE NoLostWakeup'
    BY <2>7 DEF Resume
  <2>8. ASSUME NEW r \in Readers, Dequeue(r) PROVE NoLostWakeup'
    BY <2>8 DEF Dequeue
  <2>9. ASSUME NEW r \in Readers, CopyOut(r) PROVE NoLostWakeup'
    BY <2>9 DEF CopyOut
  <2>10. ASSUME NEW r \in Readers, Signal(r) PROVE NoLostWakeup'
    BY <2>10 DEF Signal
  <2>11. CASE UNCHANGED vars
    BY <2>11 DEF vars
  <2> QED
    BY <2>1, <2>2, <2>3, <2>4, <2>5, <2>6, <2>7, <2>8, <2>9, <2>10, <2>11
       DEF Next, Write, Proceed
<1> QED
  BY <1>1, <1>2, TypeCorrect, PTL DEF Spec

----------------------------------------------------------------------------
(***************************************************************************)
(* The ring's contents.                                                    *)
(***************************************************************************)

\* Moving the head adds a slot; moving the tail frees one and shifts the rest.
LEMMA MoveHead ==
    ASSUME NEW h \in Slots, NEW t \in Slots, (h + Size - t) % Size < Size - 1
    PROVE  (NextSlot(h) + Size - t) % Size = ((h + Size - t) % Size) + 1
<1> DEFINE n == NextSlot(h)
<1>1. n \in Slots /\ n = IF h = Size - 1 THEN 0 ELSE h + 1
  BY NextSlotWraps
<1>2. (n + Size - t) % Size = IF n >= t THEN n - t ELSE n + Size - t
  BY <1>1, Distance
<1>3. (h + Size - t) % Size = IF h >= t THEN h - t ELSE h + Size - t
  BY Distance
<1> HIDE DEF n
<1>4. (n + Size - t) % Size = ((h + Size - t) % Size) + 1
  BY <1>1, <1>2, <1>3, SizeAssumption DEF Slots
<1> QED
  BY <1>4 DEF n

LEMMA MoveTail ==
    ASSUME NEW h \in Slots, NEW t \in Slots, h # t
    PROVE  /\ (h + Size - NextSlot(t)) % Size = ((h + Size - t) % Size) - 1
           /\ \A i \in 1 .. Size - 1 :
                  (NextSlot(t) + i - 1) % Size = (t + (i + 1) - 1) % Size
<1>1. NextSlot(t) \in Slots
  BY NextSlotWraps
<1>2. (h + Size - NextSlot(t)) % Size = ((h + Size - t) % Size) - 1
  <2> DEFINE n == NextSlot(t)
  <2>1. n \in Slots /\ n = IF t = Size - 1 THEN 0 ELSE t + 1
    BY NextSlotWraps
  <2>2. (h + Size - n) % Size = IF h >= n THEN h - n ELSE h + Size - n
    BY <2>1, Distance
  <2>3. (h + Size - t) % Size = IF h >= t THEN h - t ELSE h + Size - t
    BY Distance
  <2> HIDE DEF n
  <2>4. (h + Size - n) % Size = ((h + Size - t) % Size) - 1
    BY <2>1, <2>2, <2>3, SizeAssumption DEF Slots
  <2> QED
    BY <2>4 DEF n
<1>3. ASSUME NEW i \in 1 .. Size - 1
      PROVE  (NextSlot(t) + i - 1) % Size = (t + (i + 1) - 1) % Size
  <2>1. i \in 1 .. Size /\ i + 1 \in 1 .. Size
    BY SizeAssumption
  <2> QED
    BY <1>1, <2>1, SlotOfEvent, NextSlotWraps, SizeAssumption DEF Slots
<1> QED
  BY <1>2, <1>3

LEMMA MoveBoth ==
    ASSUME NEW h \in Slots, NEW t \in Slots
    PROVE  (NextSlot(h) + Size - NextSlot(t)) % Size = (h + Size - t) % Size
<1> DEFINE m == NextSlot(h)
           n == NextSlot(t)
<1>1. /\ m \in Slots /\ m = IF h = Size - 1 THEN 0 ELSE h + 1
      /\ n \in Slots /\ n = IF t = Size - 1 THEN 0 ELSE t + 1
  BY NextSlotWraps
<1>2. (m + Size - n) % Size = IF m >= n THEN m - n ELSE m + Size - n
  BY <1>1, Distance
<1>3. (h + Size - t) % Size = IF h >= t THEN h - t ELSE h + Size - t
  BY Distance
<1> HIDE DEF m, n
<1>4. (m + Size - n) % Size = (h + Size - t) % Size
  BY <1>1, <1>2, <1>3, SizeAssumption DEF Slots
<1> QED
  BY <1>4 DEF m, n

\* What an append does to the ring.
LEMMA PushKeepsNewest ==
    ASSUME TypeOK, KeepsNewest, NEW w \in Writers, Push(w)
    PROVE  /\ KeepsNewest'
           /\ Length' = IF Length = Size - 1 THEN Length ELSE Length + 1
           /\ pushed' = pushed + 1
           /\ taken' = taken
<1>1. /\ head \in Slots /\ tail \in Slots
      /\ q \in [Slots -> Nat]
      /\ pushed \in Nat /\ taken \in Nat
  BY DEF TypeOK
<1>2. /\ head' = NextSlot(head)
      /\ tail' = IF QueueFull THEN NextSlot(tail) ELSE tail
      /\ q' = [q EXCEPT ![head] = pushed + 1]
      /\ pushed' = pushed + 1
      /\ taken' = taken
  BY DEF Push
<1>3. Length \in 0 .. Size - 1
  BY <1>1, LengthValue
<1>4. Length' = IF Length = Size - 1 THEN Length ELSE Length + 1
  <2>1. CASE QueueFull
    BY <1>1, <1>2, <2>1, MoveBoth, LengthValue DEF Length
  <2>2. CASE ~QueueFull
    BY <1>1, <1>2, <1>3, <2>2, MoveHead, LengthValue, SizeAssumption DEF Length
  <2> QED
    BY <2>1, <2>2
<1>5. ASSUME NEW i \in 1 .. Length' PROVE Contents'[i] = pushed' - Length' + i
  <2> DEFINE old == IF QueueFull THEN i + 1 ELSE i
  <2>1. /\ i \in 1 .. Size - 1
        /\ old \in 1 .. Length + 1
    BY <1>1, <1>3, <1>4, LengthValue, SizeAssumption
  <2>2. (tail' + i - 1) % Size = (tail + old - 1) % Size
    <3>1. CASE QueueFull
      <4>1. head # tail
        BY <1>1, <3>1, LengthValue, SizeAssumption DEF QueueEmpty
      <4> QED
        BY <1>1, <1>2, <2>1, <3>1, <4>1, MoveTail
    <3>2. CASE ~QueueFull
      BY <1>2, <3>2
    <3> QED
      BY <3>1, <3>2
  <2>3. Contents'[i] = q'[(tail + old - 1) % Size]
    BY <1>5, <2>2 DEF Contents
  <2>4. pushed' - Length' + i = pushed - Length + old
    BY <1>1, <1>2, <1>3, <1>4, <2>1, LengthValue, SizeAssumption
  <2>5. CASE old = Length + 1
    <3>1. q'[head] = pushed + 1
      BY <1>1, <1>2
    <3> QED
      BY <1>1, <1>3, <2>3, <2>4, <2>5, <3>1, LengthValue
  <2>6. CASE old \in 1 .. Length
    <3>1. (tail + old - 1) % Size # head /\ (tail + old - 1) % Size \in Slots
      <4>1. old \in 1 .. Size /\ Length + 1 \in 1 .. Size /\ old # Length + 1
        BY <1>3, <2>6, SizeAssumption
      <4>2. /\ (tail + old - 1) % Size \in Slots
            /\ (tail + old - 1) % Size # (tail + (Length + 1) - 1) % Size
        BY <1>1, <4>1, DifferentSlots, SlotOfEvent
      <4> QED
        BY <1>1, <4>2, LengthValue
    <3>2. q'[(tail + old - 1) % Size] = q[(tail + old - 1) % Size]
      BY <1>1, <1>2, <3>1
    <3>3. Contents[old] = q[(tail + old - 1) % Size]
      BY <2>6 DEF Contents
    <3>4. Contents[old] = pushed - Length + old
      BY <2>6 DEF KeepsNewest
    <3> QED
      BY <2>3, <2>4, <3>2, <3>3, <3>4
  <2> QED
    BY <1>3, <2>1, <2>5, <2>6
<1>6. /\ taken' <= pushed'
      /\ Length' = IF pushed' - taken' < Size THEN pushed' - taken' ELSE Size - 1
  BY <1>1, <1>2, <1>3, <1>4, SizeAssumption DEF KeepsNewest
<1> QED
  BY <1>2, <1>4, <1>5, <1>6 DEF KeepsNewest

\* What a successful read does to it.
LEMMA DequeueKeepsNewest ==
    ASSUME TypeOK, KeepsNewest, NEW r \in Readers, Dequeue(r), ~QueueEmpty
    PROVE  /\ KeepsNewest'
           /\ Length' = Length - 1
           /\ taken' = pushed - Length + 1
           /\ pushed' = pushed
<1>1. head \in Slots /\ tail \in Slots /\ pushed \in Nat /\ taken \in Nat
  BY DEF TypeOK
<1>2. /\ head' = head /\ q' = q /\ pushed' = pushed
      /\ tail' = NextSlot(tail)
      /\ taken' = q[tail]
  BY DEF Dequeue
<1>3. Length \in 1 .. Size - 1
  BY <1>1, LengthValue, SizeAssumption
<1>4. Length' = Length - 1
  BY <1>1, <1>2, MoveTail DEF Length, QueueEmpty
<1>5. taken' = pushed - Length + 1
  <2>1. (tail + 1 - 1) % Size = tail
    BY <1>1, SlotOfEvent, SizeAssumption DEF Slots
  <2>2. Contents[1] = q[tail]
    BY <1>3, <2>1 DEF Contents
  <2>3. Contents[1] = pushed - Length + 1
    BY <1>3 DEF KeepsNewest
  <2> QED
    BY <1>2, <2>2, <2>3
<1>6. ASSUME NEW i \in 1 .. Length' PROVE Contents'[i] = pushed' - Length' + i
  <2>1. i \in 1 .. Size - 1 /\ i + 1 \in 1 .. Length
    BY <1>3, <1>4, <1>6, SizeAssumption
  <2>2. (tail' + i - 1) % Size = (tail + (i + 1) - 1) % Size
    BY <1>1, <1>2, <2>1, MoveTail DEF QueueEmpty
  <2>3. Contents'[i] = Contents[i + 1]
    BY <2>1, <2>2, <1>2, <1>6 DEF Contents
  <2>4. Contents[i + 1] = pushed - Length + (i + 1)
    BY <2>1 DEF KeepsNewest
  <2> QED
    BY <2>3, <2>4, <2>1, <1>1, <1>2, <1>3, <1>4
<1>7. /\ taken' <= pushed'
      /\ Length' = IF pushed' - taken' < Size THEN pushed' - taken' ELSE Size - 1
  BY <1>1, <1>2, <1>3, <1>4, <1>5, SizeAssumption
<1> QED
  BY <1>2, <1>4, <1>5, <1>6, <1>7 DEF KeepsNewest

\* Every other step leaves ring and history alone.
LEMMA OtherStepsKeepRing ==
    ASSUME [Next]_vars
    PROVE  \/ \E w \in Writers : Push(w)
           \/ \E r \in Readers : Dequeue(r) /\ ~QueueEmpty
           \/ UNCHANGED <<ring, pushed, taken>>
<1> USE DEF ring, readers
<1>1. ASSUME NEW w \in Writers, WakeUp(w) PROVE UNCHANGED <<ring, pushed, taken>>
  BY <1>1 DEF WakeUp
<1>2. ASSUME NEW r \in Readers, NEW m \in Modes, Call(r, m)
      PROVE  UNCHANGED <<ring, pushed, taken>>
  BY <1>2 DEF Call
<1>3. ASSUME NEW r \in Readers, Proceed(r), ~(Dequeue(r) /\ ~QueueEmpty)
      PROVE  UNCHANGED <<ring, pushed, taken>>
  BY <1>3 DEF Proceed, Check, GoToSleep, Recheck, Resume, Dequeue, CopyOut
<1>4. ASSUME NEW r \in Readers, Signal(r) PROVE UNCHANGED <<ring, pushed, taken>>
  BY <1>4 DEF Signal
<1>5. CASE UNCHANGED vars
  BY <1>5 DEF vars
<1> QED
  BY <1>1, <1>2, <1>3, <1>4, <1>5 DEF Next, Write

\* The ring always holds the newest events, without a gap and with none missing
\* that it had room for.
THEOREM NewestKept == Spec => []KeepsNewest
<1>1. Init => KeepsNewest
  <2> SUFFICES ASSUME Init PROVE KeepsNewest
    OBVIOUS
  <2>1. Length = 0
    BY SizeAssumption DEF Init, Length
  <2> QED
    BY <2>1, SizeAssumption DEF Init, KeepsNewest
<1>2. TypeOK /\ KeepsNewest /\ [Next]_vars => KeepsNewest'
  <2> SUFFICES ASSUME TypeOK, KeepsNewest, [Next]_vars PROVE KeepsNewest'
    OBVIOUS
  <2>1. CASE UNCHANGED <<ring, pushed, taken>>
    BY <2>1 DEF ring, KeepsNewest, Contents, Length
  <2> QED
    BY <2>1, OtherStepsKeepRing, PushKeepsNewest, DequeueKeepsNewest
<1> QED
  BY <1>1, <1>2, TypeCorrect, PTL DEF Spec

----------------------------------------------------------------------------
(***************************************************************************)
(* The ring implements the lossy fifo.  By KeepsNewest its contents are a  *)
(* run of consecutive numbers, so the sequence operations are those on     *)
(* runs.                                                                   *)
(***************************************************************************)
Run(a, n) == [i \in 1 .. n |-> a + i]

LEMMA RunSequence ==
    ASSUME NEW a \in Nat, NEW n \in Nat
    PROVE  /\ Run(a, n) \in Seq(Nat)
           /\ Len(Run(a, n)) = n
           /\ Append(Run(a, n), a + n + 1) = Run(a, n + 1)
           /\ Run(a, n + 1) # <<>>
           /\ Head(Run(a, n + 1)) = a + 1
           /\ Tail(Run(a, n + 1)) = Run(a + 1, n)
<1>1. Run(a, n) \in Seq(Nat) /\ Len(Run(a, n)) = n
  BY DEF Run
<1>2. Run(a, n + 1) \in Seq(Nat) /\ Len(Run(a, n + 1)) = n + 1
  BY DEF Run
<1>3. Append(Run(a, n), a + n + 1) = Run(a, n + 1)
  BY <1>1, <1>2 DEF Run
<1>4. Run(a, n + 1) # <<>> /\ Head(Run(a, n + 1)) = a + 1
  BY <1>2 DEF Run
<1>5. Tail(Run(a, n + 1)) = Run(a + 1, n)
  BY <1>2 DEF Run
<1> QED
  BY <1>1, <1>3, <1>4, <1>5

LEMMA ContentsIsRun ==
    TypeOK /\ KeepsNewest => /\ Contents = Run(pushed - Length, Length)
                             /\ pushed - Length \in Nat
                             /\ Length \in 0 .. Size - 1
<1> SUFFICES ASSUME TypeOK, KeepsNewest
             PROVE  /\ Contents = Run(pushed - Length, Length)
                    /\ pushed - Length \in Nat
                    /\ Length \in 0 .. Size - 1
  OBVIOUS
<1>1. pushed \in Nat /\ taken \in Nat /\ Length \in 0 .. Size - 1
  BY LengthValue DEF TypeOK
<1>2. pushed - Length \in Nat
  BY <1>1, SizeAssumption DEF KeepsNewest
<1>3. Contents = [i \in 1 .. Length |-> Contents[i]]
  BY DEF Contents
<1>4. Contents = Run(pushed - Length, Length)
  BY <1>1, <1>3 DEF Run, KeepsNewest
<1> QED
  BY <1>1, <1>2, <1>4

\* An append is a Put.
LEMMA PushIsPut ==
    ASSUME TypeOK, KeepsNewest, TypeOK', NEW w \in Writers, Push(w)
    PROVE  Fifo!Put
<1> DEFINE a == pushed - Length
           n == Length
<1>1. /\ Contents = Run(a, n) /\ a \in Nat /\ n \in 0 .. Size - 1
      /\ pushed \in Nat /\ pushed = a + n
  BY ContentsIsRun DEF TypeOK
<1>2. /\ KeepsNewest' /\ pushed' = pushed + 1 /\ taken' = taken
      /\ Length' = IF n = Size - 1 THEN n ELSE n + 1
  BY PushKeepsNewest
<1>3. Contents' = Run(pushed' - Length', Length')
  <2>1. (TypeOK /\ KeepsNewest => Contents = Run(pushed - Length, Length))'
    BY ContentsIsRun, PTL
  <2> QED
    BY <1>2, <2>1
<1> HIDE DEF a, n
<1>4. Append(Contents, pushed') = Run(a, n + 1)
  <2>1. n \in Nat /\ pushed' = a + n + 1
    BY <1>1, <1>2, SizeAssumption
  <2>2. Append(Run(a, n), a + n + 1) = Run(a, n + 1)
    BY <1>1, <2>1, RunSequence
  <2> QED
    BY <1>1, <2>1, <2>2
<1>5. Len(Run(a, n + 1)) = n + 1
  BY <1>1, RunSequence, SizeAssumption
<1>6. CASE n = Size - 1
  <2>1. Contents' = Run(a + 1, n)
    BY <1>1, <1>2, <1>3, <1>6, SizeAssumption
  <2>2. Tail(Run(a, n + 1)) = Run(a + 1, n)
    BY <1>1, RunSequence
  <2>3. Fifo!Newest(Run(a, n + 1)) = Tail(Run(a, n + 1))
    BY <1>1, <1>5, <1>6, SizeAssumption DEF Fifo!Newest
  <2> QED
    BY <1>2, <1>4, <2>1, <2>2, <2>3 DEF Fifo!Put
<1>7. CASE n # Size - 1
  <2>1. Contents' = Run(a, n + 1)
    BY <1>1, <1>2, <1>3, <1>7, SizeAssumption
  <2>2. Fifo!Newest(Run(a, n + 1)) = Run(a, n + 1)
    BY <1>1, <1>5, <1>7, SizeAssumption DEF Fifo!Newest
  <2> QED
    BY <1>2, <1>4, <2>1, <2>2 DEF Fifo!Put
<1> QED
  BY <1>6, <1>7

\* A successful read is a Take.
LEMMA DequeueIsTake ==
    ASSUME TypeOK, KeepsNewest, TypeOK', NEW r \in Readers, Dequeue(r), ~QueueEmpty
    PROVE  Fifo!Take
<1> DEFINE a == pushed - Length
           n == Length - 1
<1>1. /\ Contents = Run(a, n + 1) /\ a \in Nat /\ n \in Nat
  <2>1. Length # 0 /\ Length \in 0 .. Size - 1
    BY LengthValue DEF TypeOK
  <2> QED
    BY <2>1, ContentsIsRun, SizeAssumption
<1>2. KeepsNewest' /\ pushed' = pushed /\ taken' = a + 1 /\ Length' = n
  BY DequeueKeepsNewest
<1>3. Contents' = Run(pushed' - Length', Length')
  <2>1. (TypeOK /\ KeepsNewest => Contents = Run(pushed - Length, Length))'
    BY ContentsIsRun, PTL
  <2> QED
    BY <1>2, <2>1
<1>4. pushed' - Length' = a + 1
  BY <1>1, <1>2, LengthValue, SizeAssumption DEF TypeOK
<1> HIDE DEF a, n
<1>5. /\ Contents # <<>>
      /\ Head(Contents) = a + 1
      /\ Tail(Contents) = Contents'
  BY <1>1, <1>2, <1>3, <1>4, RunSequence
<1> QED
  BY <1>2, <1>5 DEF Fifo!Take

\* The ring with its overwriting is a first-in first-out queue of Size - 1
\* places that loses only its oldest event, and only to a newer one.
THEOREM RingIsLossyFifo == Spec => FifoSpec
<1>1. Init => Fifo!FifoInit
  <2> SUFFICES ASSUME Init PROVE Fifo!FifoInit
    OBVIOUS
  <2>1. Length = 0
    BY SizeAssumption DEF Init, Length
  <2>2. Contents = <<>>
    BY <2>1 DEF Contents
  <2> QED
    BY <2>2 DEF Init, Fifo!FifoInit
<1>2. TypeOK /\ TypeOK' /\ KeepsNewest /\ [Next]_vars
          => [Fifo!Put \/ Fifo!Take]_(Fifo!fifoVars)
  <2> SUFFICES ASSUME TypeOK, TypeOK', KeepsNewest, [Next]_vars
               PROVE  [Fifo!Put \/ Fifo!Take]_(Fifo!fifoVars)
    OBVIOUS
  <2>1. CASE UNCHANGED <<ring, pushed, taken>>
    BY <2>1 DEF ring, Contents, Length, Fifo!fifoVars
  <2> QED
    BY <2>1, OtherStepsKeepRing, PushIsPut, DequeueIsTake
<1> QED
  BY <1>1, <1>2, TypeCorrect, NewestKept, PTL DEF Spec, FifoSpec, Fifo!FifoSpec
=============================================================================
