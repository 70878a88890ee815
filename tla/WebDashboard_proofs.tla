------------------------ MODULE WebDashboard_proofs -------------------------
(***************************************************************************)
(* Proofs about WebDashboard, for any tabs, any sizes of queue and history *)
(* and any number of events.                                               *)
(***************************************************************************)
EXTENDS WebDashboard, SequenceTheorems, TLAPS

----------------------------------------------------------------------------
(* Types.                                                                   *)

LEMMA PrependBounded ==
    ASSUME NEW S, NEW e \in S, NEW s \in Seq(S), NEW n \in Nat, Len(s) <= n
    PROVE  Prepend(e, s, n) \in Seq(S) /\ Len(Prepend(e, s, n)) <= n
<1> DEFINE k == IF Len(s) < n THEN Len(s) + 1 ELSE n
<1>1. <<e>> \o s \in Seq(S) /\ Len(<<e>> \o s) = Len(s) + 1
  OBVIOUS
<1>2. k \in 0 .. Len(s) + 1 /\ k <= n
  OBVIOUS
<1>3. /\ SubSeq(<<e>> \o s, 1, k) \in Seq(S)
      /\ Len(SubSeq(<<e>> \o s, 1, k)) = IF 1 <= k THEN k - 1 + 1 ELSE 0
  BY <1>1, <1>2, SubSeqProperties
<1> QED
  BY <1>2, <1>3 DEF Prepend

\* While a request is served there is a tab for it, and there is an event to pass
\* on when the reader does.
ServingOK ==
    /\ spc # "accept" => serving \in Tabs
    /\ rpc = "broadcast" => current # 0

LEMMA TypesAndServing == Spec => [](TypeOK /\ ServingOK)
<1> USE DashboardAssumption DEF readerVars, serverVars
<1>1. Init => TypeOK /\ ServingOK
  <2> SUFFICES ASSUME Init PROVE TypeOK /\ ServingOK
    OBVIOUS
  <2>1. <<>> \in Seq(1 .. MaxEvents) /\ Len(<<>>) = 0
    OBVIOUS
  <2>2. /\ queue \in [Tabs -> Seq(1 .. MaxEvents)]
        /\ \A t \in Tabs : Len(queue[t]) <= QueueSize
    BY <2>1 DEF Init
  <2>3. history \in Seq(1 .. MaxEvents) /\ Len(history) <= MaxHistory
    BY <2>1 DEF Init
  <2>4. 0 \in 0 .. MaxEvents
    OBVIOUS
  <2>5. shown \in [Tabs -> 0 .. MaxEvents]
    BY <2>4 DEF Init
  <2>6. tab \in [Tabs -> {"closed", "asking", "asks", "open", "stalled", "gone"}]
    BY DEF Init
  <2>7. /\ clients \subseteq Tabs /\ current = 0 /\ msg = 0 /\ missed = FALSE
        /\ rpc = "offline" /\ spc = "accept" /\ serving = None
    BY DEF Init
  <2> QED
    BY <2>2, <2>3, <2>4, <2>5, <2>6, <2>7 DEF TypeOK, ServingOK
<1>2. TypeOK /\ ServingOK /\ [Next]_vars => (TypeOK /\ ServingOK)'
  <2> SUFFICES ASSUME TypeOK, ServingOK, Next \/ UNCHANGED vars
               PROVE  (TypeOK /\ ServingOK)'
    OBVIOUS
  <2> USE DEF TypeOK, ServingOK
  <2>1. CASE Browser
    BY <2>1 DEF Browser, Ask, AskPage, Stall, GoOn, Leave
  <2>2. CASE Store
    <3>1. current + 1 \in 1 .. MaxEvents /\ current + 1 \in 0 .. MaxEvents
      BY <2>2 DEF Store
    <3>2. /\ HistoryWith(current + 1) \in Seq(1 .. MaxEvents)
          /\ Len(HistoryWith(current + 1)) <= MaxHistory
      BY <3>1, PrependBounded DEF HistoryWith
    <3> QED
      BY <2>2, <3>1, <3>2 DEF Store
  <2>3. CASE Broadcast
    <3>1. current \in 1 .. MaxEvents
      BY <2>3 DEF Broadcast
    <3>2. queue' \in [Tabs -> Seq(1 .. MaxEvents)]
      <4>1. \A t \in Tabs : queue[t] \in Seq(1 .. MaxEvents)
        OBVIOUS
      <4>2. \A t \in Tabs : Append(queue[t], current) \in Seq(1 .. MaxEvents)
        BY <3>1, <4>1
      <4>3. queue' = [t \in Tabs |-> IF t \in clients \ Full THEN Append(queue[t], current)
                                                             ELSE queue[t]]
        BY <2>3 DEF Broadcast, Queued
      <4> QED
        BY <4>1, <4>2, <4>3
    <3>3. ASSUME NEW t \in Tabs
          PROVE  Len(queue'[t]) <= QueueSize
      <4>1. CASE t \in clients \ Full
        <5>1. Len(queue[t]) # QueueSize /\ Len(queue[t]) <= QueueSize
              /\ queue[t] \in Seq(1 .. MaxEvents)
          BY <4>1 DEF Full
        <5>2. queue'[t] = Append(queue[t], current)
          BY <2>3, <4>1 DEF Broadcast, Queued
        <5> QED
          BY <5>1, <5>2, <3>1
      <4>2. CASE t \notin clients \ Full
        BY <2>3, <4>2 DEF Broadcast
      <4> QED
        BY <4>1, <4>2
    <3> QED
      BY <2>3, <3>2, <3>3 DEF Broadcast, Dead
  <2>4. CASE ReaderFails \/ ReaderConnects
    BY <2>4 DEF ReaderFails, ReaderConnects
  <2>5. CASE \E t \in Tabs : ServePage(t) \/ ServeStream(t)
    BY <2>5 DEF ServePage, ServeStream
  <2>6. CASE Snapshot
    BY <2>6 DEF Snapshot, EndRequest
  <2>7. CASE Register
    <3>1. queue' \in [Tabs -> Seq(1 .. MaxEvents)]
      BY <2>7 DEF Register
    <3>2. \A t \in Tabs : Len(queue'[t]) <= QueueSize
      BY <2>7 DEF Register
    <3> QED
      BY <2>7, <3>1, <3>2 DEF Register
  <2>8. CASE Get
    <3>1. serving \in Tabs /\ queue[serving] \in Seq(1 .. MaxEvents) /\ queue[serving] # <<>>
      BY <2>8 DEF Get
    <3>2. /\ Head(queue[serving]) \in 1 .. MaxEvents
          /\ Tail(queue[serving]) \in Seq(1 .. MaxEvents)
          /\ Len(Tail(queue[serving])) = Len(queue[serving]) - 1
      BY <3>1
    <3>3. queue' \in [Tabs -> Seq(1 .. MaxEvents)]
      BY <2>8, <3>2 DEF Get
    <3>4. \A t \in Tabs : Len(queue'[t]) <= QueueSize
      BY <2>8, <3>1, <3>2 DEF Get
    <3> QED
      BY <2>8, <3>2, <3>3, <3>4 DEF Get
  <2>9. CASE Heartbeat \/ Write
    <3>1. CASE Heartbeat
      BY <3>1 DEF Heartbeat
    <3>2. CASE Write
      <4>1. shown' \in [Tabs -> 0 .. MaxEvents]
        <5>1. msg \in 0 .. MaxEvents /\ shown \in [Tabs -> 0 .. MaxEvents]
          OBVIOUS
        <5>2. serving \in Tabs /\ shown[serving] \in 0 .. MaxEvents
          BY <3>2 DEF Write
        <5> QED
          BY <3>2, <5>1, <5>2 DEF Write
      <4> QED
        BY <3>2, <4>1 DEF Write
    <3> QED
      BY <2>9, <3>1, <3>2
  <2>10. CASE Unregister
    <3>1. queue' \in [Tabs -> Seq(1 .. MaxEvents)]
      BY <2>10 DEF Unregister
    <3>2. \A t \in Tabs : Len(queue'[t]) <= QueueSize
      BY <2>10 DEF Unregister
    <3> QED
      BY <2>10, <3>1, <3>2 DEF Unregister, AfterUnregister, EndRequest
  <2>11. CASE UNCHANGED vars
    BY <2>11 DEF vars
  <2> QED
    BY <2>1, <2>2, <2>3, <2>4, <2>5, <2>6, <2>7, <2>8, <2>9, <2>10, <2>11
       DEF Next, Reader, Server
<1> QED
  BY <1>1, <1>2, PTL DEF Spec

\* Types, and the bounds of history and queues.
THEOREM TypeCorrect == Spec => []TypeOK
<1> QED
  BY TypesAndServing, PTL

----------------------------------------------------------------------------
(* Registrations.                                                           *)

\* Only the stream that is served is registered, so a handler that ends, and the
\* reader that evicts, leave nobody behind.
THEOREM NobodyLeftBehind == Spec => []NoQueueLeftBehind
<1> USE DEF NoQueueLeftBehind, Streaming, readerVars, serverVars
<1>1. Init => NoQueueLeftBehind
  BY DEF Init
<1>2. NoQueueLeftBehind /\ [Next]_vars => NoQueueLeftBehind'
  <2> SUFFICES ASSUME NoQueueLeftBehind, Next \/ UNCHANGED vars
               PROVE  NoQueueLeftBehind'
    OBVIOUS
  <2>1. CASE Browser
    BY <2>1 DEF Browser, Ask, AskPage, Stall, GoOn, Leave
  <2>2. CASE Store \/ ReaderFails \/ ReaderConnects
    BY <2>2 DEF Store, ReaderFails, ReaderConnects
  <2>3. CASE Broadcast
    BY <2>3 DEF Broadcast, Dead, Full
  <2>4. CASE \E t \in Tabs : ServePage(t) \/ ServeStream(t)
    BY <2>4 DEF ServePage, ServeStream
  <2>5. CASE Snapshot
    BY <2>5 DEF Snapshot, EndRequest
  <2>6. CASE Register
    BY <2>6 DEF Register
  <2>7. CASE Get \/ Heartbeat \/ Write
    BY <2>7 DEF Get, Heartbeat, Write
  <2>8. CASE Unregister
    BY <2>8 DEF Unregister, AfterUnregister, EndRequest
  <2>9. CASE UNCHANGED vars
    BY <2>9 DEF vars
  <2> QED
    BY <2>1, <2>2, <2>3, <2>4, <2>5, <2>6, <2>7, <2>8, <2>9 DEF Next, Reader, Server
<1> QED
  BY <1>1, <1>2, PTL DEF Spec

----------------------------------------------------------------------------
(* What a stream has still to write.                                        *)

\* Inductive: the queue has no gap, goes on where the message in hand ends, and ends
\* with the last event broadcast while it is registered.
StreamInv ==
    /\ spc # "write" => msg = 0
    /\ Streaming =>
         /\ \A i \in 1 .. Len(queue[serving]) - 1 :
              queue[serving][i + 1] = queue[serving][i] + 1
         /\ msg # 0 /\ queue[serving] # <<>> => queue[serving][1] = msg + 1
         /\ serving \in clients =>
              IF queue[serving] # <<>>
              THEN queue[serving][Len(queue[serving])] = LastBroadcast
              ELSE msg # 0 => msg = LastBroadcast

\* The events after the first of a gapless sequence are one.
LEMMA TailWithoutGap ==
    ASSUME NEW s \in Seq(Nat), s # <<>>,
           \A i \in 1 .. Len(s) - 1 : s[i + 1] = s[i] + 1
    PROVE  /\ Tail(s) \in Seq(Nat) /\ Len(Tail(s)) = Len(s) - 1
           /\ \A i \in 1 .. Len(Tail(s)) - 1 : Tail(s)[i + 1] = Tail(s)[i] + 1
           /\ Tail(s) # <<>> => /\ Tail(s)[1] = Head(s) + 1
                                /\ Tail(s)[Len(Tail(s))] = s[Len(s)]
           /\ Tail(s) = <<>> => Head(s) = s[Len(s)]
<1>1. Tail(s) \in Seq(Nat) /\ Len(Tail(s)) = Len(s) - 1 /\ Len(s) \in Nat /\ Len(s) > 0
  BY EmptySeq
<1>2. \A i \in 1 .. Len(Tail(s)) : Tail(s)[i] = s[i + 1]
  BY <1>1
<1>3. \A i \in 1 .. Len(Tail(s)) - 1 : Tail(s)[i + 1] = Tail(s)[i] + 1
  BY <1>1, <1>2
<1>4. ASSUME Tail(s) # <<>>
      PROVE  Tail(s)[1] = Head(s) + 1 /\ Tail(s)[Len(Tail(s))] = s[Len(s)]
  <2>1. Len(Tail(s)) > 0
    BY <1>1, <1>4, EmptySeq
  <2> QED
    BY <1>1, <1>2, <2>1
<1>5. Tail(s) = <<>> => Head(s) = s[Len(s)]
  <2>1. Len(<<>>) = 0
    OBVIOUS
  <2>2. Tail(s) = <<>> => Len(Tail(s)) = 0
    BY <2>1, Zenon
  <2>3. Len(Tail(s)) = 0 => Len(s) = 1
    <3> DEFINE m == Len(s)
               n == Len(Tail(s))
    <3>1. m \in Nat /\ n = m - 1
      BY <1>1
    <3> HIDE DEF m, n
    <3>2. n = 0 => m = 1
      BY <3>1
    <3> QED
      BY <3>2, Zenon DEF m, n
  <2>4. Len(s) = 1 => Head(s) = s[Len(s)]
    OBVIOUS
  <2> QED
    BY <2>2, <2>3, <2>4, Zenon
<1> QED
  BY <1>1, <1>3, <1>4, <1>5

\* The first of a sequence and an event behind it.
LEMMA FirstOfAppend ==
    ASSUME NEW s \in Seq(Nat), NEW e \in Nat
    PROVE  Append(s, e)[1] = IF s = <<>> THEN e ELSE s[1]
<1>1. Len(s) \in Nat /\ (s # <<>> => Len(s) > 0)
  BY EmptySeq
<1>2. /\ \A i \in 1 .. Len(s) : Append(s, e)[i] = s[i]
      /\ Append(s, e)[Len(s) + 1] = e
  OBVIOUS
<1>3. CASE s = <<>>
  <2>1. Len(s) = 0
    BY <1>3, EmptySeq
  <2> QED
    BY <1>2, <1>3, <2>1
<1>4. CASE s # <<>>
  BY <1>1, <1>2, <1>4
<1> QED
  BY <1>3, <1>4

\* So is one with its next event added.
LEMMA AppendWithoutGap ==
    ASSUME NEW s \in Seq(Nat), NEW e \in Nat,
           \A i \in 1 .. Len(s) - 1 : s[i + 1] = s[i] + 1,
           s # <<>> => s[Len(s)] = e - 1
    PROVE  /\ \A i \in 1 .. Len(Append(s, e)) - 1 :
                Append(s, e)[i + 1] = Append(s, e)[i] + 1
           /\ Append(s, e) # <<>> /\ Append(s, e)[Len(Append(s, e))] = e
           /\ Append(s, e)[1] = IF s = <<>> THEN e ELSE s[1]
<1>1. Len(s) \in Nat /\ Len(Append(s, e)) = Len(s) + 1 /\ (s # <<>> => Len(s) > 0)
  BY EmptySeq
<1>2. /\ \A i \in 1 .. Len(s) : Append(s, e)[i] = s[i]
      /\ Append(s, e)[Len(s) + 1] = e
  OBVIOUS
<1>3. ASSUME NEW i \in 1 .. Len(Append(s, e)) - 1
      PROVE  Append(s, e)[i + 1] = Append(s, e)[i] + 1
  <2>1. CASE i = Len(s)
    BY <1>1, <1>2, <2>1
  <2>2. CASE i # Len(s)
    BY <1>1, <1>2, <2>2
  <2> QED
    BY <2>1, <2>2
<1>4. Append(s, e) # <<>> /\ Append(s, e)[Len(Append(s, e))] = e
  <2>1. Append(s, e) # <<>>
    <3>1. Len(<<>>) = 0
      OBVIOUS
    <3>2. Len(Append(s, e)) # 0
      BY <1>1
    <3> QED
      BY <3>1, <3>2, Zenon
  <2> QED
    BY <1>1, <1>2, <2>1
<1> QED
  BY <1>3, <1>4, FirstOfAppend

LEMMA StreamInvariant == Spec => []StreamInv
<1> USE DashboardAssumption DEF readerVars, serverVars
<1>1. Init => StreamInv
  BY DEF Init, StreamInv, Streaming
<1>2. /\ TypeOK /\ ServingOK /\ NoQueueLeftBehind
      /\ StreamInv /\ [Next]_vars
      => StreamInv'
  <2> SUFFICES ASSUME TypeOK, ServingOK, NoQueueLeftBehind, StreamInv, Next \/ UNCHANGED vars
               PROVE  StreamInv'
    OBVIOUS
  <2> USE DEF StreamInv, Streaming
  <2>0. /\ current \in Nat /\ msg \in Nat
        /\ \A t \in Tabs : queue[t] \in Seq(Nat)
    BY DEF TypeOK
  <2>1. CASE Browser
    BY <2>1 DEF Browser, Ask, AskPage, Stall, GoOn, Leave, LastBroadcast
  <2>2. CASE Store
    <3>1. LastBroadcast' = LastBroadcast
      BY <2>0, <2>2 DEF Store, LastBroadcast
    <3> QED
      BY <2>2, <3>1 DEF Store
  <2>3. CASE Broadcast
    <3>1. SUFFICES ASSUME Streaming PROVE StreamInv'
      BY <2>3 DEF Broadcast
    <3>2. serving \in Tabs /\ LastBroadcast = current - 1 /\ LastBroadcast' = current
      BY <2>3, <3>1 DEF ServingOK, Broadcast, LastBroadcast
    <3>3. CASE serving \in clients \ Full
      <4> DEFINE q == queue[serving]
      <4>1. queue'[serving] = Append(q, current) /\ q \in Seq(Nat)
        BY <2>0, <2>3, <3>2, <3>3 DEF Broadcast, Queued
      <4>2. /\ \A i \in 1 .. Len(q) - 1 : q[i + 1] = q[i] + 1
            /\ q # <<>> => q[Len(q)] = current - 1
        BY <3>1, <3>2, <3>3
      <4>3. /\ \A i \in 1 .. Len(Append(q, current)) - 1 :
                 Append(q, current)[i + 1] = Append(q, current)[i] + 1
            /\ Append(q, current) # <<>>
            /\ Append(q, current)[Len(Append(q, current))] = current
            /\ Append(q, current)[1] = IF q = <<>> THEN current ELSE q[1]
        BY <2>0, <4>1, <4>2, AppendWithoutGap
      <4>4. msg # 0 => Append(q, current)[1] = msg + 1
        <5>1. CASE q = <<>>
          BY <2>0, <3>1, <3>2, <3>3, <4>3, <5>1
        <5>2. CASE q # <<>>
          BY <3>1, <4>3, <5>2
        <5> QED
          BY <5>1, <5>2
      <4>5. spc' = spc /\ serving' = serving /\ msg' = msg
        BY <2>3 DEF Broadcast
      <4> HIDE DEF q
      <4> QED
        BY <3>2, <4>1, <4>3, <4>4, <4>5
    <3>4. CASE serving \notin clients \ Full
      <4>1. queue'[serving] = queue[serving] /\ serving \notin clients'
        BY <2>3, <3>2, <3>4 DEF Broadcast, Dead
      <4> QED
        BY <2>3, <4>1 DEF Broadcast
    <3> QED
      BY <3>3, <3>4
  <2>4. CASE ReaderFails \/ ReaderConnects
    BY <2>4 DEF ReaderFails, ReaderConnects, LastBroadcast
  <2>5. CASE \E t \in Tabs : ServePage(t) \/ ServeStream(t)
    BY <2>5 DEF ServePage, ServeStream
  <2>6. CASE Snapshot
    BY <2>6 DEF Snapshot, EndRequest
  <2>7. CASE Register
    <3>1. queue'[serving'] = <<>> /\ msg' = 0 /\ spc' = "get"
      BY <2>7 DEF Register, TypeOK, ServingOK
    <3> QED
      BY <3>1
  <2>8. CASE Get
    <3> DEFINE q == queue[serving]
    <3>1. /\ serving \in Tabs /\ q \in Seq(Nat) /\ q # <<>> /\ spc = "get"
          /\ queue'[serving] = Tail(q) /\ msg' = Head(q) /\ serving' = serving
          /\ clients' = clients /\ LastBroadcast' = LastBroadcast /\ spc' = "write"
      BY <2>0, <2>8 DEF Get, TypeOK, ServingOK, LastBroadcast
    <3>2. /\ \A i \in 1 .. Len(q) - 1 : q[i + 1] = q[i] + 1
          /\ serving \in clients => q[Len(q)] = LastBroadcast
      BY <3>1
    <3>3. /\ \A i \in 1 .. Len(Tail(q)) - 1 : Tail(q)[i + 1] = Tail(q)[i] + 1
          /\ Tail(q) # <<>> => Tail(q)[1] = Head(q) + 1 /\ Tail(q)[Len(Tail(q))] = q[Len(q)]
          /\ Tail(q) = <<>> => Head(q) = q[Len(q)]
      BY <3>1, <3>2, TailWithoutGap
    <3> HIDE DEF q
    <3> QED
      BY <3>1, <3>2, <3>3
  <2>9. CASE Heartbeat \/ Write
    BY <2>9 DEF Heartbeat, MayBeat, Write, LastBroadcast
  <2>10. CASE Unregister
    BY <2>10 DEF Unregister, EndRequest
  <2>11. CASE UNCHANGED vars
    BY <2>11 DEF vars, LastBroadcast
  <2> QED
    BY <2>1, <2>2, <2>3, <2>4, <2>5, <2>6, <2>7, <2>8, <2>9, <2>10, <2>11
       DEF Next, Reader, Server
<1> QED
  BY <1>1, <1>2, TypesAndServing, NobodyLeftBehind, PTL DEF Spec

\* The events a stream has still to write follow each other and, while it is
\* registered, reach up to the last one broadcast.
THEOREM NoGaps == Spec => []StreamHasNoGaps
<1>1. TypeOK /\ ServingOK /\ StreamInv => StreamHasNoGaps
  <2> SUFFICES ASSUME TypeOK, ServingOK, StreamInv, Streaming
               PROVE  /\ \A i \in 1 .. Len(Pending) - 1 : Pending[i + 1] = Pending[i] + 1
                      /\ serving \in clients /\ Pending # <<>>
                           => Pending[Len(Pending)] = LastBroadcast
    BY DEF StreamHasNoGaps
  <2> DEFINE q == queue[serving]
  <2>1. q \in Seq(Nat) /\ msg \in Nat /\ Len(q) \in Nat /\ (q # <<>> => Len(q) > 0)
    <3>1. serving \in Tabs
      BY DEF ServingOK, Streaming
    <3>2. q \in Seq(Nat) /\ msg \in Nat
      BY <3>1, DashboardAssumption DEF TypeOK
    <3> HIDE DEF q
    <3> QED
      BY <3>2, EmptySeq
  <2>2. /\ \A i \in 1 .. Len(q) - 1 : q[i + 1] = q[i] + 1
        /\ msg # 0 /\ q # <<>> => q[1] = msg + 1
        /\ serving \in clients => IF q # <<>> THEN q[Len(q)] = LastBroadcast
                                              ELSE msg # 0 => msg = LastBroadcast
    BY DEF StreamInv
  <2>3. CASE msg = 0
    <3>1. Pending = q
      BY <2>1, <2>3 DEF Pending
    <3> HIDE DEF q
    <3> QED
      BY <2>2, <3>1
  <2>4. CASE msg # 0
    <3>1. Pending = <<msg>> \o q
      BY <2>4 DEF Pending
    <3> HIDE DEF q
    <3>2. /\ Len(Pending) = Len(q) + 1 /\ Pending[1] = msg
          /\ \A i \in 2 .. Len(q) + 1 : Pending[i] = q[i - 1]
      BY <2>1, <3>1
    <3>3. ASSUME NEW i \in 1 .. Len(Pending) - 1
          PROVE  Pending[i + 1] = Pending[i] + 1
      <4>1. CASE i = 1
        <5>1. q # <<>> /\ Pending[2] = q[1]
          BY <2>1, <3>2, <3>3, <4>1
        <5> QED
          BY <2>2, <2>4, <3>2, <4>1, <5>1
      <4>2. CASE i # 1
        <5>1. Pending[i + 1] = q[i] /\ Pending[i] = q[i - 1] /\ i - 1 \in 1 .. Len(q) - 1
          BY <2>1, <3>2, <4>2
        <5>2. q[(i - 1) + 1] = q[i - 1] + 1
          BY <2>2, <5>1
        <5> QED
          BY <5>1, <5>2
      <4> QED
        BY <4>1, <4>2
    <3>4. ASSUME serving \in clients
          PROVE  Pending[Len(Pending)] = LastBroadcast
      <4>1. CASE q = <<>>
        BY <2>1, <2>2, <2>4, <3>2, <3>4, <4>1
      <4>2. CASE q # <<>>
        BY <2>1, <2>2, <3>2, <3>4, <4>2
      <4> QED
        BY <4>1, <4>2
    <3> QED
      BY <3>3, <3>4
  <2> QED
    BY <2>3, <2>4
<1> QED
  BY <1>1, TypesAndServing, StreamInvariant, PTL

----------------------------------------------------------------------------
(* What the tabs show.                                                      *)

\* Inductive: what a tab shows is not newer than the current event or than what is
\* still to be written to it.
ShownInv ==
    /\ msg <= current
    /\ \A t \in Tabs : shown[t] <= current
    /\ Streaming =>
         /\ \A i \in 1 .. Len(queue[serving]) : queue[serving][i] <= current
         /\ msg # 0 => shown[serving] <= msg
         /\ queue[serving] # <<>> => shown[serving] <= queue[serving][1]

\* Inductive: a registered stream with nothing to write has been given the last event
\* broadcast, unless one was missed before it was registered.
FreshInv ==
    ~missed =>
        /\ spc = "register" => shown[serving] >= LastBroadcast
        /\ spc \in {"get", "write"} /\ serving \in clients
             /\ msg = 0 /\ queue[serving] = <<>> => shown[serving] >= LastBroadcast

LEMMA ShownInvariant == Spec => []ShownInv
<1> USE DashboardAssumption DEF readerVars, serverVars
<1>1. Init => ShownInv
  BY DEF Init, ShownInv, Streaming
<1>2. /\ TypeOK /\ ServingOK /\ StreamInv
      /\ ShownInv /\ [Next]_vars
      => ShownInv'
  <2> SUFFICES ASSUME TypeOK, ServingOK, StreamInv, ShownInv, Next \/ UNCHANGED vars
               PROVE  ShownInv'
    OBVIOUS
  <2> USE DEF ShownInv, Streaming
  <2>0. /\ current \in Nat /\ msg \in Nat
        /\ \A t \in Tabs : queue[t] \in Seq(Nat) /\ shown[t] \in Nat
    BY DEF TypeOK
  <2>1. CASE Browser
    BY <2>1 DEF Browser, Ask, AskPage, Stall, GoOn, Leave
  <2>2. CASE Store
    <3>1. /\ current' = current + 1 /\ msg' = msg /\ shown' = shown /\ queue' = queue
          /\ serving' = serving /\ spc' = spc
      BY <2>2 DEF Store
    <3>2. \A t \in Tabs : shown'[t] <= current'
      BY <2>0, <3>1
    <3>3. ASSUME Streaming, NEW i \in 1 .. Len(queue[serving])
          PROVE  queue[serving][i] <= current + 1
      <4>1. serving \in Tabs
        BY <3>3 DEF ServingOK
      <4> QED
        BY <2>0, <3>3, <4>1
    <3> QED
      BY <2>0, <3>1, <3>2, <3>3
  <2>3. CASE Broadcast
    <3>1. /\ current' = current /\ msg' = msg /\ shown' = shown
          /\ serving' = serving /\ spc' = spc
      BY <2>3 DEF Broadcast
    <3>2. SUFFICES ASSUME Streaming
                   PROVE  /\ \A i \in 1 .. Len(queue'[serving]) : queue'[serving][i] <= current
                          /\ queue'[serving] # <<>> => shown[serving] <= queue'[serving][1]
      BY <3>1
    <3> DEFINE q == queue[serving]
    <3>3. serving \in Tabs /\ q \in Seq(Nat) /\ shown[serving] <= current
      BY <2>0, <3>2 DEF ServingOK
    <3>4. /\ \A i \in 1 .. Len(q) : q[i] <= current
          /\ q # <<>> => shown[serving] <= q[1]
      BY <3>2
    <3>5. queue'[serving] = IF serving \in clients \ Full THEN Append(q, current) ELSE q
      BY <2>3, <3>3 DEF Broadcast, Queued
    <3>6. /\ \A i \in 1 .. Len(Append(q, current)) : Append(q, current)[i] <= current
          /\ shown[serving] <= Append(q, current)[1]
      <4> HIDE DEF q
      <4>1. /\ Len(q) \in Nat /\ Len(Append(q, current)) = Len(q) + 1
            /\ \A i \in 1 .. Len(q) : Append(q, current)[i] = q[i]
            /\ Append(q, current)[Len(q) + 1] = current
        BY <2>0, <3>3
      <4>2. \A i \in 1 .. Len(Append(q, current)) : Append(q, current)[i] <= current
        BY <2>0, <3>4, <4>1
      <4>3. Append(q, current)[1] = IF q = <<>> THEN current ELSE q[1]
        BY <2>0, <3>3, FirstOfAppend
      <4> QED
        BY <3>3, <3>4, <4>2, <4>3
    <3> HIDE DEF q
    <3> QED
      BY <3>4, <3>5, <3>6
  <2>4. CASE ReaderFails \/ ReaderConnects
    BY <2>4 DEF ReaderFails, ReaderConnects
  <2>5. CASE \E t \in Tabs : ServePage(t) \/ ServeStream(t)
    BY <2>5 DEF ServePage, ServeStream
  <2>6. CASE Snapshot
    <3>1. \A t \in Tabs : shown'[t] = shown[t] \/ shown'[t] = current
      BY <2>6 DEF Snapshot, TypeOK
    <3>2. current' = current /\ msg' = msg /\ spc' \in {"register", "accept"}
      BY <2>6 DEF Snapshot, EndRequest
    <3> QED
      BY <2>0, <3>1, <3>2
  <2>7. CASE Register
    <3>1. /\ queue'[serving'] = <<>> /\ msg' = 0 /\ msg = 0
          /\ shown' = shown /\ current' = current
      BY <2>7 DEF Register, TypeOK, ServingOK, StreamInv
    <3>2. Len(<<>>) = 0
      OBVIOUS
    <3> QED
      BY <3>1, <3>2
  <2>8. CASE Get
    <3> DEFINE q == queue[serving]
    <3>1. /\ serving \in Tabs /\ q \in Seq(Nat) /\ q # <<>> /\ spc = "get"
          /\ queue'[serving] = Tail(q) /\ msg' = Head(q) /\ serving' = serving
          /\ shown' = shown /\ current' = current /\ spc' = "write"
      BY <2>0, <2>8 DEF Get, TypeOK, ServingOK
    <3>2. /\ \A i \in 1 .. Len(q) - 1 : q[i + 1] = q[i] + 1
          /\ \A i \in 1 .. Len(q) : q[i] <= current
          /\ shown[serving] <= q[1]
      BY <3>1 DEF StreamInv
    <3> HIDE DEF q
    <3>3. /\ Tail(q) \in Seq(Nat) /\ Len(Tail(q)) = Len(q) - 1
          /\ Tail(q) # <<>> => Tail(q)[1] = Head(q) + 1
      BY <3>1, <3>2, TailWithoutGap
    <3>4. Len(q) \in Nat \ {0} /\ Head(q) = q[1] /\ q[1] \in Nat
      BY <3>1, EmptySeq
    <3>5. \A i \in 1 .. Len(Tail(q)) : Tail(q)[i] <= current
      <4>1. \A i \in 1 .. Len(Tail(q)) : Tail(q)[i] = q[i + 1]
        BY <3>1
      <4> QED
        BY <3>2, <3>3, <3>4, <4>1
    <3>6. Head(q) <= current /\ shown[serving] <= Head(q)
      BY <3>2, <3>4
    <3>7. Tail(q) # <<>> => shown[serving] <= Tail(q)[1]
      BY <2>0, <3>1, <3>3, <3>4, <3>6
    <3> QED
      BY <3>1, <3>5, <3>6, <3>7
  <2>9. CASE Heartbeat
    BY <2>0, <2>9 DEF Heartbeat
  <2>10. CASE Write
    <3>1. /\ current' = current /\ msg' = 0 /\ queue' = queue /\ serving' = serving
          /\ serving \in Tabs /\ Streaming
      BY <2>10 DEF Write, ServingOK, Streaming
    <3>4. \A t \in Tabs : \/ shown'[t] = shown[t]
                          \/ t = serving /\ msg # 0 /\ shown'[t] = msg
      BY <2>10 DEF Write, TypeOK
    <3>2. \A t \in Tabs : shown'[t] <= current'
      BY <2>0, <3>1, <3>4
    <3>3. queue[serving] # <<>> => shown'[serving] <= queue[serving][1]
      <4>1. SUFFICES ASSUME queue[serving] # <<>>, msg # 0, shown'[serving] = msg
                     PROVE  msg <= queue[serving][1]
        BY <3>1, <3>4
      <4>2. queue[serving][1] = msg + 1
        BY <3>1, <4>1 DEF StreamInv
      <4> QED
        BY <2>0, <4>2
    <3> QED
      BY <2>0, <3>1, <3>2, <3>3
  <2>11. CASE Unregister
    BY <2>11 DEF Unregister, EndRequest
  <2>12. CASE UNCHANGED vars
    BY <2>12 DEF vars
  <2> QED
    BY <2>1, <2>2, <2>3, <2>4, <2>5, <2>6, <2>7, <2>8, <2>9, <2>10, <2>11, <2>12
       DEF Next, Reader, Server
<1> QED
  BY <1>1, <1>2, TypesAndServing, StreamInvariant, PTL DEF Spec

\* A tab never goes back to an older event.
THEOREM NeverBack == Spec => ShownGoesForward
<1>1. TypeOK /\ ServingOK /\ ShownInv /\ [Next]_vars
      => [\A t \in Tabs : shown'[t] >= shown[t]]_shown
  <2> SUFFICES ASSUME TypeOK, ServingOK, ShownInv, Next, NEW t \in Tabs
               PROVE  shown'[t] >= shown[t] \/ shown' = shown
    BY DEF vars
  <2>0. shown[t] \in Nat /\ current \in Nat /\ msg \in Nat
    BY DashboardAssumption DEF TypeOK
  <2>1. CASE Snapshot
    <3>1. shown'[t] = shown[t] \/ shown'[t] = current
      BY <2>1 DEF Snapshot, TypeOK
    <3> QED
      BY <2>0, <3>1 DEF ShownInv
  <2>2. CASE Write
    <3>1. \/ shown'[t] = shown[t]
          \/ t = serving /\ msg # 0 /\ shown'[t] = msg
      BY <2>2 DEF Write, TypeOK
    <3>2. Streaming
      BY <2>2 DEF Write, Streaming
    <3> QED
      BY <2>0, <3>1, <3>2 DEF ShownInv
  <2>3. CASE ~Snapshot /\ ~Write
    BY <2>3 DEF Next, Browser, Ask, AskPage, Stall, GoOn, Leave, Reader, Store, Broadcast,
       ReaderFails, ReaderConnects, Server, ServePage, ServeStream, Register, Get, Heartbeat,
       Unregister
  <2> QED
    BY <2>1, <2>2, <2>3
<1> QED
  BY <1>1, TypesAndServing, ShownInvariant, PTL DEF Spec, ShownGoesForward

LEMMA FreshInvariant == Spec => []FreshInv
<1> USE DashboardAssumption DEF readerVars, serverVars
<1>1. Init => FreshInv
  BY DEF Init, FreshInv
<1>2. /\ TypeOK /\ ServingOK /\ NoQueueLeftBehind /\ StreamInv
      /\ FreshInv /\ [Next]_vars
      => FreshInv'
  <2> SUFFICES ASSUME TypeOK, ServingOK, NoQueueLeftBehind, StreamInv, FreshInv,
                      Next \/ UNCHANGED vars
               PROVE  FreshInv'
    OBVIOUS
  <2> USE DEF FreshInv
  <2>0. /\ current \in Nat /\ msg \in Nat
        /\ \A t \in Tabs : queue[t] \in Seq(Nat) /\ shown[t] \in Nat
    BY DEF TypeOK
  <2>1. CASE Browser
    BY <2>1 DEF Browser, Ask, AskPage, Stall, GoOn, Leave, LastBroadcast
  <2>2. CASE Store
    <3>1. LastBroadcast' = LastBroadcast
      BY <2>0, <2>2 DEF Store, LastBroadcast
    <3> QED
      BY <2>2, <3>1 DEF Store
  <2>3. CASE Broadcast
    <3>1. /\ shown' = shown /\ serving' = serving /\ spc' = spc /\ msg' = msg
          /\ LastBroadcast' = current
          /\ ~missed' => ~missed /\ ~(spc = "register" /\ shown[serving] < current)
      BY <2>3 DEF Broadcast, LastBroadcast
    <3>2. ASSUME ~missed', spc = "register"
          PROVE  shown[serving] >= current
      <4>1. serving \in Tabs
        BY <3>2 DEF ServingOK
      <4> QED
        BY <2>0, <3>1, <3>2, <4>1
    <3>3. ASSUME spc \in {"get", "write"}, serving \in clients', queue'[serving] = <<>>
          PROVE  FALSE
      <4>1. serving \in Tabs /\ serving \in clients \ Full
        BY <2>3, <3>3 DEF ServingOK, Broadcast, Dead
      <4>2. queue'[serving] = Append(queue[serving], current)
        BY <2>3, <4>1 DEF Broadcast, Queued
      <4>3. Len(queue'[serving]) # 0
        BY <2>0, <4>1, <4>2
      <4>4. Len(<<>>) = 0
        OBVIOUS
      <4> QED
        BY <3>3, <4>3, <4>4, Zenon
    <3> QED
      BY <3>1, <3>2, <3>3
  <2>4. CASE ReaderFails \/ ReaderConnects
    BY <2>4 DEF ReaderFails, ReaderConnects, LastBroadcast
  <2>5. CASE \E t \in Tabs : ServePage(t) \/ ServeStream(t)
    BY <2>5 DEF ServePage, ServeStream
  <2>6. CASE Snapshot
    <3>1. CASE spc' = "register"
      <4>1. /\ serving' = serving /\ serving \in Tabs /\ LastBroadcast' = LastBroadcast
            /\ shown'[serving] = IF current = 0 THEN shown[serving] ELSE current
        BY <2>6, <3>1 DEF Snapshot, EndRequest, TypeOK, ServingOK, LastBroadcast
      <4>2. LastBroadcast <= current /\ LastBroadcast \in Int
        BY <2>0 DEF LastBroadcast
      <4> QED
        BY <2>0, <3>1, <4>1, <4>2
    <3>2. CASE spc' # "register"
      BY <2>6, <3>2 DEF Snapshot, EndRequest
    <3> QED
      BY <3>1, <3>2
  <2>7. CASE Register
    BY <2>7 DEF Register, LastBroadcast
  <2>8. CASE Get
    <3>1. serving \in Tabs /\ queue[serving] # <<>>
      BY <2>8 DEF Get, ServingOK
    <3>2. Head(queue[serving]) \in 1 .. MaxEvents
      BY <3>1 DEF TypeOK
    <3>3. msg' # 0 /\ spc' = "write"
      BY <2>8, <3>2 DEF Get
    <3> QED
      BY <3>3
  <2>9. CASE Heartbeat
    <3>1. msg = 0
      BY <2>9 DEF Heartbeat, StreamInv
    <3> QED
      BY <2>9, <3>1 DEF Heartbeat, LastBroadcast
  <2>10. CASE Write
    <3>1. /\ queue' = queue /\ serving' = serving /\ clients' = clients /\ missed' = missed
          /\ LastBroadcast' = LastBroadcast /\ serving \in Tabs /\ spc = "write"
          /\ spc' \in {"get", "unregister"}
      BY <2>10 DEF Write, ServingOK, LastBroadcast
    <3>2. CASE spc' = "unregister"
      BY <3>2
    <3>3. CASE spc' = "get"
      <4>1. shown'[serving] = IF msg = 0 THEN shown[serving] ELSE msg
        BY <2>10, <3>1, <3>3 DEF Write, TypeOK
      <4>2. SUFFICES ASSUME ~missed, serving \in clients, queue[serving] = <<>>
                     PROVE  shown'[serving] >= LastBroadcast
        BY <3>1, <3>3
      <4>3. msg # 0 => msg = LastBroadcast
        BY <3>1, <4>2 DEF StreamInv, Streaming
      <4>4. msg = 0 => shown[serving] >= LastBroadcast
        BY <3>1, <4>2
      <4>5. LastBroadcast \in Int
        BY <2>0 DEF LastBroadcast
      <4> QED
        BY <2>0, <4>1, <4>3, <4>4, <4>5
    <3> QED
      BY <3>1, <3>2, <3>3
  <2>11. CASE Unregister
    BY <2>11 DEF Unregister, EndRequest
  <2>12. CASE UNCHANGED vars
    BY <2>12 DEF vars, LastBroadcast
  <2> QED
    BY <2>1, <2>2, <2>3, <2>4, <2>5, <2>6, <2>7, <2>8, <2>9, <2>10, <2>11, <2>12
       DEF Next, Reader, Server
<1> QED
  BY <1>1, <1>2, TypesAndServing, NobodyLeftBehind, StreamInvariant, PTL DEF Spec

\* What an open, idle tab shows is the current event, unless it was evicted or one fell
\* between its snapshot and its registration.
THEOREM StaleOnlyThen == Spec => []StaleOnlyByGap
<1>1. TypeOK /\ ServingOK /\ StreamInv /\ ShownInv /\ FreshInv => StaleOnlyByGap
  <2> SUFFICES ASSUME TypeOK, ServingOK, StreamInv, ShownInv, FreshInv, Idle,
                      serving \in clients, ~missed
               PROVE  shown[serving] = current
    BY DEF StaleOnlyByGap
  <2>1. serving \in Tabs /\ msg = 0 /\ LastBroadcast = current
    BY DEF Idle, ServingOK, StreamInv, LastBroadcast
  <2>2. shown[serving] <= current /\ shown[serving] >= current
    BY <2>1 DEF Idle, ShownInv, FreshInv
  <2>3. shown[serving] \in Nat /\ current \in Nat
    BY <2>1, DashboardAssumption DEF TypeOK
  <2> QED
    BY <2>2, <2>3
<1> QED
  BY <1>1, TypesAndServing, StreamInvariant, ShownInvariant, FreshInvariant, PTL
=============================================================================
