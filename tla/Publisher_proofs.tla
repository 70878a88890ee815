-------------------------- MODULE Publisher_proofs --------------------------
(***************************************************************************)
(* Proofs about Publisher, for any capacity of the device's queue and any  *)
(* number of events and faults.                                            *)
(***************************************************************************)
EXTENDS Publisher, SequenceTheorems, TLAPS

----------------------------------------------------------------------------
(* Types.                                                                   *)

\* The newest of a queue with an event behind it are a queue within the capacity.
LEMMA NewestOfAppend ==
    ASSUME Capacity \in Nat \ {0}, NEW S, NEW s \in Seq(S), NEW e \in S
    PROVE  /\ Newest(Append(s, e)) \in Seq(S)
           /\ Newest(Append(s, e)) = Append(s, e) \/ Newest(Append(s, e)) = Tail(Append(s, e))
<1>1. Append(s, e) \in Seq(S) /\ Append(s, e) # <<>>
  BY AppendProperties
<1>2. Tail(Append(s, e)) \in Seq(S)
  BY <1>1, HeadTailProperties
<1> QED
  BY <1>1, <1>2 DEF Newest

\* The event in hand is one that came.
HandOK == dpc = "publish" => taken \in Events

\* Who goes on has the answer to CONNECT; and before a connection is set up, or once it
\* is cut, there were as many faults as connections.
LinksOK ==
    /\ conn = "asked" => dpc \in {"connack", "sleep"}
    /\ dpc \in {"connect", "sleep"} \/ conn \in {"stale", "broken"} => links <= faults

LEMMA CutTypes ==
    ASSUME NEW S \in SUBSET Links, wire \in [Links -> Seq(Events)], cut \subseteq Links, Cut(S)
    PROVE  wire' \in [Links -> Seq(Events)] /\ cut' \subseteq Links
<1>1. <<>> \in Seq(Events)
  BY EmptySeq
<1> QED
  BY <1>1 DEF Cut

LEMMA SocketTypes ==
    ASSUME NEW S, conn \in {"none", "asked", "open", "stale", "broken"},
           conn' \in SocketAfterCut(S)
    PROVE  /\ conn' \in {"none", "asked", "open", "stale", "broken"}
           /\ conn = "none" => conn' = "none"
           /\ conn' = conn \/ conn' \in {"stale", "broken"}
BY DEF SocketAfterCut

LEMMA TypesAndHand == Spec => [](TypeOK /\ HandOK /\ LinksOK)
<1> USE PublisherAssumption DEF Events
<1>1. Init => TypeOK /\ HandOK /\ LinksOK
  <2> SUFFICES ASSUME Init PROVE TypeOK /\ HandOK /\ LinksOK
    OBVIOUS
  <2>1. <<>> \in Seq(Events)
    BY EmptySeq
  <2>2. /\ fifo \in Seq(Events) /\ received \in Seq(Events)
        /\ wire \in [Links -> Seq(Events)] /\ handed \in [Links -> Seq(Events)]
        /\ got \in [Links -> Seq(Events)]
    BY <2>1 DEF Init, FifoInit
  <2>3. /\ 0 \in 0 .. MaxPushed /\ 0 \in 0 .. MaxFaults /\ 0 \in 0 .. 2
        /\ 0 \in 0 .. 0 + 1 /\ 0 <= 0
    OBVIOUS
  <2> QED
    BY <2>2, <2>3 DEF Init, FifoInit, TypeOK, HandOK, LinksOK
<1>2. TypeOK /\ HandOK /\ LinksOK /\ [Next]_vars => (TypeOK /\ HandOK /\ LinksOK)'
  <2> SUFFICES ASSUME TypeOK, HandOK, LinksOK, Next \/ UNCHANGED vars
               PROVE  (TypeOK /\ HandOK /\ LinksOK)'
    OBVIOUS
  <2> USE DEF TypeOK, HandOK, LinksOK, fifoVars, netVars, linkVars, history
  <2>1. CASE DriverPushes
    <3>1. pushed' \in Events /\ pushed' \in 0 .. MaxPushed
      BY <2>1 DEF DriverPushes, Put
    <3>2. fifo' \in Seq(Events)
      BY <2>1, <3>1, NewestOfAppend DEF DriverPushes, Put
    <3> QED
      BY <2>1, <3>1, <3>2 DEF DriverPushes, Put
  <2>2. CASE BrokerDown
    <3> DEFINE S == {c \in Links : Live(c)}
    <3>1. Cut(S) /\ conn' \in SocketAfterCut(S) /\ S \in SUBSET Links
      BY <2>2 DEF BrokerDown
    <3> HIDE DEF S
    <3>2. wire' \in [Links -> Seq(Events)] /\ cut' \subseteq Links
      BY <3>1, CutTypes
    <3>3. /\ conn' \in {"none", "asked", "open", "stale", "broken"}
          /\ conn = "none" => conn' = "none"
          /\ conn' = "asked" => conn = "asked"
      BY <3>1, SocketTypes
    <3>4. faults' \in 0 .. MaxFaults /\ links' \in 0 .. faults' + 1 /\ links' <= faults'
      BY <2>2 DEF BrokerDown, Fault
    <3> QED
      BY <2>2, <3>2, <3>3, <3>4 DEF BrokerDown
  <2>3. CASE LinkBreaks
    <3>1. PICK c \in Links : Cut({c}) /\ conn' \in SocketAfterCut({c})
      BY <2>3 DEF LinkBreaks
    <3>2. wire' \in [Links -> Seq(Events)] /\ cut' \subseteq Links
      <4>1. {c} \in SUBSET Links
        OBVIOUS
      <4> QED
        BY <3>1, <4>1, CutTypes
    <3>3. /\ conn' \in {"none", "asked", "open", "stale", "broken"}
          /\ conn = "none" => conn' = "none"
          /\ conn' = "asked" => conn = "asked"
      BY <3>1, SocketTypes
    <3>4. faults' \in 0 .. MaxFaults /\ links' \in 0 .. faults' + 1 /\ links' <= faults'
      BY <2>3 DEF LinkBreaks, Fault
    <3> QED
      BY <2>3, <3>2, <3>3, <3>4 DEF LinkBreaks
  <2>4. CASE BrokerUp
    BY <2>4 DEF BrokerUp
  <2>5. CASE BrokerAccepts
    <3>1. Cut(TakenOver) /\ TakenOver \in SUBSET Links
      BY <2>5 DEF BrokerAccepts, TakenOver
    <3>2. wire' \in [Links -> Seq(Events)] /\ cut' \subseteq Links
      BY <3>1, CutTypes
    <3> QED
      BY <2>5, <3>2 DEF BrokerAccepts
  <2>6. CASE BrokerReceives
    <3>1. PICK c \in Links :
            /\ wire[c] # <<>>
            /\ received' = Append(received, Head(wire[c]))
            /\ got' = [got EXCEPT ![c] = Append(got[c], Head(wire[c]))]
            /\ wire' = [wire EXCEPT ![c] = Tail(wire[c])]
      BY <2>6 DEF BrokerReceives
    <3>2. Head(wire[c]) \in Events /\ Tail(wire[c]) \in Seq(Events)
      BY <3>1, HeadTailProperties
    <3>3. /\ Append(received, Head(wire[c])) \in Seq(Events)
          /\ Append(got[c], Head(wire[c])) \in Seq(Events)
      BY <3>2, AppendProperties
    <3>4. received' \in Seq(Events) /\ got' \in [Links -> Seq(Events)]
          /\ wire' \in [Links -> Seq(Events)]
      BY <3>1, <3>2, <3>3
    <3> QED
      BY <2>6, <3>4 DEF BrokerReceives
  <2>7. CASE Connect
    <3>1. links' \in 0 .. faults' + 1 /\ faults' = faults
      BY <2>7 DEF Connect
    <3> QED
      BY <2>7, <3>1 DEF Connect
  <2>8. CASE Accepted \/ OpenDevice \/ HungUp
    BY <2>8 DEF Accepted, OpenDevice, HungUp
  <2>9. CASE Refused \/ OpenFails \/ ReadEnds
    <3>1. faults' \in 0 .. MaxFaults /\ links' \in 0 .. faults' + 1 /\ links' <= faults'
      BY <2>9 DEF Refused, OpenFails, ReadEnds, Fault
    <3> QED
      BY <2>9, <3>1 DEF Refused, OpenFails, ReadEnds, Disconnected
  <2>10. CASE Read
    <3>1. taken' = Head(fifo) /\ fifo' = Tail(fifo) /\ fifo # <<>>
      BY <2>10 DEF Read, Take
    <3>2. taken' \in Events /\ fifo' \in Seq(Events)
      BY <3>1, HeadTailProperties
    <3>3. handed' \in [Links -> Seq(Events)]
      <4>1. \A c \in Links : Append(handed[c], taken') \in Seq(Events)
        BY <3>2, AppendProperties
      <4> QED
        BY <2>10, <4>1 DEF Read
    <3>4. /\ dpc = "read" /\ dpc' = "publish"
          /\ UNCHANGED <<pushed, broker, faults, conn, links, wire, cut, got, received, errors>>
      BY <2>10 DEF Read, Take
    <3> QED
      BY <3>2, <3>3, <3>4
  <2>11. CASE Publish
    <3>1. wire' \in [Links -> Seq(Events)]
      <4>1. \A c \in Links : Append(wire[c], taken) \in Seq(Events)
        BY <2>11, AppendProperties DEF Publish
      <4> QED
        BY <2>11, <4>1 DEF Publish
    <3>2. errors' \in 0 .. 2
      BY <2>11 DEF Publish
    <3>3. conn \in {"none", "open", "stale", "broken"}
      BY <2>11 DEF Publish
    <3>4. /\ conn' \in {"none", "open", "stale", "broken"}
          /\ conn' \in {"stale", "broken"} => conn \in {"stale", "broken"}
      BY <2>11, <3>3 DEF Publish, Sent, Raises, SocketAfterRaise
    <3> QED
      BY <2>11, <3>1, <3>2, <3>3, <3>4 DEF Publish
  <2>12. CASE Sleep
    BY <2>12 DEF Sleep, AfterSleep
  <2>13. CASE UNCHANGED vars
    BY <2>13 DEF vars
  <2> QED
    BY <2>1, <2>2, <2>3, <2>4, <2>5, <2>6, <2>7, <2>8, <2>9, <2>10, <2>11, <2>12, <2>13
       DEF Next, Daemon, Faults
<1> QED
  BY <1>1, <1>2, PTL DEF Spec

\* Types; the daemon never connects with a socket still open, and sets up a new
\* connection only after a fault of the one before.
THEOREM TypeCorrect == Spec => []TypeOK
<1> QED
  BY TypesAndHand, PTL

----------------------------------------------------------------------------
(* The device is the abstract queue, whatever the daemon does, so what       *)
(* follows from FifoSpec holds of it.                                       *)

\* Every step of the daemon and the driver takes an event from the queue, puts one
\* in or leaves it alone.
THEOREM DeviceIsFifo == Spec => FifoSpec
<1>1. Init => FifoInit
  BY DEF Init
<1>2. [Next]_vars => [Put \/ Take]_fifoVars
  BY DEF Next, vars, DriverPushes, BrokerUp, BrokerAccepts, BrokerReceives, Daemon, Faults,
     BrokerDown, LinkBreaks, Connect, Accepted, Refused, HungUp, OpenDevice, OpenFails, Read,
     ReadEnds, Publish, Sleep
<1> QED
  BY <1>1, <1>2, PTL DEF Spec, FifoSpec

Increasing(s) == \A i, j \in 1 .. Len(s) : i < j => s[i] < s[j]

LEMMA HeadAndTail ==
    ASSUME NEW S, NEW s \in Seq(S), s # <<>>
    PROVE  <<Head(s)>> \o Tail(s) = s
OBVIOUS

LEMMA IncreasingAppend ==
    ASSUME NEW s \in Seq(Nat), NEW e \in Nat, Increasing(s),
           \A i \in 1 .. Len(s) : s[i] < e
    PROVE  Increasing(Append(s, e))
<1>1. /\ Len(Append(s, e)) = Len(s) + 1 /\ Len(s) \in Nat
      /\ \A i \in 1 .. Len(s) : Append(s, e)[i] = s[i]
      /\ Append(s, e)[Len(s) + 1] = e
  BY AppendProperties
<1>2. SUFFICES ASSUME NEW i \in 1 .. Len(s) + 1, NEW j \in 1 .. Len(s) + 1, i < j
               PROVE  Append(s, e)[i] < Append(s, e)[j]
  BY <1>1 DEF Increasing
<1>3. CASE j = Len(s) + 1
  BY <1>1, <1>2, <1>3
<1>4. CASE j # Len(s) + 1
  <2>1. i \in 1 .. Len(s) /\ j \in 1 .. Len(s)
    BY <1>1, <1>2, <1>4
  <2> QED
    BY <1>1, <1>2, <2>1 DEF Increasing
<1> QED
  BY <1>3, <1>4

LEMMA IncreasingTail ==
    ASSUME NEW s \in Seq(Nat), s # <<>>, Increasing(s)
    PROVE  /\ Increasing(Tail(s))
           /\ Head(s) = s[1] /\ 1 \in 1 .. Len(s)
           /\ \A i \in 1 .. Len(Tail(s)) :
                i + 1 \in 1 .. Len(s) /\ Tail(s)[i] = s[i + 1] /\ Head(s) < Tail(s)[i]
<1>1. /\ Tail(s) \in Seq(Nat) /\ Len(Tail(s)) = Len(s) - 1
      /\ \A i \in 1 .. Len(Tail(s)) : Tail(s)[i] = s[i + 1]
  BY HeadTailProperties
<1>2. Len(s) \in Nat \ {0} /\ Head(s) = s[1]
  BY EmptySeq
<1> QED
  BY <1>1, <1>2 DEF Increasing

\* Inductive: what waits is newer than what was handed out and is in order.
FifoOrdered ==
    /\ fifo \in Seq(Nat) /\ pushed \in Nat /\ taken \in Nat
    /\ taken <= pushed
    /\ \A i \in 1 .. Len(fifo) : taken < fifo[i] /\ fifo[i] <= pushed
    /\ Increasing(fifo)

LEMMA FifoInOrder == ASSUME Capacity \in Nat \ {0} PROVE FifoSpec => []FifoOrdered
<1>1. FifoInit => FifoOrdered
  <2> SUFFICES ASSUME FifoInit PROVE FifoOrdered
    OBVIOUS
  <2>1. fifo \in Seq(Nat) /\ Len(fifo) = 0
    BY EmptySeq DEF FifoInit
  <2> QED
    BY <2>1 DEF FifoInit, FifoOrdered, Increasing
<1>2. FifoOrdered /\ [Put \/ Take]_fifoVars => FifoOrdered'
  <2> SUFFICES ASSUME FifoOrdered, (Put \/ Take) \/ UNCHANGED fifoVars
               PROVE  FifoOrdered'
    OBVIOUS
  <2>1. CASE Put
    <3> DEFINE e == pushed + 1
               s == Append(fifo, e)
    <3>1. /\ pushed' = e /\ taken' = taken /\ e \in Nat
          /\ fifo' = s \/ fifo' = Tail(s)
      <4>1. pushed' = e /\ taken' = taken /\ fifo' = Newest(s)
        BY <2>1 DEF Put
      <4>2. e \in Nat /\ fifo \in Seq(Nat)
        BY DEF FifoOrdered
      <4> QED
        BY <4>1, <4>2, NewestOfAppend
    <3>2. /\ s \in Seq(Nat) /\ s # <<>> /\ Increasing(s)
          /\ Len(s) = Len(fifo) + 1 /\ Len(fifo) \in Nat
          /\ \A i \in 1 .. Len(fifo) : s[i] = fifo[i]
          /\ s[Len(fifo) + 1] = e
      <4>1. fifo \in Seq(Nat) /\ Increasing(fifo) /\ \A i \in 1 .. Len(fifo) : fifo[i] < e
        BY <3>1 DEF FifoOrdered
      <4>2. Increasing(s)
        BY <3>1, <4>1, IncreasingAppend
      <4> QED
        BY <3>1, <4>1, <4>2, AppendProperties, LenProperties
    <3>3. \A i \in 1 .. Len(s) : taken < s[i] /\ s[i] <= e
      <4> SUFFICES ASSUME NEW i \in 1 .. Len(s)
                   PROVE  taken < s[i] /\ s[i] <= e
        OBVIOUS
      <4>1. CASE i = Len(fifo) + 1
        BY <3>2, <4>1 DEF FifoOrdered
      <4>2. CASE i # Len(fifo) + 1
        <5>1. i \in 1 .. Len(fifo) /\ s[i] = fifo[i]
          BY <3>2, <4>2
        <5>2. fifo[i] \in Nat
          BY <5>1 DEF FifoOrdered
        <5> QED
          BY <5>1, <5>2 DEF FifoOrdered
      <4> QED
        BY <4>1, <4>2
    <3> HIDE DEF s
    <3>4. CASE fifo' = s
      BY <3>1, <3>2, <3>3, <3>4 DEF FifoOrdered
    <3>5. CASE fifo' = Tail(s)
      <4>1. Tail(s) \in Seq(Nat) /\ Increasing(Tail(s))
        BY <3>2, HeadTailProperties, IncreasingTail
      <4>2. \A i \in 1 .. Len(Tail(s)) : taken < Tail(s)[i] /\ Tail(s)[i] <= e
        BY <3>2, <3>3, IncreasingTail
      <4> QED
        BY <3>1, <3>5, <4>1, <4>2 DEF FifoOrdered
    <3> QED
      BY <3>1, <3>4, <3>5
  <2>2. CASE Take
    <3>1. fifo # <<>> /\ taken' = Head(fifo) /\ fifo' = Tail(fifo) /\ pushed' = pushed
      BY <2>2 DEF Take
    <3>2. Head(fifo) \in Nat /\ Tail(fifo) \in Seq(Nat) /\ Increasing(Tail(fifo))
      BY <3>1, HeadTailProperties, IncreasingTail DEF FifoOrdered
    <3>3. /\ Head(fifo) <= pushed
          /\ \A i \in 1 .. Len(Tail(fifo)) :
               Head(fifo) < Tail(fifo)[i] /\ Tail(fifo)[i] <= pushed
      BY <3>1, IncreasingTail DEF FifoOrdered
    <3> QED
      BY <3>1, <3>2, <3>3 DEF FifoOrdered
  <2>3. CASE UNCHANGED fifoVars
    BY <2>3 DEF fifoVars, FifoOrdered, Increasing
  <2> QED
    BY <2>1, <2>2, <2>3
<1> QED
  BY <1>1, <1>2, PTL DEF FifoSpec

----------------------------------------------------------------------------
(* The order at the broker.                                                  *)

\* Every event of s is older than the one in hand, and than those in the device.
Older(s) == \A i \in 1 .. Len(s) : s[i] <= taken /\ (dpc = "publish" => s[i] < taken)

\* The events under way on one connection, after those that were received.
WireOrdered(w) ==
    /\ Increasing(w) /\ Older(w)
    /\ \A i \in 1 .. Len(received), j \in 1 .. Len(w) : received[i] < w[j]

\* Inductive: received, under way, in hand, in the device: the events only get newer;
\* and the next connection is not open before the broker ended the others.
OrderInv ==
    /\ Increasing(received) /\ Older(received)
    /\ \A c \in Links : WireOrdered(wire[c])
    /\ \A c, d \in Links : wire[c] # <<>> /\ wire[d] # <<>> => c = d
    /\ conn = "open" => \A c \in Links : c # links => wire[c] = <<>>

LEMMA EmptyWire == WireOrdered(<<>>)
<1>1. Len(<<>>) = 0
  OBVIOUS
<1> QED
  BY <1>1 DEF WireOrdered, Increasing, Older

\* The daemon's steps but reading and publishing, and all of the others' but receiving:
\* nothing gets on the way, the event in hand stays or is let go, and the broker
\* accepts a connection only when it ended the others.
LEMMA OtherSteps ==
    ASSUME TypeOK, Next \/ UNCHANGED vars, ~Read, ~Publish, ~BrokerReceives
    PROVE  /\ taken' = taken /\ received' = received
           /\ \A c \in Links : wire'[c] \in {wire[c], <<>>}
           /\ dpc' = "publish" <=> dpc = "publish"
           /\ conn' = "open" => \/ \A c \in Links : c # links' => wire'[c] = <<>>
                                \/ conn = "open" /\ links' = links
<1> USE DEF fifoVars, netVars, linkVars, history, TypeOK
<1>1. ASSUME NEW S, Cut(S)
      PROVE  \A c \in Links : wire'[c] \in {wire[c], <<>>}
  BY <1>1 DEF Cut
<1>2. CASE BrokerDown \/ LinkBreaks
  <2>1. PICK S : Cut(S) /\ conn' \in SocketAfterCut(S)
    BY <1>2 DEF BrokerDown, LinkBreaks
  <2>2. conn' = "open" => conn = "open"
    BY <2>1, SocketTypes
  <2> QED
    BY <1>1, <1>2, <2>1, <2>2 DEF BrokerDown, LinkBreaks
<1>3. CASE BrokerAccepts
  <2>1. Cut(TakenOver) /\ links' = links
    BY <1>3 DEF BrokerAccepts
  <2>2. \A c \in Links : c # links' => wire'[c] = <<>>
    BY <2>1 DEF Cut, TakenOver, Live
  <2> QED
    BY <1>1, <1>3, <2>1, <2>2 DEF BrokerAccepts
<1>4. CASE DriverPushes \/ BrokerUp \/ UNCHANGED vars
  BY <1>4 DEF DriverPushes, Put, BrokerUp, vars
<1>5. CASE Connect \/ Accepted \/ HungUp \/ OpenDevice \/ Sleep
  BY <1>5 DEF Connect, Accepted, HungUp, OpenDevice, Sleep, AfterSleep
<1>6. CASE Refused \/ OpenFails \/ ReadEnds
  BY <1>6 DEF Refused, OpenFails, ReadEnds, Disconnected
<1> QED
  BY <1>2, <1>3, <1>4, <1>5, <1>6 DEF Next, Daemon, Faults

LEMMA OrderInvariant == Spec => []OrderInv
<1>1. Init => OrderInv
  <2> SUFFICES ASSUME Init PROVE OrderInv
    OBVIOUS
  <2>1. Len(received) = 0 /\ \A c \in Links : wire[c] = <<>>
    BY EmptySeq DEF Init
  <2>2. Increasing(received) /\ Older(received) /\ \A c \in Links : WireOrdered(wire[c])
    BY <2>1, EmptyWire DEF Older, Increasing
  <2> QED
    BY <2>1, <2>2 DEF OrderInv
<1>2. TypeOK /\ FifoOrdered /\ OrderInv /\ [Next]_vars => OrderInv'
  <2> SUFFICES ASSUME TypeOK, FifoOrdered, OrderInv, Next \/ UNCHANGED vars
               PROVE  OrderInv'
    OBVIOUS
  <2>0. /\ received \in Seq(Nat) /\ taken \in Nat
        /\ \A i \in 1 .. Len(received) : received[i] \in Nat
        /\ \A c \in Links : wire[c] \in Seq(Nat) /\ \A i \in 1 .. Len(wire[c]) : wire[c][i] \in Nat
    BY PublisherAssumption DEF TypeOK, Events
  <2>1. CASE Read
    <3>1. /\ taken' \in Nat /\ taken < taken'
          /\ received' = received /\ wire' = wire /\ conn' = conn /\ links' = links
      <4>1. fifo # <<>> /\ taken' = Head(fifo)
        BY <2>1 DEF Read, Take
      <4>2. fifo[1] \in Nat /\ Head(fifo) = fifo[1] /\ 1 \in 1 .. Len(fifo)
        BY <4>1, IncreasingTail, HeadTailProperties DEF FifoOrdered
      <4> QED
        BY <2>1, <4>1, <4>2 DEF FifoOrdered, Read, linkVars
    <3>2. ASSUME NEW s, \A i \in 1 .. Len(s) : s[i] \in Nat, Older(s)
          PROVE  \A i \in 1 .. Len(s) : s[i] < taken' /\ s[i] <= taken'
      BY <2>0, <3>1, <3>2 DEF Older
    <3>3. Older(received)'
      BY <2>0, <3>1, <3>2 DEF OrderInv, Older
    <3>4. \A c \in Links : WireOrdered(wire[c])'
      BY <2>0, <3>1, <3>2 DEF OrderInv, Older, WireOrdered, Increasing
    <3> QED
      BY <3>1, <3>3, <3>4 DEF OrderInv, Increasing
  <2>2. CASE Publish
    <3>1. /\ dpc = "publish" /\ dpc' = "read" /\ taken' = taken /\ received' = received
          /\ links' = links
          /\ \/ conn = "open" /\ wire' = [wire EXCEPT ![links] = Append(wire[links], taken)]
             \/ wire' = wire
      BY <2>2 DEF Publish, fifoVars, Sent
    <3>2. conn' = "open" => conn = "open"
      BY <2>2 DEF Publish, Sent, Raises, SocketAfterRaise
    <3>3. ASSUME NEW c \in Links, wire'[c] = wire[c]
          PROVE  WireOrdered(wire[c])'
      BY <3>1, <3>3 DEF OrderInv, WireOrdered, Increasing, Older
    <3>4. Increasing(received)' /\ Older(received)'
      BY <3>1 DEF OrderInv, Increasing, Older
    <3>5. CASE wire' = wire
      BY <3>1, <3>2, <3>3, <3>4, <3>5 DEF OrderInv
    <3>6. CASE conn = "open" /\ wire' = [wire EXCEPT ![links] = Append(wire[links], taken)]
      <4>1. \A c \in Links : c # links => wire'[c] = wire[c] /\ wire[c] = <<>>
        BY <3>6 DEF OrderInv, TypeOK
      <4>2. ASSUME links \in Links
            PROVE  WireOrdered(wire[links])'
        <5> DEFINE v == wire[links]
                   w == Append(v, taken)
        <5>1. v \in Seq(Nat) /\ WireOrdered(v)
          BY <2>0, <4>2 DEF OrderInv
        <5>2. \A i \in 1 .. Len(v) : v[i] < taken
          BY <3>1, <5>1 DEF WireOrdered, Older
        <5>3. wire'[links'] = w
          BY <3>1, <3>6, <4>2 DEF TypeOK
        <5> HIDE DEF v
        <5>4. /\ Len(w) = Len(v) + 1 /\ Len(v) \in Nat
              /\ \A i \in 1 .. Len(v) : w[i] = v[i]
              /\ w[Len(v) + 1] = taken
              /\ Increasing(w)
          BY <2>0, <5>1, <5>2, AppendProperties, IncreasingAppend DEF WireOrdered
        <5>5. \A i \in 1 .. Len(w) : (i \in 1 .. Len(v) /\ w[i] = v[i]) \/ w[i] = taken
          BY <5>4
        <5> HIDE DEF w
        <5>6. \A i \in 1 .. Len(w) : w[i] <= taken
          BY <2>0, <5>1, <5>5 DEF WireOrdered, Older
        <5>7. \A i \in 1 .. Len(received), j \in 1 .. Len(w) : received[i] < w[j]
          BY <3>1, <5>1, <5>5 DEF OrderInv, WireOrdered, Older
        <5> QED
          BY <3>1, <5>3, <5>4, <5>6, <5>7 DEF WireOrdered, Older, Increasing
      <4>3. \A c \in Links : WireOrdered(wire[c])'
        <5> TAKE c \in Links
        <5>1. CASE c = links
          BY <3>1, <4>2, <5>1
        <5>2. CASE c # links
          BY <3>3, <4>1, <5>2
        <5> QED
          BY <5>1, <5>2
      <4> QED
        BY <3>1, <3>2, <3>4, <4>1, <4>3 DEF OrderInv
    <3> QED
      BY <3>1, <3>5, <3>6
  <2>3. CASE BrokerReceives
    <3>1. PICK c \in Links :
            /\ wire[c] # <<>> /\ received' = Append(received, Head(wire[c]))
            /\ wire' = [wire EXCEPT ![c] = Tail(wire[c])]
      BY <2>3 DEF BrokerReceives
    <3>2. taken' = taken /\ dpc' = dpc /\ conn' = conn /\ links' = links
      BY <2>3 DEF BrokerReceives, fifoVars
    <3>3. /\ wire'[c] = Tail(wire[c])
          /\ \A d \in Links : d # c => wire'[d] = wire[d] /\ wire[d] = <<>>
      BY <3>1 DEF OrderInv, TypeOK
    <3> DEFINE w == wire[c]
               r == Append(received, Head(w))
    <3>4. w \in Seq(Nat) /\ w # <<>> /\ WireOrdered(w) /\ \A i \in 1 .. Len(w) : w[i] \in Nat
      BY <2>0, <3>1 DEF OrderInv
    <3>5. received' = r /\ wire'[c] = Tail(w)
      BY <3>1, <3>3
    <3> HIDE DEF w
    <3>6. /\ Increasing(Tail(w)) /\ Head(w) = w[1] /\ 1 \in 1 .. Len(w)
          /\ \A i \in 1 .. Len(Tail(w)) :
               i + 1 \in 1 .. Len(w) /\ Tail(w)[i] = w[i + 1] /\ Head(w) < Tail(w)[i]
      BY <3>4, IncreasingTail DEF WireOrdered
    <3>7. /\ Increasing(r)
          /\ \A i \in 1 .. Len(r) :
               (i \in 1 .. Len(received) /\ r[i] = received[i]) \/ r[i] = Head(w)
      <4>1. Head(w) \in Nat /\ \A i \in 1 .. Len(received) : received[i] < Head(w)
        BY <3>4, <3>6 DEF WireOrdered
      <4>2. Increasing(r)
        BY <2>0, <4>1, IncreasingAppend DEF OrderInv
      <4>3. /\ Len(r) = Len(received) + 1 /\ Len(received) \in Nat
            /\ \A i \in 1 .. Len(received) : r[i] = received[i]
            /\ r[Len(received) + 1] = Head(w)
        BY <2>0, <4>1, AppendProperties
      <4> HIDE DEF r
      <4>4. ASSUME NEW i \in 1 .. Len(r), i \notin 1 .. Len(received)
            PROVE  i = Len(received) + 1
        BY <4>3, <4>4
      <4> QED
        BY <4>2, <4>3, <4>4
    <3> HIDE DEF r
    <3>8. /\ \A i \in 1 .. Len(r) : r[i] <= taken /\ (dpc = "publish" => r[i] < taken)
          /\ \A i \in 1 .. Len(Tail(w)) :
               Tail(w)[i] <= taken /\ (dpc = "publish" => Tail(w)[i] < taken)
      BY <3>4, <3>6, <3>7 DEF OrderInv, WireOrdered, Older
    <3>9. \A i \in 1 .. Len(r), j \in 1 .. Len(Tail(w)) : r[i] < Tail(w)[j]
      BY <3>4, <3>6, <3>7 DEF WireOrdered
    <3>10. Increasing(received)' /\ Older(received)'
      BY <3>2, <3>5, <3>7, <3>8 DEF Older, Increasing
    <3>11. WireOrdered(wire[c])'
      BY <3>2, <3>5, <3>6, <3>8, <3>9 DEF WireOrdered, Older, Increasing
    <3>12. \A d \in Links : d # c => WireOrdered(wire[d])'
      <4>1. Len(<<>>) = 0
        OBVIOUS
      <4> QED
        BY <3>3, <4>1 DEF WireOrdered, Older, Increasing
    <3>13. conn' = "open" => \A d \in Links : d # links' => wire'[d] = <<>>
      <4>1. conn' = "open" => c = links'
        BY <3>1, <3>2 DEF OrderInv
      <4> QED
        BY <3>3, <4>1
    <3> QED
      BY <3>3, <3>10, <3>11, <3>12, <3>13 DEF OrderInv
  <2>4. CASE ~Read /\ ~Publish /\ ~BrokerReceives
    <3>1. /\ taken' = taken /\ received' = received
          /\ \A c \in Links : wire'[c] \in {wire[c], <<>>}
          /\ dpc' = "publish" <=> dpc = "publish"
          /\ conn' = "open" => \/ \A c \in Links : c # links' => wire'[c] = <<>>
                               \/ conn = "open" /\ links' = links
      BY <2>4, OtherSteps
    <3>2. \A c \in Links : WireOrdered(wire[c])'
      <4>1. Len(<<>>) = 0
        OBVIOUS
      <4> TAKE c \in Links
      <4>2. CASE wire'[c] = wire[c]
        BY <3>1, <4>2 DEF OrderInv, WireOrdered, Older, Increasing
      <4>3. CASE wire'[c] = <<>>
        BY <4>1, <4>3 DEF WireOrdered, Older, Increasing
      <4> QED
        BY <3>1, <4>2, <4>3
    <3>3. Increasing(received)' /\ Older(received)'
      BY <3>1 DEF OrderInv, Older, Increasing
    <3>4. \A c, d \in Links : wire'[c] # <<>> /\ wire'[d] # <<>> => c = d
      BY <3>1 DEF OrderInv
    <3>5. conn' = "open" => \A c \in Links : c # links' => wire'[c] = <<>>
      BY <3>1 DEF OrderInv
    <3> QED
      BY <3>2, <3>3, <3>4, <3>5 DEF OrderInv
  <2> QED
    BY <2>1, <2>2, <2>3, <2>4
<1>3. Capacity \in Nat \ {0}
  BY PublisherAssumption
<1>4. FifoSpec => []FifoOrdered
  BY <1>3, FifoInOrder
<1> QED
  BY <1>1, <1>2, <1>4, TypesAndHand, DeviceIsFifo, PTL DEF Spec

\* The broker gets an event at most once, and never an older one after a newer.
THEOREM OrderKept == Spec => []InOrderOnce
<1>1. OrderInv => InOrderOnce
  BY DEF OrderInv, Increasing, InOrderOnce
<1> QED
  BY <1>1, OrderInvariant, PTL

----------------------------------------------------------------------------
(* Nothing is lost on the way.                                               *)

\* What NothingLostOnTheWay says of one connection.
CutShort(c) == wire[c] = <<>> /\ Begins(got[c], handed[c])
Whole(c) == handed[c] = got[c] \o wire[c] \o InHand(c)

\* Inductive: numbers not used yet have no events; a socket that is open or asked for has
\* not been cut; and who reads and publishes on a connection that was not cut has it open.
LinkInv ==
    /\ \A c \in Links : c > links => wire[c] = <<>> /\ c \notin cut
    /\ conn \in {"asked", "open"} => links \notin cut
    /\ dpc \in {"open", "read", "publish"} /\ links \notin cut => conn = "open"
    /\ \A c \in Links : IF c \in cut THEN CutShort(c) ELSE Whole(c)

LEMMA BeginsConcat ==
    ASSUME NEW S, NEW s \in Seq(S), NEW t \in Seq(S)
    PROVE  Begins(s, s \o t)
<1>1. /\ Len(s \o t) = Len(s) + Len(t) /\ Len(s) \in Nat /\ Len(t) \in Nat
      /\ \A i \in 1 .. Len(s) : (s \o t)[i] = s[i]
  BY ConcatProperties, LenProperties
<1> QED
  BY <1>1 DEF Begins

LEMMA BeginsAppend ==
    ASSUME NEW S, NEW s \in Seq(S), NEW t \in Seq(S), NEW e \in S, Begins(s, t)
    PROVE  Begins(s, Append(t, e))
<1>1. /\ Len(Append(t, e)) = Len(t) + 1 /\ Len(s) \in Nat /\ Len(t) \in Nat
      /\ \A i \in 1 .. Len(t) : Append(t, e)[i] = t[i]
  BY AppendProperties, LenProperties
<1> QED
  BY <1>1 DEF Begins

LEMMA InHandIsSeq == ASSUME HandOK, NEW c PROVE InHand(c) \in Seq(Events)
<1>1. <<>> \in Seq(Events)
  BY EmptySeq
<1> QED
  BY <1>1 DEF HandOK, InHand

\* What was received of a connection is the beginning of what was taken on it.
LEMMA GotBegins ==
    ASSUME TypeOK, HandOK, LinkInv, NEW c \in Links
    PROVE  Begins(got[c], handed[c])
<1>1. CASE c \in cut
  BY <1>1 DEF LinkInv, CutShort
<1>2. CASE c \notin cut
  <2>1. /\ got[c] \in Seq(Events) /\ wire[c] \in Seq(Events) /\ InHand(c) \in Seq(Events)
    BY InHandIsSeq DEF TypeOK
  <2>2. handed[c] = got[c] \o (wire[c] \o InHand(c))
    <3>1. handed[c] = (got[c] \o wire[c]) \o InHand(c)
      BY <1>2 DEF LinkInv, Whole
    <3>2. (got[c] \o wire[c]) \o InHand(c) = got[c] \o (wire[c] \o InHand(c))
      <4> DEFINE g == got[c]
                 w == wire[c]
                 h == InHand(c)
      <4>1. g \in Seq(Events) /\ w \in Seq(Events) /\ h \in Seq(Events)
        BY <2>1
      <4> HIDE DEF g, w, h
      <4>2. (g \o w) \o h = g \o (w \o h)
        BY <4>1, ConcatAssociative
      <4> QED
        BY <4>2, Zenon DEF g, w, h
    <3> QED
      BY <3>1, <3>2, Zenon
  <2>3. wire[c] \o InHand(c) \in Seq(Events)
    BY <2>1, ConcatProperties
  <2> QED
    BY <2>1, <2>2, <2>3, BeginsConcat
<1> QED
  BY <1>1, <1>2

\* Cutting connections, whichever they are, keeps the invariant.
LEMMA CutKeeps ==
    ASSUME TypeOK, HandOK, LinkInv, NEW S \in SUBSET Links, Cut(S), conn' \in SocketAfterCut(S),
           \A c \in S : c <= links,
           UNCHANGED <<links, dpc, taken, handed, got>>
    PROVE  LinkInv'
<1>1. /\ cut' = cut \cup S
      /\ \A c \in Links : wire'[c] = IF c \in S THEN <<>> ELSE wire[c]
  BY DEF Cut
<1>2. \A c \in Links : c > links' => wire'[c] = <<>> /\ c \notin cut'
  BY <1>1 DEF LinkInv, TypeOK, Links
<1>3. conn' \in {"asked", "open"} => links' \notin cut'
  BY <1>1, SocketTypes DEF LinkInv, SocketAfterCut, TypeOK
<1>4. dpc' \in {"open", "read", "publish"} /\ links' \notin cut' => conn' = "open"
  BY <1>1 DEF LinkInv, SocketAfterCut
<1>5. ASSUME NEW c \in Links PROVE (IF c \in cut THEN CutShort(c) ELSE Whole(c))'
  <2>1. CASE c \in S
    BY <1>1, <2>1, GotBegins DEF CutShort
  <2>2. CASE c \notin S
    BY <1>1, <2>2 DEF LinkInv, CutShort, Whole, InHand
  <2> QED
    BY <2>1, <2>2
<1> QED
  BY <1>2, <1>3, <1>4, <1>5 DEF LinkInv

\* Of the connections that are still live none has a number not used yet.
LEMMA LiveUsed == ASSUME TypeOK, LinkInv, NEW c \in Links, Live(c) PROVE c <= links
BY DEF TypeOK, LinkInv, Live, Links

\* Unless a connection is cut everything that was taken on it reaches the broker, and
\* else what reaches the broker has no gap.
THEOREM NothingLost == Spec => []NothingLostOnTheWay
<1>1. Init => LinkInv
  <2> SUFFICES ASSUME Init PROVE LinkInv
    OBVIOUS
  <2>1. \A c \in Links : Whole(c) /\ wire[c] = <<>> /\ c \notin cut
    BY DEF Init, Whole, InHand
  <2> QED
    BY <2>1 DEF Init, LinkInv
<1>2. TypeOK /\ HandOK /\ LinksOK /\ LinkInv /\ [Next]_vars => LinkInv'
  <2> SUFFICES ASSUME TypeOK, HandOK, LinksOK, LinkInv, Next \/ UNCHANGED vars
               PROVE  LinkInv'
    OBVIOUS
  <2>0. \A c \in Links :
          /\ handed[c] \in Seq(Events) /\ got[c] \in Seq(Events) /\ wire[c] \in Seq(Events)
          /\ got[c] \o wire[c] \in Seq(Events)
    BY ConcatProperties DEF TypeOK
  <2> USE DEF fifoVars, netVars, linkVars, history
  <2>1. CASE BrokerDown
    <3> DEFINE S == {c \in Links : Live(c)}
    <3>1. Cut(S) /\ conn' \in SocketAfterCut(S) /\ S \in SUBSET Links
      BY <2>1 DEF BrokerDown
    <3>2. \A c \in S : c <= links
      BY LiveUsed
    <3> HIDE DEF S
    <3> QED
      BY <2>1, <3>1, <3>2, CutKeeps DEF BrokerDown
  <2>2. CASE LinkBreaks
    <3>1. PICK c \in Links : Live(c) /\ Cut({c}) /\ conn' \in SocketAfterCut({c})
      BY <2>2 DEF LinkBreaks
    <3>2. {c} \in SUBSET Links /\ \A b \in {c} : b <= links
      BY <3>1, LiveUsed
    <3> QED
      BY <2>2, <3>1, <3>2, CutKeeps DEF LinkBreaks
  <2>3. CASE BrokerAccepts
    <3>1. /\ conn = "asked" /\ conn' = "open" /\ links' = links /\ dpc' = dpc
          /\ taken' = taken /\ handed' = handed /\ got' = got
          /\ cut' = cut \cup TakenOver
          /\ \A c \in Links : wire'[c] = IF c \in TakenOver THEN <<>> ELSE wire[c]
      BY <2>3 DEF BrokerAccepts, Cut
    <3>2. links \notin TakenOver /\ \A c \in TakenOver : c \in Links /\ c <= links
      BY LiveUsed DEF TakenOver
    <3>3. \A c \in Links : c > links' => wire'[c] = <<>> /\ c \notin cut'
      BY <3>1, <3>2 DEF LinkInv, TypeOK, Links
    <3>4. links' \notin cut'
      BY <3>1, <3>2 DEF LinkInv
    <3>5. ASSUME NEW c \in Links PROVE (IF c \in cut THEN CutShort(c) ELSE Whole(c))'
      <4>1. CASE c \in TakenOver
        BY <3>1, <4>1, GotBegins DEF CutShort
      <4>2. CASE c \notin TakenOver
        BY <3>1, <4>2 DEF LinkInv, CutShort, Whole, InHand
      <4> QED
        BY <4>1, <4>2
    <3> QED
      BY <3>1, <3>3, <3>4, <3>5 DEF LinkInv
  <2>4. CASE BrokerReceives
    <3>1. PICK c \in Links :
            /\ wire[c] # <<>>
            /\ got' = [got EXCEPT ![c] = Append(got[c], Head(wire[c]))]
            /\ wire' = [wire EXCEPT ![c] = Tail(wire[c])]
      BY <2>4 DEF BrokerReceives
    <3>2. UNCHANGED <<conn, links, cut, dpc, taken, handed>>
      BY <2>4 DEF BrokerReceives
    <3>3. /\ got'[c] = Append(got[c], Head(wire[c])) /\ wire'[c] = Tail(wire[c])
          /\ \A d \in Links : d # c => got'[d] = got[d] /\ wire'[d] = wire[d]
      BY <3>1 DEF TypeOK
    <3>4. c \notin cut /\ ~(c > links)
      BY <3>1 DEF LinkInv, CutShort
    <3>5. Head(wire[c]) \in Events /\ Tail(wire[c]) \in Seq(Events) /\ <<Head(wire[c])>> \in Seq(Events)
      BY <2>0, <3>1, HeadTailProperties
    <3>6. <<Head(wire[c])>> \o Tail(wire[c]) = wire[c]
      BY <2>0, <3>1, HeadAndTail
    <3>7. Append(got[c], Head(wire[c])) = got[c] \o <<Head(wire[c])>>
      BY <2>0, <3>5, AppendIsConcat
    <3>8. got'[c] \o wire'[c] = got[c] \o wire[c]
      <4>1. (got[c] \o <<Head(wire[c])>>) \o Tail(wire[c])
              = got[c] \o (<<Head(wire[c])>> \o Tail(wire[c]))
        <5> DEFINE g == got[c]
                   f == <<Head(wire[c])>>
                   r == Tail(wire[c])
        <5>1. g \in Seq(Events) /\ f \in Seq(Events) /\ r \in Seq(Events)
          BY <2>0, <3>5
        <5> HIDE DEF g, f, r
        <5>2. (g \o f) \o r = g \o (f \o r)
          BY <5>1, ConcatAssociative
        <5> QED
          BY <5>2, Zenon DEF g, f, r
      <4> QED
        BY <3>3, <3>6, <3>7, <4>1, Zenon
    <3>9. ASSUME NEW d \in Links PROVE (IF d \in cut THEN CutShort(d) ELSE Whole(d))'
      <4>0. InHand(d)' = InHand(d)
        BY <3>2 DEF InHand
      <4>1. CASE d = c
        <5>1. Whole(c)
          BY <3>4 DEF LinkInv
        <5>2. Whole(c)'
          BY <3>2, <3>8, <4>0, <4>1, <5>1 DEF Whole
        <5> QED
          BY <3>2, <3>4, <4>1, <5>2
      <4>2. CASE d # c
        BY <3>2, <3>3, <4>0, <4>2 DEF LinkInv, CutShort, Whole
      <4> QED
        BY <4>1, <4>2
    <3>10. \A d \in Links : d > links' => wire'[d] = <<>> /\ d \notin cut'
      BY <3>2, <3>3, <3>4 DEF LinkInv
    <3> QED
      BY <3>2, <3>9, <3>10 DEF LinkInv
  <2>5. CASE Read
    <3>1. /\ dpc = "read" /\ dpc' = "publish" /\ UNCHANGED <<conn, links, cut, wire, got>>
          /\ handed' = [handed EXCEPT ![links] = Append(handed[links], taken')]
      BY <2>5 DEF Read
    <3>2. taken' \in Events
      BY <2>5, HeadTailProperties DEF Read, Take, TypeOK
    <3>3. ASSUME NEW c \in Links PROVE (IF c \in cut THEN CutShort(c) ELSE Whole(c))'
      <4>1. CASE c # links
        BY <3>1, <4>1 DEF LinkInv, CutShort, Whole, InHand, TypeOK
      <4>2. CASE c = links
        <5>1. handed'[c] = Append(handed[c], taken')
          BY <3>1, <4>2 DEF TypeOK
        <5>2. CASE c \in cut
          <6>1. Begins(got[c], handed'[c]) /\ wire[c] = <<>>
            BY <2>0, <3>2, <5>1, <5>2, BeginsAppend DEF LinkInv, CutShort
          <6> QED
            BY <3>1, <5>2, <6>1 DEF CutShort
        <5>3. CASE c \notin cut
          <6>1. handed[c] = got[c] \o wire[c]
            <7>1. handed[c] = got[c] \o wire[c] \o <<>>
              BY <3>1, <5>3 DEF LinkInv, Whole, InHand
            <7> QED
              BY <2>0, <7>1, ConcatEmptySeq
          <6>2. Append(got[c] \o wire[c], taken') = got[c] \o wire[c] \o <<taken'>>
            BY <2>0, <3>2, AppendIsConcat
          <6>3. InHand(c)' = <<taken'>>
            BY <3>1, <4>2 DEF InHand
          <6>4. Whole(c)'
            BY <3>1, <5>1, <6>1, <6>2, <6>3 DEF Whole
          <6> QED
            BY <3>1, <5>3, <6>4
        <5> QED
          BY <5>2, <5>3
      <4> QED
        BY <4>1, <4>2
    <3> QED
      BY <3>1, <3>3 DEF LinkInv
  <2>6. CASE Publish
    <3>1. /\ dpc = "publish" /\ dpc' = "read" /\ taken \in Events
          /\ UNCHANGED <<links, cut, handed, got, taken>>
      BY <2>6 DEF Publish, HandOK
    <3>2. CASE conn = "open"
      <4>1. /\ conn' = "open" /\ links \notin cut
            /\ wire' = [wire EXCEPT ![links] = Append(wire[links], taken)]
        <5>1. Sent /\ links \notin cut
          BY <3>2 DEF Sent, LinkInv
        <5>2. wire' = [wire EXCEPT ![links] = Append(wire[links], taken)]
          BY <2>6, <5>1 DEF Publish
        <5>3. conn' = "open"
          BY <2>6, <3>2 DEF Publish, Sent, Raises, SocketAfterRaise
        <5> QED
          BY <5>1, <5>2, <5>3
      <4>2. ASSUME NEW c \in Links PROVE (IF c \in cut THEN CutShort(c) ELSE Whole(c))'
        <5>0. InHand(c)' = <<>>
          BY <3>1 DEF InHand
        <5>1. CASE c # links
          <6>1. wire'[c] = wire[c] /\ InHand(c) = <<>>
            BY <4>1, <5>1 DEF TypeOK, InHand
          <6> QED
            BY <3>1, <5>0, <6>1 DEF LinkInv, CutShort, Whole
        <5>2. CASE c = links
          <6>1. wire'[c] = Append(wire[c], taken) /\ InHand(c) = <<taken>>
            BY <3>1, <4>1, <5>2 DEF TypeOK, InHand
          <6>2. handed[c] = got[c] \o wire[c] \o <<taken>> /\ <<taken>> \in Seq(Events)
            <7>1. Whole(c) /\ <<taken>> \in Seq(Events)
              BY <3>1, <4>1, <5>2 DEF LinkInv
            <7> QED
              BY <6>1, <7>1 DEF Whole
          <6>3. Append(wire[c], taken) = wire[c] \o <<taken>> /\ Append(wire[c], taken) \in Seq(Events)
            BY <2>0, <3>1, AppendIsConcat, AppendProperties
          <6>4. got[c] \o Append(wire[c], taken) = got[c] \o wire[c] \o <<taken>>
            <7>1. got[c] \in Seq(Events) /\ wire[c] \in Seq(Events)
              BY <2>0
            <7>2. got[c] \o (wire[c] \o <<taken>>) = (got[c] \o wire[c]) \o <<taken>>
              <8> DEFINE g == got[c]
                         w == wire[c]
                         h == <<taken>>
              <8>1. g \in Seq(Events) /\ w \in Seq(Events) /\ h \in Seq(Events)
                BY <6>2, <7>1
              <8> HIDE DEF g, w, h
              <8>2. (g \o w) \o h = g \o (w \o h)
                BY <8>1, ConcatAssociative
              <8> QED
                BY <8>2, Zenon DEF g, w, h
            <7> QED
              BY <6>3, <7>2, Zenon
          <6>5. got[c] \o Append(wire[c], taken) \o <<>> = got[c] \o Append(wire[c], taken)
            BY <2>0, <6>3, ConcatProperties, ConcatEmptySeq
          <6>6. Whole(c)'
            BY <3>1, <5>0, <6>1, <6>2, <6>4, <6>5 DEF Whole
          <6> QED
            BY <3>1, <4>1, <5>2, <6>6
        <5> QED
          BY <5>1, <5>2
      <4>3. \A c \in Links : c > links' => wire'[c] = <<>> /\ c \notin cut'
        BY <3>1, <4>1 DEF LinkInv, TypeOK, Links
      <4> QED
        BY <3>1, <4>1, <4>2, <4>3 DEF LinkInv
    <3>3. CASE conn # "open"
      <4>1. links \in cut /\ wire' = wire
        BY <2>6, <3>1, <3>3 DEF Publish, Sent, LinkInv
      <4>2. conn' \notin {"asked", "open"}
        <5>1. conn \in {"none", "stale", "broken"}
          BY <3>1, <3>3 DEF LinksOK, TypeOK
        <5> QED
          BY <2>6, <5>1 DEF Publish, Sent, Raises, SocketAfterRaise
      <4>3. ASSUME NEW c \in Links PROVE (IF c \in cut THEN CutShort(c) ELSE Whole(c))'
        <5>1. CASE c = links
          BY <3>1, <4>1, <5>1 DEF LinkInv, CutShort
        <5>2. CASE c # links
          BY <3>1, <4>1, <5>2 DEF LinkInv, CutShort, Whole, InHand
        <5> QED
          BY <5>1, <5>2
      <4> QED
        BY <3>1, <4>1, <4>2, <4>3 DEF LinkInv
    <3> QED
      BY <3>2, <3>3
  <2>7. CASE Connect
    <3>1. /\ UNCHANGED <<wire, cut, handed, got>> /\ dpc = "connect" /\ dpc' \in {"connack", "sleep"}
          /\ \/ links' = links + 1 /\ conn' = "asked"
             \/ links' = links /\ conn' = conn
      BY <2>7 DEF Connect
    <3>2. \A c \in Links : InHand(c) = <<>> /\ InHand(c)' = <<>>
      BY <3>1 DEF InHand
    <3>3. \A c \in Links : (IF c \in cut THEN CutShort(c) ELSE Whole(c))'
      BY <3>1, <3>2 DEF LinkInv, CutShort, Whole
    <3>4. conn' \in {"asked", "open"} => links' \notin cut'
      BY <3>1 DEF LinkInv, TypeOK, Links
    <3>5. \A c \in Links : c > links' => wire'[c] = <<>> /\ c \notin cut'
      BY <3>1 DEF LinkInv, TypeOK, Links
    <3> QED
      BY <3>1, <3>3, <3>4, <3>5 DEF LinkInv
  <2>8. CASE DriverPushes \/ BrokerUp \/ UNCHANGED vars
    BY <2>8 DEF DriverPushes, Put, BrokerUp, vars, LinkInv, CutShort, Whole, InHand
  <2>9. CASE Accepted \/ OpenDevice \/ HungUp \/ Refused \/ OpenFails \/ ReadEnds \/ Sleep
    <3>1. /\ UNCHANGED <<links, wire, cut, handed, got>>
          /\ dpc # "publish" /\ dpc' # "publish"
          /\ conn' \in {conn, "none"}
      BY <2>9 DEF Accepted, OpenDevice, HungUp, Refused, OpenFails, ReadEnds, Sleep, AfterSleep,
         Disconnected
    <3>2. dpc' \in {"open", "read", "publish"} /\ links' \notin cut' => conn' = "open"
      BY <2>9 DEF Accepted, OpenDevice, HungUp, Refused, OpenFails, ReadEnds, Sleep, AfterSleep,
         LinkInv
    <3> QED
      BY <3>1, <3>2 DEF LinkInv, CutShort, Whole, InHand
  <2> QED
    BY <2>1, <2>2, <2>3, <2>4, <2>5, <2>6, <2>7, <2>8, <2>9 DEF Next, Daemon, Faults
<1>3. LinkInv => NothingLostOnTheWay
  BY DEF LinkInv, NothingLostOnTheWay, CutShort, Whole
<1> QED
  BY <1>1, <1>2, <1>3, TypesAndHand, PTL DEF Spec
=============================================================================
