--------------------------- MODULE MqttSubscriber ---------------------------
(***************************************************************************)
(* The subscribing side of MQTT: mqtt_messages of conveyor_subscriber.py,  *)
(* which _mqtt_reader of conveyor_web.py repeats line for line.  It reads  *)
(* packets off a TCP stream, with a timeout on every recv, and sets up the *)
(* connection again after any failure.                                     *)
(*                                                                         *)
(* The stream is modelled byte by byte, as recv may return any part of     *)
(* what was asked for and a timeout may come at any byte.  A byte is named *)
(* by its packet and its place in it.  When a timeout throws away the      *)
(* beginning of a packet, the rest is read as if it were packets: what     *)
(* lengths are found there is open, and nothing readable comes of it (the  *)
(* two bytes taken for the topic's length exceed what was read).           *)
(*                                                                         *)
(* Broker and TCP are external.  A connection can break with what is under *)
(* way cut anywhere, and so that the reader is told of it or not; a broker *)
(* that is not heard of answers the next packet with a reset.              *)
(***************************************************************************)
EXTENDS Integers, Sequences, SequencesExt

CONSTANTS
    Base,         \* 128: a byte of the remaining length has that many values
    BodyLength,   \* how long the body of each event's PUBLISH is
    MaxSent,      \* bound of the model: events the broker gets
    MaxFaults,    \* bound of the model: breakdowns and refusals
    MaxJunk       \* bound of the model: the longest misread packet

Events == 1 .. MaxSent

\* 128 ** mul
Weight == <<1, Base, Base * Base, Base * Base * Base>>

\* What four bytes can say
MaxLength == Base * Weight[4] - 1

ASSUME LengthAssumption ==
    /\ Base \in Nat \ {0, 1}
    /\ MaxSent \in Nat /\ MaxFaults \in Nat /\ MaxJunk \in Nat
    /\ BodyLength \in [Events -> 2 .. MaxLength]

VARIABLES
    pc,       \* "connect", "connack", "suback", "type", "len", "body", "sleep"
    data,     \* how many bytes the current _recvn has
    head,     \* the byte taken for the packet's type
    lens,     \* how many bytes of the remaining length were read (mul)
    rem,      \* their value so far
    conn,     \* "none", "open"; "silent": broken and not noticed; "reset"
    wire,     \* the bytes sent by the broker, not yet received
    pushed,   \* how many events the broker got; also the number of the newest
    latest,   \* the event last yielded, 0 before the first
    since,    \* pushed when this connection subscribed
    upto,     \* the last event sent on this connection
    faults,   \* how many faults happened
    split,    \* history: a timeout split a packet of this connection
    cut       \* history: this connection broke, was refused or not answered

packetVars == <<data, head, lens, rem>>
eventVars  == <<pushed, latest, since, upto>>
vars == <<pc, packetVars, conn, wire, eventVars, faults, split, cut>>

----------------------------------------------------------------------------
(* Packets and their bytes.                                                 *)

PINGRESP == 0    \* the numbers above are PUBLISH packets, of the event they carry
CONNACK  == -1
SUBACK   == -2

\* _enc_remlen: low digits first, a byte above Base says that more follow.
EncRemlen[n \in 0 .. MaxLength] ==
    IF n < Base THEN <<n>> ELSE <<(n % Base) + Base>> \o EncRemlen[n \div Base]

RemLenOf(p) == IF p \in Events THEN EncRemlen[BodyLength[p]] ELSE EncRemlen[0]

Size(p) == CASE p = CONNACK -> 4
             [] p = SUBACK  -> 5
             [] p \in Events -> 1 + Len(RemLenOf(p)) + BodyLength[p]
             [] OTHER       -> 2

Packet(p) == [i \in 1 .. Size(p) |-> <<p, i>>]

NoByte == <<PINGRESP, 0>>

\* The reader took the first byte of a packet for what it is.
Aligned == head[2] = 1

----------------------------------------------------------------------------
(* Deliberately wrong variants; PROJECT.json names them to show that each   *)
(* property can fail.                                                       *)

\* recv() called once, whatever it returns.
BufFullAtOnce(n) == TRUE

\* A remaining length of one byte.
LengthBytesOne == 1

\* A timeout that is ignored.
NoPing == pc' = "type" /\ UNCHANGED <<conn, wire>>

\* Events sent with RETAIN: who subscribes gets the newest one again.
FirstSentRetained == Packet(SUBACK) \o Packet(pushed)

\* A timeout after which the bytes read so far still count.
DataAfterTimeoutKept == data

----------------------------------------------------------------------------
(* The broker and the network.                                              *)

Subscribed == conn = "open" /\ pc \in {"suback", "type", "len", "body"}

\* An event comes; only who is subscribed gets it.
BrokerPublishes ==
    /\ pushed < MaxSent
    /\ pushed' = pushed + 1
    /\ IF Subscribed THEN /\ wire' = wire \o Packet(pushed')
                          /\ upto' = pushed'
                     ELSE UNCHANGED <<wire, upto>>
    /\ UNCHANGED <<pc, packetVars, conn, latest, since, faults, split, cut>>

Fault == faults < MaxFaults /\ faults' = faults + 1

ConnectionBreaks ==
    /\ conn = "open"
    /\ Fault
    /\ conn' \in {"silent", "reset"}
    /\ \E n \in 0 .. Len(wire) : wire' = SubSeq(wire, 1, n)
    /\ cut' = TRUE
    /\ UNCHANGED <<pc, packetVars, eventVars, split>>

----------------------------------------------------------------------------
(* Setting up the connection.                                               *)

\* Any exception: the outer handler sleeps; the socket is dropped.
GiveUp ==
    /\ pc' = "sleep"
    /\ conn' = "none"
    /\ wire' = <<>>
    /\ data' = 0 /\ head' = NoByte /\ lens' = 0 /\ rem' = 0

Sleep ==
    /\ pc = "sleep"
    /\ pc' = "connect"
    /\ UNCHANGED <<packetVars, conn, wire, eventVars, faults, split, cut>>

\* create_connection and CONNECT
Connect ==
    /\ pc = "connect"
    /\ pc' = "connack"
    /\ conn' = "open"
    /\ wire' = Packet(CONNACK)
    /\ split' = FALSE /\ cut' = FALSE
    /\ UNCHANGED <<packetVars, eventVars, faults>>

ConnectFails ==
    /\ pc = "connect"
    /\ Fault
    /\ pc' = "sleep"
    /\ cut' = TRUE
    /\ UNCHANGED <<packetVars, conn, wire, eventVars, split>>

\* No answer within the timeout of 10 s, or a return code that refuses
SetupFails ==
    /\ pc \in {"connack", "suback"}
    /\ IF conn = "silent" THEN UNCHANGED faults ELSE Fault
    /\ GiveUp
    /\ cut' = TRUE
    /\ UNCHANGED <<eventVars, split>>

----------------------------------------------------------------------------
(* _recvn                                                                   *)

\* What the current call of _recvn asks for
Wanted == CASE pc = "connack" -> 4
            [] pc = "suback"  -> 5
            [] pc = "body"    -> rem
            [] OTHER          -> 1

\* The loop ends.
BufFull(n) == n = Wanted

\* recv returns any part of what is asked for.
Recv(k) ==
    /\ k <= Len(wire) /\ data + k <= Wanted

Unread(k) == SubSeq(wire, k + 1, Len(wire))

RecvPart ==
    /\ \E k \in 1 .. Wanted :
           /\ Recv(k) /\ ~BufFull(data + k)
           /\ data' = data + k
           /\ wire' = Unread(k)
    /\ UNCHANGED <<pc, head, lens, rem, conn, eventVars, faults, split, cut>>

\* What a new subscriber is sent: no header of an event says RETAIN, so nothing that
\* was before.
FirstSent == Packet(SUBACK)

\* CONNACK is there: SUBSCRIBE, which on a broken connection raises or is lost.
RecvConnack ==
    /\ pc = "connack"
    /\ \E k \in 1 .. Wanted :
           /\ Recv(k) /\ BufFull(data + k)
           /\ IF conn = "reset"
              THEN GiveUp /\ UNCHANGED <<since, upto>>
              ELSE /\ pc' = "suback"
                   /\ wire' = IF conn = "open" THEN Unread(k) \o FirstSent
                                               ELSE Unread(k)
                   /\ data' = 0
                   /\ since' = pushed /\ upto' = pushed
                   /\ UNCHANGED <<head, lens, rem, conn>>
    /\ UNCHANGED <<pushed, latest, faults, split, cut>>

RecvSuback ==
    /\ pc = "suback"
    /\ \E k \in 1 .. Wanted :
           /\ Recv(k) /\ BufFull(data + k)
           /\ wire' = Unread(k)
    /\ pc' = "type"
    /\ data' = 0
    /\ UNCHANGED <<head, lens, rem, conn, eventVars, faults, split, cut>>

----------------------------------------------------------------------------
(* The inner loop: one packet after the other.                              *)

\* Back to the top of the loop
NextPacket ==
    /\ pc' = "type"
    /\ data' = 0 /\ head' = NoByte /\ lens' = 0 /\ rem' = 0
    /\ UNCHANGED conn

RecvType ==
    /\ pc = "type"
    /\ Recv(1)
    /\ head' = Head(wire)
    /\ wire' = Tail(wire)
    /\ pc' = "len"
    /\ UNCHANGED <<data, lens, rem, conn, eventVars, faults, split, cut>>

\* The packet is read, with all n bytes of its body or a part of it.  A misread
\* one is ignored, or what is found in it raises.
PacketRead(n, length, rest) ==
    \/ /\ NextPacket
       /\ wire' = rest
       /\ latest' = IF Aligned /\ head[1] \in Events /\ n = length THEN head[1] ELSE latest
    \/ /\ ~Aligned
       /\ GiveUp
       /\ UNCHANGED latest

LengthBytes == 4

\* _read_remlen: a byte v, and what it makes of the value
LenStep(v, value) ==
    LET more == v >= Base
        rest == Tail(wire)
    IN  \/ /\ more /\ lens + 1 < LengthBytes
           /\ lens' = lens + 1
           /\ rem' = value
           /\ wire' = rest
           /\ UNCHANGED <<pc, data, head, conn, latest>>
        \/ /\ more /\ lens + 1 >= LengthBytes
           /\ GiveUp
           /\ UNCHANGED latest
        \/ /\ ~more /\ value # 0
           /\ pc' = "body"
           /\ rem' = value
           /\ lens' = 0
           /\ wire' = rest
           /\ UNCHANGED <<data, head, conn, latest>>
        \/ /\ ~more /\ value = 0
           /\ PacketRead(0, 0, rest)

RecvLen ==
    /\ pc = "len"
    /\ Recv(1)
    /\ IF Aligned
       THEN LET v == RemLenOf(head[1])[lens + 1]
            IN  LenStep(v, rem + (v % Base) * Weight[lens + 1])
       ELSE \E v \in {0, Base}, value \in 0 .. MaxJunk : LenStep(v, value)
    /\ UNCHANGED <<pushed, since, upto, faults, split, cut>>

RecvBody ==
    /\ pc = "body"
    /\ \E k \in 1 .. Wanted :
           /\ Recv(k) /\ BufFull(data + k)
           /\ PacketRead(data + k, rem, Unread(k))
    /\ UNCHANGED <<pushed, since, upto, faults, split, cut>>

\* The broker hung up or was reset, and all that came is read.
RecvRaises ==
    /\ pc \in {"connack", "suback", "type", "len", "body"}
    /\ conn = "reset" /\ wire = <<>>
    /\ GiveUp
    /\ UNCHANGED <<eventVars, faults, split, cut>>

\* PINGREQ: answered, or it finds out that the connection is broken.
Ping ==
    \/ /\ conn = "open"
       /\ pc' = "type"
       /\ wire' = wire \o Packet(PINGRESP)
       /\ UNCHANGED conn
    \/ /\ conn = "silent"
       /\ pc' = "type"
       /\ conn' = "reset"
       /\ UNCHANGED wire
    \/ /\ conn = "reset"
       /\ pc' = "sleep"
       /\ conn' = "none"
       /\ wire' = <<>>

\* What was sent may be late, as long as the connection is good.  Bound of the
\* model: one ping at a time is under way.
MayTimeOut == IF conn = "open" THEN ~Contains(wire, <<PINGRESP, 2>>) ELSE wire = <<>>

DataAfterTimeout == 0

\* recv times out, anywhere in a packet: what was read of it is gone.
Timeout ==
    /\ pc \in {"type", "len", "body"}
    /\ MayTimeOut
    /\ Ping
    /\ split' = (split \/ pc # "type")
    /\ data' = DataAfterTimeout
    /\ head' = NoByte /\ lens' = 0 /\ rem' = 0
    /\ UNCHANGED <<eventVars, faults, cut>>

Receive ==
    RecvPart \/ RecvConnack \/ RecvSuback \/ RecvType \/ RecvLen \/ RecvBody \/ RecvRaises

Reader ==
    \/ Sleep \/ Connect \/ Receive \/ Timeout
    \/ conn = "silent" /\ SetupFails

----------------------------------------------------------------------------
Init ==
    /\ pc = "connect"
    /\ data = 0 /\ head = NoByte /\ lens = 0 /\ rem = 0
    /\ conn = "none"
    /\ wire = <<>>
    /\ pushed = 0 /\ latest = 0 /\ since = 0 /\ upto = 0
    /\ faults = 0
    /\ split = FALSE /\ cut = FALSE

Next == BrokerPublishes \/ ConnectionBreaks \/ ConnectFails \/ SetupFails \/ Reader

Spec == Init /\ [][Next]_vars

\* The reader's thread runs, data that was sent arrives or a timeout expires.
FairSpec == Spec /\ WF_vars(Reader)

----------------------------------------------------------------------------
TypeOK ==
    /\ pc \in {"connect", "connack", "suback", "type", "len", "body", "sleep"}
    /\ data \in Nat /\ data < Wanted
    /\ head \in ({CONNACK, SUBACK, PINGRESP} \cup Events) \X Nat
    /\ lens \in 0 .. 3
    /\ rem \in Nat
    /\ conn \in {"none", "open", "silent", "reset"}
    /\ wire \in Seq(({CONNACK, SUBACK, PINGRESP} \cup Events) \X Nat)
    /\ pushed \in 0 .. MaxSent
    /\ latest \in 0 .. MaxSent /\ since \in 0 .. MaxSent /\ upto \in 0 .. MaxSent
    /\ faults \in 0 .. MaxFaults
    /\ split \in BOOLEAN /\ cut \in BOOLEAN

\* The events of which the first byte is in hand or still to come
InFlight ==
    (IF Aligned /\ head[1] \in Events THEN {head[1]} ELSE {})
        \cup {wire[i][1] : i \in {j \in 1 .. Len(wire) : wire[j][1] \in Events /\ wire[j][2] = 1}}

\* The last event yielded since this connection subscribed, or the one before it
Reached == IF latest > since THEN latest ELSE since

\* As long as no timeout came in the middle of a packet, the reader is in step
\* with the stream, however recv chops it: what is still to come continues what
\* was yielded without a gap, and unless the connection broke it goes up to the
\* last event that was sent.
InStep ==
    pc \in {"type", "len", "body"} /\ ~split =>
        /\ InFlight = Reached + 1 .. Reached + Cardinality(InFlight)
        /\ ~cut => Reached + Cardinality(InFlight) = upto

\* No event is yielded twice or after a newer one, neither by what a timeout does to
\* the packets nor over several connections: whatever is in hand or still to come is
\* newer than the last one yielded.
OnlyNewer == \A e \in InFlight : latest < e

\* The reader leaves a connection only if something went wrong with it: no packet
\* of any length it is sent makes it give up.
LeavesOnlyBroken == pc = "sleep" => cut \/ split

\* A reader without a connection, or with one that broke without a notice, is
\* subscribed again: in silence only its pings find that out.
Resubscribes == conn # "open" ~> Subscribed /\ pc = "type"
=============================================================================
