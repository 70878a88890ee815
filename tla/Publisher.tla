----------------------------- MODULE Publisher -----------------------------
(***************************************************************************)
(* conveyor_event_daemon.py: takes the events out of the device file, one  *)
(* a line, and publishes them to the MQTT broker with QoS 0.               *)
(*                                                                         *)
(* The device is LossyFifo, which EventQueue implements.  The broker and   *)
(* TCP are external.  What is sent on a connection comes in order, but     *)
(* connections do not wait for each other: the events of one that was      *)
(* closed may still be under way when the next one is set up.  A           *)
(* connection can be cut at any time, and what is under way then is lost;  *)
(* so it is when the broker accepts the same client id on a new one.       *)
(* After a cut sends still succeed for a while, then they raise OSError.   *)
(***************************************************************************)
EXTENDS LossyFifo

CONSTANTS
    MaxPushed,   \* bound of the model: events the driver has
    MaxFaults    \* bound of the model: breakdowns, refusals, device errors

ASSUME PublisherAssumption ==
    Capacity \in Nat \ {0} /\ MaxPushed \in Nat /\ MaxFaults \in Nat

\* Connections by their number; only a fault makes the daemon set up another one.
Links == 1 .. MaxFaults + 1

VARIABLES
    broker,      \* "up" or "down"
    faults,      \* how many faults happened
    dpc,         \* where main is
    conn,        \* pub._sock: "none"; "asked": CONNECT is sent; "open": the broker
                 \* accepted it; "stale": cut, which the daemon cannot know yet;
                 \* "broken": cut, sending raises
    links,       \* how many connections were set up; also the number of the newest
    wire,        \* for each connection, what is sent and not yet received
    cut,         \* history: the connections that were cut
    handed,      \* history: for each connection, the events read from the device on it
    got,         \* history: for each connection, the events the broker got on it
    received,    \* history: the events the broker got on any, in the order they came
    errors       \* history: publish calls that raised on this connection, up to two

linkVars == <<conn, links, wire, cut>>
netVars == <<broker, faults>>
history == <<handed, got, received, errors>>
vars == <<fifoVars, netVars, linkVars, dpc, history>>

----------------------------------------------------------------------------
(* Deliberately wrong variants; PROJECT.json names them to show that each   *)
(* property can fail.                                                       *)

\* An __exit__ that keeps the socket.
DisconnectedNot == conn

\* An inner handler that connects again, but does not send the event again.
SocketAfterRaiseOpen == "open"

\* A client id of its own for every connection: the broker keeps them all.
TakenOverNone == {}

\* An outer loop that gives up.
AfterSleepStops == "sleep"

----------------------------------------------------------------------------
(* The driver, the broker and the network.                                  *)

DriverPushes ==
    /\ pushed < MaxPushed
    /\ Put
    /\ UNCHANGED <<netVars, linkVars, dpc, history>>

Fault == faults < MaxFaults /\ faults' = faults + 1

\* The broker still has to do with a connection that is not closed, or has a rest.
Live(c) == wire[c] # <<>> \/ (c = links /\ conn \in {"asked", "open"})

Cut(S) ==
    /\ wire' = [c \in Links |-> IF c \in S THEN <<>> ELSE wire[c]]
    /\ cut' = cut \cup S

SocketAfterCut(S) ==
    IF links \in S /\ conn \in {"asked", "open"} THEN {"stale", "broken"} ELSE {conn}

BrokerDown ==
    /\ broker = "up"
    /\ Fault
    /\ broker' = "down"
    /\ LET S == {c \in Links : Live(c)}
       IN  Cut(S) /\ conn' \in SocketAfterCut(S)
    /\ UNCHANGED <<fifoVars, links, dpc, history>>

\* The network fails, or the broker ends a connection: for one, because the late
\* CONNECT of a connection that was given up takes its client id.
LinkBreaks ==
    /\ Fault
    /\ \E c \in Links : Live(c) /\ Cut({c}) /\ conn' \in SocketAfterCut({c})
    /\ UNCHANGED <<fifoVars, broker, links, dpc, history>>

BrokerUp ==
    /\ broker = "down"
    /\ broker' = "up"
    /\ UNCHANGED <<fifoVars, faults, linkVars, dpc, history>>

\* What the connections before this one still have under way: their client id is
\* the same, so the broker closes them.
TakenOver == {c \in Links : c # links /\ Live(c)}

\* The broker handles CONNECT, also of a daemon that waits for CONNACK no more.
BrokerAccepts ==
    /\ conn = "asked"
    /\ conn' = "open"
    /\ Cut(TakenOver)
    /\ UNCHANGED <<fifoVars, netVars, links, dpc, history>>

BrokerReceives ==
    /\ \E c \in Links :
         /\ wire[c] # <<>>
         /\ received' = Append(received, Head(wire[c]))
         /\ got' = [got EXCEPT ![c] = Append(@, Head(wire[c]))]
         /\ wire' = [wire EXCEPT ![c] = Tail(@)]
    /\ UNCHANGED <<fifoVars, netVars, conn, links, cut, dpc, handed, errors>>

----------------------------------------------------------------------------
(* main and MqttPublisher.  An exception goes to the outer handler, which   *)
(* sleeps and tries again, except the ones of the inner handler.            *)

\* connect, up to the CONNECT packet
Connect ==
    /\ dpc = "connect"
    /\ errors' = 0
    /\ \/ /\ broker = "up"
          /\ conn' = "asked"
          /\ links' = links + 1
          /\ dpc' = "connack"
       \/ /\ broker = "down"
          /\ dpc' = "sleep"
          /\ UNCHANGED <<conn, links>>
    /\ UNCHANGED <<fifoVars, netVars, wire, cut, handed, got, received>>

Accepted ==
    /\ dpc = "connack" /\ conn = "open"
    /\ dpc' = "open"
    /\ UNCHANGED <<fifoVars, netVars, linkVars, history>>

\* A CONNACK that refuses, or none in time: connect raises inside __enter__, so
\* __exit__ does not run and the exception holds the socket as long as main sleeps.
Refused ==
    /\ dpc = "connack" /\ conn \in {"asked", "open"}
    /\ Fault
    /\ dpc' = "sleep"
    /\ UNCHANGED <<fifoVars, broker, linkVars, history>>

\* The connection ends before CONNACK: likewise
HungUp ==
    /\ dpc = "connack" /\ conn \in {"stale", "broken"}
    /\ dpc' = "sleep"
    /\ UNCHANGED <<fifoVars, netVars, linkVars, history>>

OpenDevice ==
    /\ dpc = "open"
    /\ dpc' = "read"
    /\ UNCHANGED <<fifoVars, netVars, linkVars, history>>

\* __exit__: DISCONNECT goes after the events that are under way, then close
Disconnected == "none"

OpenFails ==
    /\ dpc = "open"
    /\ Fault
    /\ conn' = Disconnected
    /\ dpc' = "sleep"
    /\ UNCHANGED <<fifoVars, broker, links, wire, cut, history>>

\* The blocking read of the for loop
Read ==
    /\ dpc = "read"
    /\ Take
    /\ handed' = [handed EXCEPT ![links] = Append(@, taken')]
    /\ dpc' = "publish"
    /\ UNCHANGED <<netVars, linkVars, got, received, errors>>

\* The read raises, or ends the file: then main connects again at once.
ReadEnds ==
    /\ dpc = "read"
    /\ Fault
    /\ dpc' \in {"sleep", "connect"}
    /\ conn' = Disconnected
    /\ UNCHANGED <<fifoVars, broker, links, wire, cut, history>>

Sent   == conn = "open"
Raises == conn \in {"none", "broken"}

\* The inner handler goes on with the next line, whatever publish raised.
SocketAfterRaise == conn

Publish ==
    /\ dpc = "publish"
    /\ wire' = IF Sent THEN [wire EXCEPT ![links] = Append(@, taken)] ELSE wire
    /\ conn' \in CASE Sent   -> {conn}
                   [] Raises -> {SocketAfterRaise}
                   [] OTHER  -> {"stale", "broken"}
    /\ errors' = IF Raises /\ errors < 2 THEN errors + 1 ELSE errors
    /\ dpc' = "read"
    /\ UNCHANGED <<fifoVars, netVars, links, cut, handed, got, received>>

AfterSleep == "connect"

\* The handler ends, and with the exception goes the socket of a failed connect.
Sleep ==
    /\ dpc = "sleep"
    /\ dpc' = AfterSleep
    /\ conn' = "none"
    /\ UNCHANGED <<fifoVars, netVars, links, wire, cut, history>>

Daemon == Connect \/ Accepted \/ HungUp \/ OpenDevice \/ Read \/ Publish \/ Sleep

Faults == BrokerDown \/ LinkBreaks \/ Refused \/ OpenFails \/ ReadEnds

----------------------------------------------------------------------------
Init ==
    /\ FifoInit
    /\ broker \in {"up", "down"}
    /\ faults = 0
    /\ conn = "none" /\ links = 0
    /\ dpc = "connect"
    /\ wire = [c \in Links |-> <<>>] /\ handed = wire /\ got = wire
    /\ cut = {}
    /\ received = <<>>
    /\ errors = 0

Next == DriverPushes \/ BrokerUp \/ BrokerAccepts \/ BrokerReceives \/ Daemon \/ Faults

Spec == Init /\ [][Next]_vars

\* The daemon runs, a broker that is down is started again and handles what comes in;
\* no fault has to happen.
FairSpec == Spec /\ WF_vars(Daemon) /\ WF_vars(BrokerUp) /\ WF_vars(BrokerAccepts)

----------------------------------------------------------------------------
Events == 1 .. MaxPushed

\* Types; the daemon never connects with a socket still open, and sets up a new
\* connection only after a fault of the one before.
TypeOK ==
    /\ fifo \in Seq(Events) /\ pushed \in 0 .. MaxPushed /\ taken \in 0 .. MaxPushed
    /\ broker \in {"up", "down"}
    /\ faults \in 0 .. MaxFaults
    /\ conn \in {"none", "asked", "open", "stale", "broken"}
    /\ dpc \in {"connect", "connack", "open", "read", "publish", "sleep"}
    /\ links \in 0 .. faults + 1
    /\ wire \in [Links -> Seq(Events)] /\ cut \subseteq Links
    /\ handed \in [Links -> Seq(Events)] /\ got \in [Links -> Seq(Events)]
    /\ received \in Seq(Events)
    /\ errors \in 0 .. 2
    /\ dpc = "connect" => conn = "none"

InHand(c) == IF dpc = "publish" /\ c = links THEN <<taken>> ELSE <<>>

Begins(s, t) == Len(s) <= Len(t) /\ \A i \in 1 .. Len(s) : s[i] = t[i]

\* Of the events the daemon takes from the device on a connection every one reaches
\* the broker, unless the connection is cut: by a breakdown, or by the next one if it
\* is accepted too soon.  Then the last ones are lost and nothing after them gets
\* through: never is there a gap.
NothingLostOnTheWay ==
    \A c \in Links :
        IF c \in cut THEN wire[c] = <<>> /\ Begins(got[c], handed[c])
                     ELSE handed[c] = got[c] \o wire[c] \o InHand(c)

\* The broker gets an event at most once, and never an older one after a newer, though
\* events of a closed connection may still come while the next one is set up.
InOrderOnce == \A i, j \in 1 .. Len(received) : i < j => received[i] < received[j]

\* A daemon that is not connected tries until it reads from the device.
Retried == dpc \in {"connect", "connack", "open", "sleep"} ~> dpc = "read"

(***************************************************************************)
(* What the documents say and the code does not keep.                      *)
(***************************************************************************)

\* When the connection to the broker fails, the outer loop connects again: so
\* no connection sees a second publish fail.
FailureReconnects == errors <= 1
=============================================================================
