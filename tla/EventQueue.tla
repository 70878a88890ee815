----------------------------- MODULE EventQueue -----------------------------
(***************************************************************************)
(* The event queue of the conveyor_node driver and the wait queue beside   *)
(* it: the ring q with q_head and q_tail, its writers (the second half of  *)
(* push_event, called from both work items and from probe), and its        *)
(* readers (node_read, blocking or not, and node_poll).                    *)
(*                                                                         *)
(* A critical section of q_lock is one action, and so is each operation on *)
(* read_wq, which has a lock of its own.  wait_event_interruptible() and   *)
(* poll() share one shape: look; if nothing is there get on the wait       *)
(* queue, look again, and sleep unless woken since.                        *)
(*                                                                         *)
(* An event is its number in the order of the appends.                     *)
(***************************************************************************)
EXTENDS Naturals, Sequences

CONSTANTS Size,      \* EVENT_Q_SIZE
          Writers,   \* threads in push_event
          Readers,   \* threads in node_read or poll
          Modes,     \* the calls they make: "block", "nonblock", "poll"
          MaxPushed  \* bound of the model: how many events ever come

ASSUME SizeAssumption == Size \in Nat \ {0, 1}
ASSUME ModesAssumption == Modes \subseteq {"block", "nonblock", "poll"}
ASSUME MaxPushedAssumption == MaxPushed \in Nat

VARIABLES
    q, head, tail,
    waiters,     \* the readers on read_wq
    wpc,         \* "idle", or "wake" between the append and wake_up
    rpc,         \* where each reader is
    mode,        \* its current or last call: "block", "nonblock" or "poll"
    result,      \* what its last call returned
    pushed,      \* how many events were appended
    taken        \* history: the event last dequeued, 0 before the first

ring    == <<q, head, tail>>
readers == <<rpc, mode, result>>
vars == <<ring, waiters, wpc, readers, pushed, taken>>

Slots    == 0 .. Size - 1
Results  == {"none", "line", "POLLIN", "EAGAIN", "EINVAL", "EFAULT", "ERESTARTSYS"}
RLabels  == {"idle", "check", "prepare", "recheck", "schedule", "take", "copy"}

----------------------------------------------------------------------------
(* Deliberately wrong variants; PROJECT.json names them to show that each   *)
(* property can fail.                                                       *)

\* An append that takes the ring never to be full.
QueueFullNever == FALSE

\* The index past the last slot, never wrapped.
NextSlotUnwrapped(i) == i + 1

\* A wait that sleeps right after it got on the wait queue.
GoToSleepWithoutLook(r) ==
    /\ rpc[r] = "prepare"
    /\ waiters' = waiters \cup {r}
    /\ rpc' = [rpc EXCEPT ![r] = "schedule"]
    /\ UNCHANGED <<ring, wpc, mode, result, pushed, taken>>

\* push_event() without wake_up_interruptible()
WakeNobody == UNCHANGED waiters

----------------------------------------------------------------------------
NextSlot(i) == (i + 1) % Size

QueueEmpty == head = tail
QueueFull  == NextSlot(head) = tail

RGoto(r, label) == rpc' = [rpc EXCEPT ![r] = label]

\* The call returns.
Return(r, value) ==
    /\ RGoto(r, "idle")
    /\ result' = [result EXCEPT ![r] = value]

----------------------------------------------------------------------------
(* push_event, from its second critical section on                          *)

Push(w) ==
    /\ wpc[w] = "idle"
    /\ pushed < MaxPushed
    /\ tail' = IF QueueFull THEN NextSlot(tail) ELSE tail
    /\ q' = [q EXCEPT ![head] = pushed + 1]
    /\ head' = NextSlot(head)
    /\ pushed' = pushed + 1
    /\ wpc' = [wpc EXCEPT ![w] = "wake"]
    /\ UNCHANGED <<waiters, readers, taken>>

\* Waiting readers are no exclusive waiters: all are woken.
WakeAll == waiters' = {}

WakeUp(w) ==
    /\ wpc[w] = "wake"
    /\ WakeAll
    /\ wpc' = [wpc EXCEPT ![w] = "idle"]
    /\ UNCHANGED <<ring, readers, pushed, taken>>

----------------------------------------------------------------------------
(* node_read and node_poll                                                  *)

\* read() of at least one byte, or poll()
Call(r, m) ==
    /\ rpc[r] = "idle"
    /\ mode' = [mode EXCEPT ![r] = m]
    /\ RGoto(r, IF m = "poll" THEN "prepare" ELSE "check")
    /\ result' = [result EXCEPT ![r] = "none"]
    /\ UNCHANGED <<ring, waiters, wpc, pushed, taken>>

\* The first look, of the O_NONBLOCK branch and of wait_event_interruptible()
Check(r) ==
    /\ rpc[r] = "check"
    /\ \/ /\ ~QueueEmpty
          /\ RGoto(r, "take")
          /\ UNCHANGED result
       \/ /\ QueueEmpty /\ mode[r] = "nonblock"
          /\ Return(r, "EAGAIN")
       \/ /\ QueueEmpty /\ mode[r] = "block"
          /\ RGoto(r, "prepare")
          /\ UNCHANGED result
    /\ UNCHANGED <<ring, waiters, wpc, mode, pushed, taken>>

\* prepare_to_wait() or poll_wait()
GoToSleep(r) ==
    /\ rpc[r] = "prepare"
    /\ waiters' = waiters \cup {r}
    /\ RGoto(r, "recheck")
    /\ UNCHANGED <<ring, wpc, mode, result, pushed, taken>>

\* The look after it; finish_wait() when something is there
Recheck(r) ==
    /\ rpc[r] = "recheck"
    /\ IF QueueEmpty
       THEN RGoto(r, "schedule") /\ UNCHANGED <<waiters, result>>
       ELSE /\ waiters' = waiters \ {r}
            /\ IF mode[r] = "poll"
               THEN Return(r, "POLLIN")
               ELSE RGoto(r, "take") /\ UNCHANGED result
    /\ UNCHANGED <<ring, wpc, mode, pushed, taken>>

\* Asleep in schedule() while on the wait queue; once woken, round again.
Resume(r) ==
    /\ rpc[r] = "schedule"
    /\ r \notin waiters
    /\ RGoto(r, "prepare")
    /\ UNCHANGED <<ring, waiters, wpc, mode, result, pushed, taken>>

\* A signal ends the wait.
Signal(r) ==
    /\ rpc[r] = "schedule"
    /\ waiters' = waiters \ {r}
    /\ Return(r, "ERESTARTSYS")
    /\ UNCHANGED <<ring, wpc, mode, pushed, taken>>

\* The last critical section: between the look and here q_lock was free.
Dequeue(r) ==
    /\ rpc[r] = "take"
    /\ IF QueueEmpty
       THEN Return(r, "EAGAIN") /\ UNCHANGED <<tail, taken>>
       ELSE /\ taken' = q[tail]
            /\ tail' = NextSlot(tail)
            /\ RGoto(r, "copy")
            /\ UNCHANGED result
    /\ UNCHANGED <<q, head, waiters, wpc, mode, pushed>>

\* The line is formatted and copied out: the buffer may be short or bad.
CopyOut(r) ==
    /\ rpc[r] = "copy"
    /\ \E value \in {"line", "EINVAL", "EFAULT"} : Return(r, value)
    /\ UNCHANGED <<ring, waiters, wpc, mode, pushed, taken>>

----------------------------------------------------------------------------
\* kzalloc() zeroes the ring; its slots are not read before they are written.
Init ==
    /\ q = [i \in Slots |-> 0]
    /\ head = 0
    /\ tail = 0
    /\ waiters = {}
    /\ wpc = [w \in Writers |-> "idle"]
    /\ rpc = [r \in Readers |-> "idle"]
    /\ mode = [r \in Readers |-> "block"]
    /\ result = [r \in Readers |-> "none"]
    /\ pushed = 0
    /\ taken = 0

Write(w) == Push(w) \/ WakeUp(w)

\* What node_read and poll do between call and return
Proceed(r) ==
    Check(r) \/ GoToSleep(r) \/ Recheck(r) \/ Resume(r) \/ Dequeue(r) \/ CopyOut(r)

Next ==
    \/ \E w \in Writers : Write(w)
    \/ \E r \in Readers : \/ \E m \in Modes : Call(r, m)
                          \/ Proceed(r)
                          \/ Signal(r)

Spec == Init /\ [][Next]_vars

\* The kernel runs whom it may, and a reader calls again for the next event,
\* as the daemon's loop does: whatever else it calls, it
\* reads again and again.
Fairness ==
    /\ \A w \in Writers : WF_vars(WakeUp(w))
    /\ \A r \in Readers : WF_vars(Proceed(r)) /\ SF_vars(Call(r, "block"))

FairSpec == Spec /\ Fairness

----------------------------------------------------------------------------
TypeOK ==
    /\ q \in [Slots -> Nat]
    /\ head \in Slots
    /\ tail \in Slots
    /\ waiters \subseteq Readers
    /\ wpc \in [Writers -> {"idle", "wake"}]
    /\ rpc \in [Readers -> RLabels]
    /\ mode \in [Readers -> Modes \cup {"block"}]
    /\ result \in [Readers -> Results]
    /\ pushed \in Nat
    /\ taken \in Nat

\* How many events the ring holds, and which, oldest first
Length   == (head + Size - tail) % Size
Contents == [i \in 1 .. Length |-> q[(tail + i - 1) % Size]]

\* A reader sleeps on a queue with something in it only while a writer is
\* still on its way to wake_up_interruptible().
NoLostWakeup ==
    \A r \in Readers :
        rpc[r] = "schedule" /\ r \in waiters /\ ~QueueEmpty =>
            \E w \in Writers : wpc[w] = "wake"

\* However appends, overwriting and reads interleave, the ring holds the
\* newest events without a gap: all that came after the one last handed out,
\* or as many as it has room for.
KeepsNewest ==
    /\ \A i \in 1 .. Length : Contents[i] = pushed - Length + i
    /\ taken <= pushed
    /\ Length = IF pushed - taken < Size THEN pushed - taken ELSE Size - 1

\* The ring is a first-in first-out queue of Size - 1 events that gives up
\* its oldest event when it is full.
Fifo == INSTANCE LossyFifo WITH Capacity <- Size - 1, fifo <- Contents
FifoSpec == Fifo!FifoSpec

\* Every event leaves the queue, read or overwritten.
EveryEventLeaves ==
    \A n \in 1 .. MaxPushed : pushed >= n ~> n <= pushed - Length
=============================================================================
