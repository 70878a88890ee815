----------------------------- MODULE LossyFifo -----------------------------
(***************************************************************************)
(* What the driver's event queue promises its readers, whatever holds the  *)
(* events: at most Capacity of them wait, in the order they were put in;   *)
(* each is handed out at most once, oldest first; one is lost only to make *)
(* room for a newer one, and then it is the oldest.                        *)
(* Events are numbered as they come.                                       *)
(***************************************************************************)
EXTENDS Naturals, Sequences

CONSTANT Capacity   \* at least one

VARIABLES
    fifo,     \* the events that wait, oldest first
    pushed,   \* how many events came so far; also the number of the newest
    taken     \* the event last handed out, 0 before the first

fifoVars == <<fifo, pushed, taken>>

FifoInit == fifo = <<>> /\ pushed = 0 /\ taken = 0

\* The newest Capacity elements of a sequence
Newest(s) == IF Len(s) <= Capacity THEN s ELSE Tail(s)

Put ==
    /\ pushed' = pushed + 1
    /\ fifo' = Newest(Append(fifo, pushed'))
    /\ UNCHANGED taken

Take ==
    /\ fifo # <<>>
    /\ taken' = Head(fifo)
    /\ fifo' = Tail(fifo)
    /\ UNCHANGED pushed

FifoSpec == FifoInit /\ [][Put \/ Take]_fifoVars
=============================================================================
