-------------------------- MODULE DriverLifecycle --------------------------
(***************************************************************************)
(* conveyor_probe and conveyor_remove: what the driver acquires, in which  *)
(* order it gives it back, and what runs meanwhile on the device structure *)
(* nd: the interrupt handlers, the two works, the timer, a reader of the   *)
(* stats file and a process that has the device file open.                 *)
(*                                                                         *)
(* External, from how the driver uses it: free_irq waits for a handler     *)
(* that runs, proc_remove for a read in progress, the _sync cancellations  *)
(* for a work that runs; misc_deregister does not wait for open files, but *)
(* an open file holds the module (.owner), which is then not unloaded.     *)
(* What the handlers and works compute is ConveyorNode's and Ultrasonic's. *)
(***************************************************************************)
EXTENDS Naturals, Sequences, Functions

VARIABLES
    pc,        \* "probe", "unwind", "failed", "loaded", "remove", "unloaded"
    at,        \* the step of pc, or the resource unwound next
    held,      \* the resources the driver has
    gdev,      \* gdev points to nd
    timer,     \* sample_timer is armed
    tiltWork, fusionWork,  \* the works: the subset of {"pending", "running"} they are
    handlers,  \* the interrupt handlers that run
    stats,     \* a stats_read works on nd
    file,      \* the device file is open
    lateEdge   \* history: tilt_eval_work was armed and nothing will cancel it

works  == <<timer, tiltWork, fusionWork>>
users  == <<handlers, stats, file>>
driver == <<pc, at, held, gdev>>
vars   == <<driver, works, users, lateEdge>>

\* In the order conveyor_probe and request_gpios acquire them
ProbeOrder == <<"nd", "tilt_gpio", "ultra_trig_gpio", "ultra_echo_gpio", "led_gpio",
                "tilt_irq", "ultra_irq", "miscdev", "proc_entry">>

Resources == Range(ProbeOrder)
Gpios     == {"tilt_gpio", "ultra_trig_gpio", "ultra_echo_gpio", "led_gpio"}
Irqs      == {"tilt_irq", "ultra_irq"}

----------------------------------------------------------------------------
(* Deliberately wrong variants; PROJECT.json names them to show that each   *)
(* property can fail.                                                       *)

\* A label that skips the resource acquired last.
UnwindFromBelow(i) == IF i > 1 THEN i - 2 ELSE 0

RemoveOrderGdevLast ==
    <<"timer", "tilt_work", "fusion_work", "proc_entry", "miscdev", "ultra_irq",
      "tilt_irq", "gpios", "nd", "gdev">>

RemoveOrderFusionFirst ==
    <<"gdev", "fusion_work", "timer", "tilt_work", "proc_entry", "miscdev", "ultra_irq",
      "tilt_irq", "gpios", "nd">>

RemoveOrderProcLast ==
    <<"gdev", "timer", "tilt_work", "fusion_work", "miscdev", "ultra_irq",
      "tilt_irq", "gpios", "nd", "proc_entry">>

RemoveOrderGpiosFirst ==
    <<"gdev", "timer", "tilt_work", "fusion_work", "proc_entry", "miscdev", "gpios",
      "ultra_irq", "tilt_irq", "nd">>

----------------------------------------------------------------------------
(* conveyor_probe                                                           *)

Acquire ==
    /\ pc = "probe" /\ at <= Len(ProbeOrder)
    /\ held' = held \cup {ProbeOrder[at]}
    /\ at' = at + 1
    /\ UNCHANGED <<pc, gdev, works, users, lateEdge>>

\* The resource to release first when step i fails: the one acquired last.
UnwindFrom(i) == i - 1

\* A step fails, or spi_setup (before the GPIOs), or gpio_to_irq (before the IRQs)
AcquireFails ==
    /\ pc = "probe" /\ at <= Len(ProbeOrder)
    /\ pc' = "unwind"
    /\ at' = UnwindFrom(at)
    /\ UNCHANGED <<held, gdev, works, users, lateEdge>>

\* gpio_direction_input or _output fails on the GPIO just requested
DirectionFails ==
    /\ pc = "probe" /\ at > 1
    /\ ProbeOrder[at - 1] \in Gpios
    /\ pc' = "unwind"
    /\ at' = at - 1
    /\ UNCHANGED <<held, gdev, works, users, lateEdge>>

\* gdev, push_event (ConveyorNode's) and hrtimer_start
Publish ==
    /\ pc = "probe" /\ at = Len(ProbeOrder) + 1
    /\ gdev' = TRUE
    /\ timer' = TRUE
    /\ pc' = "loaded" /\ at' = 0
    /\ UNCHANGED <<held, tiltWork, fusionWork, users, lateEdge>>

\* Giving back waits for those who are inside.
Releasable(r) == r \notin handlers /\ (r = "proc_entry" => ~stats)

\* err_misc to err_free, and request_gpios's own labels
Unwind ==
    /\ pc = "unwind"
    /\ \/ /\ at > 0
          /\ Releasable(ProbeOrder[at])
          /\ held' = held \ {ProbeOrder[at]}
          /\ at' = at - 1
          /\ UNCHANGED pc
       \/ /\ at = 0
          /\ pc' = "failed"
          /\ UNCHANGED <<at, held>>
    /\ UNCHANGED <<gdev, works, users, lateEdge>>

----------------------------------------------------------------------------
(* conveyor_remove                                                          *)

MayUnload == ~file

RemoveStart ==
    /\ pc = "loaded"
    /\ MayUnload
    /\ pc' = "remove" /\ at' = 1
    /\ UNCHANGED <<held, gdev, works, users, lateEdge>>

RemoveOrder ==
    <<"gdev", "timer", "tilt_work", "fusion_work", "proc_entry", "miscdev", "ultra_irq",
      "tilt_irq", "gpios", "nd">>

AtRemoveStep(s) == pc = "remove" /\ at <= Len(RemoveOrder) /\ RemoveOrder[at] = s

NextRemoveStep ==
    /\ at' = at + 1
    /\ pc' = IF at = Len(RemoveOrder) THEN "unloaded" ELSE pc

ClearGdev ==
    /\ AtRemoveStep("gdev")
    /\ gdev' = FALSE
    /\ NextRemoveStep
    /\ UNCHANGED <<held, works, users, lateEdge>>

CancelTimer ==
    /\ AtRemoveStep("timer")
    /\ timer' = FALSE
    /\ NextRemoveStep
    /\ UNCHANGED <<held, gdev, tiltWork, fusionWork, users, lateEdge>>

CancelTiltWork ==
    /\ AtRemoveStep("tilt_work")
    /\ "running" \notin tiltWork
    /\ tiltWork' = {}
    /\ lateEdge' = FALSE
    /\ NextRemoveStep
    /\ UNCHANGED <<held, gdev, timer, fusionWork, users>>

CancelFusionWork ==
    /\ AtRemoveStep("fusion_work")
    /\ "running" \notin fusionWork
    /\ fusionWork' = {}
    /\ NextRemoveStep
    /\ UNCHANGED <<held, gdev, timer, tiltWork, users, lateEdge>>

\* proc_remove, misc_deregister, free_irq, free_gpios and kfree
Release ==
    /\ \E s \in Resources \cup {"gpios"} :
          /\ AtRemoveStep(s)
          /\ Releasable(s)
          /\ held' = held \ (IF s = "gpios" THEN Gpios ELSE {s})
    /\ NextRemoveStep
    /\ UNCHANGED <<gdev, works, users, lateEdge>>

Remove == ClearGdev \/ CancelTimer \/ CancelTiltWork \/ CancelFusionWork \/ Release

----------------------------------------------------------------------------
(* What runs on nd.                                                         *)

\* An edge of the tilt or the echo pin
IrqStart(irq) ==
    /\ irq \in held \ handlers
    /\ handlers' = handlers \cup {irq}
    /\ UNCHANGED <<driver, works, stats, file, lateEdge>>

TiltIrqEnd ==
    /\ "tilt_irq" \in handlers
    /\ handlers' = handlers \ {"tilt_irq"}
    /\ tiltWork' = tiltWork \cup {"pending"}
    /\ lateEdge' = TRUE
    /\ UNCHANGED <<driver, timer, fusionWork, stats, file>>

UltraIrqEnd ==
    /\ "ultra_irq" \in handlers
    /\ handlers' = handlers \ {"ultra_irq"}
    /\ UNCHANGED <<driver, works, stats, file, lateEdge>>

\* A work may be queued again while it runs, and never runs twice at a time.
TiltWorkStart ==
    /\ tiltWork = {"pending"}
    /\ tiltWork' = {"running"}
    /\ UNCHANGED <<driver, timer, fusionWork, users, lateEdge>>

TiltWorkEnd ==
    /\ "running" \in tiltWork
    /\ tiltWork' = tiltWork \ {"running"}
    /\ \/ fusionWork' = fusionWork \cup {"pending"}
       \/ fusionWork' = fusionWork
    /\ UNCHANGED <<driver, timer, users, lateEdge>>

FusionWorkStart ==
    /\ fusionWork = {"pending"}
    /\ fusionWork' = {"running"}
    /\ UNCHANGED <<driver, timer, tiltWork, users, lateEdge>>

FusionWorkEnd ==
    /\ "running" \in fusionWork
    /\ fusionWork' = fusionWork \ {"running"}
    /\ UNCHANGED <<driver, timer, tiltWork, users, lateEdge>>

\* sample_timer_fn; the timer starts itself again.
SampleTimer ==
    /\ timer
    /\ fusionWork' = fusionWork \cup {"pending"}
    /\ UNCHANGED <<driver, timer, tiltWork, users, lateEdge>>

\* stats_read goes on with the gdev it read; without one it returns.
StatsStart ==
    /\ "proc_entry" \in held
    /\ ~stats
    /\ gdev
    /\ stats' = TRUE
    /\ UNCHANGED <<driver, works, handlers, file, lateEdge>>

StatsEnd ==
    /\ stats
    /\ stats' = FALSE
    /\ UNCHANGED <<driver, works, handlers, file, lateEdge>>

\* Opening takes a reference to the module, which a module that is being unloaded
\* does not give.
OpenFile ==
    /\ "miscdev" \in held
    /\ pc # "remove"
    /\ ~file
    /\ file' = TRUE
    /\ UNCHANGED <<driver, works, handlers, stats, lateEdge>>

CloseFile ==
    /\ file
    /\ file' = FALSE
    /\ UNCHANGED <<driver, works, handlers, stats, lateEdge>>

----------------------------------------------------------------------------
Init ==
    /\ pc = "probe" /\ at = 1
    /\ held = {} /\ gdev = FALSE
    /\ timer = FALSE /\ tiltWork = {} /\ fusionWork = {}
    /\ handlers = {} /\ stats = FALSE /\ file = FALSE
    /\ lateEdge = FALSE

Probe == Acquire \/ AcquireFails \/ DirectionFails \/ Publish \/ Unwind

Running ==
    \/ \E irq \in Irqs : IrqStart(irq)
    \/ TiltIrqEnd \/ UltraIrqEnd
    \/ TiltWorkStart \/ TiltWorkEnd \/ FusionWorkStart \/ FusionWorkEnd \/ SampleTimer
    \/ StatsStart \/ StatsEnd \/ OpenFile \/ CloseFile

Next == Probe \/ RemoveStart \/ Remove \/ Running

Spec == Init /\ [][Next]_vars

----------------------------------------------------------------------------
\* Types; and gdev leads to a device that has everything it needs.
TypeOK ==
    /\ pc \in {"probe", "unwind", "failed", "loaded", "remove", "unloaded"}
    /\ at \in 0 .. Len(RemoveOrder) + 1
    /\ held \subseteq Resources
    /\ gdev \in BOOLEAN
    /\ timer \in BOOLEAN
    /\ tiltWork \subseteq {"pending", "running"}
    /\ fusionWork \subseteq {"pending", "running"}
    /\ handlers \subseteq Irqs
    /\ stats \in BOOLEAN
    /\ file \in BOOLEAN
    /\ lateEdge \in BOOLEAN
    /\ gdev => held = Resources

\* A probe that fails, at whatever step, and an unload leave nothing acquired.
NothingLeftHeld == pc \in {"failed", "unloaded"} => held = {}

\* A handler has the device structure and every GPIO for as long as it runs, a
\* reader of the stats file the structure, however they meet with the unload or
\* with a probe that fails.
UsersHaveDevice ==
    /\ handlers # {} => Gpios \cup {"nd"} \subseteq held
    /\ stats => "nd" \in held

\* No work or timer is left for a device that is gone, except through an edge of
\* the tilt pin that came after conveyor_remove cancelled the work, or during a
\* probe that fails, which cancels nothing.
WorkLeftOnlyByLateEdge ==
    "nd" \notin held /\ (timer \/ tiltWork # {} \/ fusionWork # {}) => lateEdge
=============================================================================
