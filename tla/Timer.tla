------------------------------- MODULE Timer --------------------------------
(***************************************************************************)
(* The EL2 physical timer (drivers/timer) on the interrupt controller: its *)
(* output drives the line of interrupt 26 while the count has run out, and *)
(* the host's handler forwards that interrupt to HandleIrq instead of      *)
(* injecting it into a guest.                                              *)
(*                                                                         *)
(* Time is what has passed since the last arm.  A client registers its     *)
(* callback and context in two stores that an interrupt may come between.  *)
(***************************************************************************)
EXTENDS Gic

CONSTANTS
  IRQ,         \* Timer::IRQ
  Frequency,   \* CNTFRQ_EL0, the interval of a new timer
  Intervals,   \* intervals a client sets
  TvalRange,   \* CNTHP_TVAL_EL2 is a signed number of this many values
  Clients,     \* callbacks, each with a context of its own
  MaxElapsed   \* bound: time is not told apart after this many ticks

nullptr == "nullptr"

ASSUME TimerAssumption ==
  /\ nullptr \notin Clients
  /\ IRQ \in Irqs /\ TvalRange \in Nat \ {0}
  /\ Intervals \cup {Frequency} \subseteq Nat
  /\ MaxElapsed \in Nat

VARIABLES
  ctl,              \* CNTHP_CTL.ENABLE
  armed,            \* what was last written to TVAL
  elapsed,          \* the counter less m_lastArmTicks
  m_intervalTicks,
  m_callback, m_ctx,
  registering,      \* the client between the two stores of SetCallback
  started,          \* ghost: a client called Start after the last Stop
  replacing         \* ghost: SetCallback was called on a started timer and has
                    \* not returned

timerVars == <<ctl, armed, elapsed, m_intervalTicks, m_callback, m_ctx, registering, started, replacing>>
allVars == <<gicVars, timerVars>>

\* TVAL keeps the low half of the interval, as a signed number.
Tval(ticks) ==
  LET low == ticks % TvalRange
  IN  IF 2 * low >= TvalRange THEN low - TvalRange ELSE low

\* The output is high from the moment the count reaches zero.
Output(on, interval, ticks) == on /\ ticks >= Tval(interval)

DriveLine ==
  line' = (line \ {IRQ}) \cup (IF Output(ctl', armed', elapsed') THEN {IRQ} ELSE {})

otherVars == <<enabled, active, lr, vmcr, handler, irq, injected, forwarded, stranded>>

\* Mutant: the constructor does not stop a timer that the firmware started.
InitAsLeft ==
  /\ GicInit
  /\ ctl \in BOOLEAN /\ armed = Frequency /\ elapsed = 0
  /\ m_intervalTicks = Frequency
  /\ m_callback = nullptr /\ m_ctx = nullptr /\ registering = nullptr
  /\ started = FALSE /\ replacing = FALSE

\* The constructor takes a second as the interval and disarms the timer.
TimerInit ==
  /\ GicInit
  /\ ctl = FALSE /\ armed = Frequency /\ elapsed = 0
  /\ m_intervalTicks = Frequency
  /\ m_callback = nullptr /\ m_ctx = nullptr /\ registering = nullptr
  /\ started = FALSE /\ replacing = FALSE

-----------------------------------------------------------------------------
(* The driver's operations.                                                *)

Arm == armed' = m_intervalTicks /\ elapsed' = 0

Start ==
  /\ Ready /\ registering = nullptr
  /\ Arm /\ ctl' = TRUE /\ started' = TRUE
  /\ UNCHANGED <<otherVars, m_intervalTicks, m_callback, m_ctx, registering, replacing>>
  /\ DriveLine

Stop ==
  /\ Ready /\ registering = nullptr
  /\ ctl' = FALSE /\ started' = FALSE
  /\ UNCHANGED <<otherVars, armed, elapsed, m_intervalTicks, m_callback, m_ctx, registering, replacing>>
  /\ DriveLine

SetIntervalTicks(ticks) ==
  /\ Ready /\ registering = nullptr
  /\ m_intervalTicks' = ticks
  /\ UNCHANGED <<gicVars, ctl, armed, elapsed, m_callback, m_ctx, registering, started, replacing>>

\* The callback is stored first, then its context.
SetCallback(c) ==
  /\ Ready
  /\ \/ /\ registering = nullptr
        /\ m_callback' = c /\ registering' = c /\ replacing' = started
        /\ UNCHANGED <<gicVars, ctl, armed, elapsed, m_intervalTicks, m_ctx, started>>
     \/ /\ registering = c
        /\ m_ctx' = c /\ registering' = nullptr /\ replacing' = FALSE
        /\ UNCHANGED <<gicVars, ctl, armed, elapsed, m_intervalTicks, m_callback, started>>

\* The handler acknowledged the timer's interrupt.
TimerAcked == handler = "acked" /\ irq = IRQ

\* HandleIrq reloads the timer and calls the client.  Nothing in the driver
\* deactivates the interrupt that EndIrq will drop the priority of.
HandleIrq ==
  /\ TimerAcked
  /\ Arm
  /\ handler' = "handled"
  /\ stranded' = stranded \cup {IRQ}
  /\ UNCHANGED <<enabled, active, lr, vmcr, irq, injected, forwarded,
                 ctl, m_intervalTicks, m_callback, m_ctx, registering, started, replacing>>
  /\ DriveLine

-----------------------------------------------------------------------------
(* Time, and the controller's own steps.                                   *)

Tick ==
  /\ elapsed < MaxElapsed /\ elapsed' = elapsed + 1
  /\ UNCHANGED <<otherVars, ctl, armed, m_intervalTicks, m_callback, m_ctx, registering, started, replacing>>
  /\ DriveLine

\* Nothing else moves the timer's line, and its interrupt goes to HandleIrq,
\* as the header asks.
Beside ==
  /\ ~TimerAcked /\ (IRQ \in line') = (IRQ \in line)
  /\ UNCHANGED timerVars

TimerNext ==
  \/ Start \/ Stop \/ HandleIrq \/ Tick
  \/ \E ticks \in Intervals : SetIntervalTicks(ticks)
  \/ \E c \in Clients : SetCallback(c)
  \/ GicNext /\ Beside

TimerSpec == TimerInit /\ [][TimerNext]_allVars

\* Time passes, and a handler as the header asks for it runs to its end.
TimerFairSpec ==
  /\ TimerSpec
  /\ WF_allVars(Tick) /\ WF_allVars(HandleIrq)
  /\ WF_allVars(AckIrq /\ Beside) /\ WF_allVars(Forward /\ Beside) /\ WF_allVars(EndIrq /\ Beside)
  /\ \A i \in Lrs : WF_allVars(GuestAck(i) /\ Beside) /\ WF_allVars(GuestEoi(i) /\ Beside)

-----------------------------------------------------------------------------
(* Properties.                                                             *)

\* The types of the timer's state.
TimerTypeOK ==
  /\ {ctl, started, replacing} \subseteq BOOLEAN
  /\ {armed, m_intervalTicks} \subseteq Intervals \cup {Frequency}
  /\ elapsed \in 0 .. MaxElapsed
  /\ {m_callback, m_ctx, registering} \subseteq Clients \cup {nullptr}

\* Whenever HandleIrq runs, the callback it calls gets the context registered
\* with it, although SetCallback stores them one after the other and takes no
\* measure against interrupts: the constructor and Stop leave no interrupt of
\* the timer to come in between.  A client that registers on a started timer,
\* against the header's "Call SetCallback() before Start()", is excepted, for
\* the time of that call.
CallbackGetsItsContext == TimerAcked => m_callback = m_ctx \/ replacing

\* Each expiry of a running timer whose interrupt is enabled is handled, and
\* the timer reloaded with an interval that is not over at once.
EachExpiryHandled ==
  IRQ \in line \cap enabled ~> IRQ \notin line \cap enabled
=============================================================================
