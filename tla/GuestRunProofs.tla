---------------------------- MODULE GuestRunProofs --------------------------
(***************************************************************************)
(* What holds while a guest runs: its interrupts and its registers.        *)
(*                                                                         *)
(* Interrupt delivery is safe for every set of interrupts, assignment of   *)
(* virtual identifiers, number of List Registers and timer interval        *)
(* (GicInv).                                                               *)
(*                                                                         *)
(* The run loop is safe for every set of guest exceptions, every set of    *)
(* register values and any number of rounds.  None of its properties is    *)
(* inductive: what an exit or an entry restores was put somewhere steps    *)
(* before, and the guest has changed the core since.  IInv says, for each  *)
(* point of the switch, where each register of each side is: the core, the *)
(* frame on the stack, the vector's slots or the object.                   *)
(***************************************************************************)
EXTENDS Timer, Vmm, TLAPS, SequenceTheorems

\* How long, in seconds, a leaf may take where it does not say otherwise.
USE SMTT(20), ZenonT(20)

-----------------------------------------------------------------------------
(* Interrupts.                                                             *)

LrRecord == [virt : Nat, phys : Irqs \cup {0}, state : {"inactive", "pending", "active"}]

\* What the proofs need of the types.
Types ==
  /\ active \subseteq Irqs /\ enabled \subseteq Irqs
  /\ lr \in [Lrs -> LrRecord]
  /\ handler \in {"idle", "acked", "handled"}
  /\ handler # "idle" => irq \in Irqs

\* A live List Register has the virtual identifier of its interrupt, and no two
\* have the same one.
Distinct ==
  /\ \A i \in Lrs : Live(i) => lr[i].virt = VirtOf[lr[i].phys]
  /\ \A i, j \in Lrs : Live(i) /\ Live(j) /\ lr[i].virt = lr[j].virt => i = j

\* The interrupt in the handler's hands is active, and accounted for once it is
\* handled.
InHand ==
  /\ handler # "idle" => irq \in active
  /\ handler = "handled" => irq \in stranded \/ \E i \in Lrs : Live(i) /\ lr[i].phys = irq

Accounted ==
  \A id \in active : \/ \E i \in Lrs : Live(i) /\ lr[i].phys = id
                     \/ handler # "idle" /\ id = irq
                     \/ id \in stranded

\* The inductive invariant.
GicInv == Types /\ Distinct /\ InHand /\ LiveIsActive /\ Accounted

\* The timer's line is high only while the timer runs.  The callback and its
\* context belong together outside SetCallback; an interrupt of the timer finds
\* it half done only if it was called on a started timer.
TimerInv ==
  /\ {ctl, started, replacing} \subseteq BOOLEAN
  /\ IRQ \in line => ctl
  /\ ctl => started
  /\ registering # nullptr /\ started => replacing
  /\ IF registering = nullptr THEN m_callback = m_ctx ELSE m_callback = registering
  /\ TimerAcked => registering = nullptr \/ replacing

-----------------------------------------------------------------------------
\* The constructor establishes GicInv.
LEMMA InitGicInv == GicInit => GicInv
<1> SUFFICES ASSUME GicInit PROVE GicInv
  OBVIOUS
<1>1. Types
  <2>1. Cleared \in LrRecord
    BY DEF Cleared, LrRecord
  <2> QED
    BY <2>1 DEF GicInit, Types
<1>2. Distinct /\ InHand /\ LiveIsActive /\ Accounted
  BY DEF GicInit, Distinct, InHand, LiveIsActive, Accounted, Live, Cleared
<1> QED
  BY <1>1, <1>2 DEF GicInv

\* A cleared controller satisfies GicInv.
LEMMA ClearedGicInv ==
  ASSUME GicInv, lr' = [i \in Lrs |-> Cleared], handler = "idle", UNCHANGED <<handler, irq>>,
         active' \subseteq Irqs, enabled' \subseteq Irqs, active' \subseteq stranded'
  PROVE  GicInv'
<1>1. lr' \in [Lrs -> LrRecord]
  BY DEF Cleared, LrRecord
<1>2. \A i \in Lrs : ~(Live(i)')
  BY DEF Live, Cleared
<1> QED
  BY <1>1, <1>2 DEF GicInv, Types, Distinct, InHand, LiveIsActive, Accounted, Live

\* A step that changes only lines and enables preserves GicInv.
LEMMA QuietGicInv ==
  ASSUME GicInv, enabled' \subseteq Irqs, UNCHANGED <<active, lr, handler, irq, forwarded, stranded>>
  PROVE  GicInv'
BY DEF GicInv, Types, Distinct, InHand, LiveIsActive, Accounted, Live

\* AckIrq puts one more active interrupt in the handler's hands.
LEMMA AckGicInv == GicInv /\ AckIrq => GicInv'
<1> SUFFICES ASSUME GicInv, AckIrq PROVE GicInv'
  OBVIOUS
<1> PICK id \in Signalled : irq' = id /\ active' = active \cup {id}
  BY DEF AckIrq
<1>1. handler = "idle" /\ handler' = "acked" /\ UNCHANGED <<lr, forwarded, stranded, enabled>>
  BY DEF AckIrq, Ready
<1>2. id \in Irqs
  BY DEF GicInv, Types, Signalled
<1> QED
  BY <1>1, <1>2 DEF GicInv, Types, Distinct, InHand, LiveIsActive, Accounted, Live

\* What InjectIrq keeps, and where it leaves an interrupt that was active: in a
\* List Register, or stranded.
LEMMA InjectKeeps ==
  ASSUME NEW id \in Irqs, GicInv, InjectIrq(id)
  PROVE  /\ lr' \in [Lrs -> LrRecord] /\ Distinct' /\ LiveIsActive'
         /\ id \in active => id \in stranded' \/ \E i \in Lrs : Live(i)' /\ lr'[i].phys = id
         /\ \A x \in stranded : x # id => x \in stranded'
         /\ \A i \in Lrs : Live(i) => Live(i)' /\ lr'[i].phys = lr[i].phys
         /\ UNCHANGED <<active, enabled, irq>>
<1>1. UNCHANGED <<active, enabled, irq>>
  BY DEF InjectIrq
<1>2. CASE Refuse(id)
  <2>1. lr' = lr /\ forwarded' = forwarded /\ stranded' = stranded \cup ({id} \cap active)
    BY <1>2 DEF Refuse
  <2> QED
    BY <1>1, <2>1 DEF GicInv, Types, Distinct, LiveIsActive, Live
<1>3. ASSUME NEW k \in Free, Submit(k, id), \A i \in Lrs : lr[i].virt # VirtOf[id]
      PROVE  /\ lr' \in [Lrs -> LrRecord] /\ Distinct' /\ LiveIsActive'
             /\ \E i \in Lrs : Live(i)' /\ lr'[i].phys = id
             /\ \A x \in stranded : x # id => x \in stranded'
             /\ \A i \in Lrs : Live(i) => Live(i)' /\ lr'[i].phys = lr[i].phys
  <2>1. /\ k \in Lrs /\ ~Live(k) /\ lr' = [lr EXCEPT ![k] = Entry(id)]
        /\ stranded' = stranded \ {id}
        /\ forwarded' = (forwarded \ {id}) \cup ({id} \cap active)
    BY <1>3 DEF Free, Submit
  <2>2. Entry(id) \in LrRecord
    BY GicAssumption DEF Entry, LrRecord
  <2>3. /\ lr'[k] = Entry(id) /\ \A i \in Lrs \ {k} : lr'[i] = lr[i]
        /\ lr' \in [Lrs -> LrRecord]
    BY <2>1, <2>2 DEF GicInv, Types
  <2>4. Entry(id).virt = VirtOf[id] /\ Entry(id).phys = id /\ Entry(id).state # "inactive"
    BY DEF Entry
  <2>5. \A i \in Lrs : Live(i)' <=> Live(i) \/ i = k
    BY <2>1, <2>3, <2>4 DEF Live
  <2>6. \A i \in Lrs : Live(i) => lr[i].phys # id
    BY <1>3 DEF GicInv, Distinct
  <2>7. Distinct'
    BY <1>3, <2>1, <2>3, <2>4, <2>5 DEF GicInv, Distinct
  <2>8. LiveIsActive'
    BY <1>1, <2>1, <2>3, <2>4, <2>5, <2>6 DEF GicInv, LiveIsActive
  <2> QED
    BY <2>1, <2>3, <2>4, <2>5, <2>7, <2>8
<1> QED
  BY <1>1, <1>2, <1>3 DEF InjectIrq

\* InjectIrq preserves GicInv, in the handler and outside.
LEMMA InjectGicInv ==
  GicInv /\ (Forward \/ \E id \in Irqs : Inject(id)) => GicInv'
<1>1. ASSUME GicInv, Forward PROVE GicInv'
  <2>1. handler = "acked" /\ InjectIrq(irq) /\ handler' = "handled"
    BY <1>1 DEF Forward
  <2>2. irq \in Irqs /\ irq \in active
    BY <1>1, <2>1 DEF GicInv, Types, InHand
  <2> QED
    BY <1>1, <2>1, <2>2, InjectKeeps DEF GicInv, Types, InHand, Accounted
<1>2. ASSUME NEW id \in Irqs, GicInv, Inject(id) PROVE GicInv'
  <2>1. handler = "idle" /\ InjectIrq(id) /\ handler' = handler
    BY <1>2 DEF Inject, Ready
  <2> QED
    BY <1>2, <2>1, InjectKeeps DEF GicInv, Types, InHand, Accounted
<1> QED
  BY <1>1, <1>2

\* EndIrq lets go of an interrupt that is with the guest or stranded.
LEMMA EndGicInv == GicInv /\ EndIrq => GicInv'
<1> SUFFICES ASSUME GicInv, EndIrq PROVE GicInv'
  OBVIOUS
<1>1. /\ handler = "handled" /\ handler' = "idle"
      /\ UNCHANGED <<active, enabled, lr, forwarded, stranded>>
  BY DEF EndIrq
<1> QED
  BY <1>1 DEF GicInv, Types, Distinct, InHand, LiveIsActive, Accounted, Live

\* The guest's acknowledgement keeps what a List Register names.
LEMMA GuestAckGicInv == ASSUME NEW i \in Lrs PROVE GicInv /\ GuestAck(i) => GicInv'
<1> SUFFICES ASSUME GicInv, GuestAck(i) PROVE GicInv'
  OBVIOUS
<1>1. /\ handler = "idle" /\ Live(i) /\ lr' = [lr EXCEPT ![i].state = "active"]
      /\ UNCHANGED <<active, enabled, handler, irq, forwarded, stranded>>
  BY DEF GuestAck, Ready, Live
<1>2. /\ lr' \in [Lrs -> LrRecord]
      /\ \A j \in Lrs : lr'[j].virt = lr[j].virt /\ lr'[j].phys = lr[j].phys /\ (Live(j)' <=> Live(j))
  BY <1>1 DEF GicInv, Types, LrRecord, Live
<1> QED
  BY <1>1, <1>2 DEF GicInv, Types, Distinct, InHand, LiveIsActive, Accounted

\* The guest's end of interrupt frees one List Register and deactivates the
\* one interrupt that only it names.
LEMMA GuestEoiGicInv == ASSUME NEW i \in Lrs PROVE GicInv /\ GuestEoi(i) => GicInv'
<1> SUFFICES ASSUME GicInv, GuestEoi(i) PROVE GicInv'
  OBVIOUS
<1>1. /\ handler = "idle" /\ Live(i) /\ lr' = [lr EXCEPT ![i].state = "inactive"]
      /\ active' = active \ {lr[i].phys}
      /\ forwarded' = forwarded \ {lr[i].phys} /\ stranded' = stranded \ {lr[i].phys}
      /\ UNCHANGED <<enabled, handler, irq>>
  BY DEF GuestEoi, Ready, Live
<1>2. /\ lr' \in [Lrs -> LrRecord]
      /\ \A j \in Lrs : lr'[j].virt = lr[j].virt /\ lr'[j].phys = lr[j].phys
      /\ \A j \in Lrs : Live(j)' <=> Live(j) /\ j # i
  BY <1>1 DEF GicInv, Types, LrRecord, Live
<1>3. Types' /\ Distinct' /\ InHand'
  BY <1>1, <1>2 DEF GicInv, Types, Distinct, InHand
<1>4. LiveIsActive'
  BY <1>1, <1>2 DEF GicInv, Distinct, LiveIsActive
<1>5. Accounted'
  BY <1>1, <1>2 DEF GicInv, Accounted
<1> QED
  BY <1>3, <1>4, <1>5 DEF GicInv

\* Every step of the controller, its driver, the devices and the guest
\* preserves GicInv.
LEMMA NextGicInv == GicInv /\ GicNext => GicInv'
<1> SUFFICES ASSUME GicInv, GicNext PROVE GicInv'
  OBVIOUS
<1> USE DEF GicInv, Types
<1>1. ASSUME NEW id \in Irqs, EnableIrq(id) \/ DisableIrq(id) \/ Raise(id) \/ Lower(id)
      PROVE  GicInv'
  BY <1>1, QuietGicInv DEF EnableIrq, DisableIrq, Raise, Lower
<1>2. CASE GuestEnable
  BY <1>2, QuietGicInv DEF GuestEnable
<1>3. CASE Reset
  BY <1>3, ClearedGicInv DEF Reset, Ready, cpuInit
<1>4. CASE CpuReset
  <2>1. /\ handler = "idle" /\ lr' = [i \in Lrs |-> Cleared]
        /\ stranded' = stranded \cup (active \cap {lr[i].phys : i \in {j \in Lrs : Live(j)}})
        /\ UNCHANGED <<active, enabled, handler, irq>>
    BY <1>4 DEF CpuReset, Ready
  <2>2. active' \subseteq stranded'
    BY <2>1 DEF Accounted
  <2> QED
    BY <2>1, <2>2, ClearedGicInv
<1>5. CASE AckIrq
  BY <1>5, AckGicInv
<1>6. CASE Forward \/ \E id \in Irqs : Inject(id)
  BY <1>6, InjectGicInv
<1>7. CASE EndIrq
  BY <1>7, EndGicInv
<1>8. ASSUME NEW i \in Lrs, GuestAck(i) \/ GuestEoi(i) PROVE GicInv'
  BY <1>8, GuestAckGicInv, GuestEoiGicInv
<1> QED
  BY <1>1, <1>2, <1>3, <1>4, <1>5, <1>6, <1>7, <1>8 DEF GicNext

-----------------------------------------------------------------------------
(* The timer.                                                              *)

\* A new timer is stopped and has no callback.
LEMMA InitTimerInv == TimerInit => TimerInv
BY Zenon DEF TimerInit, GicInit, TimerInv, TimerAcked

\* The timer's steps preserve GicInv: they leave the controller alone, except
\* that HandleIrq strands the interrupt it was called for.
LEMMA TimerStepGicInv ==
  GicInv /\ (Start \/ Stop \/ HandleIrq \/ Tick
              \/ (\E t \in Intervals : SetIntervalTicks(t)) \/ (\E c \in Clients : SetCallback(c))) => GicInv'
<1>1. ASSUME GicInv, HandleIrq PROVE GicInv'
  <2>1. /\ handler = "acked" /\ irq = IRQ /\ handler' = "handled" /\ stranded' = stranded \cup {IRQ}
        /\ UNCHANGED <<active, enabled, lr, irq, forwarded>>
    BY <1>1 DEF HandleIrq, TimerAcked
  <2> QED
    BY <1>1, <2>1 DEF GicInv, Types, Distinct, InHand, LiveIsActive, Accounted, Live
<1>2. ASSUME GicInv, Start \/ Stop \/ Tick PROVE GicInv'
  BY <1>2, QuietGicInv DEF Start, Stop, Tick, otherVars, GicInv, Types
<1>3. ASSUME GicInv, UNCHANGED gicVars PROVE GicInv'
  BY <1>3, QuietGicInv DEF gicVars, GicInv, Types
<1> QED
  BY <1>1, <1>2, <1>3 DEF SetIntervalTicks, SetCallback

\* Every step preserves TimerInv: only Start turns the timer on, and Stop takes
\* its line down, so that an interrupt inside SetCallback is one of a timer that
\* was started before.
LEMMA TimerInvStep == TimerInv /\ [TimerNext]_allVars => TimerInv'
<1> SUFFICES ASSUME TimerInv, [TimerNext]_allVars PROVE TimerInv'
  OBVIOUS
<1>1. CASE Start
  BY <1>1 DEF Start, TimerInv, TimerAcked, Ready, otherVars, DriveLine, Output
<1>2. CASE Stop
  BY <1>2, Zenon DEF Stop, TimerInv, TimerAcked, Ready, otherVars, DriveLine, Output
<1>3. CASE HandleIrq
  BY <1>3 DEF HandleIrq, TimerInv, TimerAcked, DriveLine, Output
<1>4. CASE Tick
  BY <1>4 DEF Tick, TimerInv, TimerAcked, otherVars, DriveLine, Output
<1>5. ASSUME NEW t \in Intervals, SetIntervalTicks(t) PROVE TimerInv'
  BY <1>5 DEF SetIntervalTicks, TimerInv, TimerAcked, gicVars
<1>6. ASSUME NEW c \in Clients, SetCallback(c) PROVE TimerInv'
  <2>1. c # nullptr /\ ~(TimerAcked')
    BY <1>6, TimerAssumption DEF SetCallback, TimerAcked, Ready, gicVars
  <2>2. UNCHANGED <<line, ctl, started>>
    BY <1>6 DEF SetCallback, gicVars
  <2>3. CASE m_callback' = c /\ registering' = c /\ replacing' = started
    BY <2>1, <2>2, <2>3, Zenon DEF TimerInv
  <2>4. CASE registering = c /\ m_ctx' = c /\ m_callback' = m_callback /\ registering' = nullptr /\ replacing' = FALSE
    BY <2>1, <2>2, <2>4, Zenon DEF TimerInv
  <2> QED
    BY <1>6, <2>3, <2>4, Zenon DEF SetCallback
<1>7. CASE GicNext /\ Beside
  <2>1. TimerAcked' => IRQ \in line
    BY <1>7 DEF GicNext, Beside, TimerAcked, EnableIrq, DisableIrq, Raise, Lower, GuestEnable,
       Reset, CpuReset, AckIrq, Signalled, Forward, Inject, InjectIrq, EndIrq, GuestAck, GuestEoi
  <2> QED
    BY <1>7, <2>1 DEF Beside, timerVars, TimerInv
<1>8. CASE UNCHANGED allVars
  BY <1>8 DEF allVars, timerVars, gicVars, TimerInv, TimerAcked
<1> QED
  BY <1>1, <1>2, <1>3, <1>4, <1>5, <1>6, <1>7, <1>8 DEF TimerNext

-----------------------------------------------------------------------------
(* The theorems.                                                           *)

\* The inductive invariant holds of the timer on the controller.
THEOREM GicInvHolds == TimerSpec => [](GicInv /\ TimerInv)
<1>1. TimerInit => GicInv /\ TimerInv
  BY InitGicInv, InitTimerInv DEF TimerInit
<1>2. GicInv /\ TimerInv /\ [TimerNext]_allVars => (GicInv /\ TimerInv)'
  <2>1. ASSUME GicInv, UNCHANGED allVars PROVE GicInv'
    BY <2>1, QuietGicInv DEF allVars, gicVars, GicInv, Types
  <2> QED
    BY <2>1, NextGicInv, TimerStepGicInv, TimerInvStep DEF TimerNext
<1> QED
  BY <1>1, <1>2, PTL DEF TimerSpec

\* No virtual interrupt is ever live in two List Registers: InjectIrq compares
\* with all of them before it takes one.
THEOREM NoDuplicateHolds == TimerSpec => []NoDuplicate
<1>1. GicInv => NoDuplicate
  BY DEF GicInv, Distinct, NoDuplicate
<1> QED
  BY <1>1, GicInvHolds, PTL

\* What was active when it was injected is active at the distributor until the
\* guest ends it, through every reset and every other injection.
THEOREM LiveIsActiveHolds == TimerSpec => []LiveIsActive
<1>1. GicInv => LiveIsActive
  BY DEF GicInv
<1> QED
  BY <1>1, GicInvHolds, PTL

\* No interrupt is lost between AckIrq and the guest.
THEOREM ActiveAccountedHolds == TimerSpec => []ActiveAccounted
<1>1. GicInv => ActiveAccounted
  BY DEF GicInv, Accounted, ActiveAccounted
<1> QED
  BY <1>1, GicInvHolds, PTL

\* The timer's callback is only ever called with its own context, unless a
\* client is registering another on a started timer.
THEOREM CallbackGetsItsContextHolds == TimerSpec => []CallbackGetsItsContext
<1>1. TimerInv => CallbackGetsItsContext
  BY DEF TimerInv, CallbackGetsItsContext
<1> QED
  BY <1>1, GicInvHolds, PTL

-----------------------------------------------------------------------------
(* The run loop.                                                           *)

HostFrame == [r \in HostKept |-> caller[r]]
Syndrome(e) == IF e.reason \in {Sync, "SERROR"} THEN e ELSE NoEvent
ExitSlots ==
  <<<<event.reason, Syndrome(event)>>, <<view["x2"], view["x3"]>>,
    <<view["x0"], view["x1"]>>, HostFrame>>

Pcs == {"ipa"} \X {"entry"} \X Nat

\* Registers are where the switch reads them.
Shape ==
  /\ cpu = [r \in CpuRegisters |-> cpu[r]]
  /\ vcpu = [r \in GuestRegisters |-> vcpu[r]]
  /\ view["pc"] \in Pcs
  /\ at = "guest" => cpu["pc"] \in Pcs
  /\ at \in {"idle", "call", "restore", "eret", "guest", "save", "exit",
             "returned", "panic"}
  /\ m_state \in {"READY", "RUNNING"} \cup Stopped

\* The host's side.
HostSide ==
  /\ at \in {"idle", "call", "returned"} => stack = <<>>
  /\ at \in {"restore", "eret", "guest"} => stack = <<HostFrame>>
  /\ at \in {"save", "exit"} => stack = ExitSlots
  /\ at \in {"restore", "eret", "guest", "save", "exit"} => cpu["daif"] = Masked
  /\ at = "returned" => \A r \in HostKept : cpu[r] = caller[r]

\* The guest's registers in the object are those it stopped with, but for the
\* answer to a call.
Answered(r) ==
  \/ vcpu[r] = view[r]
  \/ r = "x0" /\ (IsHvc(event) \/ IsSmc(event))
  \/ r = "pc" /\ IsSmc(event) /\ vcpu[r] = <<"ipa", "entry", view[r][3] + 1>>

Entering ==
  \/ at \in {"call", "restore", "eret"}
  \/ at = "idle" /\ m_state = "READY"

\* The guest's side.
GuestSide ==
  /\ Entering => /\ \A r \in GuestRegisters : Answered(r)
                 /\ IsSmc(event) => vcpu["pc"] # view["pc"]
                 /\ vcpu["pc"] \in Pcs
  /\ at = "eret" => /\ \A r \in System : cpu[r] = vcpu[r]
                    /\ cpu["elr_el2"] = vcpu["pc"] /\ cpu["spsr_el2"] = vcpu["pstate"]
  /\ at = "save" => /\ \A r \in {"x4", "x19"} \cup System : cpu[r] = view[r]
                    /\ cpu["elr_el2"] = view["pc"] /\ cpu["spsr_el2"] = view["pstate"]
  /\ at \in {"exit", "returned"} => \A r \in GuestRegisters : vcpu[r] = view[r]

\* What describes the exception, on its way to the caller.
Described ==
  /\ at \in {"save", "exit"} /\ IsAbort(event) =>
       /\ cpu["far_el2"] = <<"far", "guest", gen>>
       /\ cpu["hpfar_el2"] = <<"hpfar", "guest", gen>>
  /\ ExitDescribes
  /\ StopsForAReason
  /\ m_state \in Stopped => at \in {"idle", "panic"}
  /\ m_state = "READY" => at \in {"idle", "panic"}

IInv == Shape /\ HostSide /\ GuestSide /\ Described

-----------------------------------------------------------------------------
(* The stack's operations.                                                 *)

\* The push of the host frame on the empty stack.
LEMMA PushFrame ==
  ASSUME NEW f
  PROVE  <<f>> \o <<>> = <<f>>
  OBVIOUS

\* The vector's three pushes above the host frame.
LEMMA PushSlots ==
  ASSUME NEW a, NEW b, NEW c, NEW d
  PROVE  <<a, b, c>> \o <<d>> = <<a, b, c, d>>
<1> DEFINE V == {a, b, c, d}
           s == <<a, b, c>>
           t == <<d>>
           u == <<a, b, c, d>>
<1>1. s \in Seq(V) /\ t \in Seq(V) /\ u \in Seq(V)
  OBVIOUS
<1>2. Len(s) = 3 /\ Len(t) = 1 /\ Len(u) = 4
  OBVIOUS
<1>3. \A i \in 1..4 : u[i] = IF i <= 3 THEN s[i] ELSE t[i - 3]
  OBVIOUS
<1> HIDE DEF s, t, u, V
<1>4. /\ s \o t \in Seq(V)
      /\ Len(s \o t) = Len(s) + Len(t)
      /\ \A i \in 1 .. Len(s) + Len(t) :
           (s \o t)[i] = IF i <= Len(s) THEN s[i] ELSE t[i - Len(s)]
  BY <1>1, ConcatProperties, Zenon
<1>5. Len(s \o t) = 4 /\ \A i \in 1..4 : (s \o t)[i] = u[i]
  BY <1>2, <1>3, <1>4
<1>6. s \o t = u
  BY <1>1, <1>2, <1>4, <1>5, SeqEqual
<1> QED BY <1>6 DEF s, t, u

\* vcpu_exit drops the slots and the frame: the stack is empty again.
LEMMA PopAll ==
  ASSUME NEW a, NEW b, NEW c, NEW d
  PROVE  SubSeq(<<a, b, c, d>>, 5, Len(<<a, b, c, d>>)) = <<>>
  OBVIOUS

-----------------------------------------------------------------------------
(* Each action keeps IInv.                                                 *)

\* The state a VM starts in.
LEMMA InitIInv == Init => IInv
<1> SUFFICES ASSUME Init PROVE IInv
  OBVIOUS
<1>0. <<"ipa", "entry", 0>> \in Pcs
  BY DEF Pcs
<1> USE DEF Init, VcpuInit
<1>1. view["pc"] = <<"ipa", "entry", 0>> /\ vcpu["pc"] = view["pc"]
  BY Zenon DEF NewVcpu, GuestRegisters
<1>2. \A r \in GuestRegisters : vcpu[r] = view[r]
  BY DEF GuestRegisters, Gprs, System
<1>3. Shape
  <2>1. NewVcpu = [r \in GuestRegisters |-> NewVcpu[r]]
    BY Zenon DEF NewVcpu
  <2>2. cpu = [r \in CpuRegisters |-> cpu[r]]
    OBVIOUS
  <2> QED BY <1>0, <1>1, <2>1, <2>2, Zenon DEF Shape
<1>4. HostSide
  BY DEF HostSide
<1>5. GuestSide
  <2>1. ~IsSmc(event)
    BY Zenon DEF IsSmc, NoEvent, Sync
  <2> QED BY <1>0, <1>1, <1>2, <2>1 DEF GuestSide, Entering, Answered
<1>6. Described
  BY DEF Described, ExitDescribes, StopsForAReason, Stopped
<1> QED BY <1>3, <1>4, <1>5, <1>6 DEF IInv

\* The first instructions of vcpu_run: the frame holds the host's registers.
LEMMA RunKeeps ==
  ASSUME IInv, vcpu_run, UNCHANGED vmVars
  PROVE  IInv'
<1> USE DEF vcpu_run, vmVars
<1>1. stack' = <<HostFrame'>>
  BY PushFrame DEF IInv, HostSide, HostFrame
<1>2. cpu'["daif"] = Masked
  BY DEF IInv, Shape, CpuRegisters, HostOnly
<1>3. Shape'
  BY Zenon DEF IInv, Shape
<1>4. HostSide'
  BY <1>1, <1>2, Zenon DEF HostSide
<1>5. GuestSide'
  BY DEF IInv, GuestSide, Entering, Answered
<1>6. Described'
  BY DEF IInv, Described, ExitDescribes, StopsForAReason, Stopped
<1> QED BY <1>3, <1>4, <1>5, <1>6 DEF IInv

\* The guest's system registers are loaded.
LEMMA RestoreKeeps ==
  ASSUME IInv, RestoreSystem, UNCHANGED vmVars
  PROVE  IInv'
<1> USE DEF RestoreSystem, vmVars
<1>1. /\ \A r \in System : cpu'[r] = vcpu[r]
      /\ cpu'["elr_el2"] = vcpu["pc"] /\ cpu'["spsr_el2"] = vcpu["pstate"]
      /\ cpu'["daif"] = cpu["daif"]
  BY DEF CpuRegisters, GuestRegisters, HostOnly, System
<1>2. Shape'
  BY DEF IInv, Shape
<1>3. HostSide'
  BY <1>1 DEF IInv, HostSide, HostFrame
<1>4. GuestSide'
  BY <1>1 DEF IInv, GuestSide, Entering, Answered
<1>5. Described'
  BY DEF IInv, Described, ExitDescribes, StopsForAReason, Stopped
<1> QED BY <1>2, <1>3, <1>4, <1>5 DEF IInv

\* The general registers are loaded, and the guest runs.
LEMMA EretKeeps ==
  ASSUME IInv, Eret, UNCHANGED vmVars
  PROVE  IInv'
<1> USE DEF Eret, vmVars
<1>1. cpu'["pc"] = cpu["elr_el2"] /\ cpu'["daif"] = cpu["daif"]
  BY DEF CpuRegisters, GuestRegisters, HostOnly, Gprs
<1>2. cpu'["pc"] \in Pcs
  BY <1>1 DEF IInv, GuestSide, Entering
<1>3. Shape'
  BY <1>2 DEF IInv, Shape
<1>4. HostSide'
  BY <1>1 DEF IInv, HostSide, HostFrame
<1>5. GuestSide'
  BY DEF GuestSide, Entering
<1>6. Described'
  BY DEF IInv, Described, ExitDescribes, StopsForAReason, Stopped
<1> QED BY <1>3, <1>4, <1>5, <1>6 DEF IInv

\* The guest may leave anything in its registers, not in the hypervisor's.
LEMMA WritesKeep ==
  ASSUME IInv, GuestWrites, UNCHANGED vmVars
  PROVE  IInv'
<1> USE DEF vmVars
<1>1. /\ at = "guest" /\ UNCHANGED <<stack, vcpu, exit, at, caller, view, event>>
      /\ cpu' = [r \in CpuRegisters |-> cpu'[r]]
  BY DEF GuestWrites
<1>2. /\ cpu'["daif"] = cpu["daif"]
      /\ cpu'["pc"] = <<"ipa", "entry", cpu["pc"][3] + 1>>
  BY DEF GuestWrites, CpuRegisters, GuestRegisters, HostOnly, Gprs, System
<1>3. cpu'["pc"] \in Pcs
  BY <1>1, <1>2 DEF IInv, Shape, Pcs
<1>4. Shape'
  BY <1>1, <1>3 DEF IInv, Shape
<1>5. HostSide'
  BY <1>1, <1>2 DEF IInv, HostSide, HostFrame
<1>6. GuestSide'
  BY <1>1 DEF GuestSide, Entering
<1>7. Described'
  BY <1>1 DEF IInv, Described, ExitDescribes, StopsForAReason, Stopped
<1> QED BY <1>4, <1>5, <1>6, <1>7 DEF IInv

\* A guest exception: the vector's slots and the core hold what the guest had.
LEMMA ExceptionKeeps ==
  ASSUME IInv, NEW e \in Events, GuestException(e), UNCHANGED vmVars
  PROVE  IInv'
<1> USE DEF vmVars
<1>1. /\ at = "guest" /\ at' = "save" /\ event' = e
      /\ UNCHANGED <<vcpu, exit, gen, caller>>
  BY DEF GuestException
<1>2. /\ cpu' = [r \in CpuRegisters |-> cpu'[r]]
      /\ cpu'["elr_el2"] = ReturnAddress(e) /\ cpu'["spsr_el2"] = cpu["pstate"]
      /\ cpu'["daif"] = Masked
      /\ \A r \in {"x4", "x19"} \cup System : cpu'[r] = cpu[r]
      /\ IsAbort(e) => /\ cpu'["far_el2"] = <<"far", "guest", gen>>
                       /\ cpu'["hpfar_el2"] = <<"hpfar", "guest", gen>>
  BY Zenon DEF GuestException, IInv, Shape, CpuRegisters, GuestRegisters, HostOnly, Gprs, System
<1>3. /\ \A r \in GuestRegisters \ {"pc"} : view'[r] = cpu[r]
      /\ view'["pc"] = ReturnAddress(e)
  BY DEF GuestException, GuestRegisters, Gprs, System
<1>4. ReturnAddress(e) \in Pcs
  BY <1>1 DEF ReturnAddress, IInv, Shape, Pcs
<1>5. stack' = ExitSlots'
  <2>1. stack = <<HostFrame>>
    BY <1>1 DEF IInv, HostSide
  <2>2. stack' = <<<<e.reason, Syndrome(e)>>, <<cpu["x2"], cpu["x3"]>>,
                   <<cpu["x0"], cpu["x1"]>>>> \o stack
    BY DEF GuestException, Syndrome
  <2>3. stack' = <<<<e.reason, Syndrome(e)>>, <<cpu["x2"], cpu["x3"]>>,
                   <<cpu["x0"], cpu["x1"]>>, HostFrame>>
    BY <2>1, <2>2, PushSlots
  <2>4. \A r \in {"x0", "x1", "x2", "x3"} : view'[r] = cpu[r]
    BY <1>3 DEF GuestRegisters, Gprs
  <2> QED BY <1>1, <2>3, <2>4 DEF ExitSlots, HostFrame, Syndrome
<1>6. Shape'
  BY <1>1, <1>2, <1>3, <1>4 DEF IInv, Shape
<1>7. HostSide'
  BY <1>1, <1>2, <1>5 DEF HostSide
<1>8. GuestSide'
  <2>1. \A r \in {"x4", "x19"} \cup System : cpu'[r] = view'[r]
    BY <1>2, <1>3 DEF GuestRegisters, Gprs, System
  <2>2. cpu'["elr_el2"] = view'["pc"] /\ cpu'["spsr_el2"] = view'["pstate"]
    BY <1>2, <1>3 DEF GuestRegisters
  <2> QED BY <1>1, <2>1, <2>2 DEF GuestSide, Entering
<1>9. Described'
  BY <1>1, <1>2 DEF IInv, Described, ExitDescribes, StopsForAReason, Stopped
<1> QED BY <1>6, <1>7, <1>8, <1>9 DEF IInv

\* The object holds the guest again.
LEMMA SaveKeeps ==
  ASSUME IInv, SaveGuest, UNCHANGED vmVars
  PROVE  IInv'
<1> USE DEF vmVars
<1>1. at = "save" /\ at' = "exit" /\ UNCHANGED <<cpu, stack, exit, gen, caller, view, event>>
  BY DEF SaveGuest
<1>2. stack = ExitSlots
  BY <1>1, Zenon DEF IInv, HostSide
<1>3. /\ stack[3][1] = view["x0"] /\ stack[3][2] = view["x1"]
      /\ stack[2][1] = view["x2"] /\ stack[2][2] = view["x3"]
  BY <1>2 DEF ExitSlots
<1>4. \A r \in GuestRegisters : vcpu'[r] = view[r]
  BY <1>1, <1>3 DEF SaveGuest, IInv, GuestSide, GuestRegisters, Gprs, System
<1>5. Shape'
  BY <1>1 DEF SaveGuest, IInv, Shape
<1>6. HostSide'
  BY <1>1 DEF IInv, HostSide, ExitSlots, HostFrame
<1>7. GuestSide'
  BY <1>1, <1>4 DEF GuestSide, Entering
<1>8. Described'
  BY <1>1 DEF IInv, Described, ExitDescribes, StopsForAReason, Stopped
<1> QED BY <1>5, <1>6, <1>7, <1>8 DEF IInv

\* vcpu_exit returns: the frame is the one vcpu_run pushed, and the exit is the
\* exception's.
LEMMA ReturnKeeps ==
  ASSUME IInv, ReturnToHost, UNCHANGED vmVars
  PROVE  IInv'
<1> USE DEF vmVars
<1>1. at = "exit" /\ at' = "returned" /\ UNCHANGED <<vcpu, gen, caller, view, event>>
  BY DEF ReturnToHost
<1>2. stack = ExitSlots
  BY <1>1 DEF IInv, HostSide
<1>3. stack[1][1] = event.reason /\ stack[1][2] = Syndrome(event) /\ stack[4] = HostFrame
  BY <1>2 DEF ExitSlots
<1>4. stack' = <<>>
  <2>1. stack' = SubSeq(stack, 5, Len(stack))
    BY DEF ReturnToHost
  <2> QED BY <1>2, <2>1, PopAll DEF ExitSlots
<1>5. /\ cpu' = [r \in CpuRegisters |-> cpu'[r]]
      /\ \A r \in HostKept : cpu'[r] = caller[r]
  BY <1>3 DEF ReturnToHost, HostFrame, HostKept, CpuRegisters, GuestRegisters, HostOnly,
              Gprs, System
<1>6. HasFaultAddress(event.reason, Syndrome(event)) <=> IsAbort(event)
  BY DEF HasFaultAddress, Syndrome, IsAbort, Sync
<1>7. exit' = [reason |-> event.reason, syndrome |-> Syndrome(event),
               far |-> IF IsAbort(event) THEN cpu["far_el2"] ELSE Zero,
               hpfar |-> IF IsAbort(event) THEN cpu["hpfar_el2"] ELSE Zero]
  BY <1>3, <1>6 DEF ReturnToHost
<1>8. ExitDescribes'
  BY <1>1, <1>7 DEF IInv, Described, ExitDescribes, Syndrome, IsAbort, Sync
<1>9. Shape'
  BY <1>1, <1>5 DEF IInv, Shape
<1>10. HostSide'
  BY <1>1, <1>4, <1>5 DEF HostSide
<1>11. GuestSide'
  BY <1>1 DEF IInv, GuestSide, Entering
<1>12. Described'
  BY <1>1, <1>8 DEF IInv, Described, StopsForAReason, Stopped
<1> QED BY <1>9, <1>10, <1>11, <1>12 DEF IInv

\* After a panic nothing is claimed but why a VM had stopped.
LEMMA PanicKeeps ==
  ASSUME IInv, GuestAArch32 \/ HostInterrupt, UNCHANGED vmVars
  PROVE  IInv'
<1> USE DEF vmVars
<1>1. at' = "panic" /\ UNCHANGED <<cpu, stack, vcpu, exit, gen, caller, view, event>>
  BY DEF GuestAArch32, HostInterrupt
<1>2. Shape'
  BY <1>1 DEF IInv, Shape
<1>3. HostSide' /\ GuestSide'
  BY <1>1 DEF HostSide, GuestSide, Entering
<1>4. Described'
  BY <1>1 DEF IInv, Described, ExitDescribes, StopsForAReason, Stopped
<1> QED BY <1>2, <1>3, <1>4 DEF IInv

\* The host's own use of the vector registers touches nothing the switch keeps.
LEMMA FpKeeps ==
  ASSUME IInv, HostUsesFp, UNCHANGED vmVars
  PROVE  IInv'
<1> USE DEF vmVars
<1>1. /\ at \in {"idle", "call", "returned"}
      /\ UNCHANGED <<stack, vcpu, exit, at, gen, caller, view, event>>
  BY DEF HostUsesFp
<1>2. /\ cpu' = [r \in CpuRegisters |-> cpu'[r]]
      /\ \A r \in HostKept : cpu'[r] = cpu[r]
  BY Zenon DEF HostUsesFp, IInv, Shape, HostKept, CpuRegisters, GuestRegisters, HostOnly, Gprs,
         System
<1>3. Shape'
  BY <1>1, <1>2 DEF IInv, Shape
<1>4. HostSide'
  BY <1>1, <1>2 DEF IInv, HostSide, HostFrame
<1>5. GuestSide'
  BY <1>1 DEF IInv, GuestSide, Entering, Answered
<1>6. Described'
  BY <1>1 DEF IInv, Described, ExitDescribes, StopsForAReason, Stopped
<1> QED BY <1>3, <1>4, <1>5, <1>6 DEF IInv

\* Vmm::Run up to the loop.
LEMMA StartKeeps ==
  ASSUME IInv, Run
  PROVE  IInv'
<1> USE DEF Run
<1>1. at = "idle" /\ at' \in {"idle", "call"}
      /\ UNCHANGED <<cpu, stack, vcpu, exit, gen, caller, view, event>>
  OBVIOUS
<1>2. Shape'
  BY DEF IInv, Shape
<1>3. HostSide'
  BY <1>1 DEF IInv, HostSide, HostFrame
<1>4. GuestSide'
  BY <1>1 DEF IInv, GuestSide, Entering, Answered
<1>5. Described'
  BY <1>1 DEF IInv, Described, ExitDescribes, StopsForAReason, Stopped
<1> QED BY <1>2, <1>3, <1>4, <1>5 DEF IInv

-----------------------------------------------------------------------------
(* The handlers.  Each resumes the guest or stops the VM.                  *)

\* What a handler reads: the exit describes the exception and the object holds
\* the guest.
LEMMA Exited ==
  ASSUME IInv, Returned
  PROVE  /\ at = "returned" /\ m_state = "RUNNING"
         /\ exit.reason = event.reason
         /\ exit.reason = Sync => exit.syndrome = event
         /\ \A r \in GuestRegisters : vcpu[r] = view[r]
         /\ vcpu["pc"] \in Pcs
         /\ UNCHANGED <<cpu, stack, exit, gen, caller, view, event, stage2>>
<1>1. at = "returned" /\ UNCHANGED <<cpu, stack, exit, gen, caller, view, event, stage2>>
  BY DEF Returned
<1>2. m_state = "RUNNING"
  BY <1>1 DEF IInv, Shape, Described
<1>3. exit.reason = event.reason /\ (exit.reason = Sync => exit.syndrome = event)
  BY <1>1 DEF IInv, Described, ExitDescribes
<1>4. (\A r \in GuestRegisters : vcpu[r] = view[r]) /\ vcpu["pc"] \in Pcs
  BY <1>1 DEF IInv, GuestSide, Shape, GuestRegisters
<1> QED BY <1>1, <1>2, <1>3, <1>4

\* A guest that is resumed is the one that stopped, but for the answer.
LEMMA ResumeKeeps ==
  ASSUME IInv, Returned, Resume,
         vcpu' = [r \in GuestRegisters |-> vcpu'[r]],
         \A r \in GuestRegisters : Answered(r)',
         IsSmc(event) => vcpu'["pc"] # view["pc"],
         vcpu'["pc"] \in Pcs
  PROVE  IInv'
<1>1. /\ at = "returned" /\ m_state = "RUNNING" /\ at' = "call" /\ m_state' = m_state
      /\ UNCHANGED <<cpu, stack, exit, gen, caller, view, event>>
  BY Exited DEF Resume
<1>2. Shape'
  BY <1>1 DEF IInv, Shape
<1>3. HostSide'
  BY <1>1 DEF IInv, HostSide
<1>4. GuestSide'
  BY <1>1 DEF GuestSide, Entering
<1>5. Described'
  BY <1>1 DEF Described, ExitDescribes, StopsForAReason, Stopped
<1> QED BY <1>2, <1>3, <1>4, <1>5 DEF IInv

\* A VM that is stopped has a reason.
LEMMA StopKeeps ==
  ASSUME IInv, Returned, NEW state \in Stopped, StopWith(state),
         vcpu' = [r \in GuestRegisters |-> vcpu'[r]],
         StopsForAReason'
  PROVE  IInv'
<1>1. /\ at = "returned" /\ at' = "idle" /\ m_state' = state
      /\ UNCHANGED <<cpu, stack, exit, gen, caller, view, event>>
  BY Exited DEF StopWith
<1>2. Shape'
  BY <1>1 DEF IInv, Shape
<1>3. HostSide'
  BY <1>1 DEF IInv, HostSide
<1>4. GuestSide'
  BY <1>1 DEF GuestSide, Entering, Stopped
<1>5. Described'
  BY <1>1 DEF Described, ExitDescribes, Stopped
<1> QED BY <1>2, <1>3, <1>4, <1>5 DEF IInv

\* An interrupt exit goes back to the guest.
LEMMA InterruptKeeps ==
  ASSUME IInv, HandleInterrupt
  PROVE  IInv'
<1>1. Returned /\ Resume /\ vcpu' = vcpu /\ exit.reason \in {"IRQ", "FIQ"}
  BY DEF HandleInterrupt
<1>2. ~IsSmc(event)
  BY <1>1, Exited DEF IsSmc, Sync
<1>3. \A r \in GuestRegisters : Answered(r)'
  BY <1>1, Exited DEF Answered
<1>4. vcpu' = [r \in GuestRegisters |-> vcpu'[r]]
  BY <1>1 DEF IInv, Shape
<1>5. vcpu'["pc"] \in Pcs
  BY <1>1, Exited
<1> QED BY <1>1, <1>2, <1>3, <1>4, <1>5, ResumeKeeps

\* An SError, and an exception without handler, stop the VM as faulted.
LEMMA FaultKeeps ==
  ASSUME IInv, HandleSError \/ HandleOther
  PROVE  IInv'
<1>1. Returned /\ StopWith("FAULTED") /\ vcpu' = vcpu
  BY DEF HandleSError, HandleOther
<1>2. /\ event' = event
      /\ \/ event.reason = "SERROR"
         \/ event.reason = Sync /\ event.ec \notin {"HVC", "SMC"}
  BY <1>1, Exited DEF HandleSError, HandleOther
<1>3. StopsForAReason'
  BY <1>1, <1>2 DEF StopsForAReason, StopWith
<1>4. vcpu' = [r \in GuestRegisters |-> vcpu'[r]]
  BY <1>1 DEF IInv, Shape
<1> QED BY <1>1, <1>3, <1>4, StopKeeps DEF Stopped

\* An SMC is answered, and the guest goes on after it.
LEMMA SmcKeeps ==
  ASSUME IInv, HandleSmc
  PROVE  IInv'
<1>1. Returned /\ Resume /\ exit.reason = Sync /\ exit.syndrome.ec = "SMC"
  BY DEF HandleSmc
<1>2. IsSmc(event) /\ event' = event /\ view' = view
  BY <1>1, Exited DEF IsSmc
<1>3. view["pc"] \in Pcs /\ vcpu["pc"] = view["pc"]
  BY <1>1, Exited DEF IInv, Shape, GuestRegisters
<1>4. /\ vcpu' = [r \in GuestRegisters |-> vcpu'[r]]
      /\ vcpu'["pc"] = <<"ipa", "entry", view["pc"][3] + 1>>
      /\ \A r \in GuestRegisters \ {"x0", "pc"} : vcpu'[r] = vcpu[r]
  BY <1>3, Zenon DEF HandleSmc, IInv, Shape, GuestRegisters, Gprs, System, Pcs
<1>5. vcpu'["pc"] \in Pcs /\ vcpu'["pc"] # view["pc"]
  BY <1>3, <1>4 DEF Pcs
<1>6. \A r \in GuestRegisters : Answered(r)'
  <2>1. \A r \in GuestRegisters : vcpu[r] = view[r]
    BY <1>1, Exited
  <2>2. IsSmc(event)'
    BY <1>2 DEF IsSmc
  <2> QED BY <1>2, <1>4, <2>1, <2>2 DEF Answered
<1> QED BY <1>1, <1>4, <1>5, <1>6, ResumeKeeps

\* A hypercall is answered, or stops the VM as the guest asked.
LEMMA HvcKeeps ==
  ASSUME IInv, HandleHvc
  PROVE  IInv'
<1>1. Returned /\ exit.reason = Sync /\ exit.syndrome.ec = "HVC"
  BY DEF HandleHvc
<1>2. IsHvc(event) /\ ~IsSmc(event) /\ event' = event /\ view' = view /\ exit.syndrome = event
  BY <1>1, Exited DEF IsHvc, IsSmc
<1>3. \A r \in GuestRegisters : vcpu[r] = view[r]
  BY <1>1, Exited
<1>4. /\ vcpu' = [r \in GuestRegisters |-> vcpu'[r]]
      /\ \A r \in GuestRegisters \ {"x0"} : vcpu'[r] = vcpu[r]
  BY DEF HandleHvc, IInv, Shape, GuestRegisters
<1>5. CASE Resume
  <2>1. IsHvc(event)'
    BY <1>2 DEF IsHvc
  <2>2. \A r \in GuestRegisters : Answered(r)'
    BY <1>2, <1>3, <1>4, <2>1 DEF Answered
  <2>3. vcpu'["pc"] \in Pcs
    BY <1>1, <1>4, Exited DEF GuestRegisters
  <2> QED BY <1>1, <1>2, <1>4, <1>5, <2>2, <2>3, ResumeKeeps
<1>6. CASE Handle(event.imm).action = "SHUTDOWN" /\ StopWith("SHUTDOWN")
  <2>1. event.imm = 0 /\ vcpu["x0"] = Psci("SYSTEM_OFF")
    BY <1>6 DEF Handle
  <2>2. StopsForAReason'
    BY <1>2, <1>3, <1>6, <2>1 DEF StopsForAReason, StopWith, IsHvc, GuestRegisters, Gprs
  <2> QED BY <1>1, <1>4, <1>6, <2>2, StopKeeps DEF Stopped
<1>7. CASE Handle(event.imm).action = "RESET" /\ StopWith("RESET_REQUESTED")
  <2>1. event.imm = 0 /\ vcpu["x0"] = Psci("SYSTEM_RESET")
    BY <1>7 DEF Handle
  <2>2. StopsForAReason'
    BY <1>2, <1>3, <1>7, <2>1 DEF StopsForAReason, StopWith, IsHvc, GuestRegisters, Gprs
  <2> QED BY <1>1, <1>4, <1>7, <2>2, StopKeeps DEF Stopped
<1> QED BY <1>2, <1>5, <1>6, <1>7 DEF HandleHvc

-----------------------------------------------------------------------------
(* The theorems.                                                           *)

\* Every step keeps the invariant.
LEMMA NextKeeps ==
  ASSUME IInv, [Next]_vars
  PROVE  IInv'
<1>1. CASE Run
  BY <1>1, StartKeeps
<1>2. CASE HandleExit
  BY <1>2, InterruptKeeps, FaultKeeps, HvcKeeps, SmcKeeps DEF HandleExit
<1>3. CASE Switch /\ UNCHANGED vmVars
  BY <1>3, RunKeeps, RestoreKeeps, EretKeeps, SaveKeeps, ReturnKeeps DEF Switch
<1>4. CASE Environment /\ UNCHANGED vmVars
  BY <1>4, WritesKeep, PanicKeeps, FpKeeps, ExceptionKeeps DEF Environment
<1>5. CASE UNCHANGED vars
  <2> USE <1>5 DEF vars
  <2>1. Shape' /\ HostSide'
    BY DEF IInv, Shape, HostSide, HostFrame, ExitSlots
  <2>2. GuestSide'
    BY DEF IInv, GuestSide, Entering, Answered
  <2>3. Described'
    BY DEF IInv, Described, ExitDescribes, StopsForAReason
  <2> QED BY <2>1, <2>2, <2>3 DEF IInv
<1> QED BY <1>1, <1>2, <1>3, <1>4, <1>5 DEF Next

\* In every reachable state each register of each side is where the next step
\* of the switch looks for it.
THEOREM IInvHolds == Spec => []IInv
<1>1. IInv /\ [Next]_vars => IInv'
  BY NextKeeps
<1> QED BY InitIInv, <1>1, PTL DEF Spec

\* The exit that Vmm::Run dispatches on describes the exception that happened,
\* with the fault addresses of this abort and of no earlier one.
THEOREM ExitDescribesHolds == Spec => []ExitDescribes
<1>1. IInv => ExitDescribes
  BY DEF IInv, Described
<1> QED BY IInvHolds, <1>1, PTL

\* A VM stops only as the guest asked or because of a fault it raised.
THEOREM StopsForAReasonHolds == Spec => []StopsForAReason
<1>1. IInv => StopsForAReason
  BY DEF IInv, Described
<1> QED BY IInvHolds, <1>1, PTL

\* While the two sides are half exchanged, interrupts are masked.
LEMMA SwitchMasked ==
  ASSUME IInv, [Next]_vars, at \in {"restore", "eret", "save", "exit"}
  PROVE  at' # "panic"
<1>1. cpu["daif"] # Unmasked
  BY DEF IInv, HostSide, Masked, Unmasked
<1>2. ~HostInterrupt /\ ~GuestAArch32
  BY <1>1 DEF HostInterrupt, GuestAArch32
<1>3. CASE Run \/ HandleExit
  BY <1>3 DEF Run, HandleExit, HandleInterrupt, HandleSError, HandleHvc, HandleSmc,
             HandleOther, Returned
<1>4. CASE Switch
  BY <1>4 DEF Switch, vcpu_run, RestoreSystem, Eret, SaveGuest, ReturnToHost
<1>5. CASE Environment
  BY <1>2, <1>5, Zenon DEF Environment, GuestWrites, HostUsesFp, GuestException
<1>6. CASE UNCHANGED vars
  BY <1>6 DEF vars
<1> QED BY <1>3, <1>4, <1>5, <1>6 DEF Next

\* The caller of vcpu_run finds its registers and its stack as they were, and no
\* interrupt reaches the host's vectors during the switch.
THEOREM HostRestoredHolds == Spec => HostRestored
<1>1. IInv /\ IInv' /\ [Next]_vars =>
        [ /\ at' = "returned" => \A r \in HostKept : cpu'[r] = caller'[r]
          /\ at' \in {"idle", "call", "returned"} => stack' = <<>>
          /\ at \in {"restore", "eret", "save", "exit"} => at' # "panic" ]_vars
  <2> SUFFICES ASSUME IInv, IInv', [Next]_vars
               PROVE  /\ at' = "returned" => \A r \in HostKept : cpu'[r] = caller'[r]
                      /\ at' \in {"idle", "call", "returned"} => stack' = <<>>
                      /\ at \in {"restore", "eret", "save", "exit"} => at' # "panic"
    OBVIOUS
  <2>1. HostSide'
    BY DEF IInv
  <2> QED BY <2>1, SwitchMasked DEF HostSide
<1> QED BY IInvHolds, <1>1, PTL DEF Spec, HostRestored

\* Only eret enters the guest.
LEMMA EntersByEret ==
  ASSUME [Next]_vars, at = "eret", at' = "guest"
  PROVE  Eret
<1>1. ~Run /\ ~HandleExit
  BY DEF Run, HandleExit, HandleInterrupt, HandleSError, HandleHvc, HandleSmc,
         HandleOther, Returned
<1>2. ~Environment
  BY DEF Environment, GuestWrites, GuestAArch32, HostInterrupt, HostUsesFp, GuestException
<1>3. ~UNCHANGED vars
  BY DEF vars
<1>4. Switch => Eret
  BY DEF Switch, vcpu_run, RestoreSystem, SaveGuest, ReturnToHost
<1> QED BY <1>1, <1>2, <1>3, <1>4 DEF Next

\* A guest that is resumed finds its registers as it left them, but for the
\* answer to a call, and goes on after a call that was answered.
THEOREM GuestRestoredHolds == Spec => GuestRestored
<1>1. IInv /\ [Next]_vars =>
        [at = "eret" /\ at' = "guest" =>
           /\ \A r \in GuestRegisters : ResumesAsLeft(r)
           /\ IsSmc(event) => cpu'["pc"] # view["pc"]]_vars
  <2> SUFFICES ASSUME IInv, [Next]_vars, at = "eret", at' = "guest"
               PROVE  /\ \A r \in GuestRegisters : ResumesAsLeft(r)
                      /\ IsSmc(event) => cpu'["pc"] # view["pc"]
    BY Zenon
  <2>1. Eret
    BY EntersByEret
  <2>2. /\ \A r \in System : cpu[r] = vcpu[r]
        /\ cpu["elr_el2"] = vcpu["pc"] /\ cpu["spsr_el2"] = vcpu["pstate"]
        /\ \A r \in GuestRegisters : Answered(r)
        /\ IsSmc(event) => vcpu["pc"] # view["pc"]
    BY DEF IInv, GuestSide, Entering
  <2>3. \A r \in GuestRegisters : cpu'[r] = vcpu[r]
    BY <2>1, <2>2 DEF Eret, CpuRegisters, GuestRegisters, Gprs, System
  <2>4. \A r \in GuestRegisters : ResumesAsLeft(r)
    BY <2>2, <2>3 DEF ResumesAsLeft, Answered
  <2> QED BY <2>2, <2>3, <2>4 DEF GuestRegisters
<1> QED BY IInvHolds, <1>1, PTL DEF Spec, GuestRestored
=============================================================================
