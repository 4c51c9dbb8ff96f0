-------------------------------- MODULE Gic ---------------------------------
(***************************************************************************)
(* Interrupt delivery through the GICv2 driver (drivers/gic): a physical   *)
(* interrupt taken at EL2 is acknowledged, injected into a guest through a *)
(* List Register with the hardware bit, and ended; because EOI mode splits *)
(* the priority drop from the deactivation, the physical interrupt stays   *)
(* active until the guest's own end-of-interrupt deactivates it.           *)
(*                                                                         *)
(* No code of the hypervisor handles interrupts yet: its vectors panic and *)
(* its run loop enters the guest again.  The sequence AckIrq, InjectIrq,   *)
(* EndIrq is that of the interrupt handler in tests/integration/gic, which *)
(* also injects interrupts nobody acknowledged.                            *)
(*                                                                         *)
(* The interrupt controller itself is hardware, modelled as the driver     *)
(* uses it: level-triggered lines, one active bit per interrupt, and List  *)
(* Registers that keep their identifiers after the guest has finished with *)
(* them.                                                                   *)
(***************************************************************************)
EXTENDS Integers, FiniteSets

CONSTANTS
  Irqs,     \* physical interrupt identifiers
  VirtOf,   \* the virtual identifier the client injects for each
  m_numLr   \* List Registers reported by GICH_VTR

ASSUME GicAssumption ==
  /\ m_numLr \in Nat \ {0}
  /\ VirtOf \in [Irqs -> Nat]

VARIABLES
  line,     \* interrupt lines devices hold high
  enabled,  \* interrupts enabled at the distributor
  active,   \* interrupts active at the distributor
  lr,       \* List Registers: [virt, phys, state]
  vmcr,     \* whether the virtual CPU interface is enabled
  handler,  \* EL2 handler: "idle", "acked" or "handled"
  irq,      \* the interrupt it acknowledged
  injected, \* what the last InjectIrq returned
  forwarded, \* ghost: interrupts in List Registers that were active when
             \* they were injected
  stranded   \* ghost: active interrupts that InjectIrq refused or CpuReset
             \* dropped, which nobody will deactivate

gicVars == <<line, enabled, active, lr, vmcr, handler, irq, injected, forwarded, stranded>>

Lrs == 0 .. (m_numLr - 1)

\* A List Register the driver has cleared holds identifier 0.
Cleared == [virt |-> 0, phys |-> 0, state |-> "inactive"]
Entry(id) == [virt |-> VirtOf[id], phys |-> id, state |-> "pending"]
Live(i) == lr[i].state # "inactive"

NoIrq == -1

\* The constructor resets the controller.  GetHostMmio hands SetBases the bases
\* the constructor took, or panics before, so SetBases changes nothing.
GicInit ==
  /\ enabled = {} /\ active = {} /\ vmcr = TRUE
  /\ lr = [i \in Lrs |-> Cleared]
  /\ line = {}
  /\ handler = "idle" /\ irq = NoIrq
  /\ injected = 0 /\ forwarded = {} /\ stranded = {}

-----------------------------------------------------------------------------
(* Driver operations called outside the interrupt handler.                 *)

\* The core is one: nothing else runs until the handler has ended.
Ready == handler = "idle"

EnableIrq(id) ==
  /\ Ready
  /\ enabled' = enabled \cup {id}
  /\ UNCHANGED <<line, active, lr, vmcr, handler, irq, injected, forwarded, stranded>>

DisableIrq(id) ==
  /\ Ready
  /\ enabled' = enabled \ {id}
  /\ UNCHANGED <<line, active, lr, vmcr, handler, irq, injected, forwarded, stranded>>

\* The virtual interface is on and the List Registers are empty.
cpuInit ==
  /\ vmcr' = TRUE
  /\ lr' = [i \in Lrs |-> Cleared]

\* Mutant: active interrupts stay active.
ResetKeepsActive ==
  /\ Ready
  /\ enabled' = {} /\ forwarded' = {} /\ stranded' = {}
  /\ cpuInit
  /\ UNCHANGED <<line, active, handler, irq, injected>>

\* Mutant: the List Registers keep what they hold.
ResetKeepsLrs ==
  /\ Ready
  /\ enabled' = {} /\ active' = {} /\ stranded' = {} /\ vmcr' = TRUE
  /\ UNCHANGED <<line, lr, handler, irq, injected, forwarded>>

\* Every interrupt is disabled and its pending and active state cleared at the
\* distributor, then cpuInit.  Lines that devices still hold stay high.
Reset ==
  /\ Ready
  /\ enabled' = {} /\ active' = {} /\ forwarded' = {} /\ stranded' = {}
  /\ cpuInit
  /\ UNCHANGED <<line, handler, irq, injected>>

\* The List Registers are cleared and the virtual interface is off; the
\* distributor is not touched.
CpuReset ==
  /\ Ready
  /\ lr' = [i \in Lrs |-> Cleared]
  /\ vmcr' = FALSE
  /\ forwarded' = {}
  /\ stranded' = stranded \cup (active \cap {lr[i].phys : i \in {j \in Lrs : Live(j)}})
  /\ UNCHANGED <<line, enabled, active, handler, irq, injected>>

-----------------------------------------------------------------------------
(* Interrupts: AckIrq and EndIrq frame a handler, InjectIrq is called from *)
(* it or on its own.                                                       *)

\* The distributor forwards an enabled interrupt whose line is high unless it
\* is active.
Signalled == {id \in line \cap enabled : id \notin active}

\* Without a signalled interrupt IAR reads as the spurious identifier and the
\* handler does nothing.
AckIrq ==
  /\ Ready
  /\ \E id \in Signalled :
       /\ irq' = id
       /\ active' = active \cup {id}
  /\ handler' = "acked"
  /\ UNCHANGED <<line, enabled, lr, vmcr, injected, forwarded, stranded>>

\* ELSR: the List Registers that hold no live interrupt.
Free == {i \in Lrs : ~Live(i)}

Refuse(id) ==
  /\ injected' = -1
  /\ stranded' = stranded \cup ({id} \cap active)
  /\ UNCHANGED <<lr, forwarded>>

Submit(i, id) ==
  /\ injected' = 0
  /\ lr' = [lr EXCEPT ![i] = Entry(id)]
  /\ forwarded' = (forwarded \ {id}) \cup ({id} \cap active)
  /\ stranded' = stranded \ {id}

\* Mutant: an identifier that is already listed is listed again.
InjectTwice(id) ==
  /\ \/ Free = {} /\ Refuse(id)
     \/ \E i \in Free : (\A j \in Free : i <= j) /\ Submit(i, id)
  /\ UNCHANGED <<line, enabled, active, vmcr, irq>>

\* The scan compares the identifier in every List Register, live or not, and
\* remembers the first free one.
InjectIrq(id) ==
  LET listed == \E i \in Lrs : lr[i].virt = VirtOf[id]
  IN  /\ \/ (listed \/ Free = {}) /\ Refuse(id)
         \/ /\ ~listed
            /\ \E i \in Free : (\A j \in Free : i <= j) /\ Submit(i, id)
      /\ UNCHANGED <<line, enabled, active, vmcr, irq>>

\* The handler injects what it acknowledged.
Forward == handler = "acked" /\ InjectIrq(irq) /\ handler' = "handled"

\* An interrupt is injected outside the handler, acknowledged before or not.
Inject(id) == Ready /\ InjectIrq(id) /\ UNCHANGED handler

\* EOIR with EOI mode set drops the priority only.
EndIrq ==
  /\ handler = "handled"
  /\ handler' = "idle" /\ irq' = NoIrq
  /\ UNCHANGED <<line, enabled, active, lr, vmcr, injected, forwarded, stranded>>

-----------------------------------------------------------------------------
(* Devices and the guest.                                                  *)

Raise(id) ==
  /\ line' = line \cup {id}
  /\ UNCHANGED <<enabled, active, lr, vmcr, handler, irq, injected, forwarded, stranded>>

Lower(id) ==
  /\ line' = line \ {id}
  /\ UNCHANGED <<enabled, active, lr, vmcr, handler, irq, injected, forwarded, stranded>>

\* The guest writes GICV_CTLR, which is the enable bit of VMCR.
GuestEnable ==
  /\ Ready
  /\ vmcr' = TRUE
  /\ UNCHANGED <<line, enabled, active, lr, handler, irq, injected, forwarded, stranded>>

GuestAck(i) ==
  /\ Ready /\ vmcr
  /\ lr[i].state = "pending"
  /\ lr' = [lr EXCEPT ![i].state = "active"]
  /\ UNCHANGED <<line, enabled, active, vmcr, handler, irq, injected, forwarded, stranded>>

\* The guest ends the interrupt: the List Register empties but keeps its
\* identifiers, and the hardware bit deactivates the physical interrupt it
\* names.
GuestEoi(i) ==
  /\ Ready /\ vmcr
  /\ lr[i].state = "active"
  /\ lr' = [lr EXCEPT ![i].state = "inactive"]
  /\ active' = active \ {lr[i].phys}
  /\ forwarded' = forwarded \ {lr[i].phys}
  /\ stranded' = stranded \ {lr[i].phys}
  /\ UNCHANGED <<line, enabled, vmcr, handler, irq, injected>>

GicNext ==
  \/ \E id \in Irqs :
       EnableIrq(id) \/ DisableIrq(id) \/ Inject(id) \/ Raise(id) \/ Lower(id)
  \/ GuestEnable
  \/ Reset \/ CpuReset
  \/ AckIrq \/ Forward \/ EndIrq
  \/ \E i \in Lrs : GuestAck(i) \/ GuestEoi(i)

-----------------------------------------------------------------------------
(* Properties.                                                             *)

\* The types of the controller's state.
GicTypeOK ==
  /\ line \subseteq Irqs /\ enabled \subseteq Irqs /\ active \subseteq Irqs
  /\ forwarded \subseteq Irqs /\ stranded \subseteq Irqs
  /\ lr \in [Lrs -> [virt : Nat, phys : Irqs \cup {0},
                     state : {"inactive", "pending", "active"}]]
  /\ vmcr \in BOOLEAN
  /\ handler \in {"idle", "acked", "handled"}
  /\ irq \in Irqs \cup {NoIrq}
  /\ injected \in {0, -1}

\* No virtual interrupt is live in two List Registers, which the architecture
\* forbids, even when two physical interrupts share it.
NoDuplicate ==
  \A i, j \in Lrs : Live(i) /\ Live(j) /\ lr[i].virt = lr[j].virt => i = j

\* An interrupt that was active when it was injected stays active at the
\* distributor as long as it is presented to the guest: no reset, no end of
\* another interrupt and no second injection deactivates it, so it is not taken
\* again before the guest's own end-of-interrupt, which deactivates exactly it.
LiveIsActive ==
  \A i \in Lrs : Live(i) /\ lr[i].phys \in forwarded => lr[i].phys \in active

\* No interrupt is lost between the acknowledgement and the guest: one that
\* is active is in the handler's hands, live in a List Register, or was
\* refused by InjectIrq, dropped by CpuReset, or kept by the host.
ActiveAccounted ==
  active \subseteq {lr[i].phys : i \in {j \in Lrs : Live(j)}}
                     \cup {irq} \cup stranded

\* InjectIrq returns -1 to a handler only if no List Register is free, or the
\* virtual interrupt is already live.
RefusedOnlyWhenFull ==
  [][handler = "acked" /\ injected = 0 /\ injected' = -1 =>
       Free = {} \/ \E i \in Lrs : Live(i) /\ lr[i].virt = VirtOf[irq]]_gicVars
=============================================================================
