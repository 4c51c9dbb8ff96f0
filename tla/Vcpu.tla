-------------------------------- MODULE Vcpu --------------------------------
(***************************************************************************)
(* The world switch (core/vcpu): vcpu_run saves the host's registers on    *)
(* the EL2 stack, loads the guest's and erets; the next guest exception    *)
(* runs a vector, then vcpu_exit, which saves the guest and returns to the *)
(* caller of vcpu_run with the exit described.                             *)
(*                                                                         *)
(* Registers that the code treats alike are one register here: x4 stands   *)
(* for x4 to x18, x19 for x19 to x30, sys for the EL1 system registers     *)
(* other than SCTLR_EL1 and the stack pointers.  A value is a triple       *)
(* <<origin, name, number>>, so that two registers never hold the same     *)
(* value by accident.  fp, the FP and SIMD registers, is not part of the   *)
(* Vcpu object: neither path saves it, and the hypervisor is built without *)
(* -mgeneral-regs-only, so its own code may use it.                        *)
(*                                                                         *)
(* The core is one, and the steps of the switch are straight-line code; an *)
(* interrupt may arrive at any of them.                                    *)
(***************************************************************************)
EXTENDS Integers, Sequences

CONSTANTS
  Events,    \* guest exceptions: [reason, ec, imm]
  X0Values,  \* what a guest may leave in x0, besides a fresh value
  X1Values,  \* what it may leave in x1
  MaxGen,    \* bound: rounds of guest register writes
  MaxPc      \* bound: instructions the guest executes

VARIABLES
  cpu,    \* the registers of the core
  stack,  \* EL2 stack, top first: frames and pairs of registers
  vcpu,   \* the Vcpu object: saved guest registers
  exit,   \* the VcpuExit the caller of vcpu_run passes
  at,     \* what the core executes
  gen,    \* the guest's round of register writes
  caller, \* ghost: registers when vcpu_run was called
  view,   \* ghost: guest registers when the guest last stopped
  event   \* ghost: the exception that stopped it

Zero == <<"zero", "", 0>>
Masked == <<"daif", "masked", 0>>
Unmasked == <<"daif", "unmasked", 0>>
This == <<"pointer", "vcpu", 0>>

Gprs == {"x0", "x1", "x2", "x3", "x4", "x19"}
System == {"sys", "sctlr", "sp_el0", "sp_el1"}
GuestRegisters == Gprs \cup System \cup {"pc", "pstate"}
HostOnly == {"elr_el2", "spsr_el2", "tpidr_el2", "daif", "esr_el2", "far_el2",
             "hpfar_el2"}
CpuRegisters == GuestRegisters \cup HostOnly \cup {"fp"}

\* What the procedure call standard and the code after vcpu_run rely on.
HostKept == {"x19", "tpidr_el2", "daif", "sp_el0", "elr_el2", "spsr_el2"}

Sync == "SYNC"
IsAbort(e) == e.reason = Sync /\ e.ec \in {"INSTR_ABORT", "DATA_ABORT"}
IsHvc(e) == e.reason = Sync /\ e.ec = "HVC"
IsSmc(e) == e.reason = Sync /\ e.ec = "SMC"

NoEvent == [reason |-> "NONE", ec |-> "", imm |-> 0]
NoExit == [reason |-> Sync, syndrome |-> NoEvent, far |-> Zero, hpfar |-> Zero]

\* The Vcpu constructor, and the x0 = dtb of the Vm constructor.
NewVcpu ==
  [r \in GuestRegisters |->
     CASE r = "pc" -> <<"ipa", "entry", 0>>
       [] r = "pstate" -> <<"pstate", "EL1h masked", 0>>
       [] r = "sctlr" -> <<"sctlr", "mmu and caches off", 0>>
       [] r = "x0" -> <<"ipa", "dtb", 0>>
       [] OTHER -> Zero]

HostValue(r) == <<"host", r, 0>>

VcpuInit ==
  /\ \E daif \in {Masked, Unmasked} :
       cpu = [r \in CpuRegisters |-> IF r = "daif" THEN daif ELSE HostValue(r)]
  /\ stack = <<>>
  /\ vcpu = NewVcpu
  /\ exit = NoExit
  /\ at = "idle"
  /\ gen = 0
  /\ caller = cpu
  /\ view = [r \in GuestRegisters \cup {"fp"} |->
               IF r = "fp" THEN cpu["fp"] ELSE NewVcpu[r]]
  /\ event = NoEvent

-----------------------------------------------------------------------------
(* Entering the guest.                                                     *)

\* Mutant: interrupts stay as the host had them.
RunUnmasked ==
  /\ at = "call"
  /\ caller' = cpu
  /\ exit' = NoExit
  /\ stack' = <<[r \in HostKept |-> cpu[r]]>> \o stack
  /\ cpu' = [cpu EXCEPT !["tpidr_el2"] = This]
  /\ at' = "restore"
  /\ UNCHANGED <<vcpu, gen, view, event>>

\* Vcpu::Run zeroes the exit it passes; the first instructions mask
\* interrupts, push the host frame and record the object in TPIDR_EL2.
vcpu_run ==
  /\ at = "call"
  /\ caller' = cpu
  /\ exit' = NoExit
  /\ stack' = <<[r \in HostKept |-> cpu[r]]>> \o stack
  /\ cpu' = [cpu EXCEPT !["daif"] = Masked,
                        !["tpidr_el2"] = This,
                        !["x0"] = This,
                        !["x1"] = HostValue("scratch"),
                        !["x2"] = HostValue("scratch")]
  /\ at' = "restore"
  /\ UNCHANGED <<vcpu, gen, view, event>>

RestoreSystem ==
  /\ at = "restore"
  /\ cpu' = [r \in CpuRegisters |->
               CASE r \in System -> vcpu[r]
                 [] r = "elr_el2" -> vcpu["pc"]
                 [] r = "spsr_el2" -> vcpu["pstate"]
                 [] r = "x1" -> vcpu["pstate"]
                 [] OTHER -> cpu[r]]
  /\ at' = "eret"
  /\ UNCHANGED <<stack, vcpu, exit, gen, caller, view, event>>

Eret ==
  /\ at = "eret"
  /\ cpu' = [r \in CpuRegisters |->
               CASE r \in Gprs -> vcpu[r]
                 [] r = "pc" -> cpu["elr_el2"]
                 [] r = "pstate" -> cpu["spsr_el2"]
                 [] OTHER -> cpu[r]]
  /\ at' = "guest"
  /\ UNCHANGED <<stack, vcpu, exit, gen, caller, view, event>>

-----------------------------------------------------------------------------
(* The guest.                                                              *)

\* The guest runs: it may leave anything in its registers.
GuestWrites ==
  /\ at = "guest" /\ gen < MaxGen /\ cpu["pc"][3] < MaxPc
  /\ gen' = gen + 1
  /\ \E x0 \in X0Values \cup {<<"guest", "x0", gen'>>},
        x1 \in X1Values :
       cpu' = [r \in CpuRegisters |->
                 CASE r = "x0" -> x0
                   [] r = "x1" -> x1
                   [] r = "pc" -> <<"ipa", "entry", cpu["pc"][3] + 1>>
                   [] r \in (GuestRegisters \cup {"fp"}) \ {"x0", "x1", "pc"} ->
                        <<"guest", r, gen'>>
                   [] OTHER -> cpu[r]]
  /\ UNCHANGED <<stack, vcpu, exit, at, caller, view, event>>

\* The preferred return address: after an HVC, at anything else.
ReturnAddress(e) ==
  IF IsHvc(e) THEN <<"ipa", "entry", cpu["pc"][3] + 1>> ELSE cpu["pc"]

\* A guest exception: the core sets the EL2 syndrome registers and masks
\* interrupts, the vector pushes x0 to x3 and puts the syndrome and the kind
\* in x0 and x1.  The fault addresses are left from the last abort unless
\* this is one.
GuestException(e) ==
  /\ at = "guest" /\ cpu["pc"][3] < MaxPc
  /\ LET esr == IF e.reason \in {Sync, "SERROR"} THEN e ELSE NoEvent
     IN  cpu' = [cpu EXCEPT
                   !["elr_el2"] = ReturnAddress(e),
                   !["spsr_el2"] = cpu["pstate"],
                   !["daif"] = Masked,
                   !["far_el2"] = IF IsAbort(e)
                                  THEN <<"far", "guest", gen>> ELSE @,
                   !["hpfar_el2"] = IF IsAbort(e)
                                    THEN <<"hpfar", "guest", gen>> ELSE @,
                   !["esr_el2"] = <<"esr", esr.ec, esr.imm>>,
                   !["x0"] = <<"esr", esr.ec, esr.imm>>,
                   !["x1"] = <<"exit", e.reason, 0>>]
         /\ stack' = <<<<e.reason, esr>>,
                       <<cpu["x2"], cpu["x3"]>>,
                       <<cpu["x0"], cpu["x1"]>>>> \o stack
  /\ view' = [[r \in GuestRegisters \cup {"fp"} |-> cpu[r]]
                EXCEPT !["pc"] = ReturnAddress(e)]
  /\ event' = e
  /\ at' = "save"
  /\ UNCHANGED <<vcpu, exit, gen, caller>>

\* Traps from a 32-bit EL0 enter the stubbed vectors, which panic.
GuestAArch32 ==
  /\ at = "guest"
  /\ at' = "panic"
  /\ UNCHANGED <<cpu, stack, vcpu, exit, gen, caller, view, event>>

-----------------------------------------------------------------------------
(* Leaving the guest.                                                      *)

\* Mutant: x0, x1 and x2, x3 are read from each other's slots.
SaveSwapped ==
  /\ at = "save"
  /\ vcpu' = [r \in GuestRegisters |->
                CASE r = "x0" -> stack[2][1] [] r = "x1" -> stack[2][2]
                  [] r = "x2" -> stack[3][1] [] r = "x3" -> stack[3][2]
                  [] r = "pc" -> cpu["elr_el2"]
                  [] r = "pstate" -> cpu["spsr_el2"]
                  [] OTHER -> cpu[r]]
  /\ at' = "exit"
  /\ UNCHANGED <<cpu, stack, exit, gen, caller, view, event>>

\* vcpu_exit finds the object through TPIDR_EL2 and saves the guest: x0 to x3
\* from the stack, the rest from the core.
SaveGuest ==
  /\ at = "save"
  /\ cpu["tpidr_el2"] = This
  /\ vcpu' = [r \in GuestRegisters |->
                CASE r = "x0" -> stack[3][1] [] r = "x1" -> stack[3][2]
                  [] r = "x2" -> stack[2][1] [] r = "x3" -> stack[2][2]
                  [] r = "pc" -> cpu["elr_el2"]
                  [] r = "pstate" -> cpu["spsr_el2"]
                  [] OTHER -> cpu[r]]
  /\ at' = "exit"
  /\ UNCHANGED <<cpu, stack, exit, gen, caller, view, event>>

\* Mutant: the fault addresses are read on every exit.
AnyHasFaultAddress(reason, syndrome) == TRUE

HasFaultAddress(reason, syndrome) ==
  reason = Sync /\ syndrome.ec \in {"INSTR_ABORT", "DATA_ABORT"}

\* The exit is written, the vector's slots are dropped, the host frame is
\* popped and vcpu_run returns.
ReturnToHost ==
  /\ at = "exit"
  /\ LET reason == stack[1][1]
         syndrome == stack[1][2]
         abort == HasFaultAddress(reason, syndrome)
         frame == stack[4]
     IN  /\ exit' = [reason |-> reason, syndrome |-> syndrome,
                     far |-> IF abort THEN cpu["far_el2"] ELSE Zero,
                     hpfar |-> IF abort THEN cpu["hpfar_el2"] ELSE Zero]
         /\ cpu' = [r \in CpuRegisters |->
                      IF r \in HostKept THEN frame[r] ELSE cpu[r]]
  /\ stack' = SubSeq(stack, 5, Len(stack))
  /\ at' = "returned"
  /\ UNCHANGED <<vcpu, gen, caller, view, event>>

\* An interrupt at EL2 is fatal: every handler of the host vectors panics.
HostInterrupt ==
  /\ at \notin {"guest", "panic"}
  /\ cpu["daif"] = Unmasked
  /\ at' = "panic"
  /\ UNCHANGED <<cpu, stack, vcpu, exit, gen, caller, view, event>>

\* The compiler may use the FP and SIMD registers in any of the host's code.
HostUsesFp ==
  /\ at \in {"idle", "call", "returned"}
  /\ cpu' = [cpu EXCEPT !["fp"] = HostValue("fp")]
  /\ UNCHANGED <<stack, vcpu, exit, at, gen, caller, view, event>>

Switch ==
  \/ vcpu_run \/ RestoreSystem \/ Eret
  \/ SaveGuest \/ ReturnToHost

Environment ==
  \/ GuestWrites \/ GuestAArch32 \/ HostInterrupt \/ HostUsesFp
  \/ \E e \in Events : GuestException(e)
=============================================================================
