-------------------------------- MODULE Vmm ---------------------------------
(***************************************************************************)
(* The run loop of a virtual machine (core/vmm, core/vm) over the world    *)
(* switch: Vmm::Run starts the VM once, enters it, handles each exit, and  *)
(* returns when the VM is no longer running.                               *)
(***************************************************************************)
EXTENDS Vcpu

CONSTANT Vmid    \* VmConfig::vmid

VARIABLES
  m_state,     \* VmState
  m_lastExit,  \* the exit Enter recorded
  stage2,      \* the VMID whose address space is active, 0 when stage 2 is off
  result       \* what the last Run returned

vmVars == <<m_state, m_lastExit, stage2, result>>
vars == <<cpu, stack, vcpu, exit, at, gen, caller, view, event, m_state,
          m_lastExit, stage2, result>>

Stopped == {"SHUTDOWN", "RESET_REQUESTED", "FAULTED"}

Init ==
  /\ VcpuInit
  /\ m_state = "READY"
  /\ m_lastExit = NoExit
  /\ stage2 = 0
  /\ result = "none"

-----------------------------------------------------------------------------
(* Guest calls.                                                            *)

Psci(f) == <<"psci", f, 0>>
VERSION_1_0 == <<"ret", "VERSION_1_0", 0>>
SUCCESS == Zero
NOT_SUPPORTED == <<"ret", "NOT_SUPPORTED", 0>>

Supports(call) ==
  call \in {Psci("VERSION"), Psci("SYSTEM_OFF"), Psci("SYSTEM_RESET"),
            Psci("FEATURES")}

\* Mutant: the immediate is not looked at.
HvcAnyImmediate(imm) ==
  LET x0 == vcpu["x0"]
  IN  CASE x0 = Psci("SYSTEM_OFF") -> [action |-> "SHUTDOWN", x0 |-> x0]
        [] x0 = Psci("SYSTEM_RESET") -> [action |-> "RESET", x0 |-> x0]
        [] OTHER -> [action |-> "RESUME", x0 |-> NOT_SUPPORTED]

\* Mutant: a call that is not PSCI is resumed without an answer.
HvcUnanswered(imm) ==
  LET x0 == vcpu["x0"]
  IN  CASE imm = 0 /\ x0 = Psci("VERSION") -> [action |-> "RESUME", x0 |-> VERSION_1_0]
        [] imm = 0 /\ x0 = Psci("SYSTEM_OFF") -> [action |-> "SHUTDOWN", x0 |-> x0]
        [] imm = 0 /\ x0 = Psci("SYSTEM_RESET") -> [action |-> "RESET", x0 |-> x0]
        [] OTHER -> [action |-> "RESUME", x0 |-> x0]

\* Hvc::Handle: the action and the new x0.  A function identifier of another
\* owner falls in the last case with the unknown PSCI functions.
Handle(imm) ==
  LET x0 == vcpu["x0"]
      Resume(v) == [action |-> "RESUME", x0 |-> v]
  IN  CASE imm # 0 -> Resume(NOT_SUPPORTED)
        [] imm = 0 /\ x0 = Psci("VERSION") -> Resume(VERSION_1_0)
        [] imm = 0 /\ x0 = Psci("FEATURES") ->
             Resume(IF Supports(vcpu["x1"]) THEN SUCCESS ELSE NOT_SUPPORTED)
        [] imm = 0 /\ x0 = Psci("SYSTEM_OFF") ->
             [action |-> "SHUTDOWN", x0 |-> x0]
        [] imm = 0 /\ x0 = Psci("SYSTEM_RESET") ->
             [action |-> "RESET", x0 |-> x0]
        [] OTHER -> Resume(NOT_SUPPORTED)

-----------------------------------------------------------------------------
(* Vmm::Run.                                                               *)

\* Vmm::Run up to the loop: Vm::Start activates the guest's address space and
\* marks the VM running.
Run ==
  /\ at = "idle"
  /\ \/ /\ m_state # "READY"
        /\ result' = "INVALID_STATE"
        /\ UNCHANGED <<at, m_state, stage2>>
     \/ /\ m_state = "READY"
        /\ stage2' = Vmid
        /\ m_state' = "RUNNING"
        /\ at' = "call"
        /\ result' = "none"
  /\ UNCHANGED <<cpu, stack, vcpu, exit, gen, caller, view, event, m_lastExit>>

\* Vm::Stop, after which Run returns the state.
StopWith(state) ==
  /\ m_state' = state
  /\ result' = state
  /\ at' = "idle"

Resume ==
  /\ at' = "call"
  /\ UNCHANGED <<m_state, result>>

\* Vm::Enter records the exit it returns.
Returned ==
  /\ at = "returned"
  /\ m_lastExit' = exit
  /\ UNCHANGED <<cpu, stack, exit, gen, caller, view, event, stage2>>

HandleInterrupt ==
  /\ Returned
  /\ exit.reason \in {"IRQ", "FIQ"}
  /\ Resume
  /\ UNCHANGED vcpu

HandleSError ==
  /\ Returned
  /\ exit.reason = "SERROR"
  /\ StopWith("FAULTED")
  /\ UNCHANGED vcpu

\* Mutant: the power actions are not carried out.
HvcNeverStops ==
  /\ Returned
  /\ exit.reason = Sync /\ exit.syndrome.ec = "HVC"
  /\ vcpu' = [vcpu EXCEPT !["x0"] = Handle(exit.syndrome.imm).x0]
  /\ Resume

HandleHvc ==
  /\ Returned
  /\ exit.reason = Sync /\ exit.syndrome.ec = "HVC"
  /\ LET h == Handle(exit.syndrome.imm)
     IN  /\ vcpu' = [vcpu EXCEPT !["x0"] = h.x0]
         /\ \/ h.action = "RESUME" /\ Resume
            \/ h.action = "SHUTDOWN" /\ StopWith("SHUTDOWN")
            \/ h.action = "RESET" /\ StopWith("RESET_REQUESTED")

\* Smc::Handle: a trapped SMC returns to itself, so the handler steps over it.
HandleSmc ==
  /\ Returned
  /\ exit.reason = Sync /\ exit.syndrome.ec = "SMC"
  /\ vcpu' = [vcpu EXCEPT !["x0"] = NOT_SUPPORTED,
                          !["pc"] = <<@[1], @[2], @[3] + 1>>]
  /\ Resume

HandleOther ==
  /\ Returned
  /\ exit.reason = Sync /\ exit.syndrome.ec \notin {"HVC", "SMC"}
  /\ StopWith("FAULTED")
  /\ UNCHANGED vcpu

HandleExit ==
  \/ HandleInterrupt \/ HandleSError \/ HandleHvc \/ HandleSmc \/ HandleOther

Next ==
  \/ Run \/ HandleExit
  \/ (Switch \/ Environment) /\ UNCHANGED vmVars

Spec == Init /\ [][Next]_vars

\* The core executes the hypervisor's code.  Nothing is assumed of the guest.
FairSpec == Spec /\ WF_vars(HandleExit \/ (Switch /\ UNCHANGED vmVars))

-----------------------------------------------------------------------------
(* Properties.                                                             *)

Value == STRING \X STRING \X Nat
ExitType == [reason : {Sync, "IRQ", "FIQ", "SERROR"},
             syndrome : Events \cup {NoEvent}, far : Value, hpfar : Value]

\* The types of the loop's state and of the registers.
TypeOK ==
  /\ cpu \in [CpuRegisters -> Value] /\ vcpu \in [GuestRegisters -> Value]
  /\ exit \in ExitType /\ m_lastExit \in ExitType
  /\ at \in {"idle", "call", "restore", "eret", "guest", "save", "exit",
             "returned", "panic"}
  /\ m_state \in {"READY", "RUNNING"} \cup Stopped
  /\ stage2 \in {0, Vmid}
  /\ result \in {"none", "INVALID_STATE"} \cup Stopped

\* When vcpu_run returns, the callee-saved registers, TPIDR_EL2, DAIF, SP_EL0,
\* ELR_EL2 and SPSR_EL2 are what they were when it was called, and the stack
\* is as deep, whatever the guest did with the same registers; and no interrupt
\* reaches the host's vectors, which panic, while the two sides' registers are
\* half exchanged.
HostRestored ==
  [][ /\ at' = "returned" => \A r \in HostKept : cpu'[r] = caller'[r]
      /\ at' \in {"idle", "call", "returned"} => stack' = <<>>
      /\ at \in {"restore", "eret", "save", "exit"} => at' # "panic" ]_vars

\* A guest that is resumed finds every register the Vcpu object holds as it
\* left it, but for x0 after a call; it resumes after an SMC that was
\* answered, not at it, and where the exception says otherwise.
ResumesAsLeft(r) ==
  \/ cpu'[r] = view[r]
  \/ r = "x0" /\ (IsHvc(event) \/ IsSmc(event))
  \/ r = "pc" /\ IsSmc(event) /\ cpu'[r] = <<"ipa", "entry", view[r][3] + 1>>

GuestRestored ==
  [][at = "eret" /\ at' = "guest" =>
       /\ \A r \in GuestRegisters : ResumesAsLeft(r)
       /\ IsSmc(event) => cpu'["pc"] # view["pc"]]_vars

\* The guest's state is saved by Run, as vcpu.h says: also its FP and SIMD
\* registers are as it left them when it is resumed.
GuestFpRestored ==
  [][at = "eret" /\ at' = "guest" => cpu'["fp"] = view["fp"]]_vars

\* The exit a caller reads describes the exception that happened: its kind
\* and syndrome, and the fault addresses of this abort, never of an earlier
\* one, and zero when the exception is not an abort.
ExitDescribes ==
  at = "returned" =>
    /\ exit.reason = event.reason
    /\ exit.syndrome = IF event.reason \in {Sync, "SERROR"} THEN event ELSE NoEvent
    /\ exit.far = IF IsAbort(event) THEN <<"far", "guest", gen>> ELSE Zero
    /\ exit.hpfar = IF IsAbort(event) THEN <<"hpfar", "guest", gen>> ELSE Zero

\* A VM stops for a reason: SHUTDOWN and RESET_REQUESTED are what the guest
\* asked for with HVC #0, FAULTED is an SError or an exception without handler.
StopsForAReason ==
  LET asked(f) == IsHvc(event) /\ event.imm = 0 /\ view["x0"] = Psci(f)
  IN  /\ m_state = "SHUTDOWN" => asked("SYSTEM_OFF")
      /\ m_state = "RESET_REQUESTED" => asked("SYSTEM_RESET")
      /\ m_state = "FAULTED" =>
           \/ event.reason = "SERROR"
           \/ event.reason = Sync /\ event.ec \notin {"HVC", "SMC"}

\* Every call of the guest is answered: it is entered again at the instruction
\* after the HVC or SMC, with an answer in x0, unless the call was one to stop
\* or the hypervisor has panicked.  An HVC returns there by itself; a trapped
\* SMC only because Smc::Handle moves the return address, without which the
\* guest would make the same call for ever.
CallsAnswered ==
  \A p \in 1 .. MaxPc :
    (at = "save" /\ \/ IsHvc(event) /\ view["pc"][3] = p
                    \/ IsSmc(event) /\ view["pc"][3] + 1 = p)
      ~> \/ at = "panic"
         \/ at = "idle" /\ result \in {"SHUTDOWN", "RESET_REQUESTED"}
         \/ /\ at = "guest" /\ cpu["pc"][3] = p
            /\ cpu["x0"] \in {VERSION_1_0, SUCCESS, NOT_SUPPORTED}

\* A SYSTEM_OFF call ends in Run returning SHUTDOWN, and the VM stays shut
\* down: a second Run is refused.
PowerOffHonoured ==
  (at = "save" /\ IsHvc(event) /\ event.imm = 0
     /\ view["x0"] = Psci("SYSTEM_OFF"))
    ~> \/ at = "panic"
       \/ result = "SHUTDOWN" /\ [](m_state = "SHUTDOWN" /\ at = "idle")
=============================================================================
