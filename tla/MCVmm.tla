------------------------------- MODULE MCVmm --------------------------------
(***************************************************************************)
(* A guest that may raise every kind of exception Vmm::Run tells apart and *)
(* make every PSCI call Hvc::Handle tells apart.                           *)
(***************************************************************************)
EXTENDS Vmm

Exception(reason, ec, imm) == [reason |-> reason, ec |-> ec, imm |-> imm]

MCEvents ==
  {Exception("SYNC", "HVC", 0), Exception("SYNC", "HVC", 1),
   Exception("SYNC", "SMC", 0),
   Exception("SYNC", "DATA_ABORT", 0), Exception("SYNC", "INSTR_ABORT", 0),
   Exception("SYNC", "OTHER", 0),
   Exception("IRQ", "", 0), Exception("FIQ", "", 0),
   Exception("SERROR", "SERROR", 0)}

MCX0Values ==
  {Psci(f) : f \in {"VERSION", "FEATURES", "SYSTEM_OFF", "SYSTEM_RESET",
                    "CPU_ON"}}

\* A supported function, and one that is not.
MCX1Values == {Psci("SYSTEM_OFF"), Psci("CPU_ON")}
=============================================================================
