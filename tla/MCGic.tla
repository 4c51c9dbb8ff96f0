------------------------------- MODULE MCGic --------------------------------
(***************************************************************************)
(* The timer and two devices that share a virtual interrupt, or have one   *)
(* each, on two List Registers.                                            *)
(***************************************************************************)
EXTENDS Timer, TLC

CONSTANTS spi1, spi2   \* the interrupts of the two devices

MCIrqs == {IRQ, spi1, spi2}
MCVirtOf == [id \in MCIrqs |-> IF id = IRQ THEN 6 ELSE 5]

\* Every physical interrupt has its own virtual one.
OwnVirtOf == [id \in MCIrqs |-> CASE id = IRQ -> 6 [] id = spi1 -> 5 [] id = spi2 -> 4]

\* The timer alone, so that nothing else keeps the handler busy.
TimerIrqs == {IRQ}
TimerVirtOf == [id \in TimerIrqs |-> 6]

\* The two devices are alike where they share a virtual interrupt, and so are
\* the clients.
Alike == Permutations({spi1, spi2}) \cup Permutations(Clients)
=============================================================================
