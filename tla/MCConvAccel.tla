----------------------------- MODULE MCConvAccel -----------------------------
(***************************************************************************)
(* ConvAccel on a small tile: the CPU stores the operands of each pass and *)
(* reads the outputs, and that is all the engine's environment does.       *)
(***************************************************************************)
EXTENDS ConvAccel

MCPowerUp == [a \in Address |-> [cell |-> a]]
MCCpuWord == {Operand(p, a) : p \in 1..PASSES, a \in Address}
MCExtRequest ==
  {Quiet} \cup {Write(CopyAddress(i), Operand(p, CopyAddress(i))) :
                  i \in 0..CopyWords-1, p \in 1..PASSES}
          \cup {Read(OUTPUT_BASE + j) : j \in Output}
=============================================================================
