------------------------------ MODULE MCConv1d ------------------------------
(***************************************************************************)
(* Conv1d on a small tile with a hostile environment: the control bits     *)
(* change in any cycle, the CPU reads and overwrites words of each region, *)
(* reset strikes at any edge.  MaxRuns bounds the runs started, because an *)
(* accumulating run nests the sum of the previous one.                     *)
(***************************************************************************)
EXTENDS Conv1d

CONSTANT MaxRuns
VARIABLE runs

MCPowerUp == [a \in Address |-> [cell |-> a]]
MCCpuWord == {[cpu |-> 1]}
MCTouched == {InputWord(0, 1), WeightWord(TILE_COUT - 1, 0, 0), OutputWord(0, 0)}
MCExtRequest ==
  {Quiet, Read(OutputWord(0, 0))} \cup {Write(a, d) : a \in MCTouched, d \in MCCpuWord}

MCInit == ConvInit /\ runs = 0
MCClock ==
  \E start_i, accumulate_i \in BOOLEAN, ext \in ExtRequest :
    /\ state = "IDLE" /\ start_i => runs < MaxRuns
    /\ Clock(start_i, accumulate_i, ext)
    /\ runs' = IF state = "IDLE" /\ start_i THEN runs + 1 ELSE runs
MCReset == RegisterReset /\ UNCHANGED runs
MCNext == MCClock \/ MCReset
MCSpec == MCInit /\ [][MCNext]_<<convVars, runs>>
=============================================================================
