---------------------------- MODULE MCConv1dFull ----------------------------
(***************************************************************************)
(* Conv1d with the geometry of the chip, run like the testbench runs it:   *)
(* START is held until DONE, ACCUMULATE is fixed during a run, the port is *)
(* quiet.  cycles counts the clock cycles from start_i to done_o.          *)
(***************************************************************************)
EXTENDS Conv1d

CONSTANT MaxRuns
VARIABLES start, accumulate, cycles, before, runs

aux == <<start, accumulate, cycles, before, runs>>

MCPowerUp == [a \in Address |-> [cell |-> a]]
MCCpuWord == {}
MCExtRequest == {Quiet}

MCInit ==
  /\ ConvInit
  /\ start = TRUE /\ accumulate \in BOOLEAN
  /\ cycles = 0 /\ before = mem /\ runs = 1

\* One cycle of a run; START falls once DONE is seen.
MCRun ==
  /\ start
  /\ Clock(start, accumulate, Quiet)
  /\ start' = ~done
  /\ cycles' = IF done THEN cycles ELSE cycles + 1
  /\ UNCHANGED <<accumulate, before, runs>>

\* The next run, in either mode, over the outputs of the previous one.
MCRestart ==
  /\ ~start /\ state = "IDLE" /\ runs < MaxRuns
  /\ start' = TRUE /\ accumulate' \in BOOLEAN
  /\ cycles' = 0 /\ before' = mem /\ runs' = runs + 1
  /\ UNCHANGED convVars

MCRelease ==
  /\ ~start /\ state = "DONE"
  /\ Clock(start, accumulate, Quiet)
  /\ UNCHANGED aux

MCNext == MCRun \/ MCRestart \/ MCRelease
MCSpec == MCInit /\ [][MCNext]_<<convVars, aux>>

\* results/README.md: every overwriting run took 1,369 clock cycles from
\* start_i to done_o, every accumulating run 1,417.
DocumentedLatency ==
  done /\ start => cycles = IF accumulate THEN 1417 ELSE 1369

\* After a run the outputs are the full sums over what the scratchpad held
\* when the run started, and the operands are what they were.
RunResult ==
  done => mem = [a \in Address |->
    IF a \in OUTPUT_BASE..OUTPUT_BASE + NUM_OUTPUTS - 1
    THEN PartialSum(before, IF accumulate THEN before[a] ELSE Zero,
                    a - OUTPUT_BASE, KERNEL_K)
    ELSE before[a]]
=============================================================================
