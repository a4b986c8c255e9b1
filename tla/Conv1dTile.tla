----------------------------- MODULE Conv1dTile -----------------------------
(***************************************************************************)
(* What the convolution engine promises its user, one tile at a time: from *)
(* the start of a run to its end the outputs are replaced one after the    *)
(* other, each in one step and by the complete sum over the operands in    *)
(* the scratchpad, and the CPU reaches the scratchpad only outside a run.  *)
(* Conv1d implements this specification one clock edge at a time.          *)
(***************************************************************************)
EXTENDS Conv1dLayout

CONSTANTS
  Zero,      \* the word 0
  CpuWord,   \* the words the CPU may store
  PowerUp    \* what the SRAM holds before anything is written to it

VARIABLES
  mem,       \* the scratchpad
  phase,     \* "IDLE", "RUN" or "DONE"
  next       \* in a run, the outputs committed so far

tile == <<mem, phase, next>>

CpuAccess ==
  \/ mem' = mem
  \/ \E a \in Address, d \in CpuWord : mem' = [mem EXCEPT ![a] = d]

Init ==
  /\ mem = PowerUp
  /\ phase = "IDLE"
  /\ next = 0

CpuStep ==
  /\ phase # "RUN"
  /\ CpuAccess
  /\ UNCHANGED <<phase, next>>

\* A word granted in the cycle in which the run starts is still stored.
Start ==
  /\ phase = "IDLE"
  /\ phase' = "RUN"
  /\ next' = 0
  /\ CpuAccess

\* Output `next` becomes its full sum, over 0 or over its previous value.
Commit(accumulate) ==
  LET out  == OutputWord(ChannelOf(next), SampleOf(next))
      base == IF accumulate THEN mem[out] ELSE Zero
  IN  /\ phase = "RUN"
      /\ next < NUM_OUTPUTS
      /\ mem' = [mem EXCEPT ![out] = PartialSum(mem, base, next, KERNEL_K)]
      /\ next' = next + 1
      /\ UNCHANGED phase

Finish ==
  /\ phase = "RUN"
  /\ next = NUM_OUTPUTS
  /\ phase' = "DONE"
  /\ UNCHANGED <<mem, next>>

Release ==
  /\ phase = "DONE"
  /\ phase' = "IDLE"
  /\ next' = 0
  /\ CpuAccess

\* A hardware reset abandons the run; the scratchpad keeps its contents.
Reset ==
  /\ phase' = "IDLE"
  /\ next' = 0
  /\ UNCHANGED mem

Next ==
  \/ CpuStep
  \/ Start
  \/ \E accumulate \in BOOLEAN : Commit(accumulate)
  \/ Finish
  \/ Release
  \/ Reset

Spec == Init /\ [][Next]_tile
=============================================================================
