------------------------------ MODULE ConvAccel ------------------------------
(***************************************************************************)
(* The firmware driving the accelerator: the polled driver (conv_accel.c)  *)
(* and the loop of conv1d_hw over the input-channel tiles of an output     *)
(* tile, composed with the register block and the engine.                  *)
(*                                                                         *)
(* All parts share the clock: a step is one edge, at which the CPU takes   *)
(* one step of its program or lets the cycle pass.  A store is done when   *)
(* it is granted; a load when its answer arrives, one cycle after that.    *)
(***************************************************************************)
EXTENDS Conv1d, Conv1dControlReg

CONSTANT PASSES      \* input-channel tiles of an output tile

ASSUME PassesAssumption == PASSES \in Nat \ {0}

VARIABLES
  pc,        \* the function of the firmware that runs
  step,      \* where it is: "request", "answer" or "store"
  pass,      \* cin_tile + 1
  cursor,    \* position in the copy loop or in the read loop
  val        \* the word of CONTROL a read-modify-write has loaded

cpuVars == <<pc, step, pass, cursor, val>>
vars    == <<convVars, regVars, cpuVars>>

HwClock(reg, ext) ==
  /\ Clock(start_o, accumulate_o, ext)
  /\ RegClock(reg, running, done)

Csr(write, addr, wdata) ==
  [valid |-> TRUE, write |-> write, addr |-> addr, wdata |-> wdata]

-----------------------------------------------------------------------------
(* conv_accel_init, and the functions that read, modify and write CONTROL: *)
(* conv_accel_set_accumulate, conv_accel_start, the end of conv_accel_wait *)

Rmw == {"set_accumulate", "start", "clear"}

InitAccel ==
  /\ pc = "init"
  /\ HwClock(Csr(TRUE, "CONTROL", {}), Quiet)
  /\ pc' = "copy"
  /\ UNCHANGED <<step, pass, cursor, val>>

LoadControl ==
  /\ pc \in Rmw /\ step = "request"
  /\ HwClock(Csr(FALSE, "CONTROL", {}), Quiet)
  /\ step' = "answer"
  /\ UNCHANGED <<pc, pass, cursor, val>>

ControlLoaded ==
  /\ pc \in Rmw /\ step = "answer" /\ reg_rvalid
  /\ HwClock(NoAccess, Quiet)
  /\ val' = reg_rdata
  /\ step' = "store"
  /\ UNCHANGED <<pc, pass, cursor>>

\* Mutant: every pass overwrites the outputs.
ModifiedNeverAccumulates(w) ==
  IF pc = "start" THEN w \cup {START}
  ELSE IF pc = "clear" THEN w \ {START} ELSE w \ {ACCUMULATE}

Modified(w) ==
  CASE pc = "start" -> w \cup {START}
    [] pc = "clear" -> w \ {START}
    [] pc = "set_accumulate" /\ pass > 1 -> w \cup {ACCUMULATE}
    [] pc = "set_accumulate" /\ pass = 1 -> w \ {ACCUMULATE}

StoreControl ==
  /\ pc \in Rmw /\ step = "store"
  /\ HwClock(Csr(TRUE, "CONTROL", Modified(val)), Quiet)
  /\ step' = "request"
  /\ pc' = CASE pc = "set_accumulate" -> "start"
             [] pc = "start" -> "wait"
             [] pc = "clear" -> IF pass < PASSES THEN "copy" ELSE "read"
  /\ pass' = IF pc = "clear" /\ pass < PASSES THEN pass + 1 ELSE pass
  /\ UNCHANGED <<cursor, val>>

-----------------------------------------------------------------------------
(* The polling loop of conv_accel_wait *)

Poll ==
  /\ pc = "wait" /\ step = "request"
  /\ HwClock(Csr(FALSE, "STATUS", {}), Quiet)
  /\ step' = "answer"
  /\ UNCHANGED <<pc, pass, cursor, val>>

\* Mutant: the loop ends when RUNNING is 0 instead of when DONE is 1.
PollNotRunning ==
  /\ pc = "wait" /\ step = "answer" /\ reg_rvalid
  /\ HwClock(NoAccess, Quiet)
  /\ step' = "request"
  /\ pc' = IF RUNNING \notin reg_rdata THEN "clear" ELSE "wait"
  /\ UNCHANGED <<pass, cursor, val>>

\* Mutant: the loop ends when any bit of STATUS is 1.
PollAnyBit ==
  /\ pc = "wait" /\ step = "answer" /\ reg_rvalid
  /\ HwClock(NoAccess, Quiet)
  /\ step' = "request"
  /\ pc' = IF reg_rdata # {} THEN "clear" ELSE "wait"
  /\ UNCHANGED <<pass, cursor, val>>

PollAnswered ==
  /\ pc = "wait" /\ step = "answer" /\ reg_rvalid
  /\ HwClock(NoAccess, Quiet)
  /\ step' = "request"
  /\ pc' = IF DONE \in reg_rdata THEN "clear" ELSE "wait"
  /\ UNCHANGED <<pass, cursor, val>>

-----------------------------------------------------------------------------
(* The copy loops and the read loop of conv1d_hw.  An access that is not   *)
(* granted is presented again.                                             *)

InputWords == TILE_CIN * INPUT_WINDOW
CopyWords  == InputWords + TILE_COUT * (TILE_CIN * KERNEL_K)

\* The loops visit the windows, then the kernels, in address order; as they
\* pad with zeros they store every operand word in every pass.
CopyAddress(i) == IF i < InputWords THEN INPUT_BASE + i
                                    ELSE WEIGHT_BASE + (i - InputWords)
Operand(p, a)  == [pass |-> p, cell |-> a]

\* The environment that the engine is specified for allows these accesses.
ASSUME FirmwareRequestAssumption ==
  /\ \A i \in 0..CopyWords-1, p \in 1..PASSES :
       Write(CopyAddress(i), Operand(p, CopyAddress(i))) \in ExtRequest
  /\ \A j \in Output : Read(OUTPUT_BASE + j) \in ExtRequest

CopyOperand ==
  LET a    == CopyAddress(cursor)
      last == cursor = CopyWords - 1
  IN  /\ pc = "copy"
      /\ HwClock(NoAccess, Write(a, Operand(pass, a)))
      /\ IF ext_mem_gnt
         THEN /\ cursor' = IF last THEN 0 ELSE cursor + 1
              /\ pc' = IF last THEN "set_accumulate" ELSE "copy"
         ELSE UNCHANGED <<cursor, pc>>
      /\ UNCHANGED <<step, pass, val>>

ReadOutput ==
  /\ pc = "read" /\ step = "request"
  /\ HwClock(NoAccess, Read(OUTPUT_BASE + cursor))
  /\ step' = IF ext_mem_gnt THEN "answer" ELSE "request"
  /\ UNCHANGED <<pc, pass, cursor, val>>

\* Mutant: the read loop goes one word too far.
OutputReadLate ==
  LET last == cursor = NUM_OUTPUTS
  IN  /\ pc = "read" /\ step = "answer" /\ rvalid
      /\ HwClock(NoAccess, Quiet)
      /\ step' = "request"
      /\ cursor' = IF last THEN 0 ELSE cursor + 1
      /\ pc' = IF last THEN "copy" ELSE "read"
      /\ pass' = IF last THEN 1 ELSE pass
      /\ UNCHANGED val

\* After its last output the firmware goes on with the next output tile.
OutputRead ==
  LET last == cursor = NUM_OUTPUTS - 1
  IN  /\ pc = "read" /\ step = "answer" /\ rvalid
      /\ HwClock(NoAccess, Quiet)
      /\ step' = "request"
      /\ cursor' = IF last THEN 0 ELSE cursor + 1
      /\ pc' = IF last THEN "copy" ELSE "read"
      /\ pass' = IF last THEN 1 ELSE pass
      /\ UNCHANGED val

-----------------------------------------------------------------------------
\* The CPU does something else in this cycle.
Pause ==
  /\ HwClock(NoAccess, Quiet)
  /\ step # "answer"
  /\ UNCHANGED cpuVars

CpuStep ==
  \/ InitAccel
  \/ LoadControl \/ ControlLoaded \/ StoreControl
  \/ Poll \/ PollAnswered
  \/ CopyOperand
  \/ ReadOutput \/ OutputRead

\* The reset of the chip: registers and program start over, the SRAM stays.
Reset ==
  /\ RegisterReset /\ RegReset
  /\ pc' = "init" /\ step' = "request" /\ pass' = 1 /\ cursor' = 0 /\ val' = {}

Init ==
  /\ ConvInit /\ RegInit
  /\ pc = "init" /\ step = "request" /\ pass = 1 /\ cursor = 0 /\ val = {}

Next == CpuStep \/ Pause

Spec     == Init /\ [][Next \/ Reset]_vars
FairSpec == Init /\ [][Next]_vars /\ WF_vars(CpuStep)

-----------------------------------------------------------------------------
(* Properties *)

\* The registers and the program stay in range; each loop counter stays
\* within the words of its loop, and only one of the loops is entered.
CpuTypeOK ==
  /\ control \subseteq Bits /\ status \subseteq Bits /\ reg_rdata \subseteq Bits
  /\ reg_rvalid \in BOOLEAN
  /\ pc \in Rmw \cup {"init", "copy", "wait", "read"}
  /\ step \in {"request", "answer", "store"}
  /\ pass \in 1..PASSES
  /\ cursor \in CASE pc = "copy" -> 0..CopyWords-1
                  [] pc = "read" -> Output
                  [] OTHER       -> {0}
  /\ val \subseteq Bits

\* What the outputs must be after pass p: the first pass overwrites, each
\* later one adds its own input channels to what the previous one left.
PassOperands(p) == [a \in Address |-> Operand(p, a)]
OutputAfter[p \in 0..PASSES] ==
  [j \in Output |-> IF p = 0 THEN Zero
                   ELSE PartialSum(PassOperands(p), OutputAfter[p-1][j], j, KERNEL_K)]

\* When conv_accel_wait has seen DONE, the run it waited for has finished:
\* STATUS is a cycle old, yet the poll never takes the DONE of the previous
\* run for its own, and every output has been replaced in the right mode.
WaitSeesOwnRun ==
  pc = "clear" => \A j \in Output : mem[OUTPUT_BASE + j] = OutputAfter[pass][j]

\* The words conv1d_hw reads back are the sums over all the passes.
ReadsFullSum ==
  pc = "read" /\ step = "answer" => rdata = OutputAfter[PASSES][cursor]

\* The firmware touches the scratchpad only while the engine leaves it the
\* port: no access of the copy or the read loop is ever stalled.
NeverStalled == pc \in {"copy", "read"} => ext_mem_gnt

\* The engine samples ACCUMULATE again for every output; the firmware never
\* changes it, nor withdraws START, while a run is on.
ControlStable ==
  [][running /\ running' => control' = control]_vars

\* Every run ends, is seen to end, and every output tile is read back.
TilesComplete == []<>(pc = "read") /\ []<>(pc = "copy")
=============================================================================
