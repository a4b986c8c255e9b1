------------------------------- MODULE Conv1dTb -------------------------------
(***************************************************************************)
(* The standalone testbench, conv1d_tb.cpp: a program of numbered steps    *)
(* that drives the engine tile by tile as the firmware does, gathers the   *)
(* outputs, compares them with the golden model and prints a verdict.      *)
(*                                                                         *)
(* The loads (steps 0 and 1) store what ConvHw's copies store, so its      *)
(* actions stand for them, and output_data for computed_outputs.  The      *)
(* device under test takes its time, and may be too late, hang or compute  *)
(* a wrong output: that is what a testbench is for.  The watchdog's cycles *)
(* are counted while the program waits for DONE and while it compares; a   *)
(* load or a read-back is one step of the model, as its few hundred cycles *)
(* stay far below the limit.                                               *)
(***************************************************************************)
EXTENDS ConvHw

CONSTANTS WATCHDOG_TIMEOUT, None

ASSUME WatchdogAssumption == WATCHDOG_TIMEOUT \in Nat

ASSUME NoneAssumption == None \notin {"PASSED", "FAILED"}

VARIABLES
  data_idx,   \* in step 9, the output to compare next
  errors,     \* mismatches
  err_num,    \* the scoreboard's errors
  watchdog,
  waited,     \* history: the cycles of this run without DONE
  overrun,    \* the indices stored outside computed_outputs: C++ defines
              \* nothing after that, the model goes on as if it were harmless
  fault,      \* what went wrong outside the testbench
  verdict     \* printed at the end

tb     == <<data_idx, errors, err_num, watchdog, waited, overrun, fault, verdict>>
tbvars == <<vars, tb>>

total_outputs == shape.output_ch * output_len

TbInit ==
  /\ Init
  /\ data_idx = 0 /\ errors = 0 /\ err_num = 0 /\ watchdog = 0 /\ waited = 0
  /\ overrun = {} /\ fault = {} /\ verdict = None

LoadTile == (CopyInputs \/ CopyWeights) /\ UNCHANGED tb

\* Steps 5 and 6, with DONE in the end.
Run ==
  /\ "hang" \notin fault
  /\ RunTile
  /\ watchdog' = 0 /\ waited' = 0
  /\ UNCHANGED <<data_idx, errors, err_num, overrun, fault, verdict>>

\* Environment: the device leaves one output of its last pass wrong, or stops.
WrongOutput ==
  /\ pc = "read_outputs" /\ fault = {}
  /\ \E a \in OUTPUT_BASE..OUTPUT_BASE + NUM_OUTPUTS - 1 :
       scratchpad' = [scratchpad EXCEPT ![a] = Garbage]
  /\ fault' = {"wrong"}
  /\ UNCHANGED <<shape, cout_tile, t_tile, cin_tile, pc, output_data>>
  /\ UNCHANGED <<data_idx, errors, err_num, watchdog, waited, overrun, verdict>>

Hang ==
  /\ pc = "run" /\ fault = {}
  /\ fault' = {"hang"}
  /\ UNCHANGED <<vars, data_idx, errors, err_num, watchdog, waited, overrun, verdict>>

\* Mutant: nothing ever expires.
ExpiredNever(cycles) == FALSE

Expired(cycles) == cycles > WATCHDOG_TIMEOUT

\* The end of a cycle in which the step stayed the same.
SameStep ==
  /\ watchdog' = watchdog + 1
  /\ IF Expired(watchdog + 1)
     THEN err_num' = err_num + 1 /\ pc' = "end"
     ELSE UNCHANGED <<err_num, pc>>

\* A cycle of step 6 without DONE.  The device is late when this run has taken
\* more cycles than the watchdog allows a step, which is the last one counted:
\* the watchdog has then expired, and the bound on `waited` excludes nothing.
Wait ==
  /\ pc = "run" /\ waited <= WATCHDOG_TIMEOUT
  /\ SameStep
  /\ waited' = waited + 1
  /\ fault' = fault \cup (IF waited' > WATCHDOG_TIMEOUT THEN {"late"} ELSE {})
  /\ UNCHANGED <<shape, cout_tile, t_tile, cin_tile, scratchpad, output_data>>
  /\ UNCHANGED <<data_idx, errors, overrun, verdict>>

\* The whole tile, samples past the end of the output included.
StoredWhole == WholeTile

\* Step 7: only the time of an output is tested, not its channel.
Stored == {o \in WholeTile : o[2] < actual_t_samples}

\* Steps 7 and 8.
ReadTile ==
  LET index(o) == OutputIndex(o[1], o[2])
      last_t   == t_tile + 1 = num_t_tiles
  IN  /\ pc = "read_outputs"
      /\ output_data' = [i \in DOMAIN output_data |->
           IF \E o \in Stored : index(o) = i
           THEN LET o == CHOOSE o \in Stored : index(o) = i
                IN  scratchpad[OutputWord(o[1], o[2])]
           ELSE output_data[i]]
      /\ overrun' = overrun \cup ({index(o) : o \in Stored} \ DOMAIN output_data)
      /\ cin_tile' = 0
      /\ t_tile' = IF last_t THEN 0 ELSE t_tile + 1
      /\ cout_tile' = IF last_t THEN cout_tile + 1 ELSE cout_tile
      /\ pc' = IF last_t /\ cout_tile + 1 = num_cout_tiles THEN "compare" ELSE "copy_inputs"
      /\ watchdog' = 0
      /\ UNCHANGED <<shape, scratchpad, data_idx, errors, err_num, waited, fault, verdict>>

Expected(i) == Reference(i \div output_len, i % output_len, shape.input_ch)

LastOutput == data_idx + 1 >= total_outputs

\* Step 9, one output in a cycle.
Compare ==
  /\ pc = "compare"
  /\ errors' = errors + (IF output_data[data_idx] # Expected(data_idx) THEN 1 ELSE 0)
  /\ data_idx' = data_idx + 1
  /\ IF LastOutput
     THEN watchdog' = 0 /\ pc' = "end" /\ UNCHANGED err_num
     ELSE SameStep
  /\ UNCHANGED <<shape, cout_tile, t_tile, cin_tile, scratchpad, output_data>>
  /\ UNCHANGED <<waited, overrun, fault, verdict>>

\* MAX_SIM_TIME: the simulation loop ends wherever it is.
TimeLimit ==
  /\ pc # "end"
  /\ pc' = "end"
  /\ fault' = fault \cup {"time"}
  /\ UNCHANGED <<shape, cout_tile, t_tile, cin_tile, scratchpad, output_data>>
  /\ UNCHANGED <<data_idx, errors, err_num, watchdog, waited, overrun, verdict>>

\* No check is ever scheduled on the scoreboard: it is always done.
Summary ==
  /\ pc = "end" /\ verdict = None
  /\ verdict' = IF err_num > 0 THEN "FAILED" ELSE "PASSED"
  /\ UNCHANGED <<vars, data_idx, errors, err_num, watchdog, waited, overrun, fault>>

\* A cycle of the simulation loop, with what it completes.
Cycle == LoadTile \/ Run \/ Wait \/ ReadTile \/ Compare \/ Summary

TbNext == Cycle \/ Hang \/ WrongOutput \/ TimeLimit

\* The loop keeps cycling; nothing has to happen outside it.
TbSpec == TbInit /\ [][TbNext]_tbvars /\ WF_tbvars(Cycle)

-----------------------------------------------------------------------------
\* A device that computes right, in time or not, produces no mismatch: the
\* tiles gathered, partial ones in time and in channels included, are the
\* golden outputs and no store of one tile spoils another's
\* (conv1d_tb.cpp:346-360, 400-415).
NoFalseMismatch == fault \subseteq {"late"} /\ overrun = {} => errors = 0

\* A verdict reached by itself and without an error follows a comparison of
\* every golden output (conv1d_tb.cpp:419-424, 458-464).
AllCompared ==
  verdict = "PASSED" /\ "time" \notin fault => data_idx = total_outputs

\* A device whose runs each take no more cycles than the watchdog allows, their
\* sum however many, is not failed on a problem whose outputs the watchdog lets
\* the program compare, the largest such problem included: the comparison is
\* one step, and a cycle more would end it (conv1d_tb.cpp:318-325, 397-425,
\* 457-460).
NoFalseAlarm ==
  fault = {} /\ total_outputs <= WATCHDOG_TIMEOUT + 1 => verdict # "FAILED"

\* conv1d_tb.cpp:354 says of the stores "Only store valid outputs (handle
\* partial tile)".  They stay inside computed_outputs, partial tiles included,
\* when the number of filters fills the tiles; line 355 does not test the
\* channel, and with an odd number of filters they do not.
StoresInside == shape.output_ch % TILE_COUT = 0 => overrun = {}

\* What the testbench says of a device is right, as far as it looks: one that
\* works in time is not failed, none is passed without a complete comparison.
VerdictRight == NoFalseMismatch /\ AllCompared /\ NoFalseAlarm /\ StoresInside

\* The testbench ends with a verdict even when the device hangs: the loop of
\* step 6 has no other way out than DONE, and the time limit is not needed
\* (conv1d_tb.cpp:318-325, 460-464).
Ends == <>(verdict # None)

\* The verdict counts what was "Checking against golden model"
\* (conv1d_tb.cpp:395): no mismatch is followed by "CHECKS PASSED" (:497).
MismatchReported == verdict = "PASSED" => errors = 0
=============================================================================
