------------------------------- MODULE Conv1d -------------------------------
(***************************************************************************)
(* The convolution engine, conv1d.sv, one step per rising clock edge: the  *)
(* 11-state FSM, its counters and pipeline registers, the single-port      *)
(* scratchpad SRAM with one cycle of read latency, and the OBI shim that   *)
(* gives the CPU the SRAM port while the FSM is IDLE or DONE.              *)
(*                                                                         *)
(* A step has the inputs of its clock cycle as parameters: start_i and     *)
(* accumulate_i, the outputs of the control register, and ext, the request *)
(* on the OBI port.  Standalone, the environment picks them freely.        *)
(***************************************************************************)
EXTENDS Conv1dLayout

CONSTANTS
  Zero,        \* the word 0
  CpuWord,     \* the words the CPU may store
  PowerUp,     \* what the SRAM holds before anything is written to it
  ExtRequest   \* the requests the OBI manager may present, Quiet among them

VARIABLES
  state, out_idx, kernel_idx, fetch_cnt,         \* FSM and its counters
  mem_valid, capture_idx, capture_is_input,      \* what rdata is, and for whom
  in_pipe, wt_pipe, accum,                       \* the nine data registers
  mem, rdata,                                    \* the SRAM, its output register
  rvalid                                         \* OBI response valid

fsm      == <<state, out_idx, kernel_idx, fetch_cnt, accum>>
capture  == <<mem_valid, capture_idx, capture_is_input, in_pipe, wt_pipe>>
convVars == <<fsm, capture, mem, rdata, rvalid>>

State == {"IDLE", "READ_PREV_OUT", "WAIT_PREV_OUT", "FETCH_INPUTS",
          "FETCH_WEIGHTS", "WAIT_CAPTURE", "COMPUTE", "WRITE_OUTPUT",
          "NEXT_KERNEL", "NEXT_OUTPUT", "DONE"}

Quiet       == [req |-> FALSE, we |-> FALSE, addr |-> 0, wdata |-> Zero]
Read(a)     == [req |-> TRUE, we |-> FALSE, addr |-> a, wdata |-> Zero]
Write(a, d) == [req |-> TRUE, we |-> TRUE, addr |-> a, wdata |-> d]

ASSUME RequestAssumption ==
  /\ Quiet \in ExtRequest
  /\ \A r \in ExtRequest : /\ DOMAIN r = {"req", "we", "addr", "wdata"}
                           /\ r.req \in BOOLEAN /\ r.we \in BOOLEAN
                           /\ r.addr \in Address
                           /\ r.we => r.wdata \in CpuWord

ASSUME PowerUpAssumption == PowerUp = [a \in Address |-> PowerUp[a]]

-----------------------------------------------------------------------------
(* Combinational logic *)

running == state \notin {"IDLE", "DONE"}
done    == state = "DONE"

\* Mutant: the CPU is let in whenever the FSM leaves the port alone.
PortWheneverFree ==
  state \notin {"READ_PREV_OUT", "FETCH_INPUTS", "FETCH_WEIGHTS", "WRITE_OUTPUT"}

\* The CPU has the SRAM port only while the FSM is IDLE or DONE.
ext_mem_gnt == state \in {"IDLE", "DONE"}

out_ch == IF out_idx >= TILE_T THEN 1 ELSE 0

\* Mutant: the position does not start over at the second channel.
PositionNotRestarted == out_idx % 16

t_pos  == IF out_ch = 1 THEN ((out_idx % 16) - TILE_T) % 16 ELSE out_idx % 16

input_addr ==
  (INPUT_BASE + fetch_cnt * INPUT_WINDOW + t_pos + kernel_idx) % 128
weight_addr ==
  (WEIGHT_BASE + out_ch * (TILE_CIN * KERNEL_K)
               + fetch_cnt * KERNEL_K + kernel_idx) % 128
output_addr == (OUTPUT_BASE + out_idx) % 128

-----------------------------------------------------------------------------
(* What every clock edge does beside the FSM, given the FSM's own request *)

\* Mutant: the capture register is chosen without the delay of the SRAM.
CaptureUndelayed ==
  /\ capture_idx' = fetch_cnt
  /\ capture_is_input' = (state = "FETCH_INPUTS")
  /\ in_pipe' = IF mem_valid /\ state = "FETCH_INPUTS"
                THEN [in_pipe EXCEPT ![fetch_cnt] = rdata] ELSE in_pipe
  /\ wt_pipe' = IF mem_valid /\ state # "FETCH_INPUTS"
                THEN [wt_pipe EXCEPT ![fetch_cnt] = rdata] ELSE wt_pipe

Capture ==
  /\ capture_idx' = fetch_cnt
  /\ capture_is_input' = (state = "FETCH_INPUTS")
  /\ in_pipe' = IF mem_valid /\ capture_is_input
                THEN [in_pipe EXCEPT ![capture_idx] = rdata] ELSE in_pipe
  /\ wt_pipe' = IF mem_valid /\ ~capture_is_input
                THEN [wt_pipe EXCEPT ![capture_idx] = rdata] ELSE wt_pipe

\* The request multiplexer, the SRAM and the OBI shim.
Access(int, ext) ==
  LET port == IF ext_mem_gnt THEN ext ELSE int
  IN  /\ mem_valid' = (int.req /\ ~int.we)
      /\ rvalid' = (ext.req /\ ext_mem_gnt)
      /\ mem' = IF port.req /\ port.we
                THEN [mem EXCEPT ![port.addr] = port.wdata] ELSE mem
      /\ rdata' = IF port.req /\ ~port.we THEN mem[port.addr] ELSE rdata

Edge(int, ext) == Capture /\ Access(int, ext)

-----------------------------------------------------------------------------
(* The FSM, one action per state *)

Goto(s) == state' = s

\* Mutant: the previous value is not fetched for the first output.
IdleSkipsPrevious(start_i, accumulate_i, ext) ==
  /\ state = "IDLE"
  /\ Goto(IF start_i THEN "FETCH_INPUTS" ELSE "IDLE")
  /\ out_idx' = 0 /\ kernel_idx' = 0 /\ fetch_cnt' = 0
  /\ accum' = FormalSum(Zero, <<>>)
  /\ Edge(Quiet, ext)

Idle(start_i, accumulate_i, ext) ==
  /\ state = "IDLE"
  /\ Goto(IF ~start_i THEN "IDLE"
          ELSE IF accumulate_i THEN "READ_PREV_OUT" ELSE "FETCH_INPUTS")
  /\ out_idx' = 0 /\ kernel_idx' = 0 /\ fetch_cnt' = 0
  /\ accum' = FormalSum(Zero, <<>>)
  /\ Edge(Quiet, ext)

ReadPrevOut(ext) ==
  /\ state = "READ_PREV_OUT"
  /\ Goto("WAIT_PREV_OUT")
  /\ Edge(Read(output_addr), ext)
  /\ UNCHANGED <<out_idx, kernel_idx, fetch_cnt, accum>>

\* Mutant: WAIT_PREV_OUT waits for the response of the CPU's port.
WaitPrevOutOnPort(ext) ==
  /\ state = "WAIT_PREV_OUT"
  /\ IF rvalid
     THEN /\ accum' = FormalSum(rdata, <<>>)
          /\ fetch_cnt' = 0
          /\ Goto("FETCH_INPUTS")
     ELSE UNCHANGED <<accum, fetch_cnt, state>>
  /\ Edge(Quiet, ext)
  /\ UNCHANGED <<out_idx, kernel_idx>>

WaitPrevOut(ext) ==
  /\ state = "WAIT_PREV_OUT"
  /\ IF mem_valid
     THEN /\ accum' = FormalSum(rdata, <<>>)
          /\ fetch_cnt' = 0
          /\ Goto("FETCH_INPUTS")
     ELSE UNCHANGED <<accum, fetch_cnt, state>>
  /\ Edge(Quiet, ext)
  /\ UNCHANGED <<out_idx, kernel_idx>>

\* One read per cycle; after the last one the counter restarts in `after`.
Fetch(addr, after, ext) ==
  /\ IF fetch_cnt = TILE_CIN - 1
     THEN Goto(after) /\ fetch_cnt' = 0
     ELSE UNCHANGED state /\ fetch_cnt' = (fetch_cnt + 1) % 4
  /\ Edge(Read(addr), ext)
  /\ UNCHANGED <<out_idx, kernel_idx, accum>>

FetchInputs(ext) ==
  state = "FETCH_INPUTS" /\ Fetch(input_addr, "FETCH_WEIGHTS", ext)

\* Mutant: the FSM does not wait for the last weight.
FetchWeightsThenCompute(ext) ==
  state = "FETCH_WEIGHTS" /\ Fetch(weight_addr, "COMPUTE", ext)

FetchWeights(ext) ==
  state = "FETCH_WEIGHTS" /\ Fetch(weight_addr, "WAIT_CAPTURE", ext)

WaitCapture(ext) ==
  /\ state = "WAIT_CAPTURE"
  /\ Goto(IF mem_valid THEN "COMPUTE" ELSE state)
  /\ Edge(Quiet, ext)
  /\ UNCHANGED <<out_idx, kernel_idx, fetch_cnt, accum>>

Compute(ext) ==
  /\ state = "COMPUTE"
  /\ accum' = AddDot(accum, in_pipe, wt_pipe)
  /\ Goto("NEXT_KERNEL")
  /\ Edge(Quiet, ext)
  /\ UNCHANGED <<out_idx, kernel_idx, fetch_cnt>>

\* Mutant: one tap too many.
NextKernelLate(ext) ==
  /\ state = "NEXT_KERNEL"
  /\ IF kernel_idx = KERNEL_K
     THEN Goto("WRITE_OUTPUT") /\ UNCHANGED <<kernel_idx, fetch_cnt>>
     ELSE /\ kernel_idx' = (kernel_idx + 1) % 8
          /\ fetch_cnt' = 0
          /\ Goto("FETCH_INPUTS")
  /\ Edge(Quiet, ext)
  /\ UNCHANGED <<out_idx, accum>>

NextKernel(ext) ==
  /\ state = "NEXT_KERNEL"
  /\ IF kernel_idx = KERNEL_K - 1
     THEN Goto("WRITE_OUTPUT") /\ UNCHANGED <<kernel_idx, fetch_cnt>>
     ELSE /\ kernel_idx' = (kernel_idx + 1) % 8
          /\ fetch_cnt' = 0
          /\ Goto("FETCH_INPUTS")
  /\ Edge(Quiet, ext)
  /\ UNCHANGED <<out_idx, accum>>

WriteOutput(ext) ==
  /\ state = "WRITE_OUTPUT"
  /\ Goto("NEXT_OUTPUT")
  /\ Edge(Write(output_addr, accum), ext)
  /\ UNCHANGED <<out_idx, kernel_idx, fetch_cnt, accum>>

\* Mutant: the accumulator is cleared only if an old value will be loaded.
NextOutputKeepsSum(accumulate_i, ext) ==
  /\ state = "NEXT_OUTPUT"
  /\ IF out_idx = NUM_OUTPUTS - 1
     THEN Goto("DONE") /\ UNCHANGED <<out_idx, kernel_idx, fetch_cnt, accum>>
     ELSE /\ out_idx' = (out_idx + 1) % 32
          /\ kernel_idx' = 0 /\ fetch_cnt' = 0
          /\ accum' = IF accumulate_i THEN FormalSum(Zero, <<>>) ELSE accum
          /\ Goto(IF accumulate_i THEN "READ_PREV_OUT" ELSE "FETCH_INPUTS")
  /\ Edge(Quiet, ext)

NextOutput(accumulate_i, ext) ==
  /\ state = "NEXT_OUTPUT"
  /\ IF out_idx = NUM_OUTPUTS - 1
     THEN Goto("DONE") /\ UNCHANGED <<out_idx, kernel_idx, fetch_cnt, accum>>
     ELSE /\ out_idx' = (out_idx + 1) % 32
          /\ kernel_idx' = 0 /\ fetch_cnt' = 0
          /\ accum' = FormalSum(Zero, <<>>)
          /\ Goto(IF accumulate_i THEN "READ_PREV_OUT" ELSE "FETCH_INPUTS")
  /\ Edge(Quiet, ext)

Done(start_i, ext) ==
  /\ state = "DONE"
  /\ Goto(IF start_i THEN "DONE" ELSE "IDLE")
  /\ Edge(Quiet, ext)
  /\ UNCHANGED <<out_idx, kernel_idx, fetch_cnt, accum>>

Clock(start_i, accumulate_i, ext) ==
  \/ Idle(start_i, accumulate_i, ext)
  \/ ReadPrevOut(ext)
  \/ WaitPrevOut(ext)
  \/ FetchInputs(ext)
  \/ FetchWeights(ext)
  \/ WaitCapture(ext)
  \/ Compute(ext)
  \/ NextKernel(ext)
  \/ WriteOutput(ext)
  \/ NextOutput(accumulate_i, ext)
  \/ Done(start_i, ext)

-----------------------------------------------------------------------------
(* Reset and the specifications *)

\* rst_ni clears every register; the SRAM has no reset.
RegisterReset ==
  /\ state' = "IDLE" /\ out_idx' = 0 /\ kernel_idx' = 0 /\ fetch_cnt' = 0
  /\ accum' = FormalSum(Zero, <<>>)
  /\ mem_valid' = FALSE /\ capture_idx' = 0 /\ capture_is_input' = FALSE
  /\ in_pipe' = [c \in Channel |-> Zero]
  /\ wt_pipe' = [c \in Channel |-> Zero]
  /\ rvalid' = FALSE
  /\ UNCHANGED <<mem, rdata>>

ConvInit ==
  /\ state = "IDLE" /\ out_idx = 0 /\ kernel_idx = 0 /\ fetch_cnt = 0
  /\ accum = FormalSum(Zero, <<>>)
  /\ mem_valid = FALSE /\ capture_idx = 0 /\ capture_is_input = FALSE
  /\ in_pipe = [c \in Channel |-> Zero]
  /\ wt_pipe = [c \in Channel |-> Zero]
  /\ mem = PowerUp /\ rdata = Zero
  /\ rvalid = FALSE

ConvNext ==
  \/ \E start_i, accumulate_i \in BOOLEAN, ext \in ExtRequest :
       Clock(start_i, accumulate_i, ext)
  \/ RegisterReset

ConvSpec == ConvInit /\ [][ConvNext]_convVars

-----------------------------------------------------------------------------
(* Properties *)

\* The registers stay within their declared widths and ranges; mem and the
\* pipelines keep their index sets.
TypeOK ==
  /\ state \in State
  /\ out_idx \in Output /\ kernel_idx \in Kernel /\ fetch_cnt \in Channel
  /\ mem_valid \in BOOLEAN /\ capture_is_input \in BOOLEAN
  /\ capture_idx \in Channel
  /\ in_pipe = [c \in Channel |-> in_pipe[c]]
  /\ wt_pipe = [c \in Channel |-> wt_pipe[c]]
  /\ mem = [a \in Address |-> mem[a]]
  /\ rvalid \in BOOLEAN

\* The words multiplied in COMPUTE are those of the current output and tap:
\* every read was captured in the register it was issued for although the
\* SRAM answers a cycle later, when the FSM has moved on, and although the
\* word read by READ_PREV_OUT passes through a weight register.
OperandsReady ==
  state = "COMPUTE" => <<in_pipe, wt_pipe>> = Operands(mem, out_idx, kernel_idx)

\* Why OperandsReady holds, cycle by cycle: the word that the SRAM returns
\* belongs to the register named by capture_idx and capture_is_input, and
\* the registers before that one already hold the operands of this tap.
InOperand(c) == mem[InputWord(c, SampleOf(out_idx) + kernel_idx)]
WtOperand(c) == mem[WeightWord(ChannelOf(out_idx), c, kernel_idx)]
PrevOutput   == mem[OutputWord(ChannelOf(out_idx), SampleOf(out_idx))]

InputsUpTo(n)  == \A c \in Channel : c < n => in_pipe[c] = InOperand(c)
WeightsUpTo(n) == \A c \in Channel : c < n => wt_pipe[c] = WtOperand(c)

InputArrives(c) ==
  /\ mem_valid /\ capture_is_input
  /\ capture_idx = c /\ rdata = InOperand(c) /\ InputsUpTo(c)
WeightArrives(c) ==
  /\ mem_valid /\ ~capture_is_input
  /\ capture_idx = c /\ rdata = WtOperand(c) /\ WeightsUpTo(c)

PipelineInv ==
  /\ state = "WAIT_PREV_OUT" => mem_valid /\ rdata = PrevOutput
  /\ state \in {"READ_PREV_OUT", "WAIT_PREV_OUT"} => kernel_idx = 0
  /\ state \in {"READ_PREV_OUT", "WAIT_PREV_OUT", "WAIT_CAPTURE", "COMPUTE",
               "NEXT_KERNEL"} => fetch_cnt = 0
  /\ state = "FETCH_INPUTS" /\ fetch_cnt > 0 => InputArrives(fetch_cnt - 1)
  /\ state = "FETCH_WEIGHTS" =>
       IF fetch_cnt = 0 THEN InputArrives(TILE_CIN - 1)
       ELSE InputsUpTo(TILE_CIN) /\ WeightArrives(fetch_cnt - 1)
  /\ state = "WAIT_CAPTURE" => InputsUpTo(TILE_CIN) /\ WeightArrives(TILE_CIN - 1)
  /\ state = "COMPUTE" => InputsUpTo(TILE_CIN) /\ WeightsUpTo(TILE_CIN)
  /\ state = "DONE" => out_idx = NUM_OUTPUTS - 1

\* Taps of the current output that are in accum.
TapsDone ==
  CASE state \in {"FETCH_INPUTS", "FETCH_WEIGHTS", "WAIT_CAPTURE", "COMPUTE"}
         -> kernel_idx
    [] state = "NEXT_KERNEL" -> kernel_idx + 1
    [] state \in {"WRITE_OUTPUT", "NEXT_OUTPUT"} -> KERNEL_K
    [] OTHER -> 0

\* The accumulator is, at any moment of an output, the sum of its first taps
\* over 0 or over the output's previous value, with no tap missed or doubled.
AccumPartial ==
  state \in {"FETCH_INPUTS", "FETCH_WEIGHTS", "WAIT_CAPTURE", "COMPUTE",
            "NEXT_KERNEL", "WRITE_OUTPUT"} =>
    \E base \in {Zero, PrevOutput} :
      accum = PartialSum(mem, base, out_idx, TapsDone)

\* Upper bound on the clock edges that a run still needs, the longest run
\* being the one that accumulates: those of the taps after tap k with the
\* store of the output, and those of the outputs after output j.
CyclesPerTap     == 2 * TILE_CIN + 3
CyclesPerOutput  == KERNEL_K * CyclesPerTap + 4
CyclesAfterTap(k)    == (KERNEL_K - 1 - k) * CyclesPerTap + 2
CyclesAfterOutput(j) == (NUM_OUTPUTS - 1 - j) * CyclesPerOutput
CyclesOfOutput ==
  LET rest == CyclesAfterTap(kernel_idx)
  IN  CASE state = "READ_PREV_OUT" -> CyclesPerOutput
        [] state = "WAIT_PREV_OUT" -> CyclesPerOutput - 1
        [] state = "FETCH_INPUTS"  -> rest + CyclesPerTap - fetch_cnt
        [] state = "FETCH_WEIGHTS" -> rest + TILE_CIN + 3 - fetch_cnt
        [] state = "WAIT_CAPTURE"  -> rest + 3
        [] state = "COMPUTE"       -> rest + 2
        [] state = "NEXT_KERNEL"   -> rest + 1
        [] state = "WRITE_OUTPUT"  -> 2
        [] OTHER                   -> 1
CyclesLeft == IF running THEN CyclesAfterOutput(out_idx) + CyclesOfOutput ELSE 0

\* Whatever the control bits do, every edge of a run brings its end nearer:
\* no run lasts longer than NUM_OUTPUTS * CyclesPerOutput edges, and a CPU
\* access that a run stalls is granted within that time.
RunShrinks ==
  [][running => CyclesLeft' < CyclesLeft /\ CyclesLeft' >= 0]_convVars

\* The engine implements the promise of Conv1dTile: each output replaced once
\* per run, in one step, by its complete sum; no other word changed in a run.
TilePhase == IF running THEN "RUN" ELSE state
TileNext  == IF state = "IDLE" THEN 0
             ELSE IF state \in {"NEXT_OUTPUT", "DONE"} THEN out_idx + 1
             ELSE out_idx
Tile     == INSTANCE Conv1dTile WITH phase <- TilePhase, next <- TileNext
TileSpec == Tile!Spec
=============================================================================
