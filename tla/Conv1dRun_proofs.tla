-------------------------- MODULE Conv1dRun_proofs --------------------------
(***************************************************************************)
(* What a run of the engine does, and how long it takes, for every         *)
(* geometry that the counters and the address map admit.                   *)
(*                                                                         *)
(* The engine implements Conv1dTile: each clock edge either replaces one   *)
(* output by its complete sum, or starts, ends or resets a run, or is an   *)
(* access of the CPU outside a run, or changes nothing that Conv1dTile     *)
(* speaks of.  Every run ends: CyclesLeft, which bounds the edges a run    *)
(* still takes, falls at each of them.  A run that is held like            *)
(* MCConv1dFull holds it leaves the full sums after an exact number of     *)
(* clock cycles.                                                           *)
(***************************************************************************)
EXTENDS MCConv1dFull, Conv1d_proofs

-----------------------------------------------------------------------------
(* The scratchpad, by who has the port *)

\* Conv1dTile speaks of the same address map and of the same sums.
LEMMA SameLayout ==
  /\ Tile!Address = Address
  /\ Tile!NUM_OUTPUTS = NUM_OUTPUTS
  /\ \A j : Tile!OutputWord(Tile!ChannelOf(j), Tile!SampleOf(j))
             = OutputWord(ChannelOf(j), SampleOf(j))
  /\ \A m, base, j, n : Tile!PartialSum(m, base, j, n) = PartialSum(m, base, j, n)
  <1>1. Tile!Address = Address
    BY DEF Tile!Address, Address
  <1>2. Tile!NUM_OUTPUTS = NUM_OUTPUTS
    BY DEF Tile!NUM_OUTPUTS, NUM_OUTPUTS
  <1>3. \A j : Tile!OutputWord(Tile!ChannelOf(j), Tile!SampleOf(j))
             = OutputWord(ChannelOf(j), SampleOf(j))
    BY DEF Tile!OutputWord, OutputWord, Tile!ChannelOf, ChannelOf,
           Tile!SampleOf, SampleOf
  <1>4. \A m, j, k : Tile!Operands(m, j, k) = Operands(m, j, k)
    BY DEF Tile!Operands, Operands, Tile!InputWord, InputWord, Tile!WeightWord,
           WeightWord, Tile!ChannelOf, ChannelOf, Tile!SampleOf, SampleOf,
           Tile!Channel, Channel, Tile!INPUT_WINDOW, INPUT_WINDOW
  <1>5. \A m, base, j, n : Tile!PartialSum(m, base, j, n) = PartialSum(m, base, j, n)
    BY <1>4 DEF Tile!PartialSum, PartialSum, Tile!FormalSum, FormalSum
  <1>. QED
    BY <1>1, <1>2, <1>3, <1>5

\* Outside a run the request of the CPU is performed.
LEMMA CpuHasPort ==
  ASSUME TypeOK, ext_mem_gnt, NEW int, NEW ext \in ExtRequest, Edge(int, ext)
  PROVE  Tile!CpuAccess
  <1>1. CASE ext.req /\ ext.we
    <2>1. ext.addr \in Address /\ ext.wdata \in CpuWord
      BY <1>1, RequestAssumption
    <2>2. mem' = [mem EXCEPT ![ext.addr] = ext.wdata]
      BY <1>1 DEF Edge, Access
    <2>. QED  BY <2>1, <2>2, SameLayout DEF Tile!CpuAccess
  <1>2. CASE ~(ext.req /\ ext.we)
    <2>1. mem' = mem
      BY <1>2 DEF Edge, Access
    <2>. QED  BY <2>1 DEF Tile!CpuAccess
  <1>. QED
    BY <1>1, <1>2

\* In a run a read of the engine or a cycle without one is invisible.
LEMMA InvisibleStep ==
  ASSUME running, running', mem' = mem, TileNext' = TileNext
  PROVE  UNCHANGED Tile!tile
  BY DEF Tile!tile, TilePhase

-----------------------------------------------------------------------------
(* One lemma per kind of edge *)

\* IDLE: the CPU's step, or the start of a run.
LEMMA IdleIsStart ==
  ASSUME Inv, NEW start_i, NEW accumulate_i, NEW ext \in ExtRequest,
         Idle(start_i, accumulate_i, ext)
  PROVE  Tile!Next
  <1>1. Tile!CpuAccess
    BY CpuHasPort DEF Inv, Idle, ext_mem_gnt
  <1>2. TilePhase = "IDLE" /\ TileNext = 0
    BY DEF Idle, TilePhase, TileNext, running
  <1>3. state' \in {"IDLE", "READ_PREV_OUT", "FETCH_INPUTS"} /\ out_idx' = 0
    BY DEF Idle, Goto
  <1>4. CASE state' = "IDLE"
    <2>1. TilePhase' = "IDLE" /\ TileNext' = 0
      BY <1>4 DEF TilePhase, TileNext, running
    <2>. QED  BY <1>1, <1>2, <2>1 DEF Tile!Next, Tile!CpuStep
  <1>5. CASE state' # "IDLE"
    <2>1. TilePhase' = "RUN" /\ TileNext' = 0
      BY <1>3, <1>5 DEF TilePhase, TileNext, running
    <2>. QED  BY <1>1, <1>2, <2>1 DEF Tile!Next, Tile!Start
  <1>. QED
    BY <1>4, <1>5

\* The states of a run that do not write and do not end an output.
LEMMA RunIsInvisible ==
  ASSUME Inv, NEW ext,
         \/ ReadPrevOut(ext) \/ WaitPrevOut(ext) \/ FetchInputs(ext)
         \/ FetchWeights(ext) \/ WaitCapture(ext) \/ Compute(ext) \/ NextKernel(ext)
  PROVE  UNCHANGED Tile!tile
  <1>1. /\ running /\ running' /\ out_idx' = out_idx
        /\ state \notin {"IDLE", "NEXT_OUTPUT", "DONE"}
        /\ state' \notin {"IDLE", "NEXT_OUTPUT", "DONE"}
    BY DEF ReadPrevOut, WaitPrevOut, FetchInputs, FetchWeights, Fetch,
           WaitCapture, Compute, NextKernel, Goto, running
  <1>2. mem' = mem
    BY <1>1, QuietEdge, ReadEdge
       DEF ReadPrevOut, WaitPrevOut, FetchInputs, FetchWeights, Fetch,
           WaitCapture, Compute, NextKernel
  <1>3. TileNext' = TileNext
    BY <1>1 DEF TileNext
  <1>. QED
    BY <1>1, <1>2, <1>3, InvisibleStep

\* WRITE_OUTPUT: the output becomes its complete sum.
LEMMA WriteIsCommit ==
  ASSUME Inv, NEW ext, WriteOutput(ext)
  PROVE  Tile!Next
  <1> DEFINE out == OutputWord(ChannelOf(out_idx), SampleOf(out_idx))
  <1>1. /\ TilePhase = "RUN" /\ TilePhase' = "RUN"
        /\ TileNext = out_idx /\ TileNext' = out_idx + 1
    BY DEF WriteOutput, Goto, TilePhase, TileNext, running
  <1>2. out_idx < NUM_OUTPUTS
    BY GeometryFacts DEF Inv, TypeOK, Output
  <1>3. mem' = [mem EXCEPT ![out] = accum]
    <2>1. output_addr = out
      BY EngineAddresses DEF Inv, TypeOK
    <2>2. mem' = [mem EXCEPT ![output_addr] = accum]
      BY DEF WriteOutput, Write, Edge, Access, ext_mem_gnt
    <2>. QED  BY <2>1, <2>2
  <1>4. \E base \in {Zero, mem[out]} : accum = PartialSum(mem, base, out_idx, KERNEL_K)
    BY DEF Inv, AccumPartial, TapsDone, WriteOutput, PrevOutput
  <1>5. CASE accum = PartialSum(mem, Zero, out_idx, KERNEL_K)
    <2>1. Tile!Commit(FALSE)
      BY <1>1, <1>2, <1>3, <1>5, SameLayout DEF Tile!Commit
    <2>. QED  BY <2>1 DEF Tile!Next
  <1>6. CASE accum = PartialSum(mem, mem[out], out_idx, KERNEL_K)
    <2>1. Tile!Commit(TRUE)
      BY <1>1, <1>2, <1>3, <1>6, SameLayout DEF Tile!Commit
    <2>. QED  BY <2>1 DEF Tile!Next
  <1>. QED
    BY <1>4, <1>5, <1>6

\* NEXT_OUTPUT: the end of the run, or nothing visible.
LEMMA NextOutputIsFinish ==
  ASSUME Inv, NEW accumulate_i, NEW ext, NextOutput(accumulate_i, ext)
  PROVE  [Tile!Next]_(Tile!tile)
  <1>1. running /\ TilePhase = "RUN" /\ TileNext = out_idx + 1
    BY DEF NextOutput, TilePhase, TileNext, running
  <1>2. mem' = mem
    BY <1>1, QuietEdge DEF NextOutput
  <1>3. CASE out_idx = NUM_OUTPUTS - 1
    <2>1. state' = "DONE" /\ out_idx' = out_idx
      BY <1>3 DEF NextOutput, Goto
    <2>2. TilePhase' = "DONE" /\ TileNext' = TileNext
      BY <1>1, <2>1 DEF TilePhase, TileNext, running
    <2>3. TileNext = NUM_OUTPUTS
      BY <1>1, <1>3, GeometryFacts
    <2>. QED  BY <1>1, <1>2, <2>2, <2>3, SameLayout DEF Tile!Next, Tile!Finish
  <1>4. CASE out_idx # NUM_OUTPUTS - 1
    <2>1. state' \in {"READ_PREV_OUT", "FETCH_INPUTS"} /\ out_idx' = out_idx + 1
      BY <1>4, CounterRanges DEF NextOutput, Goto, Inv, TypeOK
    <2>2. running' /\ TileNext' = TileNext
      BY <1>1, <2>1 DEF TileNext, running
    <2>. QED  BY <1>1, <1>2, <2>2, InvisibleStep
  <1>. QED
    BY <1>3, <1>4

\* DONE: the CPU's step, or the release of the engine.
LEMMA DoneIsRelease ==
  ASSUME Inv, NEW start_i, NEW ext \in ExtRequest, Done(start_i, ext)
  PROVE  Tile!Next
  <1>1. Tile!CpuAccess
    BY CpuHasPort DEF Inv, Done, ext_mem_gnt
  <1>2. TilePhase = "DONE" /\ TileNext = out_idx + 1 /\ out_idx' = out_idx
    BY DEF Done, TilePhase, TileNext, running
  <1>3. CASE state' = "IDLE"
    <2>1. TilePhase' = "IDLE" /\ TileNext' = 0
      BY <1>3 DEF TilePhase, TileNext, running
    <2>. QED  BY <1>1, <1>2, <2>1 DEF Tile!Next, Tile!Release
  <1>4. CASE state' = "DONE"
    <2>1. TilePhase' = "DONE" /\ TileNext' = TileNext
      BY <1>2, <1>4 DEF TilePhase, TileNext, running
    <2>. QED  BY <1>1, <1>2, <2>1 DEF Tile!Next, Tile!CpuStep
  <1>. QED
    BY <1>3, <1>4 DEF Done, Goto

-----------------------------------------------------------------------------
\* The initial states and every step of the engine are those of Conv1dTile.
THEOREM EngineImplementsTile == ConvSpec => TileSpec
  <1>1. ConvInit => Tile!Init
    BY DEF ConvInit, Tile!Init, TilePhase, TileNext, running
  <1>2. Inv /\ [ConvNext]_convVars => [Tile!Next]_(Tile!tile)
    <2> SUFFICES ASSUME Inv, [ConvNext]_convVars PROVE [Tile!Next]_(Tile!tile)
      OBVIOUS
    <2>1. ASSUME NEW start_i \in BOOLEAN, NEW accumulate_i \in BOOLEAN,
                 NEW ext \in ExtRequest, Clock(start_i, accumulate_i, ext)
          PROVE  [Tile!Next]_(Tile!tile)
      BY <2>1, IdleIsStart, RunIsInvisible, WriteIsCommit, NextOutputIsFinish,
         DoneIsRelease DEF Clock
    <2>2. CASE RegisterReset
      <3>1. TilePhase' = "IDLE" /\ TileNext' = 0 /\ mem' = mem
        BY <2>2 DEF RegisterReset, TilePhase, TileNext, running
      <3>. QED  BY <3>1 DEF Tile!Next, Tile!Reset
    <2>3. CASE UNCHANGED convVars
      BY <2>3 DEF convVars, fsm, Tile!tile, TilePhase, TileNext, running
    <2>. QED
      BY <2>1, <2>2, <2>3 DEF ConvNext
  <1>. QED
    BY <1>1, <1>2, EngineInvariant, PTL DEF ConvSpec, TileSpec, Tile!Spec

-----------------------------------------------------------------------------
(* Arithmetic of the bound *)

\* The cycles after a tap are those of the next one and what follows it.
LEMMA TapCycles ==
  /\ CyclesPerTap \in Nat /\ CyclesPerTap = 2 * TILE_CIN + 3
  /\ \A k \in Kernel : CyclesAfterTap(k) \in Nat /\ CyclesAfterTap(k) >= 2
  /\ \A k \in Kernel : k # KERNEL_K - 1 =>
       CyclesAfterTap(k) = CyclesAfterTap(k + 1) + CyclesPerTap
  /\ CyclesAfterTap(KERNEL_K - 1) = 2
  /\ CyclesPerOutput = CyclesAfterTap(0) + CyclesPerTap + 2
  <1>1. CyclesPerTap \in Nat /\ CyclesPerTap = 2 * TILE_CIN + 3
    BY GeometryFacts DEF CyclesPerTap
  <1>2. ASSUME NEW k \in Kernel
        PROVE  CyclesAfterTap(k) \in Nat /\ CyclesAfterTap(k) >= 2
    <2>1. KERNEL_K - 1 - k \in Nat
      BY GeometryFacts DEF Kernel
    <2>2. (KERNEL_K - 1 - k) * CyclesPerTap \in Nat
      BY <1>1, <2>1, SMT
    <2>. QED  BY <2>2 DEF CyclesAfterTap
  <1>3. ASSUME NEW k \in Kernel, k # KERNEL_K - 1
        PROVE  CyclesAfterTap(k) = CyclesAfterTap(k + 1) + CyclesPerTap
    BY <1>1, <1>3, GeometryFacts, SMT DEF Kernel, CyclesAfterTap
  <1>4. CyclesAfterTap(KERNEL_K - 1) = 2
    BY <1>1, GeometryFacts, SMT DEF CyclesAfterTap
  <1>5. CyclesPerOutput = CyclesAfterTap(0) + CyclesPerTap + 2
    BY <1>1, GeometryFacts, SMT DEF CyclesPerOutput, CyclesAfterTap
  <1>. QED
    BY <1>1, <1>2, <1>3, <1>4, <1>5

\* The cycles after an output are those of the next one and what follows it.
LEMMA OutputCycles ==
  /\ CyclesPerOutput \in Nat
  /\ \A j \in Output : CyclesAfterOutput(j) \in Nat
  /\ \A j \in Output : j # NUM_OUTPUTS - 1 =>
       CyclesAfterOutput(j) = CyclesAfterOutput(j + 1) + CyclesPerOutput
  /\ CyclesAfterOutput(NUM_OUTPUTS - 1) = 0
  <1>1. CyclesPerOutput \in Nat
    BY TapCycles, CounterRanges
  <1>2. ASSUME NEW j \in Output
        PROVE  CyclesAfterOutput(j) \in Nat
    <2>1. NUM_OUTPUTS - 1 - j \in Nat
      BY GeometryFacts DEF Output
    <2>. QED  BY <1>1, <2>1, SMT DEF CyclesAfterOutput
  <1>3. ASSUME NEW j \in Output, j # NUM_OUTPUTS - 1
        PROVE  CyclesAfterOutput(j) = CyclesAfterOutput(j + 1) + CyclesPerOutput
    BY <1>1, <1>3, GeometryFacts, SMT DEF Output, CyclesAfterOutput
  <1>4. CyclesAfterOutput(NUM_OUTPUTS - 1) = 0
    BY <1>1, GeometryFacts, SMT DEF CyclesAfterOutput
  <1>. QED
    BY <1>1, <1>2, <1>3, <1>4

\* The state of the counters and of the next step in which the bound is used.
LEMMA CounterFacts ==
  ASSUME TypeOK
  PROVE  /\ CyclesAfterTap(kernel_idx) \in Nat /\ CyclesAfterTap(kernel_idx) >= 2
         /\ CyclesAfterOutput(out_idx) \in Nat
         /\ fetch_cnt \in Nat /\ fetch_cnt <= TILE_CIN - 1
  BY TapCycles, OutputCycles, GeometryFacts DEF TypeOK, Channel

\* An edge at which the run stays at its output uses up one cycle of the output.
LEMMA SameOutput ==
  ASSUME TypeOK, running, running', out_idx' = out_idx,
         CyclesOfOutput \in Int, CyclesOfOutput' \in Nat,
         CyclesOfOutput' = CyclesOfOutput - 1
  PROVE  CyclesLeft' = CyclesLeft - 1 /\ CyclesLeft' \in Nat
  <1>1. /\ CyclesLeft = CyclesAfterOutput(out_idx) + CyclesOfOutput
        /\ CyclesLeft' = CyclesAfterOutput(out_idx) + CyclesOfOutput'
    BY DEF CyclesLeft, CyclesAfterOutput
  <1>2. CyclesAfterOutput(out_idx) \in Nat
    BY CounterFacts
  <1>. QED
    BY <1>1, <1>2

-----------------------------------------------------------------------------
(* The edges of a run *)

\* The edges within an output: each state is left, or its counter advances.
LEMMA WithinOutput ==
  ASSUME Inv, NEW ext,
         \/ ReadPrevOut(ext) \/ WaitPrevOut(ext) \/ FetchInputs(ext)
         \/ FetchWeights(ext) \/ WaitCapture(ext) \/ Compute(ext)
         \/ NextKernel(ext) \/ WriteOutput(ext)
  PROVE  CyclesLeft' = CyclesLeft - 1 /\ CyclesLeft' \in Nat
  <1> DEFINE rest == CyclesAfterTap(kernel_idx)
  <1>1. TypeOK
    BY DEF Inv
  <1>2. /\ rest \in Nat /\ rest >= 2 /\ fetch_cnt \in Nat
        /\ fetch_cnt <= TILE_CIN - 1 /\ TILE_CIN \in Nat
        /\ CyclesPerTap = 2 * TILE_CIN + 3
        /\ CyclesPerOutput = CyclesAfterTap(0) + CyclesPerTap + 2
        /\ CyclesAfterTap(0) \in Nat
    BY <1>1, CounterFacts, TapCycles, GeometryFacts, CounterRanges
  <1>3. SUFFICES /\ running /\ running' /\ out_idx' = out_idx
                 /\ CyclesOfOutput \in Int /\ CyclesOfOutput' \in Nat
                 /\ CyclesOfOutput' = CyclesOfOutput - 1
    BY <1>1, SameOutput
  <1>4. CASE ReadPrevOut(ext)
    <2>1. state = "READ_PREV_OUT" /\ state' = "WAIT_PREV_OUT" /\ out_idx' = out_idx
      BY <1>4 DEF ReadPrevOut, Goto
    <2>2. CyclesOfOutput = CyclesPerOutput /\ CyclesOfOutput' = CyclesPerOutput - 1
      BY <2>1 DEF CyclesOfOutput
    <2>. QED  BY <1>2, <2>1, <2>2 DEF running
  <1>5. CASE WaitPrevOut(ext)
    <2>1. /\ state = "WAIT_PREV_OUT" /\ state' = "FETCH_INPUTS" /\ out_idx' = out_idx
          /\ fetch_cnt' = 0 /\ kernel_idx' = 0
      BY <1>5 DEF WaitPrevOut, Goto, Inv, PipelineInv
    <2>2. /\ CyclesOfOutput = CyclesPerOutput - 1
          /\ CyclesOfOutput' = CyclesAfterTap(0) + CyclesPerTap - 0
      BY <2>1 DEF CyclesOfOutput, CyclesAfterTap
    <2>. QED  BY <1>2, <2>1, <2>2 DEF running
  <1>6. CASE FetchInputs(ext)
    <2>1. /\ state = "FETCH_INPUTS" /\ out_idx' = out_idx /\ kernel_idx' = kernel_idx
          /\ CyclesOfOutput = rest + CyclesPerTap - fetch_cnt
      BY <1>6 DEF FetchInputs, Fetch, CyclesOfOutput
    <2>2. CASE fetch_cnt = TILE_CIN - 1
      <3>1. state' = "FETCH_WEIGHTS" /\ fetch_cnt' = 0
        BY <1>6, <2>2 DEF FetchInputs, Fetch, Goto
      <3>2. CyclesOfOutput' = rest + TILE_CIN + 3 - 0
        BY <2>1, <3>1 DEF CyclesOfOutput, CyclesAfterTap
      <3>. QED  BY <1>2, <2>1, <2>2, <3>1, <3>2 DEF running
    <2>3. CASE fetch_cnt # TILE_CIN - 1
      <3>1. state' = "FETCH_INPUTS" /\ fetch_cnt' = fetch_cnt + 1
        BY <1>1, <1>6, <2>3, CounterRanges DEF FetchInputs, Fetch, TypeOK
      <3>2. CyclesOfOutput' = rest + CyclesPerTap - (fetch_cnt + 1)
        BY <2>1, <3>1 DEF CyclesOfOutput, CyclesAfterTap
      <3>. QED  BY <1>2, <2>1, <2>3, <3>1, <3>2 DEF running
    <2>. QED  BY <2>2, <2>3
  <1>7. CASE FetchWeights(ext)
    <2>1. /\ state = "FETCH_WEIGHTS" /\ out_idx' = out_idx /\ kernel_idx' = kernel_idx
          /\ CyclesOfOutput = rest + TILE_CIN + 3 - fetch_cnt
      BY <1>7 DEF FetchWeights, Fetch, CyclesOfOutput
    <2>2. CASE fetch_cnt = TILE_CIN - 1
      <3>1. state' = "WAIT_CAPTURE"
        BY <1>7, <2>2 DEF FetchWeights, Fetch, Goto
      <3>2. CyclesOfOutput' = rest + 3
        BY <2>1, <3>1 DEF CyclesOfOutput, CyclesAfterTap
      <3>. QED  BY <1>2, <2>1, <2>2, <3>1, <3>2 DEF running
    <2>3. CASE fetch_cnt # TILE_CIN - 1
      <3>1. state' = "FETCH_WEIGHTS" /\ fetch_cnt' = fetch_cnt + 1
        BY <1>1, <1>7, <2>3, CounterRanges DEF FetchWeights, Fetch, TypeOK
      <3>2. CyclesOfOutput' = rest + TILE_CIN + 3 - (fetch_cnt + 1)
        BY <2>1, <3>1 DEF CyclesOfOutput, CyclesAfterTap
      <3>. QED  BY <1>2, <2>1, <2>3, <3>1, <3>2 DEF running
    <2>. QED  BY <2>2, <2>3
  <1>8. CASE WaitCapture(ext)
    <2>1. /\ state = "WAIT_CAPTURE" /\ state' = "COMPUTE"
          /\ out_idx' = out_idx /\ kernel_idx' = kernel_idx
      BY <1>8 DEF WaitCapture, Goto, Inv, PipelineInv, WeightArrives
    <2>2. CyclesOfOutput = rest + 3 /\ CyclesOfOutput' = rest + 2
      BY <2>1 DEF CyclesOfOutput, CyclesAfterTap
    <2>. QED  BY <1>2, <2>1, <2>2 DEF running
  <1>9. CASE Compute(ext)
    <2>1. /\ state = "COMPUTE" /\ state' = "NEXT_KERNEL"
          /\ out_idx' = out_idx /\ kernel_idx' = kernel_idx
      BY <1>9 DEF Compute, Goto
    <2>2. CyclesOfOutput = rest + 2 /\ CyclesOfOutput' = rest + 1
      BY <2>1 DEF CyclesOfOutput, CyclesAfterTap
    <2>. QED  BY <1>2, <2>1, <2>2 DEF running
  <1>10. CASE NextKernel(ext)
    <2>1. /\ state = "NEXT_KERNEL" /\ out_idx' = out_idx
          /\ CyclesOfOutput = rest + 1
      BY <1>10 DEF NextKernel, CyclesOfOutput
    <2>2. CASE kernel_idx = KERNEL_K - 1
      <3>1. state' = "WRITE_OUTPUT"
        BY <1>10, <2>2 DEF NextKernel, Goto
      <3>2. CyclesOfOutput' = 2
        BY <3>1 DEF CyclesOfOutput
      <3>3. rest = 2
        BY <2>2, TapCycles
      <3>. QED  BY <2>1, <3>1, <3>2, <3>3 DEF running
    <2>3. CASE kernel_idx # KERNEL_K - 1
      <3>1. /\ state' = "FETCH_INPUTS" /\ fetch_cnt' = 0
            /\ kernel_idx' = kernel_idx + 1 /\ kernel_idx + 1 \in Kernel
        BY <1>1, <1>10, <2>3, CounterRanges DEF NextKernel, Goto, TypeOK
      <3>2. CyclesOfOutput' = CyclesAfterTap(kernel_idx + 1) + CyclesPerTap - 0
        BY <3>1 DEF CyclesOfOutput, CyclesAfterTap
      <3>3. /\ rest = CyclesAfterTap(kernel_idx + 1) + CyclesPerTap
            /\ CyclesAfterTap(kernel_idx + 1) \in Nat
        BY <1>1, <2>3, <3>1, TapCycles DEF TypeOK
      <3>. QED  BY <1>2, <2>1, <3>1, <3>2, <3>3 DEF running
    <2>. QED  BY <2>2, <2>3
  <1>11. CASE WriteOutput(ext)
    <2>1. state = "WRITE_OUTPUT" /\ state' = "NEXT_OUTPUT" /\ out_idx' = out_idx
      BY <1>11 DEF WriteOutput, Goto
    <2>2. CyclesOfOutput = 2 /\ CyclesOfOutput' = 1
      BY <2>1 DEF CyclesOfOutput
    <2>. QED  BY <2>1, <2>2 DEF running
  <1>. QED
    BY <1>4, <1>5, <1>6, <1>7, <1>8, <1>9, <1>10, <1>11

\* NEXT_OUTPUT: one output less, or the end.  An output that is not loaded with
\* its previous value skips the two cycles that would load it.
LEMMA BetweenOutputs ==
  ASSUME Inv, NEW accumulate_i \in BOOLEAN, NEW ext, NextOutput(accumulate_i, ext)
  PROVE  /\ CyclesLeft' \in Nat
         /\ CyclesLeft' =
              CyclesLeft - (IF out_idx # NUM_OUTPUTS - 1 /\ ~accumulate_i THEN 3 ELSE 1)
  <1>1. CyclesLeft = CyclesAfterOutput(out_idx) + 1
    BY DEF CyclesLeft, CyclesOfOutput, NextOutput, running
  <1>2. CyclesAfterOutput(out_idx) \in Nat /\ out_idx \in Output
    BY CounterFacts DEF Inv, TypeOK
  <1>3. CASE out_idx = NUM_OUTPUTS - 1
    <2>1. CyclesLeft' = 0
      BY <1>3 DEF NextOutput, Goto, CyclesLeft, running
    <2>2. CyclesAfterOutput(out_idx) = 0
      BY <1>3, OutputCycles
    <2>. QED  BY <1>1, <1>3, <2>1, <2>2
  <1>4. CASE out_idx # NUM_OUTPUTS - 1
    <2>1. /\ state' = IF accumulate_i THEN "READ_PREV_OUT" ELSE "FETCH_INPUTS"
          /\ kernel_idx' = 0 /\ fetch_cnt' = 0
          /\ out_idx' = out_idx + 1 /\ out_idx + 1 \in Output
      BY <1>2, <1>4, CounterRanges DEF NextOutput, Goto
    <2>2. CyclesOfOutput' =
            IF accumulate_i THEN CyclesPerOutput ELSE CyclesAfterTap(0) + CyclesPerTap - 0
      BY <2>1 DEF CyclesOfOutput, CyclesAfterTap
    <2>3. CyclesLeft' = CyclesAfterOutput(out_idx + 1) + CyclesOfOutput'
      BY <2>1 DEF CyclesLeft, CyclesAfterOutput, running
    <2>4. /\ CyclesAfterOutput(out_idx) = CyclesAfterOutput(out_idx + 1) + CyclesPerOutput
          /\ CyclesAfterOutput(out_idx + 1) \in Nat
      BY <1>2, <1>4, <2>1, OutputCycles
    <2>5. /\ CyclesPerOutput \in Nat /\ CyclesPerTap \in Nat
          /\ CyclesAfterTap(0) \in Nat
          /\ CyclesPerOutput = CyclesAfterTap(0) + CyclesPerTap + 2
      BY TapCycles, OutputCycles, CounterRanges
    <2>. QED  BY <1>1, <1>4, <2>2, <2>3, <2>4, <2>5
  <1>. QED
    BY <1>3, <1>4

\* A run that is reset has had cycles left.
LEMMA SomeCyclesLeft ==
  ASSUME Inv, running
  PROVE  CyclesLeft \in Nat /\ CyclesLeft > 0
  <1> DEFINE rest == CyclesAfterTap(kernel_idx)
  <1>1. CyclesLeft = CyclesAfterOutput(out_idx) + CyclesOfOutput
    BY DEF CyclesLeft
  <1>2. /\ rest \in Nat /\ CyclesAfterOutput(out_idx) \in Nat
        /\ fetch_cnt \in Nat /\ fetch_cnt <= TILE_CIN - 1 /\ TILE_CIN \in Nat
        /\ CyclesPerTap = 2 * TILE_CIN + 3
        /\ CyclesPerOutput = CyclesAfterTap(0) + CyclesPerTap + 2
        /\ CyclesAfterTap(0) \in Nat
    BY CounterFacts, TapCycles, GeometryFacts, CounterRanges DEF Inv
  <1>3. CyclesOfOutput \in {CyclesPerOutput, CyclesPerOutput - 1,
          rest + CyclesPerTap - fetch_cnt, rest + TILE_CIN + 3 - fetch_cnt,
          rest + 3, rest + 2, rest + 1, 2, 1}
    BY DEF CyclesOfOutput
  <1> HIDE DEF rest
  <1>. QED
    BY <1>1, <1>2, <1>3

-----------------------------------------------------------------------------
\* No run outlasts its bound, whatever happens to the control bits meanwhile,
\* so an access of the CPU is stalled for a bounded number of cycles.
THEOREM RunsEnd == ConvSpec => RunShrinks
  <1>1. Inv /\ [ConvNext]_convVars
          => [running => CyclesLeft' < CyclesLeft /\ CyclesLeft' >= 0]_convVars
    <2> SUFFICES ASSUME Inv, ConvNext, running
                 PROVE  CyclesLeft' < CyclesLeft /\ CyclesLeft' >= 0
      OBVIOUS
    <2>1. ASSUME NEW start_i \in BOOLEAN, NEW accumulate_i \in BOOLEAN,
                 NEW ext \in ExtRequest, Clock(start_i, accumulate_i, ext)
          PROVE  CyclesLeft' < CyclesLeft /\ CyclesLeft' >= 0
      <3>1. ~Idle(start_i, accumulate_i, ext) /\ ~Done(start_i, ext)
        BY DEF running, Idle, Done
      <3>2. CyclesLeft \in Nat
        BY SomeCyclesLeft
      <3>3. CASE NextOutput(accumulate_i, ext)
        BY <3>2, <3>3, BetweenOutputs
      <3>4. CASE ~NextOutput(accumulate_i, ext)
        <4>1. CyclesLeft' = CyclesLeft - 1 /\ CyclesLeft' \in Nat
          BY <2>1, <3>1, <3>4, WithinOutput DEF Clock
        <4>. QED  BY <3>2, <4>1
      <3>. QED  BY <3>3, <3>4
    <2>2. CASE RegisterReset
      <3>1. CyclesLeft' = 0
        BY <2>2 DEF RegisterReset, CyclesLeft, running
      <3>. QED  BY <3>1, SomeCyclesLeft
    <2>. QED
      BY <2>1, <2>2 DEF ConvNext
  <1>. QED
    BY <1>1, EngineInvariant, PTL DEF ConvSpec, RunShrinks

-----------------------------------------------------------------------------
(* The run between its start and its end *)

\* The value under the sum of output j.
Base(j) == IF accumulate THEN before[OUTPUT_BASE + j] ELSE Zero

\* The scratchpad with the first n outputs replaced by their sums.
Replaced(n) ==
  [a \in Address |->
    IF a \in OUTPUT_BASE..OUTPUT_BASE + n - 1
    THEN PartialSum(before, Base(a - OUTPUT_BASE), a - OUTPUT_BASE, KERNEL_K)
    ELSE before[a]]

\* Clock cycles that an output saves when its previous value is not loaded.
Saved == IF accumulate THEN 0 ELSE 2

ControlBits == start \in BOOLEAN /\ accumulate \in BOOLEAN

ControlInv ==
  /\ ~start => ~running
  /\ state \in {"READ_PREV_OUT", "WAIT_PREV_OUT"} => accumulate

\* The run has replaced the outputs before the current one, and nothing else.
MemInv ==
  /\ before = [a \in Address |-> before[a]]
  /\ state = "IDLE" /\ start => mem = before
  /\ state # "IDLE" => mem = Replaced(TileNext)

\* AccumPartial, with the base that the mode of the run determines, and over
\* the words that the run found.
SumInv ==
  state \in {"FETCH_INPUTS", "FETCH_WEIGHTS", "WAIT_CAPTURE", "COMPUTE",
            "NEXT_KERNEL", "WRITE_OUTPUT"} =>
    accum = PartialSum(before, Base(out_idx), out_idx, TapsDone)

\* The cycles spent and the bound on those to come add up to the bound on the
\* whole run, less what the outputs begun so far have saved.
Balanced ==
  cycles + CyclesLeft = (1 + NUM_OUTPUTS * CyclesPerOutput) - Saved * (out_idx + 1)

CycleInv ==
  /\ cycles \in Nat
  /\ state = "IDLE" /\ start => cycles = 0
  /\ running \/ (done /\ start) => Balanced

\* The inductive invariant of a run.
RunInv == ControlBits /\ ControlInv /\ MemInv /\ SumInv /\ CycleInv

-----------------------------------------------------------------------------
(* The run as a behaviour of the engine *)

\* START and ACCUMULATE are bits.
LEMMA BitsStay ==
  ASSUME ControlBits, [MCNext]_<<convVars, aux>>
  PROVE  ControlBits'
  BY Zenon DEF ControlBits, MCNext, MCRun, MCRestart, MCRelease, aux

\* A run held like the testbench holds it is a behaviour of the engine with a
\* quiet port.
LEMMA RunIsEngine == MCSpec => ConvSpec /\ []ControlBits
  <1>1. MCInit => ConvInit /\ ControlBits
    BY Zenon DEF MCInit, ControlBits
  <1>2. ControlBits /\ [MCNext]_<<convVars, aux>> => [ConvNext]_convVars
    <2> SUFFICES ASSUME ControlBits, [MCNext]_<<convVars, aux>>
                 PROVE  [ConvNext]_convVars
      OBVIOUS
    <2>1. CASE Clock(start, accumulate, Quiet)
      BY <2>1, RequestAssumption, Zenon DEF ConvNext, ControlBits
    <2>2. CASE UNCHANGED convVars
      BY <2>2
    <2>. QED
      BY <2>1, <2>2 DEF MCNext, MCRun, MCRestart, MCRelease
  <1>. QED
    BY <1>1, <1>2, BitsStay, PTL DEF MCSpec, ConvSpec

\* Base and Replaced speak of the mode and of what the run found only.
LEMMA RunFixed ==
  ASSUME accumulate' = accumulate, before' = before
  PROVE  /\ \A j : Base(j)' = Base(j)
         /\ \A n : Replaced(n)' = Replaced(n)
         /\ Saved' = Saved
  <1>1. \A j : Base(j)' = Base(j)
    BY DEF Base
  <1>2. \A n : Replaced(n)' = Replaced(n)
    BY DEF Replaced, Base
  <1>. QED  BY <1>1, <1>2 DEF Saved

-----------------------------------------------------------------------------
(* What the scratchpad holds during a run *)

\* Nothing is replaced before the first output.
LEMMA NothingReplaced ==
  ASSUME MemInv
  PROVE  Replaced(0) = before
  <1>1. ~ \E a \in Address : a \in OUTPUT_BASE..OUTPUT_BASE + 0 - 1
    BY LayoutAssumption
  <1>2. Replaced(0) = [a \in Address |-> before[a]]
    BY <1>1 DEF Replaced
  <1>. QED  BY <1>2 DEF MemInv

\* The operands of every tap lie below the outputs.
LEMMA OperandsBelow ==
  ASSUME NEW j \in Output, NEW c \in Channel, NEW k \in Kernel
  PROVE  /\ InputWord(c, SampleOf(j) + k) \in Address
         /\ InputWord(c, SampleOf(j) + k) < OUTPUT_BASE
         /\ WeightWord(ChannelOf(j), c, k) \in Address
         /\ WeightWord(ChannelOf(j), c, k) < OUTPUT_BASE
  <1> DEFINE x == InputWord(c, SampleOf(j) + k)
             w == WeightWord(ChannelOf(j), c, k)
  <1>1. /\ SampleOf(j) + k \in 0..INPUT_WINDOW-1
        /\ ChannelOf(j) \in 0..TILE_COUT-1
    BY GeometryFacts, SMT DEF Output, Kernel, SampleOf, ChannelOf
  <1>2. x \in Address /\ x < WEIGHT_BASE
    BY <1>1, InputWordInMap
  <1>3. w \in Address /\ WEIGHT_BASE <= w /\ w < OUTPUT_BASE
    BY <1>1, WeightWordInMap
  <1> HIDE DEF x, w
  <1>4. x < OUTPUT_BASE
    BY <1>2, <1>3, LayoutAssumption DEF Address
  <1>. QED  BY <1>2, <1>3, <1>4 DEF x, w

\* The outputs from the n-th on, and the operands of every output, are still
\* those that the run found.
LEMMA FoundWords ==
  ASSUME NEW n \in 0..NUM_OUTPUTS, NEW j \in Output
  PROVE  /\ n <= j => Replaced(n)[OUTPUT_BASE + j] = before[OUTPUT_BASE + j]
         /\ \A k \in Kernel : Operands(Replaced(n), j, k) = Operands(before, j, k)
  <1>1. ASSUME NEW a \in Address, a < OUTPUT_BASE
        PROVE  Replaced(n)[a] = before[a]
    BY <1>1, GeometryFacts, LayoutAssumption DEF Replaced, Address
  <1>2. ASSUME n <= j
        PROVE  Replaced(n)[OUTPUT_BASE + j] = before[OUTPUT_BASE + j]
    <2>1. OUTPUT_BASE + j \in Address /\ OUTPUT_BASE + j \notin OUTPUT_BASE..OUTPUT_BASE + n - 1
      BY <1>2, GeometryFacts, LayoutAssumption DEF Output, Address
    <2>. QED  BY <2>1 DEF Replaced
  <1>3. ASSUME NEW k \in Kernel
        PROVE  Operands(Replaced(n), j, k) = Operands(before, j, k)
    BY <1>1, OperandsBelow DEF Operands
  <1>. QED  BY <1>2, <1>3

\* Storing the sum of output n replaces one output more.
LEMMA OneMoreReplaced ==
  ASSUME NEW n \in Output
  PROVE  Replaced(n + 1)
           = [Replaced(n) EXCEPT ![OUTPUT_BASE + n] =
                PartialSum(before, Base(n), n, KERNEL_K)]
  <1>1. OUTPUT_BASE + n \in Address /\ (OUTPUT_BASE + n) - OUTPUT_BASE = n
    BY OutputWordInMap, LayoutAssumption DEF Output
  <1>2. ASSUME NEW a \in Address, a # OUTPUT_BASE + n
        PROVE  a \in OUTPUT_BASE..OUTPUT_BASE + (n + 1) - 1
                 <=> a \in OUTPUT_BASE..OUTPUT_BASE + n - 1
    BY <1>2, LayoutAssumption DEF Output, Address
  <1>3. OUTPUT_BASE + n \in OUTPUT_BASE..OUTPUT_BASE + (n + 1) - 1
    BY LayoutAssumption DEF Output
  <1>. QED  BY <1>1, <1>2, <1>3 DEF Replaced

\* At an output, the scratchpad holds the output's old value, and the operands
\* of its taps, as the run found them.
LEMMA CurrentWords ==
  ASSUME Inv, MemInv, state \notin {"IDLE", "NEXT_OUTPUT", "DONE"}
  PROVE  /\ mem = Replaced(out_idx)
         /\ PrevOutput = before[OUTPUT_BASE + out_idx]
         /\ Operands(mem, out_idx, kernel_idx) = Operands(before, out_idx, kernel_idx)
  <1>1. out_idx \in Output /\ kernel_idx \in Kernel /\ out_idx \in 0..NUM_OUTPUTS
    BY GeometryFacts DEF Inv, TypeOK, Output
  <1>2. mem = Replaced(out_idx)
    BY DEF MemInv, TileNext
  <1>3. mem[OUTPUT_BASE + out_idx] = before[OUTPUT_BASE + out_idx]
    BY <1>1, <1>2, FoundWords DEF Output
  <1>. QED
    BY <1>1, <1>2, <1>3, FoundWords, OutputWordInMap DEF PrevOutput

-----------------------------------------------------------------------------
(* One lemma per kind of edge *)

\* What MCRun does besides the edge.
Held == start /\ start' = ~done /\ UNCHANGED <<accumulate, before>>

RunGoal == ControlInv' /\ MemInv' /\ SumInv'

\* IDLE: the run starts over what it finds.
LEMMA StartsRun ==
  ASSUME Inv, ControlBits, ControlInv, MemInv, SumInv, Held,
         Idle(start, accumulate, Quiet)
  PROVE  RunGoal
  <1>1. /\ state = "IDLE" /\ ~done
        /\ state' = IF accumulate THEN "READ_PREV_OUT" ELSE "FETCH_INPUTS"
        /\ out_idx' = 0 /\ kernel_idx' = 0 /\ accum' = FormalSum(Zero, <<>>)
        /\ mem' = mem
    BY DEF Idle, Goto, Held, Edge, Access, Quiet, done
  <1>2. TileNext' = 0 /\ (state' = "FETCH_INPUTS" => TapsDone' = 0)
    BY <1>1 DEF TileNext, TapsDone
  <1>3. mem' = before /\ Replaced(0)' = before
    BY <1>1, NothingReplaced, RunFixed DEF MemInv, Held
  <1>4. MemInv'
    BY <1>1, <1>2, <1>3 DEF MemInv, Held
  <1>5. CASE accumulate
    BY <1>1, <1>4, <1>5 DEF RunGoal, ControlInv, SumInv, Held
  <1>6. CASE ~accumulate
    <2>1. Base(out_idx)' = Zero
      BY <1>6 DEF Base, Held
    <2>2. accum' = PartialSum(before', Base(out_idx)', out_idx', TapsDone')
      BY <1>1, <1>2, <1>6, <2>1, NoTaps
    <2>. QED  BY <1>1, <1>4, <1>6, <2>2 DEF RunGoal, ControlInv, SumInv, Held
  <1>. QED  BY <1>5, <1>6

\* In a run only WRITE_OUTPUT writes, and only NEXT_OUTPUT leaves an output.
LEMMA MemoryKept ==
  ASSUME Inv, MemInv, Held, running, state' # "IDLE", mem' = mem,
         TileNext' = TileNext
  PROVE  MemInv'
  BY RunFixed DEF MemInv, Held, running

\* The sum loses nothing in a state that does not touch it.
LEMMA SumKept ==
  ASSUME SumInv, Held, UNCHANGED <<out_idx, accum>>, TapsDone' = TapsDone,
         state \in {"FETCH_INPUTS", "FETCH_WEIGHTS", "WAIT_CAPTURE", "COMPUTE",
                   "NEXT_KERNEL", "WRITE_OUTPUT"}
  PROVE  SumInv'
  BY RunFixed DEF SumInv, Held

\* The states between that leave the accumulator alone.
LEMMA RunGoesOn ==
  ASSUME Inv, ControlInv, MemInv, SumInv, Held,
         \/ ReadPrevOut(Quiet) \/ FetchInputs(Quiet) \/ FetchWeights(Quiet)
         \/ WaitCapture(Quiet) \/ NextKernel(Quiet)
  PROVE  RunGoal
  <1>1. /\ running /\ running' /\ out_idx' = out_idx /\ accum' = accum
        /\ state \notin {"IDLE", "NEXT_OUTPUT", "DONE"}
        /\ state' \notin {"IDLE", "NEXT_OUTPUT", "DONE", "READ_PREV_OUT"}
        /\ state' = "WAIT_PREV_OUT" <=> state = "READ_PREV_OUT"
    BY DEF ReadPrevOut, FetchInputs, FetchWeights, Fetch, WaitCapture, NextKernel,
           Goto, running
  <1>2. mem' = mem
    BY <1>1, QuietEdge, ReadEdge
       DEF ReadPrevOut, FetchInputs, FetchWeights, Fetch, WaitCapture, NextKernel
  <1>3. MemInv'
    BY <1>1, <1>2, MemoryKept DEF TileNext
  <1>4. ControlInv'
    BY <1>1 DEF ControlInv, Held, done, running
  <1>5. SumInv'
    <2>1. CASE ReadPrevOut(Quiet)
      BY <2>1 DEF ReadPrevOut, Goto, SumInv
    <2>2. CASE NextKernel(Quiet)
      <3>1. state = "NEXT_KERNEL" /\ TapsDone = kernel_idx + 1
        BY <2>2 DEF NextKernel, TapsDone
      <3>2. \/ state' = "WRITE_OUTPUT" /\ kernel_idx = KERNEL_K - 1
            \/ state' = "FETCH_INPUTS" /\ kernel_idx' = kernel_idx + 1
        BY <2>2, CounterRanges DEF NextKernel, Goto, Inv, TypeOK
      <3>3. TapsDone' = TapsDone
        BY <3>1, <3>2, GeometryFacts DEF TapsDone
      <3>. QED  BY <1>1, <3>1, <3>3, SumKept
    <2>3. CASE FetchInputs(Quiet) \/ FetchWeights(Quiet) \/ WaitCapture(Quiet)
      <3>1. /\ state \in {"FETCH_INPUTS", "FETCH_WEIGHTS", "WAIT_CAPTURE"}
            /\ state' \in {"FETCH_INPUTS", "FETCH_WEIGHTS", "WAIT_CAPTURE", "COMPUTE"}
            /\ kernel_idx' = kernel_idx
        BY <2>3 DEF FetchInputs, FetchWeights, Fetch, WaitCapture, Goto
      <3>2. TapsDone' = TapsDone
        BY <3>1 DEF TapsDone
      <3>. QED  BY <1>1, <3>1, <3>2, SumKept
    <2>. QED  BY <2>1, <2>2, <2>3
  <1>. QED  BY <1>3, <1>4, <1>5 DEF RunGoal

\* WAIT_PREV_OUT: the value that arrives is the one that the run found.
LEMMA BaseLoaded ==
  ASSUME Inv, ControlInv, MemInv, SumInv, Held, WaitPrevOut(Quiet)
  PROVE  RunGoal
  <1>1. /\ state = "WAIT_PREV_OUT" /\ mem_valid /\ rdata = PrevOutput
        /\ kernel_idx = 0 /\ accumulate
    BY DEF Inv, PipelineInv, WaitPrevOut, ControlInv
  <1>2. /\ accum' = FormalSum(rdata, <<>>) /\ state' = "FETCH_INPUTS"
        /\ Edge(Quiet, Quiet) /\ UNCHANGED <<out_idx, kernel_idx>>
    BY <1>1 DEF WaitPrevOut, Goto
  <1>3. mem' = mem
    BY <1>1, <1>2, QuietEdge DEF running
  <1>4. MemInv'
    BY <1>1, <1>2, <1>3, MemoryKept DEF TileNext, running
  <1>5. rdata = Base(out_idx)'
    BY <1>1, <1>2, CurrentWords DEF Base, Held
  <1>6. TapsDone' = 0
    BY <1>1, <1>2 DEF TapsDone
  <1>7. accum' = PartialSum(before', Base(out_idx)', out_idx', TapsDone')
    BY <1>2, <1>5, <1>6, NoTaps
  <1>. QED
    BY <1>1, <1>2, <1>4, <1>7 DEF RunGoal, ControlInv, SumInv, Held, done

\* COMPUTE: the tap is added from the words that the run found.
LEMMA TapAdded ==
  ASSUME Inv, ControlInv, MemInv, SumInv, Held, Compute(Quiet)
  PROVE  RunGoal
  <1>1. /\ state = "COMPUTE" /\ state' = "NEXT_KERNEL" /\ Edge(Quiet, Quiet)
        /\ accum' = AddDot(accum, in_pipe, wt_pipe)
        /\ UNCHANGED <<out_idx, kernel_idx>>
    BY DEF Compute, Goto
  <1>2. mem' = mem
    BY <1>1, QuietEdge DEF running
  <1>3. MemInv'
    BY <1>1, <1>2, MemoryKept DEF TileNext, running
  <1>4. kernel_idx \in Nat /\ TapsDone = kernel_idx /\ TapsDone' = kernel_idx + 1
    BY <1>1 DEF Inv, TypeOK, Kernel, TapsDone
  <1>5. accum = PartialSum(before, Base(out_idx), out_idx, kernel_idx)
    BY <1>1, <1>4 DEF SumInv
  <1>6. <<in_pipe, wt_pipe>> = Operands(before, out_idx, kernel_idx)
    BY <1>1, PipesAreOperands, CurrentWords
  <1>7. accum' = PartialSum(before, Base(out_idx), out_idx, kernel_idx + 1)
    BY <1>1, <1>4, <1>5, <1>6, OneMoreTap
  <1>8. Base(out_idx)' = Base(out_idx)
    BY <1>1 DEF Base, Held
  <1>9. SumInv'
    BY <1>1, <1>4, <1>7, <1>8 DEF SumInv, Held
  <1>. QED
    BY <1>1, <1>3, <1>9 DEF RunGoal, ControlInv, Held, done

\* WRITE_OUTPUT: the output is replaced by its complete sum.
LEMMA OutputReplaced ==
  ASSUME Inv, ControlInv, MemInv, SumInv, Held, WriteOutput(Quiet)
  PROVE  RunGoal
  <1>1. /\ state = "WRITE_OUTPUT" /\ state' = "NEXT_OUTPUT" /\ out_idx' = out_idx
        /\ mem' = [mem EXCEPT ![output_addr] = accum]
    BY DEF WriteOutput, Goto, Write, Edge, Access, ext_mem_gnt
  <1>2. out_idx \in Output /\ output_addr = OUTPUT_BASE + out_idx
    BY EngineAddresses, OutputWordInMap DEF Inv, TypeOK
  <1>3. accum = PartialSum(before, Base(out_idx), out_idx, KERNEL_K)
    BY <1>1 DEF SumInv, TapsDone
  <1>4. mem' = Replaced(out_idx + 1)
    BY <1>1, <1>2, <1>3, CurrentWords, OneMoreReplaced
  <1>5. MemInv'
    <2>1. TileNext' = out_idx + 1
      BY <1>1 DEF TileNext
    <2>2. \A n : Replaced(n)' = Replaced(n)
      BY RunFixed DEF Held
    <2>3. mem' = Replaced(TileNext)'
      BY <1>4, <2>1, <2>2
    <2>. QED  BY <1>1, <2>3 DEF MemInv, Held
  <1>. QED
    BY <1>1, <1>5 DEF RunGoal, ControlInv, SumInv, Held, done

\* NEXT_OUTPUT: the next sum starts over 0, or over a value still to be loaded.
LEMMA NextSumStarts ==
  ASSUME Inv, ControlBits, ControlInv, MemInv, SumInv, Held,
         NextOutput(accumulate, Quiet)
  PROVE  RunGoal
  <1>1. state = "NEXT_OUTPUT" /\ Edge(Quiet, Quiet) /\ running /\ TileNext = out_idx + 1
    BY DEF NextOutput, running, TileNext
  <1>2. mem' = mem
    BY <1>1, QuietEdge
  <1>3. CASE out_idx = NUM_OUTPUTS - 1
    <2>1. state' = "DONE" /\ out_idx' = out_idx
      BY <1>3 DEF NextOutput, Goto
    <2>2. MemInv'
      BY <1>1, <1>2, <2>1, MemoryKept DEF TileNext
    <2>. QED  BY <1>1, <2>1, <2>2 DEF RunGoal, ControlInv, SumInv, Held, done, running
  <1>4. CASE out_idx # NUM_OUTPUTS - 1
    <2>1. /\ state' = IF accumulate THEN "READ_PREV_OUT" ELSE "FETCH_INPUTS"
          /\ kernel_idx' = 0 /\ accum' = FormalSum(Zero, <<>>)
          /\ out_idx' = out_idx + 1
      BY <1>4, CounterRanges DEF NextOutput, Goto, Inv, TypeOK
    <2>2. MemInv'
      BY <1>1, <1>2, <2>1, MemoryKept DEF TileNext
    <2>3. CASE accumulate
      BY <1>1, <2>1, <2>2, <2>3 DEF RunGoal, ControlInv, SumInv, Held, done
    <2>4. CASE ~accumulate
      <3>1. Base(out_idx)' = Zero /\ TapsDone' = 0
        BY <2>1, <2>4 DEF Base, Held, TapsDone
      <3>2. accum' = PartialSum(before', Base(out_idx)', out_idx', TapsDone')
        BY <2>1, <3>1, NoTaps
      <3>. QED  BY <1>1, <2>1, <2>2, <2>4, <3>2 DEF RunGoal, ControlInv, SumInv, Held, done
    <2>. QED  BY <2>3, <2>4
  <1>. QED  BY <1>3, <1>4

\* DONE: the scratchpad stays until START falls.
LEMMA ResultKept ==
  ASSUME Inv, ControlInv, MemInv, SumInv, Held, Done(start, Quiet)
  PROVE  RunGoal
  <1>1. /\ state = "DONE" /\ state' = "DONE" /\ out_idx' = out_idx /\ mem' = mem
    BY DEF Done, Goto, Held, Edge, Access, Quiet
  <1>2. TileNext' = TileNext
    BY <1>1 DEF TileNext
  <1>3. MemInv'
    BY <1>1, <1>2, RunFixed DEF MemInv, Held
  <1>. QED
    BY <1>1, <1>3 DEF RunGoal, ControlInv, SumInv, Held, running

-----------------------------------------------------------------------------
(* The count of the cycles *)

\* The products of the cycle count, for the two values of Saved.
LEMMA SavedFacts ==
  ASSUME ControlBits, NEW j \in Output
  PROVE  /\ Saved \in {0, 2} /\ Saved * (j + 1) \in Nat
         /\ Saved * (0 + 1) = Saved
         /\ Saved * ((j + 1) + 1) = Saved * (j + 1) + Saved
         /\ Saved * NUM_OUTPUTS \in Nat
         /\ NUM_OUTPUTS * CyclesPerOutput \in Nat
  <1>1. Saved \in {0, 2} /\ j \in Nat /\ NUM_OUTPUTS \in Nat /\ CyclesPerOutput \in Nat
    BY GeometryFacts, OutputCycles DEF Saved, Output
  <1>2. NUM_OUTPUTS * CyclesPerOutput \in Nat
    BY <1>1, SMT
  <1>. QED  BY <1>1, <1>2

\* The first edge of a run.
LEMMA FirstCycle ==
  ASSUME Inv, ControlBits, Held, Idle(start, accumulate, Quiet)
  PROVE  running' /\ CyclesLeft' = NUM_OUTPUTS * CyclesPerOutput - Saved /\ out_idx' = 0
  <1>1. /\ state' = IF accumulate THEN "READ_PREV_OUT" ELSE "FETCH_INPUTS"
        /\ out_idx' = 0 /\ kernel_idx' = 0 /\ fetch_cnt' = 0
    BY DEF Idle, Goto, Held
  <1>2. running'
    BY <1>1 DEF running
  <1>3. CyclesOfOutput' =
          IF accumulate THEN CyclesPerOutput ELSE CyclesAfterTap(0) + CyclesPerTap - 0
    BY <1>1 DEF CyclesOfOutput, CyclesAfterTap
  <1>4. CyclesLeft' = CyclesAfterOutput(0) + CyclesOfOutput'
    BY <1>1, <1>2 DEF CyclesLeft, CyclesAfterOutput
  <1>5. /\ CyclesPerOutput \in Nat /\ CyclesPerTap \in Nat /\ CyclesAfterTap(0) \in Nat
        /\ CyclesPerOutput = CyclesAfterTap(0) + CyclesPerTap + 2
    BY TapCycles, OutputCycles, CounterRanges
  <1>6. CyclesOfOutput' = CyclesPerOutput - Saved
    BY <1>3, <1>5 DEF Saved
  <1>7. CyclesAfterOutput(0) = NUM_OUTPUTS * CyclesPerOutput - CyclesPerOutput
    BY <1>5, GeometryFacts, SMT DEF CyclesAfterOutput
  <1>8. NUM_OUTPUTS * CyclesPerOutput \in Nat /\ Saved \in {0, 2}
    BY CounterRanges, SavedFacts
  <1>. QED
    BY <1>1, <1>2, <1>4, <1>5, <1>6, <1>7, <1>8

\* Every edge of the run is counted once.
LEMMA CycleCounted ==
  ASSUME Inv, ControlBits, CycleInv, MCRun
  PROVE  CycleInv'
  <1> DEFINE total == 1 + NUM_OUTPUTS * CyclesPerOutput
  <1>1. /\ Held /\ Clock(start, accumulate, Quiet)
        /\ cycles' = IF done THEN cycles ELSE cycles + 1
        /\ accumulate' = accumulate
    BY DEF MCRun, Held
  <1>2. Saved' = Saved
    BY <1>1, RunFixed DEF Held
  <1>3. cycles \in Nat /\ cycles' \in Nat
    BY <1>1 DEF CycleInv
  <1>4. out_idx \in Output /\ total \in Nat /\ Saved \in {0, 2}
        /\ Saved * (out_idx + 1) \in Nat
        /\ Saved * ((out_idx + 1) + 1) = Saved * (out_idx + 1) + Saved
        /\ Saved * (0 + 1) = Saved
    BY SavedFacts DEF Inv, TypeOK
  <1>5. SUFFICES ASSUME running' \/ (done' /\ start')
                 PROVE  cycles' + CyclesLeft' = total - Saved * (out_idx' + 1)
    <2>1. state' = "IDLE" => ~start'
      BY <1>1 DEF Held, done, Clock, Idle, ReadPrevOut, WaitPrevOut, FetchInputs,
         FetchWeights, Fetch, WaitCapture, Compute, NextKernel, WriteOutput,
         NextOutput, Done, Goto
    <2>2. running' \/ (done' /\ start') => Balanced'
      BY <1>2, <1>5 DEF Balanced
    <2>. QED  BY <1>3, <2>1, <2>2, Zenon DEF CycleInv
  <1> HIDE DEF total
  <1>6. CASE Idle(start, accumulate, Quiet)
    <2>1. cycles = 0 /\ ~done
      BY <1>1, <1>6 DEF Held, Idle, CycleInv, done
    <2>2. CyclesLeft' = total - 1 - Saved /\ out_idx' = 0
      <3>1. NUM_OUTPUTS * CyclesPerOutput \in Nat
        BY CounterRanges, SavedFacts
      <3>. QED  BY <1>1, <1>4, <1>6, <3>1, FirstCycle DEF total
    <2>. QED  BY <1>1, <1>4, <2>1, <2>2
  <1>7. CASE running
    <2>0. Balanced /\ ~done
      BY <1>7, Zenon DEF CycleInv, running, done
    <2>1. /\ cycles' = cycles + 1 /\ cycles \in Nat /\ CyclesLeft \in Nat
          /\ cycles + CyclesLeft = total - Saved * (out_idx + 1)
      BY <1>1, <1>3, <1>7, <2>0, SomeCyclesLeft DEF Balanced, total
    <2>2. CASE NextOutput(accumulate, Quiet)
      <3>1. CyclesLeft' =
              CyclesLeft - (IF out_idx # NUM_OUTPUTS - 1 /\ ~accumulate THEN 3 ELSE 1)
        BY <2>2, BetweenOutputs DEF ControlBits
      <3>2. CASE out_idx = NUM_OUTPUTS - 1
        <4>1. out_idx' = out_idx
          BY <2>2, <3>2 DEF NextOutput
        <4>. QED  BY <1>4, <2>1, <3>1, <3>2, <4>1
      <3>3. CASE out_idx # NUM_OUTPUTS - 1
        <4>1. out_idx' = out_idx + 1
          BY <1>4, <2>2, <3>3, CounterRanges DEF NextOutput
        <4>2. CyclesLeft' = CyclesLeft - 1 - Saved
          BY <2>1, <3>1, <3>3 DEF Saved
        <4>3. Saved * (out_idx' + 1) = Saved * (out_idx + 1) + Saved
          BY <1>4, <4>1
        <4> DEFINE saved == Saved * (out_idx + 1)
                   then  == Saved * (out_idx' + 1)
        <4>4. /\ then = saved + Saved /\ saved \in Nat
              /\ cycles + CyclesLeft = total - saved
          BY <1>4, <2>1, <4>3
        <4> HIDE DEF saved, then
        <4>5. cycles' + CyclesLeft' = total - then
          BY <1>4, <2>1, <4>2, <4>4
        <4>. QED  BY <4>5 DEF then
      <3>. QED  BY <3>2, <3>3
    <2>3. CASE ~NextOutput(accumulate, Quiet)
      <3>1. \/ ReadPrevOut(Quiet) \/ WaitPrevOut(Quiet) \/ FetchInputs(Quiet)
            \/ FetchWeights(Quiet) \/ WaitCapture(Quiet) \/ Compute(Quiet)
            \/ NextKernel(Quiet) \/ WriteOutput(Quiet)
        BY <1>1, <1>7, <2>3 DEF Clock, running, Idle, Done
      <3>2. CyclesLeft' = CyclesLeft - 1
        BY <3>1, WithinOutput
      <3>3. out_idx' = out_idx
        BY <3>1 DEF ReadPrevOut, WaitPrevOut, FetchInputs, FetchWeights, Fetch,
           WaitCapture, Compute, NextKernel, WriteOutput
      <3>. QED  BY <1>4, <2>1, <3>2, <3>3
    <2>. QED  BY <2>2, <2>3
  <1>8. CASE Done(start, Quiet)
    <2>1. state = "DONE" /\ state' = "DONE" /\ out_idx' = out_idx /\ start
      BY <1>1, <1>8 DEF Done, Goto, Held
    <2>2. cycles + CyclesLeft = total - Saved * (out_idx + 1)
      <3>1. Balanced
        BY <2>1, Zenon DEF CycleInv, done
      <3>. QED  BY <3>1 DEF Balanced, total
    <2>3. CyclesLeft' = CyclesLeft /\ cycles' = cycles
      BY <1>1, <2>1 DEF CyclesLeft, running, done
    <2>. QED  BY <2>1, <2>2, <2>3
  <1>9. Idle(start, accumulate, Quiet) \/ running \/ Done(start, Quiet)
    BY <1>1 DEF Clock, running, ReadPrevOut, WaitPrevOut, FetchInputs,
       FetchWeights, WaitCapture, Compute, NextKernel, WriteOutput, NextOutput
  <1>. QED  BY <1>6, <1>7, <1>8, <1>9

-----------------------------------------------------------------------------
(* The theorems *)

\* A clock edge of the run.
LEMMA EdgeKeepsRun ==
  ASSUME Inv, RunInv, ControlBits', MCRun
  PROVE  RunInv'
  <1>1. /\ ControlBits /\ ControlInv /\ MemInv /\ SumInv /\ CycleInv
        /\ Held /\ Clock(start, accumulate, Quiet)
    BY DEF RunInv, MCRun, Held
  <1>2. RunGoal
    BY <1>1, StartsRun, RunGoesOn, BaseLoaded, TapAdded, OutputReplaced,
       NextSumStarts, ResultKept DEF Clock
  <1>3. CycleInv'
    BY <1>1, CycleCounted
  <1>. QED  BY <1>2, <1>3 DEF RunInv, RunGoal

\* Between two runs nothing is claimed of the scratchpad until the next start.
LEMMA NextRunStarts ==
  ASSUME Inv, RunInv, ControlBits', MCRestart
  PROVE  RunInv'
  <1>1. /\ state = "IDLE" /\ state' = "IDLE" /\ cycles' = 0
        /\ before' = mem /\ mem' = mem
    BY DEF MCRestart, convVars, fsm
  <1>2. MemInv'
    BY <1>1 DEF MemInv, Inv, TypeOK
  <1>. QED
    BY <1>1, <1>2 DEF RunInv, ControlInv, SumInv, CycleInv, running, done

\* The release of the engine.
LEMMA ReleaseEndsRun ==
  ASSUME Inv, RunInv, ControlBits', MCRelease
  PROVE  RunInv'
  <1>1. /\ ~start /\ ~start' /\ state' = "IDLE"
        /\ before' = before /\ cycles' = cycles
    BY DEF MCRelease, aux, Clock, Idle, ReadPrevOut, WaitPrevOut, FetchInputs,
       FetchWeights, WaitCapture, Compute, NextKernel, WriteOutput, NextOutput,
       Done, Goto
  <1>. QED
    BY <1>1 DEF RunInv, ControlInv, MemInv, SumInv, CycleInv, running, done

\* A step in which nothing happens.
LEMMA NothingHappens ==
  ASSUME RunInv, UNCHANGED <<convVars, aux>>
  PROVE  RunInv'
  <1>1. UNCHANGED <<start, accumulate, cycles, before, state, out_idx, kernel_idx,
                    fetch_cnt, accum, mem>>
    BY DEF convVars, fsm, aux
  <1>2. /\ TileNext' = TileNext /\ TapsDone' = TapsDone /\ CyclesLeft' = CyclesLeft
        /\ running' = running /\ done' = done
    BY <1>1 DEF TileNext, TapsDone, CyclesLeft, CyclesOfOutput, running, done
  <1>3. ControlBits' /\ ControlInv'
    BY <1>1, <1>2 DEF RunInv, ControlBits, ControlInv
  <1>4. MemInv' /\ SumInv'
    BY <1>1, <1>2, RunFixed DEF RunInv, MemInv, SumInv
  <1>5. CycleInv'
    <2>1. Balanced' = Balanced
      BY <1>1, <1>2, RunFixed DEF Balanced
    <2>. QED  BY <1>1, <1>2, <2>1, Zenon DEF RunInv, CycleInv
  <1>. QED  BY <1>3, <1>4, <1>5 DEF RunInv

\* The invariant of a run.
THEOREM RunInvariant == MCSpec => []RunInv
  <1>1. MCInit => RunInv
    <2> SUFFICES ASSUME MCInit PROVE RunInv
      OBVIOUS
    <2>1. /\ start = TRUE /\ accumulate \in BOOLEAN /\ cycles = 0 /\ before = mem
          /\ state = "IDLE" /\ mem = [a \in Address |-> mem[a]]
      BY PowerUpAssumption DEF MCInit, ConvInit
    <2>. QED
      BY <2>1 DEF RunInv, ControlBits, ControlInv, MemInv, SumInv, CycleInv,
         running, done
  <1>2. Inv /\ RunInv /\ [MCNext]_<<convVars, aux>> => RunInv'
    <2> SUFFICES ASSUME Inv, RunInv, [MCNext]_<<convVars, aux>>
                 PROVE  RunInv'
      OBVIOUS
    <2>1. ControlBits'
      BY BitsStay DEF RunInv
    <2>. QED
      BY <2>1, EdgeKeepsRun, NextRunStarts, ReleaseEndsRun, NothingHappens DEF MCNext
  <1>. QED
    BY <1>1, <1>2, RunIsEngine, EngineInvariant, PTL DEF MCSpec

\* After a run, in either mode and over whatever the last run left, the outputs
\* are the full sums and every other word is what it was.
THEOREM RunCorrect == MCSpec => []RunResult
  <1>1. Inv /\ RunInv => RunResult
    <2> SUFFICES ASSUME Inv, RunInv, done
                 PROVE  mem = [a \in Address |->
                          IF a \in OUTPUT_BASE..OUTPUT_BASE + NUM_OUTPUTS - 1
                          THEN PartialSum(before, IF accumulate THEN before[a] ELSE Zero,
                                          a - OUTPUT_BASE, KERNEL_K)
                          ELSE before[a]]
      BY DEF RunResult
    <2>1. TileNext = NUM_OUTPUTS /\ state # "IDLE"
      BY GeometryFacts DEF done, TileNext, Inv, PipelineInv
    <2>2. mem = Replaced(NUM_OUTPUTS)
      BY <2>1 DEF RunInv, MemInv
    <2>3. ASSUME NEW a \in Address
          PROVE  OUTPUT_BASE + (a - OUTPUT_BASE) = a
      BY LayoutAssumption DEF Address
    <2>. QED  BY <2>2, <2>3 DEF Replaced, Base
  <1>. QED
    BY <1>1, RunInvariant, RunIsEngine, EngineInvariant, PTL

\* The latency of a run as a function of the geometry.
THEOREM LatencyFormula ==
  MCSpec => [](done /\ start =>
    cycles = 1 + NUM_OUTPUTS * (CyclesPerOutput - (IF accumulate THEN 0 ELSE 2)))
  <1>1. Inv /\ RunInv /\ done /\ start =>
          cycles = 1 + NUM_OUTPUTS * (CyclesPerOutput - (IF accumulate THEN 0 ELSE 2))
    <2> SUFFICES ASSUME Inv, RunInv, done, start
                 PROVE  cycles = 1 + NUM_OUTPUTS * (CyclesPerOutput - Saved)
      BY DEF Saved
    <2>1. out_idx + 1 = NUM_OUTPUTS /\ CyclesLeft = 0
      BY GeometryFacts DEF Inv, PipelineInv, done, CyclesLeft, running
    <2>2. Balanced /\ cycles \in Nat
      BY Zenon DEF RunInv, CycleInv
    <2>3. /\ Saved \in {0, 2} /\ NUM_OUTPUTS \in Nat /\ CyclesPerOutput \in Nat
          /\ cycles = (1 + NUM_OUTPUTS * CyclesPerOutput) - Saved * NUM_OUTPUTS
      BY <2>1, <2>2, GeometryFacts, OutputCycles DEF Balanced, Saved
    <2>. QED  BY <2>3, SMT
  <1>. QED
    BY <1>1, RunInvariant, RunIsEngine, EngineInvariant, PTL

\* The geometry of the chip (conv1d.sv lines 38-49).
ChipGeometry ==
  TILE_CIN = 4 /\ TILE_COUT = 2 /\ TILE_T = 12 /\ KERNEL_K = 5

\* With it, a run takes the documented 1,369 or 1,417 cycles, wherever the three
\* regions lie and however the last run ended.
THEOREM LatencyCorrect == ChipGeometry => (MCSpec => []DocumentedLatency)
  <1> SUFFICES ASSUME ChipGeometry
               PROVE  MCSpec => []DocumentedLatency
    OBVIOUS
  <1>1. NUM_OUTPUTS = 24 /\ CyclesPerOutput = 59
    BY SMT DEF ChipGeometry, NUM_OUTPUTS, CyclesPerOutput, CyclesPerTap
  <1>2. (done /\ start =>
          cycles = 1 + NUM_OUTPUTS * (CyclesPerOutput - (IF accumulate THEN 0 ELSE 2)))
        => DocumentedLatency
    BY <1>1 DEF DocumentedLatency
  <1>. QED
    BY <1>2, LatencyFormula, PTL
=============================================================================
