---------------------------- MODULE Conv1d_proofs ----------------------------
(***************************************************************************)
(* Proofs about the engine for every geometry that the counters and the    *)
(* address map admit, every request of the CPU and every behaviour of the  *)
(* control bits.                                                           *)
(***************************************************************************)
EXTENDS Conv1d, SequenceTheorems, TLAPS

Inv == TypeOK /\ PipelineInv /\ AccumPartial

-----------------------------------------------------------------------------
(* The address arithmetic: the narrow counters never wrap *)

\* A product of two small factors grows with the first one.
LEMMA ProductMonotone ==
  ASSUME NEW a \in Nat, NEW b \in Nat, NEW n \in Nat, a <= b
  PROVE  a * n <= b * n /\ a * n \in Nat /\ b * n \in Nat
  OBVIOUS

\* The region sizes are natural numbers and NUM_OUTPUTS fits five bits.
LEMMA GeometryFacts ==
  /\ TILE_CIN \in 1..4 /\ TILE_COUT \in 1..2 /\ TILE_T \in 1..15 /\ KERNEL_K \in 1..8
  /\ INPUT_WINDOW = TILE_T + KERNEL_K - 1 /\ INPUT_WINDOW \in 1..22
  /\ NUM_OUTPUTS \in 1..30
  /\ NUM_OUTPUTS = TILE_T \/ NUM_OUTPUTS = TILE_T + TILE_T
  /\ TILE_COUT = 1 => NUM_OUTPUTS = TILE_T
  BY GeometryAssumption, SMT DEF INPUT_WINDOW, NUM_OUTPUTS

\* A counter that is stepped before it reaches its last value stays in range.
LEMMA CounterRanges ==
  /\ 0 \in Channel /\ 0 \in Kernel /\ 0 \in Output
  /\ \A f \in Channel : f # TILE_CIN - 1 => (f + 1) % 4 = f + 1 /\ f + 1 \in Channel
  /\ \A k \in Kernel : k # KERNEL_K - 1 => (k + 1) % 8 = k + 1 /\ k + 1 \in Kernel
  /\ \A j \in Output : j # NUM_OUTPUTS - 1 => (j + 1) % 32 = j + 1 /\ j + 1 \in Output
  <1>1. 0 \in Channel /\ 0 \in Kernel /\ 0 \in Output
    BY GeometryFacts DEF Channel, Kernel, Output
  <1>2. \A f \in Channel : f # TILE_CIN - 1 => (f + 1) % 4 = f + 1 /\ f + 1 \in Channel
    BY GeometryFacts DEF Channel
  <1>3. \A k \in Kernel : k # KERNEL_K - 1 => (k + 1) % 8 = k + 1 /\ k + 1 \in Kernel
    BY GeometryFacts DEF Kernel
  <1>4. \A j \in Output : j # NUM_OUTPUTS - 1 => (j + 1) % 32 = j + 1 /\ j + 1 \in Output
    BY GeometryFacts DEF Output
  <1>. QED
    BY <1>1, <1>2, <1>3, <1>4

\* The channel and the sample that conv1d.sv derives from out_idx by a
\* comparison and a four-bit subtraction are those of the documented layout.
LEMMA OutputPosition ==
  ASSUME out_idx \in Output
  PROVE  /\ out_ch = ChannelOf(out_idx) /\ t_pos = SampleOf(out_idx)
         /\ out_ch \in 0..TILE_COUT-1 /\ t_pos \in 0..TILE_T-1
  BY GeometryFacts, SMT DEF Output, out_ch, t_pos, ChannelOf, SampleOf

\* Every word of a window lies in the map, below the kernels.
LEMMA InputWordInMap ==
  ASSUME NEW c \in Channel, NEW t \in 0..INPUT_WINDOW-1
  PROVE  InputWord(c, t) \in Address /\ InputWord(c, t) < WEIGHT_BASE
  <1>1. c + 1 \in Nat /\ TILE_CIN \in Nat /\ INPUT_WINDOW \in Nat /\ c + 1 <= TILE_CIN
    BY GeometryFacts DEF Channel
  <1>2. (c + 1) * INPUT_WINDOW <= TILE_CIN * INPUT_WINDOW
    BY <1>1, ProductMonotone
  <1>3. c * INPUT_WINDOW \in Nat /\ (c + 1) * INPUT_WINDOW = c * INPUT_WINDOW + INPUT_WINDOW
    BY <1>1, SMT DEF Channel
  <1>4. InputWord(c, t) \in Nat /\ InputWord(c, t) < WEIGHT_BASE
    BY <1>1, <1>2, <1>3, LayoutAssumption DEF InputWord
  <1>5. WEIGHT_BASE <= OUTPUT_BASE
    <2>1. TILE_COUT * (TILE_CIN * KERNEL_K) \in Nat
      BY GeometryFacts, SMT
    <2>. QED  BY <2>1, LayoutAssumption
  <1>. QED
    BY <1>4, <1>5, LayoutAssumption, GeometryFacts DEF Address

\* Every word of a kernel lies in the map, between the windows and the outputs.
LEMMA WeightWordInMap ==
  ASSUME NEW m \in 0..TILE_COUT-1, NEW c \in Channel, NEW k \in Kernel
  PROVE  /\ WeightWord(m, c, k) \in Address
         /\ WEIGHT_BASE <= WeightWord(m, c, k) /\ WeightWord(m, c, k) < OUTPUT_BASE
  <1> DEFINE size == TILE_CIN * KERNEL_K
  <1>1. /\ m + 1 \in Nat /\ m + 1 <= TILE_COUT /\ TILE_COUT \in Nat
        /\ c + 1 \in Nat /\ c + 1 <= TILE_CIN /\ TILE_CIN \in Nat /\ KERNEL_K \in Nat
    BY GeometryFacts DEF Channel
  <1>2. (c + 1) * KERNEL_K <= size
    BY <1>1, ProductMonotone
  <1>3. size \in Nat
    BY <1>1, SMT
  <1>4. c * KERNEL_K \in Nat /\ (c + 1) * KERNEL_K = c * KERNEL_K + KERNEL_K
    BY <1>1, SMT DEF Channel
  <1>5. (m + 1) * size <= TILE_COUT * size
    BY <1>1, <1>3, ProductMonotone
  <1> HIDE DEF size
  <1>6. m * size \in Nat /\ (m + 1) * size = m * size + size
    BY <1>1, <1>3, SMT
  <1>7. c * KERNEL_K + k + 1 <= size
    BY <1>2, <1>3, <1>4, <1>1 DEF Kernel
  <1>8. m * size + c * KERNEL_K + k < TILE_COUT * size
    BY <1>5, <1>6, <1>7, <1>3, <1>4, <1>1 DEF Kernel
  <1>9. TILE_COUT * size <= OUTPUT_BASE - WEIGHT_BASE
    BY LayoutAssumption, <1>1, <1>3 DEF size
  <1>10. WeightWord(m, c, k) = WEIGHT_BASE + (m * size + c * KERNEL_K + k)
    BY <1>6, <1>4, LayoutAssumption DEF WeightWord, size, Kernel
  <1>11. m * size + c * KERNEL_K + k \in Nat
    BY <1>4, <1>6, <1>1 DEF Kernel
  <1>12. TILE_COUT * size \in Nat
    BY <1>1, <1>3, SMT
  <1>13. OUTPUT_BASE \in Nat /\ WEIGHT_BASE \in Nat /\ NumWords \in Nat
         /\ OUTPUT_BASE <= NumWords
    BY LayoutAssumption, GeometryFacts
  <1> DEFINE offset == m * size + c * KERNEL_K + k
             end    == TILE_COUT * size
  <1>14. offset \in Nat /\ end \in Nat /\ offset < end
         /\ end <= OUTPUT_BASE - WEIGHT_BASE /\ WeightWord(m, c, k) = WEIGHT_BASE + offset
    BY <1>8, <1>9, <1>10, <1>11, <1>12
  <1> HIDE DEF offset, end
  <1>. QED
    BY <1>13, <1>14 DEF Address

\* Every output word lies in the map, above the operands.
LEMMA OutputWordInMap ==
  ASSUME NEW j \in Output
  PROVE  /\ OutputWord(ChannelOf(j), SampleOf(j)) = OUTPUT_BASE + j
         /\ OUTPUT_BASE + j \in Address
  <1>1. ChannelOf(j) * TILE_T = IF j < TILE_T THEN 0 ELSE TILE_T
    BY GeometryFacts DEF ChannelOf
  <1>. QED
    BY <1>1, GeometryFacts, LayoutAssumption
       DEF Output, OutputWord, SampleOf, Address

\* The addresses that the engine drives are those of the documented layout.
LEMMA EngineAddresses ==
  ASSUME out_idx \in Output, kernel_idx \in Kernel, fetch_cnt \in Channel
  PROVE  /\ input_addr = InputWord(fetch_cnt, SampleOf(out_idx) + kernel_idx)
         /\ weight_addr = WeightWord(ChannelOf(out_idx), fetch_cnt, kernel_idx)
         /\ output_addr = OutputWord(ChannelOf(out_idx), SampleOf(out_idx))
         /\ {input_addr, weight_addr, output_addr} \subseteq Address
  <1>1. SampleOf(out_idx) + kernel_idx \in 0..INPUT_WINDOW-1
    BY OutputPosition, GeometryFacts DEF Kernel
  <1>2. InputWord(fetch_cnt, SampleOf(out_idx) + kernel_idx) \in Address
    BY <1>1, InputWordInMap
  <1>3. WeightWord(ChannelOf(out_idx), fetch_cnt, kernel_idx) \in Address
    BY OutputPosition, WeightWordInMap
  <1>4. \A a \in Address : a % 128 = a /\ a \in Nat
    BY LayoutAssumption DEF Address
  <1>5. input_addr = InputWord(fetch_cnt, SampleOf(out_idx) + kernel_idx)
    <2>1. fetch_cnt * INPUT_WINDOW \in Nat
      BY GeometryFacts, SMT DEF Channel
    <2>2. INPUT_BASE + fetch_cnt * INPUT_WINDOW + t_pos + kernel_idx
             = InputWord(fetch_cnt, SampleOf(out_idx) + kernel_idx)
      BY <2>1, OutputPosition, GeometryFacts, LayoutAssumption DEF InputWord, Kernel
    <2>. QED  BY <2>2, <1>2, <1>4 DEF input_addr
  <1>6. weight_addr = WeightWord(ChannelOf(out_idx), fetch_cnt, kernel_idx)
    BY OutputPosition, <1>3, <1>4 DEF weight_addr, WeightWord
  <1>7. output_addr = OutputWord(ChannelOf(out_idx), SampleOf(out_idx))
    BY OutputWordInMap, <1>4 DEF output_addr
  <1>. QED
    BY <1>2, <1>3, <1>5, <1>6, <1>7, OutputWordInMap

-----------------------------------------------------------------------------
(* What one clock edge does beside the FSM *)

\* The capture logic and the SRAM keep their types, whoever has the port.
LEMMA EdgeTypes ==
  ASSUME TypeOK, NEW int, NEW ext \in ExtRequest,
         int.req \in BOOLEAN, int.we \in BOOLEAN, Edge(int, ext)
  PROVE  /\ mem_valid' \in BOOLEAN /\ capture_is_input' \in BOOLEAN
         /\ rvalid' \in BOOLEAN /\ capture_idx' \in Channel
         /\ in_pipe' = [c \in Channel |-> in_pipe'[c]]
         /\ wt_pipe' = [c \in Channel |-> wt_pipe'[c]]
         /\ mem' = [a \in Address |-> mem'[a]]
  <1>1. ext.req \in BOOLEAN
    BY RequestAssumption
  <1>2. /\ capture_idx' \in Channel /\ capture_is_input' \in BOOLEAN
        /\ mem_valid' \in BOOLEAN /\ rvalid' \in BOOLEAN
    BY <1>1 DEF TypeOK, Edge, Capture, Access, ext_mem_gnt
  <1>3. in_pipe' = [c \in Channel |-> in_pipe'[c]]
    BY DEF TypeOK, Edge, Capture
  <1>4. wt_pipe' = [c \in Channel |-> wt_pipe'[c]]
    BY DEF TypeOK, Edge, Capture
  <1>5. mem' = [a \in Address |-> mem'[a]]
    BY DEF TypeOK, Edge, Access
  <1>. QED
    BY <1>2, <1>3, <1>4, <1>5

\* A cycle without a request of the engine, and one in which it reads.
LEMMA RequestTypes ==
  /\ Quiet.req = FALSE /\ Quiet.we = FALSE
  /\ \A a : Read(a).req = TRUE /\ Read(a).we = FALSE /\ Read(a).addr = a
  /\ \A a, d : /\ Write(a, d).req = TRUE /\ Write(a, d).we = TRUE
              /\ Write(a, d).addr = a /\ Write(a, d).wdata = d
  BY DEF Quiet, Read, Write

-----------------------------------------------------------------------------
(* Types *)

\* The counters, indices and request registers of conv1d.sv never leave their
\* ranges, for every geometry that their widths allow.
THEOREM TypeCorrect == ConvSpec => []TypeOK
  <1>1. ConvInit => TypeOK
    BY CounterRanges, PowerUpAssumption DEF ConvInit, TypeOK, State
  <1>2. TypeOK /\ [ConvNext]_convVars => TypeOK'
    <2> SUFFICES ASSUME TypeOK, [ConvNext]_convVars PROVE TypeOK'
      OBVIOUS
    <2>1. ASSUME NEW start_i \in BOOLEAN, NEW accumulate_i \in BOOLEAN,
                 NEW ext \in ExtRequest, Clock(start_i, accumulate_i, ext)
          PROVE  TypeOK'
      <3>1. PICK int : /\ int.req \in BOOLEAN /\ int.we \in BOOLEAN
                       /\ Edge(int, ext)
        BY <2>1, RequestTypes
           DEF Clock, Idle, ReadPrevOut, WaitPrevOut, FetchInputs, FetchWeights,
               Fetch, WaitCapture, Compute, NextKernel, WriteOutput, NextOutput, Done
      <3>2. /\ mem_valid' \in BOOLEAN /\ capture_is_input' \in BOOLEAN
            /\ rvalid' \in BOOLEAN /\ capture_idx' \in Channel
            /\ in_pipe' = [c \in Channel |-> in_pipe'[c]]
            /\ wt_pipe' = [c \in Channel |-> wt_pipe'[c]]
            /\ mem' = [a \in Address |-> mem'[a]]
        BY <3>1, EdgeTypes
      <3>3. /\ state' \in State /\ out_idx' \in Output
            /\ kernel_idx' \in Kernel /\ fetch_cnt' \in Channel
        <4> USE CounterRanges DEF TypeOK, State, Goto
        <4>1. CASE Idle(start_i, accumulate_i, ext)
          BY <4>1 DEF Idle
        <4>2. CASE ReadPrevOut(ext)
          BY <4>2 DEF ReadPrevOut
        <4>3. CASE WaitPrevOut(ext)
          BY <4>3 DEF WaitPrevOut
        <4>4. CASE FetchInputs(ext)
          BY <4>4 DEF FetchInputs, Fetch
        <4>5. CASE FetchWeights(ext)
          BY <4>5 DEF FetchWeights, Fetch
        <4>6. CASE WaitCapture(ext)
          BY <4>6 DEF WaitCapture
        <4>7. CASE Compute(ext)
          BY <4>7 DEF Compute
        <4>8. CASE NextKernel(ext)
          BY <4>8 DEF NextKernel
        <4>9. CASE WriteOutput(ext)
          BY <4>9 DEF WriteOutput
        <4>10. CASE NextOutput(accumulate_i, ext)
          BY <4>10 DEF NextOutput
        <4>11. CASE Done(start_i, ext)
          BY <4>11 DEF Done
        <4>. QED
          BY <2>1, <4>1, <4>2, <4>3, <4>4, <4>5, <4>6, <4>7, <4>8, <4>9, <4>10,
             <4>11 DEF Clock
      <3>. QED
        BY <3>2, <3>3 DEF TypeOK
    <2>2. CASE RegisterReset
      BY <2>2, CounterRanges DEF RegisterReset, TypeOK, State
    <2>3. CASE UNCHANGED convVars
      BY <2>3 DEF convVars, fsm, capture, TypeOK
    <2>. QED
      BY <2>1, <2>2, <2>3 DEF ConvNext
  <1>. QED
    BY <1>1, <1>2, PTL DEF ConvSpec

-----------------------------------------------------------------------------
(* Formal sums: an empty one, and one tap more *)

\* The accumulator that IDLE and NEXT_OUTPUT clear, or WAIT_PREV_OUT loads, is
\* the sum of no taps.
LEMMA NoTaps ==
  ASSUME NEW m, NEW base, NEW j
  PROVE  FormalSum(base, <<>>) = PartialSum(m, base, j, 0)
  BY DEF FormalSum, PartialSum

\* COMPUTE leaves the base of the sum and appends one pair of operands.
LEMMA AppendInRecord ==
  ASSUME NEW base, NEW taps, NEW x, NEW w
  PROVE  AddDot([base |-> base, taps |-> taps], x, w)
           = [base |-> base, taps |-> Append(taps, <<x, w>>)]
  <1> DEFINE r    == [base |-> base, taps |-> taps]
             more == Append(taps, <<x, w>>)
  <1>1. more = Append(r.taps, <<x, w>>)
    OBVIOUS
  <1>2. AddDot(r, x, w) = [r EXCEPT !.taps = more]
    BY <1>1 DEF AddDot
  <1> HIDE DEF more
  <1>3. [r EXCEPT !.taps = more] = [base |-> base, taps |-> more]
    OBVIOUS
  <1>. QED  BY <1>2, <1>3 DEF more

\* Adding the operands of tap n to the sum of the first n taps gives the sum
\* of the first n + 1.
LEMMA OneMoreTap ==
  ASSUME NEW m, NEW base, NEW j, NEW n \in Nat, NEW x, NEW w,
         <<x, w>> = Operands(m, j, n)
  PROVE  AddDot(PartialSum(m, base, j, n), x, w) = PartialSum(m, base, j, n + 1)
  <1> DEFINE taps(k) == [i \in 1..k |-> Operands(m, j, i - 1)]
             S == {Operands(m, j, i - 1) : i \in 1..n+1}
             longer == Append(taps(n), <<x, w>>)
  <1>0. \A i \in 1..n+1 : Operands(m, j, i - 1) \in S
    OBVIOUS
  <1> HIDE DEF S
  <1>1. taps(n) \in Seq(S) /\ Len(taps(n)) = n /\ <<x, w>> \in S
    <2>1. \A i \in 1..n : Operands(m, j, i - 1) \in S
      BY <1>0
    <2>2. <<x, w>> \in S
      <3>1. n + 1 \in 1..n+1 /\ (n + 1) - 1 = n
        OBVIOUS
      <3>. QED  BY <1>0, <3>1
    <2>. QED  BY <2>1, <2>2
  <1>2. taps(n + 1) \in Seq(S) /\ Len(taps(n + 1)) = n + 1
    BY <1>0
  <1>3. /\ longer \in Seq(S) /\ Len(longer) = n + 1
        /\ \A i \in 1..n : longer[i] = taps(n)[i]
        /\ longer[n + 1] = <<x, w>>
    <2> HIDE DEF taps, S
    <2>. QED  BY <1>1, AppendProperties
  <1>4. \A i \in 1..n+1 : longer[i] = taps(n + 1)[i]
    <2> TAKE i \in 1..n+1
    <2>1. CASE i = n + 1
      BY <2>1, <1>3
    <2>2. CASE i # n + 1
      <3>1. i \in 1..n
        BY <2>2
      <3>. QED  BY <3>1, <1>3
    <2>. QED  BY <2>1, <2>2
  <1>5. longer = taps(n + 1)
    <2> HIDE DEF taps, S, longer
    <2>. QED  BY <1>2, <1>3, <1>4, SeqEqual
  <1>6. PartialSum(m, base, j, n) = [base |-> base, taps |-> taps(n)]
        /\ PartialSum(m, base, j, n + 1) = [base |-> base, taps |-> taps(n + 1)]
    BY DEF PartialSum, FormalSum
  <1>7. AddDot([base |-> base, taps |-> taps(n)], x, w) = [base |-> base, taps |-> longer]
    <2> HIDE DEF taps
    <2>. QED  BY AppendInRecord
  <1>. QED
    BY <1>5, <1>6, <1>7

-----------------------------------------------------------------------------
(* The pipeline: what the edges of a run leave in the registers *)

\* What the capture logic does to each pipeline register.
LEMMA CapturePointwise ==
  ASSUME TypeOK, Capture, NEW c \in Channel
  PROVE  /\ in_pipe'[c] = IF mem_valid /\ capture_is_input /\ capture_idx = c
                          THEN rdata ELSE in_pipe[c]
         /\ wt_pipe'[c] = IF mem_valid /\ ~capture_is_input /\ capture_idx = c
                          THEN rdata ELSE wt_pipe[c]
  <1>1. in_pipe'[c] = IF mem_valid /\ capture_is_input /\ capture_idx = c
                      THEN rdata ELSE in_pipe[c]
    BY DEF TypeOK, Capture
  <1>2. wt_pipe'[c] = IF mem_valid /\ ~capture_is_input /\ capture_idx = c
                      THEN rdata ELSE wt_pipe[c]
    BY DEF TypeOK, Capture
  <1>. QED
    BY <1>1, <1>2

\* In a run the CPU has no port: a cycle in which the engine does not write
\* leaves the scratchpad alone, and a read returns the word it asked for.
LEMMA QuietEdge ==
  ASSUME running, NEW ext, Edge(Quiet, ext)
  PROVE  mem' = mem
  BY DEF Edge, Access, running, ext_mem_gnt, Quiet

\* In a run a read of the engine returns the word at its address and leaves
\* the scratchpad alone.
LEMMA ReadEdge ==
  ASSUME running, NEW a, NEW ext, Edge(Read(a), ext)
  PROVE  /\ mem' = mem /\ rdata' = mem[a] /\ mem_valid' = TRUE
         /\ capture_idx' = fetch_cnt
         /\ capture_is_input' = (state = "FETCH_INPUTS")
  BY DEF Edge, Access, Capture, running, ext_mem_gnt, Read

\* The operands of a tap are the same words as long as nothing is written and
\* the engine stays at the tap.
LEMMA OperandsStable ==
  ASSUME mem' = mem, UNCHANGED <<out_idx, kernel_idx>>
  PROVE  /\ PrevOutput' = PrevOutput
         /\ \A c : InOperand(c)' = InOperand(c) /\ WtOperand(c)' = WtOperand(c)
  BY DEF PrevOutput, InOperand, WtOperand

\* The words that a read of the current counters returns.
LEMMA FetchedWords ==
  ASSUME TypeOK
  PROVE  /\ mem[input_addr] = InOperand(fetch_cnt)
         /\ mem[weight_addr] = WtOperand(fetch_cnt)
         /\ mem[output_addr] = PrevOutput
  BY EngineAddresses DEF TypeOK, InOperand, WtOperand, PrevOutput

\* A word that arrives completes the registers up to its own.
LEMMA InputLands ==
  ASSUME TypeOK, Capture, mem' = mem, UNCHANGED <<out_idx, kernel_idx>>,
         NEW n \in Channel, InputArrives(n)
  PROVE  InputsUpTo(n + 1)'
  <1> SUFFICES ASSUME NEW c \in Channel, c < n + 1 PROVE in_pipe'[c] = InOperand(c)'
    BY DEF InputsUpTo
  <1>1. in_pipe'[c] = IF capture_idx = c THEN rdata ELSE in_pipe[c]
    BY CapturePointwise DEF InputArrives
  <1>2. CASE c = n
    BY <1>1, <1>2, OperandsStable DEF InputArrives
  <1>3. CASE c # n
    <2>1. c < n
      BY <1>3 DEF Channel
    <2>. QED  BY <1>1, <1>3, <2>1, OperandsStable DEF InputArrives, InputsUpTo
  <1>. QED
    BY <1>2, <1>3

\* A weight that arrives completes the weights up to its own and leaves the
\* inputs as they are.
LEMMA WeightLands ==
  ASSUME TypeOK, Capture, mem' = mem, UNCHANGED <<out_idx, kernel_idx>>,
         NEW n \in Channel, WeightArrives(n)
  PROVE  WeightsUpTo(n + 1)'
  <1> SUFFICES ASSUME NEW c \in Channel, c < n + 1 PROVE wt_pipe'[c] = WtOperand(c)'
    BY DEF WeightsUpTo
  <1>1. wt_pipe'[c] = IF capture_idx = c THEN rdata ELSE wt_pipe[c]
    BY CapturePointwise DEF WeightArrives
  <1>2. CASE c = n
    BY <1>1, <1>2, OperandsStable DEF WeightArrives
  <1>3. CASE c # n
    <2>1. c < n
      BY <1>3 DEF Channel
    <2>. QED  BY <1>1, <1>3, <2>1, OperandsStable DEF WeightArrives, WeightsUpTo
  <1>. QED
    BY <1>2, <1>3

\* While no input arrives, the inputs already captured stay.
LEMMA InputsStay ==
  ASSUME TypeOK, Capture, mem' = mem, UNCHANGED <<out_idx, kernel_idx>>,
         ~(mem_valid /\ capture_is_input), InputsUpTo(TILE_CIN)
  PROVE  InputsUpTo(TILE_CIN)'
  <1> SUFFICES ASSUME NEW c \in Channel, c < TILE_CIN PROVE in_pipe'[c] = InOperand(c)'
    BY DEF InputsUpTo
  <1>1. in_pipe'[c] = in_pipe[c]
    BY CapturePointwise
  <1>. QED
    BY <1>1, OperandsStable DEF InputsUpTo

-----------------------------------------------------------------------------
(* One lemma per action: the step preserves the pipeline invariant and the *)
(* partial sum.                                                            *)

Goal == PipelineInv' /\ AccumPartial'

\* A sum that neither gains a tap nor loses its operands.
LEMMA SumStable ==
  ASSUME AccumPartial, mem' = mem, UNCHANGED <<out_idx, accum>>,
         TapsDone' = TapsDone,
         state \in {"FETCH_INPUTS", "FETCH_WEIGHTS", "WAIT_CAPTURE", "COMPUTE",
                   "NEXT_KERNEL", "WRITE_OUTPUT"}
  PROVE  AccumPartial'
  BY DEF AccumPartial, PrevOutput

\* A sum that starts an output.
LEMMA SumStarts ==
  ASSUME state' = "FETCH_INPUTS", kernel_idx' = 0, NEW base,
         base \in {Zero, PrevOutput'}, accum' = FormalSum(base, <<>>)
  PROVE  AccumPartial'
  <1>1. TapsDone' = 0
    BY DEF TapsDone
  <1>2. accum' = PartialSum(mem', base, out_idx', TapsDone')
    BY <1>1, NoTaps
  <1>. QED
    BY <1>2 DEF AccumPartial

\* IDLE: a run starts with no taps in the accumulator.
LEMMA IdleStep ==
  ASSUME Inv, NEW start_i \in BOOLEAN, NEW accumulate_i \in BOOLEAN, NEW ext,
         Idle(start_i, accumulate_i, ext)
  PROVE  Goal
  <1>1. state' \in {"IDLE", "READ_PREV_OUT", "FETCH_INPUTS"}
        /\ kernel_idx' = 0 /\ fetch_cnt' = 0 /\ accum' = FormalSum(Zero, <<>>)
    BY DEF Idle, Goto
  <1>2. PipelineInv'
    BY <1>1 DEF PipelineInv
  <1>3. CASE state' = "FETCH_INPUTS"
    BY <1>1, <1>2, <1>3, SumStarts DEF Goal
  <1>4. CASE state' # "FETCH_INPUTS"
    BY <1>1, <1>2, <1>4 DEF Goal, AccumPartial
  <1>. QED
    BY <1>3, <1>4

\* READ_PREV_OUT: the word that arrives next is the output's previous value.
LEMMA ReadPrevOutStep ==
  ASSUME Inv, NEW ext, ReadPrevOut(ext)
  PROVE  Goal
  <1>1. /\ state = "READ_PREV_OUT" /\ state' = "WAIT_PREV_OUT"
        /\ Edge(Read(output_addr), ext) /\ UNCHANGED <<out_idx, kernel_idx, fetch_cnt>>
    BY DEF ReadPrevOut, Goto
  <1>2. mem' = mem /\ rdata' = mem[output_addr] /\ mem_valid' = TRUE
    BY <1>1, ReadEdge DEF running
  <1>3. rdata' = PrevOutput'
    BY <1>1, <1>2, FetchedWords, OperandsStable DEF Inv
  <1>4. kernel_idx = 0 /\ fetch_cnt = 0
    BY <1>1 DEF Inv, PipelineInv
  <1>. QED
    BY <1>1, <1>2, <1>3, <1>4 DEF Goal, PipelineInv, AccumPartial

\* WAIT_PREV_OUT: the previous value becomes the base of the sum.
LEMMA WaitPrevOutStep ==
  ASSUME Inv, NEW ext, WaitPrevOut(ext)
  PROVE  Goal
  <1>1. state = "WAIT_PREV_OUT" /\ mem_valid /\ rdata = PrevOutput /\ kernel_idx = 0
    BY DEF Inv, PipelineInv, WaitPrevOut
  <1>2. /\ accum' = FormalSum(rdata, <<>>) /\ state' = "FETCH_INPUTS" /\ fetch_cnt' = 0
        /\ Edge(Quiet, ext) /\ UNCHANGED <<out_idx, kernel_idx>>
    BY <1>1 DEF WaitPrevOut, Goto
  <1>3. mem' = mem
    BY <1>1, <1>2, QuietEdge DEF running
  <1>4. PrevOutput' = PrevOutput
    BY <1>2, <1>3, OperandsStable
  <1>5. AccumPartial'
    BY <1>1, <1>2, <1>4, SumStarts
  <1>. QED
    BY <1>2, <1>5 DEF Goal, PipelineInv

\* The operand read in this cycle arrives in the next one.
LEMMA InputIssued ==
  ASSUME Inv, NEW ext, state = "FETCH_INPUTS", Edge(Read(input_addr), ext),
         UNCHANGED <<out_idx, kernel_idx>>, NEW n \in Channel, n = fetch_cnt
  PROVE  mem' = mem /\ InputArrives(n)'
  <1>1. /\ mem' = mem /\ rdata' = mem[input_addr] /\ mem_valid' = TRUE
        /\ capture_idx' = n /\ capture_is_input' = TRUE
    BY ReadEdge DEF running
  <1>2. rdata' = InOperand(n)'
    BY <1>1, FetchedWords, OperandsStable DEF Inv
  <1>3. InputsUpTo(n)'
    <2>1. CASE n = 0
      BY <2>1 DEF InputsUpTo, Channel
    <2>2. CASE n # 0
      <3>1. n - 1 \in Channel /\ InputArrives(n - 1) /\ (n - 1) + 1 = n
        BY <2>2, GeometryFacts DEF Inv, PipelineInv, Channel
      <3>. QED  BY <3>1, <1>1, InputLands DEF Inv, Edge
    <2>. QED  BY <2>1, <2>2
  <1>. QED
    BY <1>1, <1>2, <1>3 DEF InputArrives

\* The weight read in this cycle arrives in the next one, and the inputs are
\* complete by then.
LEMMA WeightIssued ==
  ASSUME Inv, NEW ext, state = "FETCH_WEIGHTS", Edge(Read(weight_addr), ext),
         UNCHANGED <<out_idx, kernel_idx>>, NEW n \in Channel, n = fetch_cnt
  PROVE  mem' = mem /\ InputsUpTo(TILE_CIN)' /\ WeightArrives(n)'
  <1>1. /\ mem' = mem /\ rdata' = mem[weight_addr] /\ mem_valid' = TRUE
        /\ capture_idx' = n /\ capture_is_input' = FALSE
    BY ReadEdge DEF running
  <1>2. rdata' = WtOperand(n)'
    BY <1>1, FetchedWords, OperandsStable DEF Inv
  <1>3. InputsUpTo(TILE_CIN)' /\ WeightsUpTo(n)'
    <2>1. CASE n = 0
      <3>1. InputArrives(TILE_CIN - 1) /\ TILE_CIN - 1 \in Channel
            /\ (TILE_CIN - 1) + 1 = TILE_CIN
        BY <2>1, GeometryFacts DEF Inv, PipelineInv, Channel
      <3>2. InputsUpTo(TILE_CIN)'
        BY <3>1, <1>1, InputLands DEF Inv, Edge
      <3>. QED  BY <3>2, <2>1 DEF WeightsUpTo, Channel
    <2>2. CASE n # 0
      <3>1. n - 1 \in Channel /\ WeightArrives(n - 1) /\ (n - 1) + 1 = n
            /\ InputsUpTo(TILE_CIN)
        BY <2>2, GeometryFacts DEF Inv, PipelineInv, Channel
      <3>2. WeightsUpTo(n)'
        BY <3>1, <1>1, WeightLands DEF Inv, Edge
      <3>3. InputsUpTo(TILE_CIN)'
        BY <3>1, <1>1, InputsStay DEF Inv, Edge, WeightArrives
      <3>. QED  BY <3>2, <3>3
    <2>. QED  BY <2>1, <2>2
  <1>. QED
    BY <1>1, <1>2, <1>3 DEF WeightArrives

\* FETCH_INPUTS: one input per cycle lands in its register.
LEMMA FetchInputsStep ==
  ASSUME Inv, NEW ext, FetchInputs(ext)
  PROVE  Goal
  <1>1. PICK n \in Channel : n = fetch_cnt
    BY DEF Inv, TypeOK
  <1>2. /\ state = "FETCH_INPUTS" /\ Edge(Read(input_addr), ext)
        /\ UNCHANGED <<out_idx, kernel_idx, accum>>
    BY DEF FetchInputs, Fetch
  <1>3. mem' = mem /\ InputArrives(n)'
    BY <1>1, <1>2, InputIssued
  <1>4. \/ n = TILE_CIN - 1 /\ state' = "FETCH_WEIGHTS" /\ fetch_cnt' = 0
        \/ state' = "FETCH_INPUTS" /\ fetch_cnt' - 1 = n
    BY <1>1, CounterRanges, GeometryFacts DEF FetchInputs, Fetch, Goto, Channel
  <1>5. PipelineInv'
    BY <1>3, <1>4 DEF PipelineInv, InputArrives, InputsUpTo, InOperand
  <1>6. TapsDone' = TapsDone
    BY <1>2, <1>4 DEF TapsDone
  <1>. QED
    BY <1>2, <1>3, <1>5, <1>6, SumStable DEF Goal, Inv

\* FETCH_WEIGHTS: the last input lands first, then one weight per cycle.
LEMMA FetchWeightsStep ==
  ASSUME Inv, NEW ext, FetchWeights(ext)
  PROVE  Goal
  <1>1. PICK n \in Channel : n = fetch_cnt
    BY DEF Inv, TypeOK
  <1>2. /\ state = "FETCH_WEIGHTS" /\ Edge(Read(weight_addr), ext)
        /\ UNCHANGED <<out_idx, kernel_idx, accum>>
    BY DEF FetchWeights, Fetch
  <1>3. mem' = mem /\ InputsUpTo(TILE_CIN)' /\ WeightArrives(n)'
    BY <1>1, <1>2, WeightIssued
  <1>4. \/ n = TILE_CIN - 1 /\ state' = "WAIT_CAPTURE" /\ fetch_cnt' = 0
        \/ /\ state' = "FETCH_WEIGHTS" /\ fetch_cnt' - 1 = n /\ fetch_cnt' # 0
    BY <1>1, CounterRanges, GeometryFacts DEF FetchWeights, Fetch, Goto, Channel
  <1>5. PipelineInv'
    BY <1>3, <1>4 DEF PipelineInv, WeightArrives, WeightsUpTo, WtOperand
  <1>6. TapsDone' = TapsDone
    BY <1>2, <1>4 DEF TapsDone
  <1>. QED
    BY <1>2, <1>3, <1>5, <1>6, SumStable DEF Goal, Inv

\* WAIT_CAPTURE: the last weight lands before COMPUTE.
LEMMA WaitCaptureStep ==
  ASSUME Inv, NEW ext, WaitCapture(ext)
  PROVE  Goal
  <1>1. /\ state = "WAIT_CAPTURE" /\ Edge(Quiet, ext) /\ fetch_cnt' = 0
        /\ InputsUpTo(TILE_CIN) /\ WeightArrives(TILE_CIN - 1)
        /\ UNCHANGED <<out_idx, kernel_idx, accum>>
    BY DEF WaitCapture, Inv, PipelineInv
  <1>2. mem' = mem
    BY <1>1, QuietEdge DEF running
  <1>3. TILE_CIN - 1 \in Channel /\ (TILE_CIN - 1) + 1 = TILE_CIN
    BY GeometryFacts DEF Channel
  <1>4. WeightsUpTo(TILE_CIN)'
    BY <1>1, <1>2, <1>3, WeightLands DEF Inv, Edge
  <1>5. InputsUpTo(TILE_CIN)'
    BY <1>1, <1>2, InputsStay DEF Inv, Edge, WeightArrives
  <1>6. state' = "COMPUTE"
    BY <1>1 DEF WaitCapture, Goto, WeightArrives
  <1>7. TapsDone' = TapsDone
    BY <1>1, <1>6 DEF TapsDone
  <1>. QED
    BY <1>1, <1>2, <1>4, <1>5, <1>6, <1>7, SumStable DEF Goal, Inv, PipelineInv

\* With every register captured, the pipelines hold the operands of the tap.
LEMMA PipesAreOperands ==
  ASSUME Inv, state = "COMPUTE"
  PROVE  <<in_pipe, wt_pipe>> = Operands(mem, out_idx, kernel_idx)
  <1>1. \A c \in Channel : in_pipe[c] = InOperand(c) /\ wt_pipe[c] = WtOperand(c)
    BY GeometryFacts DEF Inv, PipelineInv, InputsUpTo, WeightsUpTo, Channel
  <1>2. in_pipe = [c \in Channel |-> mem[InputWord(c, SampleOf(out_idx) + kernel_idx)]]
    BY <1>1 DEF Inv, TypeOK, InOperand
  <1>3. wt_pipe = [c \in Channel |-> mem[WeightWord(ChannelOf(out_idx), c, kernel_idx)]]
    BY <1>1 DEF Inv, TypeOK, WtOperand
  <1>. QED
    BY <1>2, <1>3 DEF Operands

\* COMPUTE: the accumulator gains the operands of this tap.
LEMMA ComputeStep ==
  ASSUME Inv, NEW ext, Compute(ext)
  PROVE  Goal
  <1>1. /\ state = "COMPUTE" /\ state' = "NEXT_KERNEL" /\ Edge(Quiet, ext)
        /\ accum' = AddDot(accum, in_pipe, wt_pipe)
        /\ UNCHANGED <<out_idx, kernel_idx, fetch_cnt>>
    BY DEF Compute, Goto
  <1>2. mem' = mem
    BY <1>1, QuietEdge DEF running
  <1>3. kernel_idx \in Nat /\ TapsDone = kernel_idx /\ TapsDone' = kernel_idx + 1
    BY <1>1 DEF Inv, TypeOK, Kernel, TapsDone
  <1>4. PICK base \in {Zero, PrevOutput} : accum = PartialSum(mem, base, out_idx, kernel_idx)
    BY <1>1, <1>3 DEF Inv, AccumPartial
  <1>5. accum' = PartialSum(mem, base, out_idx, kernel_idx + 1)
    BY <1>1, <1>3, <1>4, PipesAreOperands, OneMoreTap
  <1>6. AccumPartial'
    BY <1>1, <1>2, <1>3, <1>5, OperandsStable DEF AccumPartial
  <1>. QED
    BY <1>1, <1>6 DEF Goal, Inv, PipelineInv

\* NEXT_KERNEL: the next tap starts, or the sum is complete.
LEMMA NextKernelStep ==
  ASSUME Inv, NEW ext, NextKernel(ext)
  PROVE  Goal
  <1>1. /\ state = "NEXT_KERNEL" /\ Edge(Quiet, ext) /\ UNCHANGED <<out_idx, accum>>
    BY DEF NextKernel
  <1>2. mem' = mem
    BY <1>1, QuietEdge DEF running
  <1>3. TapsDone = kernel_idx + 1
    BY <1>1 DEF TapsDone
  <1>4. \/ state' = "WRITE_OUTPUT" /\ kernel_idx = KERNEL_K - 1
        \/ state' = "FETCH_INPUTS" /\ fetch_cnt' = 0 /\ kernel_idx' = kernel_idx + 1
    BY CounterRanges DEF NextKernel, Goto, Inv, TypeOK
  <1>5. TapsDone' = TapsDone
    BY <1>3, <1>4, GeometryFacts DEF TapsDone
  <1>6. PipelineInv'
    BY <1>4 DEF PipelineInv
  <1>. QED
    BY <1>1, <1>2, <1>5, <1>6, SumStable DEF Goal, Inv

\* WRITE_OUTPUT: nothing is claimed of the accumulator once it is stored.
LEMMA WriteOutputStep ==
  ASSUME Inv, NEW ext, WriteOutput(ext)
  PROVE  Goal
  BY DEF WriteOutput, Goto, Goal, PipelineInv, AccumPartial

\* NEXT_OUTPUT: the next output starts with no taps, or the run is over.
LEMMA NextOutputStep ==
  ASSUME Inv, NEW accumulate_i \in BOOLEAN, NEW ext, NextOutput(accumulate_i, ext)
  PROVE  Goal
  <1>1. CASE out_idx = NUM_OUTPUTS - 1
    BY <1>1 DEF NextOutput, Goto, Goal, PipelineInv, AccumPartial
  <1>2. CASE out_idx # NUM_OUTPUTS - 1
    <2>1. state' \in {"READ_PREV_OUT", "FETCH_INPUTS"}
          /\ kernel_idx' = 0 /\ fetch_cnt' = 0 /\ accum' = FormalSum(Zero, <<>>)
      BY <1>2 DEF NextOutput, Goto
    <2>2. PipelineInv'
      BY <2>1 DEF PipelineInv
    <2>3. CASE state' = "FETCH_INPUTS"
      BY <2>1, <2>2, <2>3, SumStarts DEF Goal
    <2>4. CASE state' # "FETCH_INPUTS"
      BY <2>1, <2>2, <2>4 DEF Goal, AccumPartial
    <2>. QED  BY <2>3, <2>4
  <1>. QED
    BY <1>1, <1>2

\* DONE: the last output index is kept.
LEMMA DoneStep ==
  ASSUME Inv, NEW start_i \in BOOLEAN, NEW ext, Done(start_i, ext)
  PROVE  Goal
  <1>1. state' \in {"IDLE", "DONE"} /\ out_idx' = NUM_OUTPUTS - 1
    BY DEF Done, Goto, Inv, PipelineInv
  <1>. QED
    BY <1>1 DEF Goal, PipelineInv, AccumPartial

\* Every step of the engine, reset included, preserves the invariant.
LEMMA InvStep ==
  ASSUME Inv, [ConvNext]_convVars
  PROVE  Goal
  <1>1. ASSUME NEW start_i \in BOOLEAN, NEW accumulate_i \in BOOLEAN,
               NEW ext \in ExtRequest, Clock(start_i, accumulate_i, ext)
        PROVE  Goal
    BY <1>1, IdleStep, ReadPrevOutStep, WaitPrevOutStep, FetchInputsStep,
       FetchWeightsStep, WaitCaptureStep, ComputeStep, NextKernelStep,
       WriteOutputStep, NextOutputStep, DoneStep DEF Clock
  <1>2. CASE RegisterReset
    BY <1>2 DEF RegisterReset, Goal, PipelineInv, AccumPartial
  <1>3. CASE UNCHANGED convVars
    <2>1. PipelineInv'
      BY <1>3 DEF Inv, convVars, fsm, capture, PipelineInv, InputArrives,
         WeightArrives, InputsUpTo, WeightsUpTo, InOperand, WtOperand, PrevOutput
    <2>2. AccumPartial'
      BY <1>3 DEF Inv, convVars, fsm, capture, AccumPartial, TapsDone, PrevOutput
    <2>. QED  BY <2>1, <2>2 DEF Goal
  <1>. QED
    BY <1>1, <1>2, <1>3 DEF ConvNext

-----------------------------------------------------------------------------
(* Safety *)

\* The inductive invariant holds in every reachable state.
THEOREM EngineInvariant == ConvSpec => []Inv
  <1>1. ConvInit => PipelineInv /\ AccumPartial
    BY DEF ConvInit, PipelineInv, AccumPartial
  <1>2. TypeOK /\ PipelineInv /\ AccumPartial /\ TypeOK' /\ [ConvNext]_convVars
          => PipelineInv' /\ AccumPartial'
    BY InvStep DEF Inv, Goal
  <1>3. TypeOK /\ PipelineInv /\ AccumPartial => Inv
    BY DEF Inv
  <1>. QED
    BY <1>1, <1>2, <1>3, TypeCorrect, PTL DEF ConvSpec

\* Every product is formed from the operands of its own tap, in spite of the
\* latency of the SRAM.
THEOREM OperandsCorrect == ConvSpec => []OperandsReady
  <1>1. Inv => OperandsReady
    BY PipesAreOperands DEF OperandsReady
  <1>. QED
    BY <1>1, EngineInvariant, PTL

\* In every state of the FSM the word under way in the SRAM and the registers
\* already captured are those of the current output and tap.
THEOREM PipelineCorrect == ConvSpec => []PipelineInv
  <1>1. Inv => PipelineInv
    BY DEF Inv
  <1>. QED
    BY <1>1, EngineInvariant, PTL

\* The accumulator never misses or repeats a tap.
THEOREM AccumulatorCorrect == ConvSpec => []AccumPartial
  <1>1. Inv => AccumPartial
    BY DEF Inv
  <1>. QED
    BY <1>1, EngineInvariant, PTL
=============================================================================
