------------------------------- MODULE ConvHw -------------------------------
(***************************************************************************)
(* conv1d_hw: how the firmware cuts a convolution of any size into tiles   *)
(* of the engine, and conv1d_sw, what the result has to be.  One step is   *)
(* one phase of the loop body.  A run of the engine is atomic here, as     *)
(* Conv1dTile and ConvAccel show it to be for the firmware.                *)
(*                                                                         *)
(* A word is a symbol naming the array element it was copied from, 0, or,  *)
(* for an output, the bag of products added up in it.                      *)
(***************************************************************************)
EXTENDS Conv1dLayout, FiniteSets, Bags

CONSTANTS
  Shapes,      \* the problems: records input_len, input_ch, output_ch
  Zero,        \* the word 0
  Garbage      \* a word nobody has written

ASSUME ShapesAssumption ==
  \A s \in Shapes : /\ s.input_len \in Nat /\ s.input_len >= KERNEL_K
                    /\ s.input_ch \in Nat \ {0} /\ s.output_ch \in Nat \ {0}

\* The word 0 is no symbol of an array element.
ASSUME ZeroAssumption == Zero \notin {"in_data", "filter"} \X Nat

VARIABLES
  shape,                           \* the arguments of the call
  cout_tile, t_tile, cin_tile,     \* the loop counters
  pc,                              \* the phase of the loop body
  scratchpad, output_data

vars == <<shape, cout_tile, t_tile, cin_tile, pc, scratchpad, output_data>>

output_len     == shape.input_len - KERNEL_K + 1
Tiles(n, size) == (n + size - 1) \div size
num_cin_tiles  == Tiles(shape.input_ch, TILE_CIN)
num_cout_tiles == Tiles(shape.output_ch, TILE_COUT)
num_t_tiles    == Tiles(output_len, TILE_T)

\* First element of a tile, and its elements that exist.
Start(tile, size)     == tile * size
Actual(tile, size, n) == (IF Start(tile, size) + size > n THEN n
                          ELSE Start(tile, size) + size) - Start(tile, size)
m_start == Start(cout_tile, TILE_COUT)
t_start == Start(t_tile, TILE_T)
n_start == Start(cin_tile, TILE_CIN)
actual_cout      == Actual(cout_tile, TILE_COUT, shape.output_ch)
actual_t_samples == Actual(t_tile, TILE_T, output_len)
actual_cin       == Actual(cin_tile, TILE_CIN, shape.input_ch)

\* The macros mem2d and mem3d applied to in_data and filter.
InData(c, t)    == <<"in_data", c * shape.input_len + t>>
Filter(m, c, k) == <<"filter", (m * shape.input_ch + c) * KERNEL_K + k>>

-----------------------------------------------------------------------------
Init ==
  /\ shape \in Shapes
  /\ cout_tile = 0 /\ t_tile = 0 /\ cin_tile = 0
  /\ pc = "copy_inputs"
  /\ scratchpad = [a \in Address |-> Garbage]
  /\ output_data = [i \in 0..shape.output_ch * output_len - 1 |-> Garbage]

\* Stores value[i] at address at[i], for every i of a loop nest.
Store(I, at(_), value(_)) ==
  scratchpad' = [a \in Address |->
    IF \E i \in I : at(i) = a THEN value(CHOOSE i \in I : at(i) = a)
                              ELSE scratchpad[a]]

\* Mutant: the end of the input is taken for the end of the output.
CopyInputsShort ==
  LET at(i)    == InputWord(i[1], i[2])
      value(i) == IF i[1] < actual_cin /\ t_start + i[2] < output_len
                  THEN InData(n_start + i[1], t_start + i[2]) ELSE Zero
  IN  /\ pc = "copy_inputs"
      /\ Store(Channel \X (0..INPUT_WINDOW-1), at, value)
      /\ pc' = "copy_weights"
      /\ UNCHANGED <<shape, cout_tile, t_tile, cin_tile, output_data>>

CopyInputs ==
  LET at(i)    == InputWord(i[1], i[2])
      value(i) == IF i[1] < actual_cin /\ t_start + i[2] < shape.input_len
                  THEN InData(n_start + i[1], t_start + i[2]) ELSE Zero
  IN  /\ pc = "copy_inputs"
      /\ Store(Channel \X (0..INPUT_WINDOW-1), at, value)
      /\ pc' = "copy_weights"
      /\ UNCHANGED <<shape, cout_tile, t_tile, cin_tile, output_data>>

CopyWeights ==
  LET at(i)    == WeightWord(i[1], i[2], i[3])
      value(i) == IF i[1] < actual_cout /\ i[2] < actual_cin
                  THEN Filter(m_start + i[1], n_start + i[2], i[3]) ELSE Zero
  IN  /\ pc = "copy_weights"
      /\ Store((0..TILE_COUT-1) \X Channel \X Kernel, at, value)
      /\ pc' = "run"
      /\ UNCHANGED <<shape, cout_tile, t_tile, cin_tile, output_data>>

\* The bag of the products that the engine adds up in output j; one with a
\* factor 0 adds nothing.
Products(j) ==
  LET product(i) == <<Operands(scratchpad, j, i[2])[1][i[1]],
                      Operands(scratchpad, j, i[2])[2][i[1]]>>
      added == {i \in Channel \X Kernel : product(i)[1] # Zero /\ product(i)[2] # Zero}
  IN  [p \in {product(i) : i \in added} |->
         Cardinality({i \in added : product(i) = p})]

\* Mutant: every pass overwrites.
BaseNever(w) == EmptyBag

\* What a pass adds to, by the mode it is run in.
Base(w) == IF cin_tile > 0 THEN w ELSE EmptyBag

\* Mutant: the pass counter stands still.
PassRestarted == UNCHANGED cin_tile

MorePasses == cin_tile + 1 < num_cin_tiles
NextPass   == cin_tile' = cin_tile + 1

\* conv_accel_set_accumulate, _start and _wait, then the cin_tile loop's end.
RunTile ==
  /\ pc = "run"
  /\ scratchpad' = [a \in Address |->
       IF a \in OUTPUT_BASE..OUTPUT_BASE + NUM_OUTPUTS - 1
       THEN Base(scratchpad[a]) (+) Products(a - OUTPUT_BASE)
       ELSE scratchpad[a]]
  /\ IF MorePasses
     THEN NextPass /\ pc' = "copy_inputs"
     ELSE UNCHANGED cin_tile /\ pc' = "read_outputs"
  /\ UNCHANGED <<shape, cout_tile, t_tile, output_data>>

\* Mutant: the read loops do not stop at the end of a partial tile.
WholeTile == (0..TILE_COUT - 1) \X (0..TILE_T - 1)

\* The elements of output_data that the read loops of this tile assign.
TileOutputs == (0..actual_cout - 1) \X (0..actual_t_samples - 1)
OutputIndex(m, t) == (m_start + m) * output_len + (t_start + t)

ReadOutputs ==
  LET index(o) == OutputIndex(o[1], o[2])
      last_t   == t_tile + 1 = num_t_tiles
  IN  /\ pc = "read_outputs"
      /\ output_data' = [i \in DOMAIN output_data |->
           IF \E o \in TileOutputs : index(o) = i
           THEN LET o == CHOOSE o \in TileOutputs : index(o) = i
                IN  scratchpad[OutputWord(o[1], o[2])]
           ELSE output_data[i]]
      /\ cin_tile' = 0
      /\ t_tile' = IF last_t THEN 0 ELSE t_tile + 1
      /\ cout_tile' = IF last_t THEN cout_tile + 1 ELSE cout_tile
      /\ pc' = IF last_t /\ cout_tile + 1 = num_cout_tiles
               THEN "returned" ELSE "copy_inputs"
      /\ UNCHANGED <<shape, scratchpad>>

Next == CopyInputs \/ CopyWeights \/ RunTile \/ ReadOutputs

Spec == Init /\ [][Next]_vars /\ WF_vars(Next)

-----------------------------------------------------------------------------
(* conv1d_sw, with the PAD = 0 and STRIDE = 1 that conv1d_hw takes for     *)
(* granted: the products added up in output o of channel m, over the first *)
(* n input channels.                                                       *)
Reference(m, o, n) ==
  SetToBag({<<InData(c, o + k), Filter(m, c, k)>> : c \in 0..n-1, k \in Kernel})

\* The loop counters stay in the problem and the arrays keep their shape.
TypeOK ==
  /\ shape \in Shapes
  /\ cout_tile \in 0..num_cout_tiles
  /\ t_tile \in 0..num_t_tiles - 1 /\ cin_tile \in 0..num_cin_tiles - 1
  /\ pc \in {"copy_inputs", "copy_weights", "run", "read_outputs", "returned"}
  /\ DOMAIN scratchpad = Address
  /\ DOMAIN output_data = 0..shape.output_ch * output_len - 1

\* Between the passes the scratchpad holds the sums over the input channels
\* already processed: no product is missed, doubled or taken from a word
\* that belongs to the padding of a partial tile or to an earlier tile.
PassesAccumulate ==
  LET processed == IF pc = "read_outputs" THEN shape.input_ch ELSE n_start
  IN  pc = "read_outputs" \/ (pc = "copy_inputs" /\ cin_tile > 0) =>
        \A m \in 0..actual_cout-1, t \in 0..actual_t_samples-1 :
          scratchpad[OutputWord(m, t)] = Reference(m_start + m, t_start + t, processed)

\* The loops stay in their tiles, and the sums between passes are right.
TilesCorrect == TypeOK /\ PassesAccumulate

\* When conv1d_hw returns, its result is that of conv1d_sw, whole.
SameAsSoftware ==
  pc = "returned" =>
    \A m \in 0..shape.output_ch-1, o \in 0..output_len-1 :
      output_data[m * output_len + o] = Reference(m, o, shape.input_ch)

\* No output is assigned twice: tiles do not overlap in output_data, which is
\* indexed flat, even where the last tiles stick out of the problem.
AssignedOnce ==
  [][\A i \in DOMAIN output_data :
       output_data[i] # Garbage => output_data'[i] = output_data[i]]_vars

\* The call returns, for every shape of the problem.
Returns == <>(pc = "returned")
=============================================================================
