---------------------------- MODULE Conv1dLayout ----------------------------
(***************************************************************************)
(* The tile geometry and the scratchpad address map shared by the RTL      *)
(* (conv1d.sv), the firmware (conv1d.c) and the testbench.                 *)
(*                                                                         *)
(* A scratchpad word is addressed by its word index.  The scratchpad holds *)
(* three regions: TILE_CIN input windows, TILE_COUT x TILE_CIN kernels and *)
(* NUM_OUTPUTS output words.                                               *)
(***************************************************************************)
EXTENDS Integers, Sequences

CONSTANTS
  TILE_CIN,      \* input channels per tile: the number of multipliers
  TILE_COUT,     \* output channels per tile
  TILE_T,        \* output samples per channel and tile
  KERNEL_K,      \* taps of the kernel
  INPUT_BASE,    \* first word of the input windows
  WEIGHT_BASE,   \* first word of the kernels
  OUTPUT_BASE,   \* first word of the outputs
  NumWords       \* words of the scratchpad

INPUT_WINDOW == TILE_T + KERNEL_K - 1
NUM_OUTPUTS  == TILE_COUT * TILE_T

(***************************************************************************)
(* What the widths of the counters and the address map of conv1d.sv need:  *)
(* fetch_cnt is 2 bits, out_ch 1 bit, t_pos 4 bits, kernel_idx 3 bits and  *)
(* out_idx 5 bits; an address is 7 bits; the regions follow each other.    *)
(***************************************************************************)
ASSUME GeometryAssumption ==
  /\ TILE_CIN \in 1..4
  /\ TILE_COUT \in 1..2
  /\ TILE_T \in 1..15
  /\ KERNEL_K \in 1..8

ASSUME LayoutAssumption ==
  /\ INPUT_BASE \in Nat /\ WEIGHT_BASE \in Nat
  /\ OUTPUT_BASE \in Nat /\ NumWords \in 1..128
  /\ INPUT_BASE + TILE_CIN * INPUT_WINDOW <= WEIGHT_BASE
  /\ WEIGHT_BASE + TILE_COUT * (TILE_CIN * KERNEL_K) <= OUTPUT_BASE
  /\ OUTPUT_BASE + NUM_OUTPUTS <= NumWords

Channel == 0..TILE_CIN-1
Kernel  == 0..KERNEL_K-1
Output  == 0..NUM_OUTPUTS-1
Address == 0..NumWords-1

(***************************************************************************)
(* The documented map: inputs[c][t], weights[m][c][k] and outputs[m][t].   *)
(* Output j of a tile is sample SampleOf(j) of output channel ChannelOf(j).*)
(***************************************************************************)
InputWord(c, t)     == INPUT_BASE + c * INPUT_WINDOW + t
WeightWord(m, c, k) == WEIGHT_BASE + m * (TILE_CIN * KERNEL_K) + c * KERNEL_K + k
OutputWord(m, t)    == OUTPUT_BASE + m * TILE_T + t

ChannelOf(j) == IF j < TILE_T THEN 0 ELSE 1
SampleOf(j)  == j - ChannelOf(j) * TILE_T

(***************************************************************************)
(* Data is symbolic: a word the CPU wrote is an opaque value, and the word *)
(* that the datapath computes is the formal sum of a base word and of one  *)
(* dot product of TILE_CIN operands per tap, in the order it adds them.    *)
(* Two equal formal sums are equal in every 32-bit arithmetic.             *)
(***************************************************************************)
FormalSum(base, taps) == [base |-> base, taps |-> taps]
AddDot(sum, x, w)     == [sum EXCEPT !.taps = Append(@, <<x, w>>)]

Operands(m, j, k) ==
  << [c \in Channel |-> m[InputWord(c, SampleOf(j) + k)]],
     [c \in Channel |-> m[WeightWord(ChannelOf(j), c, k)]] >>

\* The first n taps of output j over the scratchpad m, on top of base.
PartialSum(m, base, j, n) ==
  FormalSum(base, [i \in 1..n |-> Operands(m, j, i - 1)])
=============================================================================
