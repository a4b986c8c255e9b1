------------------------------ MODULE MCConv1dTb ------------------------------
(***************************************************************************)
(* The testbench on every problem up to a few tiles in each direction.     *)
(***************************************************************************)
EXTENDS Conv1dTb

CONSTANTS MaxLen, MaxCin, MaxCout

MCShapes == [input_len : KERNEL_K..MaxLen, input_ch : 1..MaxCin, output_ch : 1..MaxCout]
=============================================================================
