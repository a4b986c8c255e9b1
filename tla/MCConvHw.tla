------------------------------ MODULE MCConvHw ------------------------------
(* conv1d_hw for every problem up to a few tiles in each direction.        *)
EXTENDS ConvHw

CONSTANTS MaxLen, MaxCin, MaxCout

MCShapes == [input_len : KERNEL_K..MaxLen, input_ch : 1..MaxCin, output_ch : 1..MaxCout]
=============================================================================
