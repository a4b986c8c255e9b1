------------------------------ MODULE DataFiles ------------------------------
(***************************************************************************)
(* The golden model and, beside it, the generator of C files through which *)
(* scripts like it write.  Both have a header and a source; those of the   *)
(* generator, whichever script fills it, are data_h and data_c here.       *)
(***************************************************************************)
EXTENDS Datagen

CONSTANTS Name, DType, Sizes, SourceFiles, MaxItems, None   \* of CGen

VARIABLES
  binaries, codes, input_matrices, output_matrices, macros_raw, filesize,
  data_h, data_c, fresh, raised

Gen == INSTANCE CGen WITH header <- data_h, source <- data_c

\* Sizes are numbers, lines of three kinds.
ASSUME GenAssumption == Gen!SizesAndLines

\* The header and the source that the generator writes are well-formed and
\* agree, after any sequence of calls and failures (c_gen.py:69-160).
GenCorrect == Gen!GenCorrect
=============================================================================
