----------------------------- MODULE MCGenerators -----------------------------
(***************************************************************************)
(* The scripts that generate data and layouts, in one run: the golden      *)
(* model, the generator of C files and its formatting, the layout stream.  *)
(* A behaviour is one of one script; the others stay where they start.     *)
(***************************************************************************)
EXTENDS DataFiles, Def2Stream, CGenFormat, TLC

VARIABLE part

-----------------------------------------------------------------------------
(* Datagen: up to two channels and filter sets, five samples, five taps,   *)
(* strides up to three, two samples of padding; kernels longer than the    *)
(* padded input are among them.                                            *)

MCArguments ==
  [input_ch: 1..2, k_num: 1..2, input_len: 1..5, kernel_len: 0..5,
   stride: 0..3, pad: 0..2]

(* CGen: binaries of 0 and 3 bytes; the include guard of a header is a     *)
(* #define without a value.                                                *)

MCDType       == {"int8", "int32", "uint16", "int64"}
MCSourceFiles == {<<"other", "macro", "macro">>, <<"macro", "guard", "macro">>}

(* CGenFormat: every shape of one to four dimensions of none to three, and *)
(* long vectors; elements of four bits that go up in threes from each of   *)
(* the sixteen, and wrap around.                                           *)

Shapes == UNION {[1..k -> 0..3] : k \in 1..4} \cup {<<8>>, <<9>>, <<16>>, <<17>>}
MCArrays ==
  {[shape |-> s, elements |-> [i \in 1..Size(s) |-> ((first + 3 * i) % 16) - 8]] :
     s \in Shapes, first \in 0..15}

(* Def2Stream: two gates, a macro with a block inside, and a via; up to    *)
(* three of the files below, in every order, so that gates are missing, a  *)
(* cell comes twice, and the macro comes with and without its block.       *)

MCCell == {"top", "nand", "inv", "sram", "block", "VIA_1"}

MCVia        == {"VIA_1"}
MCAllowEmpty == {"inv"}
MCPlacements == {p \in SUBSET (MCCell \ {"top", "block"}) : "nand" \in p}
MCStreams    == {"nand" :> {}, "inv" :> {} @@ "nand" :> {}, "sram" :> {"block"},
                 "sram" :> {"block"} @@ "block" :> {}, "block" :> {}}

-----------------------------------------------------------------------------
genVars == <<binaries, codes, input_matrices, output_matrices, macros_raw, filesize,
             data_h, data_c, fresh, raised>>

MCInit ==
  /\ part \in {"datagen", "cgen", "format", "layout"}
  /\ args \in IF part = "datagen" THEN Arguments ELSE {CHOOSE a \in Arguments : TRUE}
  /\ Init
  /\ filesize \in IF part = "cgen" THEN [Name -> Sizes] ELSE {[x \in Name |-> 0]}
  /\ Gen!Init
  /\ IF part = "format" THEN TRUE ELSE matrix = CHOOSE a \in Arrays : TRUE
  /\ FormatInit
  /\ IF part = "layout" THEN TRUE
     ELSE files = <<>> /\ children = [c \in MCCell |-> IF c = "top" THEN {"nand"} ELSE {}]
  /\ StreamInit

MCNext ==
  /\ UNCHANGED part
  /\ \/ part = "datagen" /\ Next        /\ UNCHANGED <<genVars, formatVars, streamVars>>
     \/ part = "cgen"    /\ Gen!Next    /\ UNCHANGED <<vars, formatVars, streamVars>>
     \/ part = "format"  /\ FormatNext  /\ UNCHANGED <<vars, genVars, streamVars>>
     \/ part = "layout"  /\ StreamNext  /\ UNCHANGED <<vars, genVars, formatVars>>

MCSpec == MCInit /\ [][MCNext]_<<part, vars, genVars, formatVars, streamVars>>
=============================================================================
