--------------------------------- MODULE CGen ---------------------------------
(***************************************************************************)
(* The generator of the C header and source with the test data             *)
(* (common/c_gen.py, class CFileGen).  Arrays and macros are registered    *)
(* first; write_header and write_source each run through the lists and     *)
(* write their file.  A binary file is only named when it is registered:   *)
(* its size is read once for the header and its bytes once for the source, *)
(* and it may change in between.                                           *)
(***************************************************************************)
EXTENDS Naturals, Sequences

CONSTANTS
  Name, DType,
  Sizes,        \* sizes in bytes a binary file may have, lengths of matrices
  SourceFiles,  \* the C files macros are taken from: sequences of line kinds
  NoFile, None,
  MaxItems      \* bound on the arrays, and on the source files, registered

\* Sizes are numbers, lines of three kinds.
SizesAndLines ==
  /\ Sizes \subseteq Nat
  /\ SourceFiles \subseteq Seq({"other", "macro", "guard"})

VARIABLES
  binaries, codes, input_matrices, output_matrices,   \* sequences of [name, ..]
  macros_raw,   \* the macros copied from each source file, by line
  filesize,     \* the binary files' sizes on disk
  header, source,   \* the files written: what they declare and define
  fresh,        \* nothing has changed since the header was written
  raised        \* the exception that has ended the script

lists == <<binaries, codes, input_matrices, output_matrices>>
vars  == <<lists, macros_raw, filesize, header, source, fresh, raised>>

Items == binaries \o codes \o input_matrices \o output_matrices
Matrices == input_matrices \o output_matrices

itemsize(dtype) == IF dtype \in {"int8", "uint8"} THEN 1
                   ELSE IF dtype \in {"int16", "uint16"} THEN 2 ELSE 4

\* The types in the two tables: only signed ones have an unsigned counterpart.
dtype_to_ctype  == {"int8", "int16", "int32", "uint8", "uint16", "uint32"}
signed2unsigned == {"int8", "int16", "int32"}

-----------------------------------------------------------------------------
(* Registering: only appends; arrays of the four lists share one name space. *)

Register(list, item) ==
  /\ raised = None /\ Len(Items) < MaxItems
  /\ list' = Append(list, item)
  /\ fresh' = FALSE
  /\ UNCHANGED <<macros_raw, filesize, header, source, raised>>

add_binary(n) ==
  /\ Register(binaries, [name |-> n])
  /\ UNCHANGED <<codes, input_matrices, output_matrices>>
add_code(n, len) ==
  /\ Register(codes, [name |-> n, len |-> len])
  /\ UNCHANGED <<binaries, input_matrices, output_matrices>>
add_input_matrix(n, len, t) ==
  /\ Register(input_matrices, [name |-> n, len |-> len, dtype |-> t])
  /\ UNCHANGED <<binaries, codes, output_matrices>>
add_output_matrix(n, len, t) ==
  /\ Register(output_matrices, [name |-> n, len |-> len, dtype |-> t])
  /\ UNCHANGED <<binaries, codes, input_matrices>>

\* A #define without a value ends the reading.
Guards(lines) == {i \in 1..Len(lines) : lines[i] = "guard"}

MacrosRead(lines) ==
  {i \in 1..Len(lines) : lines[i] # "other" /\ \A g \in Guards(lines) : i < g}

\* add_macros_from_source: a #define without a value is an IndexError, after
\* the macros above it have been added.
add_macros_from_source(lines) ==
  /\ raised = None /\ Len(macros_raw) < MaxItems
  /\ macros_raw' = Append(macros_raw, [i \in MacrosRead(lines) |-> lines[i]])
  /\ raised' = IF Guards(lines) # {} THEN "IndexError" ELSE None
  /\ fresh' = FALSE
  /\ UNCHANGED <<lists, filesize, header, source>>

-----------------------------------------------------------------------------
(* Writing. *)

\* Mutant: the size of the binary is not rounded up.
BinarySizeRaw(n) == filesize[n]
BinarySize(n) ==
  LET rest == filesize[n] % 4 IN filesize[n] + (IF rest # 0 THEN 4 - rest ELSE 0)

\* gen_header: per array an extern declaration and a macro with its size.
gen_header ==
  [macros |-> macros_raw,
   externs |-> [i \in 1..Len(Items) |->
     LET x == Items[i] IN
       [name |-> x.name,
        ctype |-> IF i <= Len(binaries) + Len(codes) THEN "word" ELSE x.dtype,
        size  |-> IF i <= Len(binaries) THEN BinarySize(x.name)
                  ELSE IF i <= Len(binaries) + Len(codes) THEN x.len * 4
                  ELSE x.len * itemsize(x.dtype)]]]

\* format_binary pads the bytes to whole words.
BinaryWords(n) == (filesize[n] \div 4) + (IF (filesize[n] % 4) # 0 THEN 1 ELSE 0)

gen_source ==
  [i \in 1..Len(Items) |->
     LET x == Items[i] IN
       [name |-> x.name,
        ctype |-> IF i <= Len(binaries) + Len(codes) THEN "word" ELSE x.dtype,
        len   |-> IF i <= Len(binaries) THEN BinaryWords(x.name) ELSE x.len]]

Declare ==
  /\ IF \A i \in 1..Len(Matrices) : Matrices[i].dtype \in dtype_to_ctype
       THEN header' = gen_header /\ fresh' = TRUE /\ UNCHANGED raised
       ELSE raised' = "KeyError" /\ UNCHANGED <<header, fresh>>
  /\ UNCHANGED <<lists, macros_raw, filesize, source>>

write_header == raised = None /\ Declare

\* append_header: without a guard's name the text it extends was never begun.
append_header(guarded) ==
  /\ raised = None
  /\ IF guarded THEN Declare
     ELSE /\ raised' = "UnboundLocalError"
          /\ UNCHANGED <<lists, macros_raw, filesize, header, source, fresh>>

\* The text is complete before the file is opened, so format_matrix, which
\* knows only signed types, leaves the old file when it fails.
write_source ==
  /\ raised = None
  /\ IF \A i \in 1..Len(Matrices) : Matrices[i].dtype \in signed2unsigned
       THEN source' = gen_source /\ UNCHANGED raised
       ELSE raised' = "KeyError" /\ UNCHANGED source
  /\ UNCHANGED <<lists, macros_raw, filesize, header, fresh>>

\* Another build step rewrites a binary.
Rebuild ==
  /\ \E n \in Name, s \in Sizes : filesize' = [filesize EXCEPT ![n] = s]
  /\ fresh' = FALSE
  /\ UNCHANGED <<lists, macros_raw, header, source, raised>>

Init ==
  /\ binaries = <<>> /\ codes = <<>> /\ input_matrices = <<>> /\ output_matrices = <<>>
  /\ macros_raw = <<>>
  /\ filesize \in [Name -> Sizes]
  /\ header = NoFile /\ source = NoFile
  /\ fresh = FALSE /\ raised = None

Next ==
  \/ \E n \in Name : add_binary(n)
  \/ \E n \in Name, s \in Sizes : add_code(n, s)
  \/ \E n \in Name, s \in Sizes, t \in DType : add_input_matrix(n, s, t)
  \/ \E n \in Name, s \in Sizes, t \in DType : add_output_matrix(n, s, t)
  \/ \E lines \in SourceFiles : add_macros_from_source(lines)
  \/ write_header \/ write_source \/ (\E g \in BOOLEAN : append_header(g))
  \/ Rebuild

Spec == Init /\ [][Next]_vars

-----------------------------------------------------------------------------
TypeOK ==
  /\ \A i \in 1..Len(Items) : Items[i].name \in Name
  /\ \A i \in 1..Len(macros_raw) :
       \A l \in DOMAIN macros_raw[i] : macros_raw[i][l] = "macro"
  /\ header # NoFile => \A i \in 1..Len(header.externs) :
       header.externs[i].size \in Nat /\ header.externs[i].ctype \in dtype_to_ctype \cup {"word"}
  /\ source # NoFile => \A i \in 1..Len(source) :
       source[i].ctype \in signed2unsigned \cup {"word"}

\* Bytes a definition takes up.
Bytes(d) == d.len * (IF d.ctype = "word" THEN 4 ELSE itemsize(d.ctype))

\* A source written after its header, with nothing changed in between, defines
\* what the header declares: same names, types and number of bytes, although
\* the two are computed from the file's size and from its contents.
HeaderMatchesSource ==
  [][source' # source /\ fresh =>
       /\ Len(source') = Len(header.externs)
       /\ \A i \in 1..Len(source') :
            LET e == header.externs[i] IN
              source'[i].name = e.name /\ source'[i].ctype = e.ctype /\ Bytes(source'[i]) = e.size]_vars

\* The files have types of the tables only, whatever was called and failed; and
\* a source agrees with its header if nothing has changed in between
\* (c_gen.py:229-385).
GenCorrect == []TypeOK /\ HeaderMatchesSource
=============================================================================
