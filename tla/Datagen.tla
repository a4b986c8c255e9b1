------------------------------- MODULE Datagen -------------------------------
(***************************************************************************)
(* The golden model: datagen.py draws a convolution's operands, computes   *)
(* the expected outputs R with numpy and writes all of it as C data, which *)
(* main.c compares with what conv1d_sw and conv1d_hw compute.  The same    *)
(* script stands beside the testbench and beside the SoC program.          *)
(*                                                                         *)
(* Samples and taps are symbols, an output is the bag of the products      *)
(* added to it, and a product with a padding zero adds nothing.            *)
(***************************************************************************)
EXTENDS Integers, Bags, SequencesExt

CONSTANTS
  Arguments, \* the command lines: records of the script's six sizes
  Wrap,      \* the modulus of uint32_t, cut to the sizes at hand
  NoFile

ASSUME ArgumentsAssumption ==
  /\ Wrap \in Nat
  /\ \A a \in Arguments :
       /\ {a.input_ch, a.k_num} \subseteq Nat \ {0}
       /\ {a.input_len, a.kernel_len, a.stride, a.pad} \subseteq Nat
       /\ a.input_len + 2 * a.pad + a.kernel_len < Wrap

VARIABLES
  args,                \* the sizes of this run
  pc,                  \* "args", "loop", "header", "source", "done", "failed"
  m, n,                \* the filter set and the channel to add next
  accumulated_output,
  R,                   \* the golden outputs, one row per filter set
  header, source       \* data.h: the macros; data.c: the outputs

vars == <<args, pc, m, n, accumulated_output, R, header, source>>

Zero       == <<"zero">>
A(c, i)    == <<"A", c, i>>
F(f, c, k) == <<"F", f, c, k>>

padded_len == args.input_len + 2 * args.pad

output_len == (padded_len - args.kernel_len) \div args.stride + 1

zeros(len) == [o \in 1..len |-> EmptyBag]

Init ==
  /\ args \in Arguments
  /\ pc = "args"
  /\ m = 0 /\ n = 0
  /\ accumulated_output = <<>>
  /\ R = <<>>
  /\ header = NoFile /\ source = NoFile

\* A zero stride divides by zero, and numpy refuses a negative dimension.
BadSizes == IF args.stride = 0 THEN TRUE ELSE output_len < 0

Prepare ==
  /\ pc = "args"
  /\ IF BadSizes
     THEN pc' = "failed" /\ UNCHANGED <<R, accumulated_output>>
     ELSE /\ pc' = "loop"
          /\ R' = [f \in 0..args.k_num-1 |-> zeros(output_len)]
          /\ accumulated_output' = zeros(output_len)
  /\ UNCHANGED <<args, m, n, header, source>>

-----------------------------------------------------------------------------
\* One filter set and one channel.

\* The zeros at the end only.
input_padded_end ==
  [j \in 1..padded_len |-> IF j <= args.input_len THEN A(n, j - 1) ELSE Zero]

input_padded ==
  [j \in 1..padded_len |->
     IF j - args.pad \in 1..args.input_len THEN A(n, j - args.pad - 1) ELSE Zero]

filter_values == [k \in 1..args.kernel_len |-> F(m, n, k - 1)]

\* The products of the window of `long` that starts at i with `short`.
Dot(long, short, i) ==
  SetToBag({{long[i + k - 1], short[k]} :
              k \in {k \in 1..Len(short) : Zero \notin {long[i + k - 1], short[k]}}})

Slide(long, short) == [i \in 1..Len(long)-Len(short)+1 |-> Dot(long, short, i)]

\* The filter reversed, as a convolution has it.
convolve(a, v) == Slide(a, Reverse(v))

\* numpy.correlate, 'valid': the shorter operand slides over the longer one,
\* and the result is turned round when the operands were exchanged.
correlate(a, v) ==
  IF Len(a) >= Len(v) THEN Slide(a, v) ELSE Reverse(Slide(v, a))

conv_strided ==
  LET conv_result == correlate(input_padded, filter_values)
  IN  [o \in 1..((Len(conv_result) + args.stride - 1) \div args.stride) |->
         conv_result[(o - 1) * args.stride + 1]]

\* The slice [:output_len].
addend == SubSeq(conv_strided, 1, Min({output_len, Len(conv_strided)}))

\* numpy adds arrays of one length, or repeats an array of length 1.
Fits == Len(addend) \in {output_len, 1}

Sum == [o \in 1..output_len |->
          accumulated_output[o] (+) addend[IF Len(addend) = 1 THEN 1 ELSE o]]

NoOperand == padded_len = 0 \/ args.kernel_len = 0

\* The next filter set goes on from the sums of the last.
NextSetKept == UNCHANGED accumulated_output

NextSet == accumulated_output' = zeros(output_len)

Accumulate ==
  /\ pc = "loop"
  /\ IF NoOperand \/ ~Fits
     THEN pc' = "failed" /\ UNCHANGED <<m, n, accumulated_output, R>>
     ELSE IF n + 1 < args.input_ch
     THEN /\ accumulated_output' = Sum
          /\ n' = n + 1
          /\ UNCHANGED <<pc, m, R>>
     ELSE /\ R' = [R EXCEPT ![m] = Sum]
          /\ NextSet
          /\ m' = m + 1
          /\ n' = 0
          /\ pc' = IF m + 1 < args.k_num THEN "loop" ELSE "header"
  /\ UNCHANGED <<args, header, source>>

-----------------------------------------------------------------------------
write_header ==
  /\ pc = "header"
  /\ header' = args
  /\ pc' = "source"
  /\ UNCHANGED <<args, m, n, accumulated_output, R, source>>

write_source ==
  /\ pc = "source"
  /\ source' = R
  /\ pc' = "done"
  /\ UNCHANGED <<args, m, n, accumulated_output, R, header>>

Next == Prepare \/ Accumulate \/ write_header \/ write_source

Spec == Init /\ [][Next]_vars

-----------------------------------------------------------------------------
\* What the C program computes from the macros of the header.

sw_output_len ==
  ((header.input_len + 2 * header.pad - header.kernel_len) % Wrap) \div header.stride + 1

conv1d_sw(f, o) ==
  LET input_start == o * header.stride - header.pad
      inside == {k \in 0..header.kernel_len-1 : input_start + k \in 0..header.input_len-1}
  IN  SetToBag({{A(c, input_start + k), F(f, c, k)} :
                  c \in 0..header.input_ch-1, k \in inside})

Rows == 0..args.k_num-1

TypeOK ==
  /\ args \in Arguments
  /\ pc \in {"args", "loop", "header", "source", "done", "failed"}
  /\ m \in 0..args.k_num /\ n \in 0..args.input_ch-1
  /\ pc \notin {"args", "failed"} =>
       /\ DOMAIN R = Rows
       /\ \A f \in Rows : Len(R[f]) = output_len
  /\ header \in {NoFile, args}
  /\ source \in {NoFile, R}

\* The outputs written, unless there are none, are those the CPU's own loops compute from the macros
\* written beside them, for every stride, padding and number of channels, a
\* kernel that just fits included (datagen.py:143-169, conv1d.c:8-53: two
\* programs by two routes, with the padding added on one and tested on the
\* other, compared by main.c:62).
GoldenIsSoftware ==
  pc = "done" /\ output_len > 0 =>
    /\ output_len = sw_output_len
    /\ \A f \in Rows, o \in 0..output_len-1 : source[f][o + 1] = conv1d_sw(f, o)

\* The loop adds arrays that fit: once the sizes are accepted only an operand
\* without elements makes the script fail, so no choice of stride makes the
\* slice of the correlation shorter than output_len (datagen.py:137, 163-166,
\* where the two lengths come from different formulas).
OnlyEmptyOperandsFail ==
  pc = "failed" => args.stride = 0 \/ NoOperand \/ args.kernel_len > padded_len

\* The data describes a convolution together with its result: a golden model
\* for every size that has outputs (datagen.py:9, 137-169).
GoldenCorrect == TypeOK /\ GoldenIsSoftware /\ OnlyEmptyOperandsFail
=============================================================================
