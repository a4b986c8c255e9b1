--------------------------- MODULE Generators_proofs ---------------------------
(***************************************************************************)
(* The scripts that generate data and layouts.                             *)
(*                                                                         *)
(* The golden outputs are what conv1d_sw computes, for every size of the   *)
(* problem: with a kernel that fits, the strided positions of the          *)
(* correlation are the outputs, each the products of its window without    *)
(* the padding; and channels have no product in common.                    *)
(*                                                                         *)
(* The layout sent out is complete when the script reports success, for    *)
(* every design, library and order of the files: copy_tree reaches every   *)
(* cell placed at any depth, since each level adds a cell or ends.         *)
(*                                                                         *)
(* Header and source agree, for any arrays: each entry is of the same      *)
(* list, and rounding a size up to words gives the same as counting them.  *)
(*                                                                         *)
(* The text of an array is read back as that array, for any dimensions:    *)
(* what a subarray of any level contributes is a list of its elements      *)
(* between comments that match.                                            *)
(***************************************************************************)
EXTENDS DataFiles, Def2Stream, CGenFormat, FiniteSetTheorems, SequenceTheorems,
        WellFoundedInduction, TLAPS

-----------------------------------------------------------------------------
(* The inductive invariant of the golden model *)

\* The taps of output o that meet a sample and not the padding.
Inside(o) == {k \in 0..args.kernel_len-1 :
                o * args.stride - args.pad + k \in 0..args.input_len-1}

\* The products of channel c in output o of filter set f.
Products(f, c, o) ==
  {{A(c, o * args.stride - args.pad + k), F(f, c, k)} : k \in Inside(o)}

\* The sum over the first channels.
Golden(f, channels, o) == SetToBag(UNION {Products(f, c, o) : c \in 0..channels-1})

Begun == pc \notin {"args", "failed"}

PlaceInv ==
  /\ Begun => ~BadSizes
  /\ pc = "args" => m = 0 /\ n = 0
  /\ pc = "loop" => m < args.k_num
  /\ pc \in {"header", "source", "done"} => m = args.k_num
  /\ pc \in {"source", "done"} => header = args
  /\ pc = "done" => source = R
  /\ pc \notin {"source", "done"} => header = NoFile
  /\ pc # "done" => source = NoFile

SumInv ==
  pc = "loop" => \A o \in 0..output_len-1 : accumulated_output[o + 1] = Golden(m, n, o)

RowInv ==
  Begun =>
    \A f \in 0..m-1, o \in 0..output_len-1 : R[f][o + 1] = Golden(f, args.input_ch, o)

\* GoldenIsSoftware speaks of the end only: added are the sums of the rows that
\* are complete, that of the row in progress over its channels so far, and what
\* each place of the script has written.
DatagenInv == TypeOK /\ PlaceInv /\ SumInv /\ RowInv /\ OnlyEmptyOperandsFail

-----------------------------------------------------------------------------
(* Sizes *)

LEMMA SizeFacts ==
  ASSUME args \in Arguments
  PROVE  /\ args.input_ch \in Nat \ {0} /\ args.k_num \in Nat \ {0}
         /\ args.input_len \in Nat /\ args.kernel_len \in Nat
         /\ args.stride \in Nat /\ args.pad \in Nat
         /\ padded_len = args.input_len + 2 * args.pad /\ padded_len \in Nat
  BY ArgumentsAssumption DEF padded_len

\* Rounding down: the largest multiple of s that is not beyond i.
LEMMA Quotient ==
  ASSUME NEW i \in Int, NEW s \in Nat \ {0}
  PROVE  /\ i \div s \in Int
         /\ (i \div s) * s \in Int
         /\ (i \div s) * s <= i /\ i < (i \div s) * s + s
         /\ (i + s) \div s = i \div s + 1
         /\ i \div s >= 0 <=> i >= 0
  <1> DEFINE q == i \div s
             r == i % s
             p == (i + s) \div s
             t == (i + s) % s
  <1>1. q \in Int /\ r \in 0..s-1 /\ i = s * q + r
    BY SMT
  <1>2. p \in Int /\ t \in 0..s-1 /\ i + s = s * p + t
    BY SMT
  <1> HIDE DEF q, r, p, t
  <1>3. q * s = s * q /\ s * q \in Int /\ s * p \in Int
    BY <1>1, <1>2, SMT
  <1>4. s * (q + 1) = s * q + s /\ s * (p - 1) = s * p - s
    BY <1>1, <1>2, SMT
  <1>5. p = q + 1
    <2>1. CASE p < q + 1
      <3>1. p <= q
        BY <1>1, <1>2, <2>1
      <3>2. s * p <= s * q
        BY <1>1, <1>2, <3>1, SMT
      <3>. QED  BY <1>1, <1>2, <1>3, <3>2
    <2>2. CASE p > q + 1
      <3>1. q + 1 <= p - 1
        BY <1>1, <1>2, <2>2
      <3>2. s * (q + 1) <= s * (p - 1)
        BY <1>1, <1>2, <3>1, SMT
      <3>. QED  BY <1>1, <1>2, <1>3, <1>4, <3>2
    <2>. QED  BY <1>1, <1>2, <2>1, <2>2
  <1>6. q >= 0 <=> i >= 0
    <2>1. CASE q >= 0
      <3>1. s * q >= 0
        BY <1>1, <2>1, SMT
      <3>. QED  BY <1>1, <1>3, <2>1, <3>1
    <2>2. CASE q < 0
      <3>1. q <= -1
        BY <1>1, <2>2
      <3>2. s * q <= -s
        BY <1>1, <3>1, SMT
      <3>. QED  BY <1>1, <1>3, <2>2, <3>2
    <2>. QED  BY <1>1, <2>1, <2>2
  <1>. QED  BY <1>1, <1>2, <1>3, <1>5, <1>6 DEF q, p

\* The sizes that the script goes on with.
LEMMA OutputLength ==
  ASSUME args \in Arguments
  PROVE  /\ ~BadSizes => args.stride \in Nat \ {0} /\ output_len \in Nat
         /\ BadSizes => args.stride = 0 \/ args.kernel_len > padded_len
         /\ args.stride # 0 /\ output_len > 0 => args.kernel_len <= padded_len
  <1>1. CASE args.stride = 0
    BY <1>1 DEF BadSizes
  <1>2. CASE args.stride # 0
    <2> DEFINE room == padded_len - args.kernel_len
    <2>1. room \in Int /\ args.stride \in Nat \ {0} /\ padded_len \in Nat /\ args.kernel_len \in Nat
      BY <1>2, SizeFacts
    <2>2. output_len = room \div args.stride + 1
      BY DEF output_len
    <2>3. room \div args.stride \in Int /\ (room \div args.stride >= 0 <=> room >= 0)
      <3> HIDE DEF room
      <3>. QED  BY <2>1, Quotient
    <2>. QED  BY <1>2, <2>1, <2>2, <2>3 DEF BadSizes
  <1>. QED  BY <1>1, <1>2

\* With a kernel that fits, the windows of all outputs lie in the padded input.
LEMMA Window ==
  ASSUME args \in Arguments, ~BadSizes, NEW o \in 0..output_len-1
  PROVE  /\ o \in Nat /\ o * args.stride \in Nat
         /\ o * args.stride + args.kernel_len <= padded_len
  <1> DEFINE room == padded_len - args.kernel_len
             s    == args.stride
  <1>1. s \in Nat \ {0} /\ output_len \in Nat /\ room \in Int
    BY OutputLength, SizeFacts
  <1>2. output_len = room \div s + 1
    BY DEF output_len
  <1>3. padded_len \in Nat /\ args.kernel_len \in Nat
    BY SizeFacts
  <1> HIDE DEF room, s
  <1>4. room \div s \in Int /\ (room \div s) * s \in Int /\ (room \div s) * s <= room
    BY <1>1, Quotient
  <1>5. o \in Nat /\ o <= room \div s
    BY <1>1, <1>2, <1>4
  <1>6. o * s <= (room \div s) * s /\ o * s \in Nat
    <2> DEFINE q == room \div s
    <2>1. q \in Nat /\ o \in Nat /\ o <= q /\ s \in Nat
      BY <1>1, <1>4, <1>5
    <2> HIDE DEF q
    <2>2. o * s <= q * s /\ o * s \in Nat
      BY <2>1, SMT
    <2>. QED  BY <2>2 DEF q
  <1>7. o * s <= room
    BY <1>1, <1>4, <1>6
  <1>. QED  BY <1>3, <1>5, <1>6, <1>7 DEF room, s

-----------------------------------------------------------------------------
(* Products and their sums *)

\* The kinds of symbol are told apart by their names, samples by their place.
LEMMA Symbols ==
  /\ \A c, i : A(c, i) # Zero
  /\ \A f, c, k : F(f, c, k) # Zero
  /\ \A c, i, f, d, k : A(c, i) # F(f, d, k)
  /\ \A c, i, d, j : A(c, i) = A(d, j) => c = d
  <1>1. /\ Zero[1] = "zero"
        /\ \A c, i : A(c, i)[1] = "A" /\ A(c, i)[2] = c
        /\ \A f, c, k : F(f, c, k)[1] = "F"
    BY DEF Zero, A, F
  <1>2. "A" # "zero" /\ "F" # "zero" /\ "A" # "F"
    OBVIOUS
  <1>3. \A c, i : A(c, i) # Zero
    <2> SUFFICES ASSUME NEW c, NEW i, A(c, i) = Zero PROVE FALSE
      OBVIOUS
    <2>1. A(c, i)[1] = "A" /\ A(c, i)[1] = "zero"
      BY <1>1
    <2>. QED  BY <1>2, <2>1
  <1>4. \A f, c, k : F(f, c, k) # Zero
    <2> SUFFICES ASSUME NEW f, NEW c, NEW k, F(f, c, k) = Zero PROVE FALSE
      OBVIOUS
    <2>1. F(f, c, k)[1] = "F" /\ F(f, c, k)[1] = "zero"
      BY <1>1
    <2>. QED  BY <1>2, <2>1
  <1>5. \A c, i, f, d, k : A(c, i) # F(f, d, k)
    <2> SUFFICES ASSUME NEW c, NEW i, NEW f, NEW d, NEW k, A(c, i) = F(f, d, k) PROVE FALSE
      OBVIOUS
    <2>1. A(c, i)[1] = F(f, d, k)[1]
      OBVIOUS
    <2>2. A(c, i)[1] = "A" /\ F(f, d, k)[1] = "F"
      BY <1>1
    <2>. QED  BY <1>2, <2>1, <2>2
  <1>6. \A c, i, d, j : A(c, i) = A(d, j) => c = d
    <2> SUFFICES ASSUME NEW c, NEW i, NEW d, NEW j, A(c, i) = A(d, j) PROVE c = d
      OBVIOUS
    <2>1. A(c, i)[2] = A(d, j)[2]
      OBVIOUS
    <2>. QED  BY <1>1, <2>1
  <1>. QED  BY <1>3, <1>4, <1>5, <1>6

\* Two channels have no product in common.
LEMMA ChannelsApart ==
  ASSUME NEW f, NEW o, NEW c, NEW d, c # d
  PROVE  Products(f, c, o) \cap Products(f, d, o) = {}
  <1> DEFINE at(k) == o * args.stride - args.pad + k
  <1> SUFFICES ASSUME NEW p, p \in Products(f, c, o), p \in Products(f, d, o)
               PROVE  FALSE
    OBVIOUS
  <1>1. PICK k \in Inside(o) : p = {A(c, at(k)), F(f, c, k)}
    BY DEF Products
  <1>2. PICK l \in Inside(o) : p = {A(d, at(l)), F(f, d, l)}
    BY DEF Products
  <1> HIDE DEF at
  <1>3. A(c, at(k)) \in {A(d, at(l)), F(f, d, l)}
    BY <1>1, <1>2
  <1>. QED  BY <1>3, Symbols, Zenon

\* Adding bags of disjoint sets gives the bag of their union.
LEMMA DisjointBags ==
  ASSUME NEW S, NEW T, S \cap T = {}
  PROVE  SetToBag(S) (+) SetToBag(T) = SetToBag(S \cup T)
  <1>1. DOMAIN SetToBag(S) = S /\ DOMAIN SetToBag(T) = T
    BY DEF SetToBag
  <1>2. SetToBag(S) (+) SetToBag(T)
          = [e \in S \cup T |-> (IF e \in S THEN SetToBag(S)[e] ELSE 0)
                              + (IF e \in T THEN SetToBag(T)[e] ELSE 0)]
    BY <1>1 DEF (+)
  <1>3. ASSUME NEW e \in S \cup T
        PROVE  (IF e \in S THEN SetToBag(S)[e] ELSE 0)
                 + (IF e \in T THEN SetToBag(T)[e] ELSE 0) = 1
    BY DEF SetToBag
  <1>. QED  BY <1>2, <1>3 DEF SetToBag

\* The sum over no channels.
LEMMA NoChannels ==
  ASSUME NEW f, NEW o
  PROVE  Golden(f, 0, o) = EmptyBag
  <1>1. UNION {Products(f, c, o) : c \in 0..0-1} = {}
    OBVIOUS
  <1>. QED  BY <1>1 DEF Golden, EmptyBag

\* The sum over one channel more.
LEMMA OneMoreChannel ==
  ASSUME NEW f, NEW o, NEW d \in Nat
  PROVE  Golden(f, d, o) (+) SetToBag(Products(f, d, o)) = Golden(f, d + 1, o)
  <1> DEFINE Before == UNION {Products(f, c, o) : c \in 0..d-1}
             After  == UNION {Products(f, c, o) : c \in 0..(d+1)-1}
             New    == Products(f, d, o)
  <1>1. 0..(d+1)-1 = 0..d-1 \cup {d} /\ d \notin 0..d-1
    OBVIOUS
  <1>2. After = Before \cup New
    BY <1>1, Zenon
  <1>3. Before \cap New = {}
    <2> SUFFICES ASSUME NEW p \in Before, p \in New PROVE FALSE
      OBVIOUS
    <2>1. PICK c \in 0..d-1 : p \in Products(f, c, o)
      OBVIOUS
    <2>2. c # d
      BY <1>1
    <2>. QED  BY <2>1, <2>2, ChannelsApart
  <1>4. Golden(f, d, o) = SetToBag(Before) /\ Golden(f, d + 1, o) = SetToBag(After)
    BY DEF Golden
  <1> HIDE DEF Before, After, New
  <1>5. SetToBag(Before) (+) SetToBag(New) = SetToBag(After)
    BY <1>2, <1>3, DisjointBags
  <1>. QED  BY <1>4, <1>5 DEF New

\* What one output gets from the channel at hand.
LEMMA DotIsProducts ==
  ASSUME args \in Arguments, ~BadSizes, NEW o \in 0..output_len-1
  PROVE  Dot(input_padded, filter_values, o * args.stride + 1) = SetToBag(Products(m, n, o))
  <1> DEFINE b       == o * args.stride
             pair(k) == {input_padded[b + 1 + k - 1], filter_values[k]}
             K       == {k \in 1..Len(filter_values) : Zero \notin pair(k)}
             at(k)   == b - args.pad + k
  <1>1. /\ args.kernel_len \in Nat /\ args.input_len \in Nat /\ args.pad \in Nat
        /\ padded_len = args.input_len + 2 * args.pad
    BY SizeFacts
  <1>2. b \in Nat /\ b + args.kernel_len <= padded_len
    BY Window
  <1>3. Len(filter_values) = args.kernel_len
    BY <1>1 DEF filter_values
  <1> HIDE DEF b
  <1>4. ASSUME NEW k \in 1..args.kernel_len
        PROVE  /\ b + 1 + k - 1 \in 1..padded_len
               /\ input_padded[b + 1 + k - 1] =
                    IF k - 1 \in Inside(o) THEN A(n, at(k - 1)) ELSE Zero
               /\ filter_values[k] = F(m, n, k - 1)
    <2>1. b + 1 + k - 1 = b + k /\ b + k \in 1..padded_len
      BY <1>1, <1>2
    <2>2. input_padded[b + k] =
            IF (b + k) - args.pad \in 1..args.input_len THEN A(n, (b + k) - args.pad - 1) ELSE Zero
      <3> DEFINE j == b + k
      <3>1. j \in 1..padded_len
        BY <2>1
      <3> HIDE DEF j
      <3>2. input_padded[j] =
              IF j - args.pad \in 1..args.input_len THEN A(n, j - args.pad - 1) ELSE Zero
        BY <3>1, Zenon DEF input_padded
      <3>. QED  BY <3>2 DEF j
    <2>3. (b + k) - args.pad \in 1..args.input_len <=> at(k - 1) \in 0..args.input_len-1
      BY <1>1, <1>2
    <2>4. (b + k) - args.pad - 1 = at(k - 1)
      BY <1>1, <1>2
    <2>5. k - 1 \in Inside(o) <=> at(k - 1) \in 0..args.input_len-1
      BY <1>1 DEF Inside, b
    <2>6. filter_values[k] = F(m, n, k - 1)
      BY DEF filter_values
    <2>. QED  BY <2>1, <2>2, <2>3, <2>4, <2>5, <2>6
  <1>5. ASSUME NEW k \in 1..args.kernel_len
        PROVE  /\ k \in K <=> k - 1 \in Inside(o)
               /\ k \in K => pair(k) = {A(n, at(k - 1)), F(m, n, k - 1)}
    <2>1. CASE k - 1 \in Inside(o)
      <3>1. pair(k) = {A(n, at(k - 1)), F(m, n, k - 1)}
        BY <1>4, <2>1
      <3>2. Zero \notin pair(k)
        BY <3>1, Symbols, Zenon
      <3>. QED  BY <1>3, <2>1, <3>1, <3>2
    <2>2. CASE k - 1 \notin Inside(o)
      <3>1. Zero \in pair(k)
        BY <1>4, <2>2
      <3>. QED  BY <2>2, <3>1
    <2>. QED  BY <2>1, <2>2
  <1>6. {pair(k) : k \in K} = Products(m, n, o)
    <2>1. ASSUME NEW p \in {pair(k) : k \in K} PROVE p \in Products(m, n, o)
      <3>1. PICK k \in K : p = pair(k)
        OBVIOUS
      <3>2. k \in 1..args.kernel_len
        BY <1>3
      <3>3. k - 1 \in Inside(o) /\ p = {A(n, at(k - 1)), F(m, n, k - 1)}
        BY <1>5, <3>1, <3>2
      <3>. QED  BY <3>3 DEF Products, b
    <2>2. ASSUME NEW p \in Products(m, n, o) PROVE p \in {pair(k) : k \in K}
      <3>1. PICK j \in Inside(o) : p = {A(n, at(j)), F(m, n, j)}
        BY DEF Products, b
      <3>2. j + 1 \in 1..args.kernel_len /\ (j + 1) - 1 = j
        BY <1>1 DEF Inside
      <3>3. j + 1 \in K /\ pair(j + 1) = p
        BY <1>5, <3>1, <3>2
      <3>. QED  BY <3>3
    <2>. QED  BY <2>1, <2>2
  <1>7. Dot(input_padded, filter_values, b + 1) = SetToBag({pair(k) : k \in K})
    BY DEF Dot
  <1>. QED  BY <1>6, <1>7 DEF b

\* Of two equal lengths the smaller is either.
LEMMA MinSame ==
  ASSUME NEW x \in Nat
  PROVE  Min({x, x}) = x
  BY DEF Min

\* With a kernel that fits, the stride picks one position per output.
LEMMA Convolved ==
  ASSUME args \in Arguments, ~BadSizes, args.kernel_len <= padded_len
  PROVE  /\ Len(addend) = output_len
         /\ \A o \in 0..output_len-1 : addend[o + 1] = SetToBag(Products(m, n, o))
  <1> DEFINE s    == args.stride
             long == padded_len - args.kernel_len + 1
             at   == [i \in 1..long |-> Dot(input_padded, filter_values, i)]
             cs   == [o \in 1..output_len |-> at[(o - 1) * s + 1]]
  <1>1. /\ s \in Nat \ {0} /\ output_len \in Nat
        /\ args.kernel_len \in Nat /\ padded_len \in Nat /\ long \in Nat \ {0}
    BY SizeFacts, OutputLength
  <1>2. Len(input_padded) = padded_len /\ Len(filter_values) = args.kernel_len
    BY <1>1 DEF input_padded, filter_values
  <1>3. correlate(input_padded, filter_values) = at
    BY <1>1, <1>2 DEF correlate, Slide
  <1>4. (Len(at) + args.stride - 1) \div args.stride = output_len
    <2> DEFINE room == padded_len - args.kernel_len
    <2>1. Len(at) + args.stride - 1 = room + s
      BY <1>1
    <2>2. room \in Int /\ output_len = room \div s + 1
      BY <1>1 DEF output_len
    <2> HIDE DEF room, s
    <2>3. (room + s) \div s = room \div s + 1
      BY <1>1, <2>2, Quotient
    <2>. QED  BY <2>1, <2>2, <2>3 DEF s
  <1>5. conv_strided = cs
    BY <1>3, <1>4, Zenon DEF conv_strided
  <1>6. Len(cs) = output_len /\ Min({output_len, Len(cs)}) = output_len
    <2>1. Len(cs) = output_len
      BY <1>1
    <2>. QED  BY <1>1, <2>1, MinSame
  <1>7. addend = SubSeq(cs, 1, output_len)
    BY <1>5, <1>6 DEF addend
  <1>8. SubSeq(cs, 1, output_len) = cs
    <2> HIDE DEF at, s
    <2>. QED  BY <1>1
  <1>9. ASSUME NEW o \in 0..output_len-1
        PROVE  addend[o + 1] = SetToBag(Products(m, n, o))
    <2>1. o + 1 \in 1..output_len /\ (o + 1) - 1 = o
      BY <1>1
    <2>2. o * s + 1 \in 1..long
      BY <1>1, Window
    <2>3. addend[o + 1] = at[o * s + 1]
      BY <1>7, <1>8, <2>1
    <2>4. addend[o + 1] = Dot(input_padded, filter_values, o * s + 1)
      BY <2>2, <2>3
    <2>. QED  BY <2>4, DotIsProducts
  <1>. QED  BY <1>6, <1>7, <1>8, <1>9

\* Once the sizes are accepted, the arrays fit.
LEMMA AddendFits ==
  ASSUME args \in Arguments, ~BadSizes
  PROVE  Fits
  <1>1. args.stride \in Nat \ {0} /\ output_len \in Nat
    BY OutputLength
  <1>2. CASE args.kernel_len <= padded_len
    BY <1>2, Convolved DEF Fits
  <1>3. CASE ~(args.kernel_len <= padded_len)
    <2> DEFINE strided == (Len(correlate(input_padded, filter_values)) + args.stride - 1)
                            \div args.stride
               swapped == Slide(filter_values, input_padded)
    <2>1. output_len = 0
      BY <1>1, <1>3, OutputLength
    <2>2. /\ padded_len \in Nat /\ args.kernel_len \in Nat
          /\ Len(input_padded) = padded_len /\ Len(filter_values) = args.kernel_len
      BY SizeFacts DEF input_padded, filter_values
    <2>3. correlate(input_padded, filter_values) = Reverse(swapped)
      BY <1>3, <2>2 DEF correlate
    <2>4. Len(swapped) = args.kernel_len - padded_len + 1 /\ Len(swapped) \in Nat
      BY <1>3, <2>2 DEF Slide
    <2> HIDE DEF swapped
    <2>5. Len(Reverse(swapped)) \in Nat
      BY <2>4 DEF Reverse
    <2>6. strided \in Nat
      <3> DEFINE s == args.stride
                 l == Len(Reverse(swapped)) + s - 1
      <3>1. l \in Nat /\ s \in Nat \ {0}
        BY <1>1, <2>5
      <3> HIDE DEF l, s
      <3>2. l \div s \in Int
        BY <3>1, Quotient
      <3>3. l \div s >= 0
        BY <3>1, Quotient
      <3>. QED  BY <2>3, <3>2, <3>3 DEF l, s
    <2>7. Len(conv_strided) = strided
      <3> DEFINE value(o) == correlate(input_padded, filter_values)[(o - 1) * args.stride + 1]
      <3>1. conv_strided = [o \in 1..strided |-> value(o)]
        BY DEF conv_strided
      <3> HIDE DEF value, strided
      <3>. QED  BY <2>6, <3>1
    <2> HIDE DEF strided
    <2>8. Min({output_len, Len(conv_strided)}) = 0
      BY <2>1, <2>6, <2>7 DEF Min
    <2>9. Len(addend) = 0
      BY <2>8 DEF addend
    <2>. QED  BY <2>1, <2>9 DEF Fits
  <1>. QED  BY <1>2, <1>3

\* One channel more in every output.
LEMMA SumIsGolden ==
  ASSUME args \in Arguments, ~BadSizes, n \in Nat,
         \A o \in 0..output_len-1 : accumulated_output[o + 1] = Golden(m, n, o)
  PROVE  /\ Len(Sum) = output_len
         /\ \A o \in 0..output_len-1 : Sum[o + 1] = Golden(m, n + 1, o)
  <1>1. output_len \in Nat /\ args.stride # 0
    BY OutputLength
  <1>2. Len(Sum) = output_len
    <2> DEFINE value(o) == accumulated_output[o] (+) addend[IF Len(addend) = 1 THEN 1 ELSE o]
    <2>1. Sum = [o \in 1..output_len |-> value(o)]
      BY DEF Sum
    <2> HIDE DEF value
    <2>. QED  BY <1>1, <2>1
  <1>3. ASSUME NEW o \in 0..output_len-1
        PROVE  Sum[o + 1] = Golden(m, n + 1, o)
    <2> DEFINE i == IF Len(addend) = 1 THEN 1 ELSE o + 1
    <2>1. o + 1 \in 1..output_len /\ output_len > 0
      BY <1>1
    <2>2. /\ Len(addend) = output_len
          /\ addend[o + 1] = SetToBag(Products(m, n, o))
      BY <1>1, <2>1, OutputLength, Convolved
    <2>3. i = o + 1
      BY <1>1, <2>1, <2>2
    <2>4. Sum[o + 1] = accumulated_output[o + 1] (+) addend[i]
      <3> DEFINE j == o + 1
      <3> HIDE DEF j
      <3>1. j \in 1..output_len
        BY <2>1 DEF j
      <3>2. Sum[j] = accumulated_output[j] (+) addend[IF Len(addend) = 1 THEN 1 ELSE j]
        BY <3>1, Zenon DEF Sum
      <3>. QED  BY <3>2, Zenon DEF j
    <2> HIDE DEF i
    <2>5. Sum[o + 1] = Golden(m, n, o) (+) SetToBag(Products(m, n, o))
      BY <2>2, <2>3, <2>4
    <2>. QED  BY <2>5, OneMoreChannel
  <1>. QED  BY <1>2, <1>3

-----------------------------------------------------------------------------
(* The steps of the golden model *)

\* The sizes stay, and with them all that is computed from them.
LEMMA SameSizes ==
  ASSUME args' = args
  PROVE  /\ output_len' = output_len /\ Rows' = Rows /\ BadSizes' = BadSizes
         /\ NoOperand' = NoOperand /\ padded_len' = padded_len
         /\ \A f, c, o : Golden(f, c, o)' = Golden(f, c, o)
  <1>1. padded_len' = padded_len
    BY DEF padded_len
  <1>2. output_len' = output_len
    BY <1>1 DEF output_len
  <1>3. Rows' = Rows /\ BadSizes' = BadSizes /\ NoOperand' = NoOperand
    BY <1>1, <1>2 DEF Rows, BadSizes, NoOperand
  <1>4. ASSUME NEW f, NEW c, NEW o PROVE Golden(f, c, o)' = Golden(f, c, o)
    BY DEF Golden, Products, Inside
  <1>. QED  BY <1>1, <1>2, <1>3, <1>4

\* Zeros are the sums over no channels.
LEMMA Zeros ==
  ASSUME output_len \in Nat
  PROVE  /\ Len(zeros(output_len)) = output_len
         /\ \A f, o : o \in 0..output_len-1 => zeros(output_len)[o + 1] = Golden(f, 0, o)
  <1>1. Len(zeros(output_len)) = output_len
    BY DEF zeros
  <1>2. ASSUME NEW f, NEW o \in 0..output_len-1
        PROVE  zeros(output_len)[o + 1] = Golden(f, 0, o)
    <2>1. o + 1 \in 1..output_len
      OBVIOUS
    <2>2. zeros(output_len)[o + 1] = EmptyBag
      BY <2>1 DEF zeros
    <2>. QED  BY <2>2, NoChannels
  <1>. QED  BY <1>1, <1>2

\* Nothing is computed at the start.
LEMMA InitGolden == Init => DatagenInv
  <1> SUFFICES ASSUME Init PROVE DatagenInv
    OBVIOUS
  <1> USE DEF Init
  <1>1. TypeOK
    BY SizeFacts DEF TypeOK
  <1>2. PlaceInv /\ SumInv /\ RowInv /\ OnlyEmptyOperandsFail
    BY DEF PlaceInv, SumInv, RowInv, Begun, OnlyEmptyOperandsFail
  <1>. QED  BY <1>1, <1>2 DEF DatagenInv

\* Sizes without a result are refused, others begin with zeros.
LEMMA PrepareStep ==
  ASSUME DatagenInv, Prepare
  PROVE  DatagenInv'
  <1> USE DEF Prepare
  <1>1. args \in Arguments /\ m = 0 /\ n = 0 /\ m' = m /\ n' = n /\ args' = args
    BY DEF DatagenInv, TypeOK, PlaceInv
  <1>2. /\ header' = header /\ source' = source
        /\ header = NoFile /\ source = NoFile
    BY DEF DatagenInv, PlaceInv
  <1>3. output_len' = output_len /\ Rows' = Rows /\ BadSizes' = BadSizes
        /\ padded_len' = padded_len
    BY <1>1, SameSizes
  <1>4. CASE BadSizes
    <2>1. pc' = "failed"
      BY <1>4
    <2>2. TypeOK'
      BY <1>1, <1>2, <2>1, SizeFacts DEF TypeOK
    <2>3. PlaceInv' /\ SumInv' /\ RowInv'
      BY <1>2, <2>1 DEF PlaceInv, SumInv, RowInv, Begun
    <2>4. OnlyEmptyOperandsFail'
      BY <1>1, <1>3, <1>4, OutputLength DEF OnlyEmptyOperandsFail
    <2>. QED  BY <2>2, <2>3, <2>4 DEF DatagenInv
  <1>5. CASE ~BadSizes
    <2>1. /\ pc' = "loop"
          /\ R' = [f \in 0..args.k_num-1 |-> zeros(output_len)]
          /\ accumulated_output' = zeros(output_len)
      BY <1>5
    <2>2. output_len \in Nat
      BY <1>1, <1>5, OutputLength
    <2>3. TypeOK'
      <3>1. DOMAIN R' = Rows' /\ \A f \in Rows' : Len(R'[f]) = output_len'
        BY <1>3, <2>1, <2>2, Zeros DEF Rows
      <3>. QED  BY <1>1, <1>2, <2>1, <3>1, SizeFacts DEF TypeOK
    <2>4. PlaceInv'
      BY <1>1, <1>2, <1>3, <1>5, <2>1, SizeFacts DEF PlaceInv, Begun
    <2>5. SumInv'
      BY <1>1, <1>3, <2>1, <2>2, Zeros, SameSizes DEF SumInv
    <2>6. RowInv'
      BY <1>1 DEF RowInv
    <2>7. OnlyEmptyOperandsFail'
      BY <2>1 DEF OnlyEmptyOperandsFail
    <2>. QED  BY <2>3, <2>4, <2>5, <2>6, <2>7 DEF DatagenInv
  <1>. QED  BY <1>4, <1>5

\* A channel is added to the row in progress, or completes it.
LEMMA AccumulateStep ==
  ASSUME DatagenInv, Accumulate
  PROVE  DatagenInv'
  <1> USE DEF Accumulate
  <1>1. /\ args \in Arguments /\ args' = args /\ pc = "loop"
        /\ m \in Nat /\ m < args.k_num /\ n \in 0..args.input_ch-1
        /\ args.k_num \in Nat /\ args.input_ch \in Nat \ {0}
        /\ ~BadSizes /\ header = NoFile /\ source = NoFile
        /\ DOMAIN R = Rows /\ \A f \in Rows : Len(R[f]) = output_len
    BY SizeFacts DEF DatagenInv, TypeOK, PlaceInv, Begun
  <1>2. /\ \A o \in 0..output_len-1 : accumulated_output[o + 1] = Golden(m, n, o)
        /\ \A f \in 0..m-1, o \in 0..output_len-1 : R[f][o + 1] = Golden(f, args.input_ch, o)
    BY <1>1 DEF DatagenInv, SumInv, RowInv, Begun
  <1>3. /\ output_len' = output_len /\ Rows' = Rows /\ BadSizes' = BadSizes
        /\ padded_len' = padded_len /\ NoOperand' = NoOperand
        /\ \A f, c, o : Golden(f, c, o)' = Golden(f, c, o)
    BY <1>1, SameSizes
  <1>4. header' = header /\ source' = source
    OBVIOUS
  <1>5. Fits /\ output_len \in Nat /\ args.stride # 0
    BY <1>1, AddendFits, OutputLength
  <1>6. /\ Len(Sum) = output_len
        /\ \A o \in 0..output_len-1 : Sum[o + 1] = Golden(m, n + 1, o)
    BY <1>1, <1>2, SumIsGolden
  <1>7. CASE NoOperand
    <2>1. pc' = "failed" /\ m' = m /\ n' = n
      BY <1>7
    <2>2. TypeOK'
      BY <1>1, <1>4, <2>1 DEF TypeOK
    <2>3. PlaceInv' /\ SumInv' /\ RowInv'
      BY <1>1, <1>4, <2>1 DEF PlaceInv, SumInv, RowInv, Begun
    <2>4. OnlyEmptyOperandsFail'
      BY <1>3, <1>7 DEF OnlyEmptyOperandsFail
    <2>. QED  BY <2>2, <2>3, <2>4 DEF DatagenInv
  <1>8. CASE ~NoOperand /\ n + 1 < args.input_ch
    <2>1. pc' = pc /\ m' = m /\ n' = n + 1 /\ R' = R /\ accumulated_output' = Sum
      BY <1>5, <1>8
    <2>2. TypeOK'
      BY <1>1, <1>3, <1>4, <1>8, <2>1 DEF TypeOK
    <2>3. PlaceInv'
      BY <1>1, <1>3, <1>4, <2>1 DEF PlaceInv, Begun
    <2>4. SumInv'
      BY <1>3, <1>6, <2>1 DEF SumInv
    <2>5. RowInv'
      BY <1>1, <1>2, <1>3, <2>1 DEF RowInv
    <2>6. OnlyEmptyOperandsFail'
      BY <1>1, <2>1 DEF OnlyEmptyOperandsFail
    <2>. QED  BY <2>2, <2>3, <2>4, <2>5, <2>6 DEF DatagenInv
  <1>9. CASE ~NoOperand /\ ~(n + 1 < args.input_ch)
    <2>1. /\ R' = [R EXCEPT ![m] = Sum] /\ accumulated_output' = zeros(output_len)
          /\ m' = m + 1 /\ n' = 0
          /\ pc' = IF m + 1 < args.k_num THEN "loop" ELSE "header"
      BY <1>5, <1>9 DEF NextSet
    <2>2. n + 1 = args.input_ch /\ m \in Rows
      BY <1>1, <1>9 DEF Rows
    <2>3. \A f \in Rows : R'[f] = IF f = m THEN Sum ELSE R[f]
      BY <1>1, <2>1, <2>2
    <2>4. TypeOK'
      <3>1. DOMAIN R' = Rows' /\ \A f \in Rows' : Len(R'[f]) = output_len'
        BY <1>1, <1>3, <1>6, <2>1, <2>3
      <3>2. m' \in 0..args.k_num /\ n' \in 0..args.input_ch-1
        BY <1>1, <2>1
      <3>3. pc' \in {"loop", "header"}
        BY <2>1
      <3>. QED  BY <1>1, <1>4, <3>1, <3>2, <3>3 DEF TypeOK
    <2>5. PlaceInv'
      <3>1. CASE m + 1 < args.k_num
        BY <1>1, <1>3, <1>4, <2>1, <3>1 DEF PlaceInv, Begun
      <3>2. CASE ~(m + 1 < args.k_num)
        BY <1>1, <1>3, <1>4, <2>1, <3>2 DEF PlaceInv, Begun
      <3>. QED  BY <3>1, <3>2
    <2>6. SumInv'
      BY <1>3, <1>5, <2>1, Zeros DEF SumInv
    <2>7. RowInv'
      <3>1. ASSUME NEW f \in 0..m, NEW o \in 0..output_len-1
            PROVE  R'[f][o + 1] = Golden(f, args.input_ch, o)
        <4>1. f \in Rows
          BY <1>1 DEF Rows
        <4>2. CASE f = m
          BY <1>6, <2>2, <2>3, <4>1, <4>2
        <4>3. CASE f # m
          <5>1. f \in 0..m-1 /\ R'[f] = R[f]
            BY <1>1, <2>3, <4>1, <4>3
          <5>. QED  BY <1>2, <5>1
        <4>. QED  BY <4>2, <4>3
      <3>2. m' - 1 = m
        BY <1>1, <2>1
      <3>. QED  BY <1>1, <1>3, <3>1, <3>2 DEF RowInv
    <2>8. OnlyEmptyOperandsFail'
      BY <2>1 DEF OnlyEmptyOperandsFail
    <2>. QED  BY <2>4, <2>5, <2>6, <2>7, <2>8 DEF DatagenInv
  <1>. QED  BY <1>7, <1>8, <1>9

\* The files are written from the sizes and the outputs, which stay.
LEMMA WriteStep ==
  ASSUME DatagenInv, write_header \/ write_source \/ UNCHANGED vars
  PROVE  DatagenInv'
  <1>1. /\ args' = args /\ m' = m /\ n' = n /\ R' = R
        /\ accumulated_output' = accumulated_output
    BY DEF write_header, write_source, vars
  <1>2. /\ output_len' = output_len /\ Rows' = Rows /\ BadSizes' = BadSizes
        /\ padded_len' = padded_len /\ NoOperand' = NoOperand
        /\ \A f, c, o : Golden(f, c, o)' = Golden(f, c, o)
    BY <1>1, SameSizes
  <1>3. /\ pc' = "failed" <=> pc = "failed"
        /\ pc' = "args" <=> pc = "args"
        /\ pc' = "loop" <=> pc = "loop"
        /\ pc' \in {"args", "loop", "header", "source", "done", "failed"}
    BY DEF write_header, write_source, vars, DatagenInv, TypeOK
  <1>4. TypeOK'
    <2>1. header' \in {NoFile, args} /\ source' \in {NoFile, R}
      BY DEF write_header, write_source, vars, DatagenInv, TypeOK
    <2>. QED  BY <1>1, <1>2, <1>3, <2>1 DEF DatagenInv, TypeOK
  <1>5. PlaceInv'
    BY <1>1, <1>2, <1>3 DEF write_header, write_source, vars, DatagenInv, PlaceInv, Begun
  <1>6. SumInv'
    BY <1>1, <1>2, <1>3 DEF DatagenInv, SumInv
  <1>7. RowInv'
    BY <1>1, <1>2, <1>3 DEF DatagenInv, RowInv, Begun
  <1>8. OnlyEmptyOperandsFail'
    BY <1>1, <1>2, <1>3 DEF DatagenInv, OnlyEmptyOperandsFail
  <1>. QED  BY <1>4, <1>5, <1>6, <1>7, <1>8 DEF DatagenInv

-----------------------------------------------------------------------------
(* The end of the golden model *)

\* What conv1d_sw adds up is the products of all channels.
LEMMA SoftwareSum ==
  ASSUME args \in Arguments, header = args, NEW f, NEW o
  PROVE  conv1d_sw(f, o) = Golden(f, args.input_ch, o)
  <1> DEFINE at(k)  == o * args.stride - args.pad + k
             inside == {k \in 0..args.kernel_len-1 : at(k) \in 0..args.input_len-1}
             all    == {{A(c, at(k)), F(f, c, k)} : c \in 0..args.input_ch-1, k \in inside}
  <1>1. conv1d_sw(f, o) = SetToBag(all)
    BY DEF conv1d_sw
  <1>2. inside = Inside(o)
    BY DEF Inside
  <1>3. all = UNION {Products(f, c, o) : c \in 0..args.input_ch-1}
    <2> HIDE DEF inside, at
    <2> DEFINE channels == 0..args.input_ch-1
    <2> HIDE DEF channels
    <2>1. \A c : Products(f, c, o) = {{A(c, at(k)), F(f, c, k)} : k \in inside}
      BY <1>2 DEF Products, at
    <2>2. {{A(c, at(k)), F(f, c, k)} : c \in channels, k \in inside}
            = UNION {Products(f, c, o) : c \in channels}
      BY <2>1
    <2>. QED  BY <2>2 DEF channels
  <1>4. Golden(f, args.input_ch, o) = SetToBag(UNION {Products(f, c, o) : c \in 0..args.input_ch-1})
    BY DEF Golden
  <1> HIDE DEF all
  <1>. QED  BY <1>1, <1>3, <1>4, Zenon

\* The invariant gives the property: at the end every row is complete.
LEMMA GoldenInvCorrect == DatagenInv => GoldenCorrect
  <1> SUFFICES ASSUME DatagenInv, pc = "done", output_len > 0
               PROVE  /\ output_len = sw_output_len
                      /\ \A f \in Rows, o \in 0..output_len-1 :
                           source[f][o + 1] = conv1d_sw(f, o)
    BY DEF GoldenCorrect, GoldenIsSoftware, DatagenInv
  <1>1. /\ args \in Arguments /\ header = args /\ source = R /\ m = args.k_num
        /\ ~BadSizes
    BY DEF DatagenInv, TypeOK, PlaceInv, Begun
  <1>2. output_len = sw_output_len
    <2> DEFINE room == args.input_len + 2 * args.pad - args.kernel_len
    <2>1. args.kernel_len <= padded_len
      BY <1>1, OutputLength
    <2>2. room \in 0..Wrap-1 /\ Wrap \in Nat
      BY <1>1, <2>1, ArgumentsAssumption, SizeFacts
    <2>3. room = padded_len - args.kernel_len
      BY <1>1, SizeFacts
    <2> HIDE DEF room
    <2>4. room % Wrap = room
      BY <2>2
    <2>. QED  BY <1>1, <2>3, <2>4 DEF output_len, sw_output_len, room
  <1>3. \A f \in Rows, o \in 0..output_len-1 : source[f][o + 1] = conv1d_sw(f, o)
    BY <1>1, SoftwareSum DEF DatagenInv, RowInv, Begun, Rows
  <1>. QED  BY <1>2, <1>3

\* The invariant holds throughout every run of the script, for all sizes.
THEOREM GoldenInvariant == Spec => []DatagenInv
  <1>1. DatagenInv /\ [Next]_vars => DatagenInv'
    BY PrepareStep, AccumulateStep, WriteStep DEF Next
  <1>. QED  BY <1>1, InitGolden, PTL DEF Spec

\* The outputs written are those of conv1d_sw, and only sizes without a result
\* make the script fail, for every number of channels and filter sets, every
\* length, stride and padding (datagen.py:137-169).
THEOREM GoldenModelCorrect == Spec => []GoldenCorrect
  BY GoldenInvariant, GoldenInvCorrect, PTL

-----------------------------------------------------------------------------
(* The tree of the top cell *)

\* Induction on a set of natural numbers, from the least number outside it.
LEMMA SetInduction ==
  ASSUME NEW T, 0 \in T, \A k \in Nat : k \in T => k + 1 \in T
  PROVE  Nat \subseteq T
  <1> SUFFICES ASSUME Nat \ T # {} PROVE FALSE
    OBVIOUS
  <1> DEFINE B == Nat \ T
             less == OpToRel(<, Nat)
  <1>1. IsWellFoundedOn(less, Nat)
    BY NatLessThanWellFounded
  <1>2. \E x \in B : \A y \in B : ~(<<y, x>> \in less)
    <2>1. B \subseteq Nat /\ B # {}
      OBVIOUS
    <2> HIDE DEF B, less
    <2>. QED  BY <1>1, <2>1, WFMin
  <1>3. PICK x \in B : \A y \in B : ~(<<y, x>> \in less)
    BY <1>2
  <1>4. x \in Nat /\ x \notin T /\ x # 0
    BY <1>3
  <1>5. x - 1 \in Nat /\ (x - 1) + 1 = x
    BY <1>4
  <1>6. x - 1 \in T
    <2>1. <<x - 1, x>> \in less
      BY <1>4, <1>5 DEF OpToRel
    <2>. QED  BY <1>3, <1>5, <2>1
  <1>. QED
    BY <1>4, <1>5, <1>6

\* The next level, and the levels up to k by the levels g before them.
Deeper(S) == S \cup UNION {children[c] : c \in S}

Level(g, k) == IF k = 0 THEN {Top} ELSE Deeper(g[k-1])

\* There is a function that satisfies the equation of down up to level d.
LEMMA LevelsExist ==
  \A d \in Nat : \E g : g = [k \in 0..d |-> Level(g, k)]
  <1> DEFINE T == {d \in Nat : \E g : g = [k \in 0..d |-> Level(g, k)]}
  <1>1. 0 \in T
    <2> DEFINE g == [k \in 0..0 |-> {Top}]
    <2>1. \A k \in 0..0 : Level(g, k) = {Top}
      BY DEF Level
    <2>2. g = [k \in 0..0 |-> Level(g, k)]
      BY <2>1
    <2>. QED  BY <2>2
  <1>2. ASSUME NEW d \in Nat, d \in T PROVE d + 1 \in T
    <2>1. PICK g : g = [k \in 0..d |-> Level(g, k)]
      BY <1>2
    <2> DEFINE h == [k \in 0..d+1 |-> IF k = d + 1 THEN Level(g, k) ELSE g[k]]
    <2>2. \A k \in 0..d+1 : Level(h, k) = Level(g, k)
      <3> TAKE k \in 0..d+1
      <3>1. CASE k = 0
        BY <3>1 DEF Level
      <3>2. CASE k # 0
        <4>1. k - 1 \in 0..d+1 /\ k - 1 # d + 1
          BY <3>2
        <4>2. h[k-1] = g[k-1]
          BY <4>1
        <4> HIDE DEF h
        <4>. QED  BY <4>2 DEF Level
      <3>. QED  BY <3>1, <3>2
    <2>3. \A k \in 0..d+1 : h[k] = Level(h, k)
      <3> TAKE k \in 0..d+1
      <3>1. CASE k = d + 1
        <4>1. h[k] = Level(g, k)
          BY <3>1
        <4>. QED  BY <4>1, <2>2
      <3>2. CASE k # d + 1
        <4>1. k \in 0..d /\ h[k] = g[k]
          BY <3>2
        <4>2. g[k] = Level(g, k)
          <5> HIDE DEF h
          <5>. QED  BY <4>1, <2>1
        <4>. QED  BY <4>1, <4>2, <2>2
      <3>. QED  BY <3>1, <3>2
    <2>4. h = [k \in 0..d+1 |-> h[k]]
      OBVIOUS
    <2>5. h = [k \in 0..d+1 |-> Level(h, k)]
      <3> HIDE DEF h
      <3>. QED  BY <2>3, <2>4
    <2>6. \E g1 : g1 = [k \in 0..d+1 |-> Level(g1, k)]
      <3> HIDE DEF h
      <3>. QED  BY <2>5
    <2>7. d + 1 \in Nat
      OBVIOUS
    <2>. QED  BY <2>6, <2>7
  <1>. QED
    <2> HIDE DEF T
    <2>1. Nat \subseteq T
      BY <1>1, <1>2, SetInduction
    <2>. QED  BY <2>1 DEF T

\* The equation of down.
LEMMA DownUnfolds ==
  ASSUME NEW k \in 0..Cardinality(Cell)
  PROVE  down[k] = IF k = 0 THEN {Top} ELSE Deeper(down[k-1])
  <1> DEFINE N == Cardinality(Cell)
  <1>1. N \in Nat
    BY FS_CardinalityType, StreamAssumption
  <1>2. \E g : g = [j \in 0..N |-> Level(g, j)]
    <2> HIDE DEF N
    <2>. QED  BY <1>1, LevelsExist
  <1>3. down = CHOOSE g : g = [j \in 0..N |-> Level(g, j)]
    BY DEF down, Level, Deeper
  <1> HIDE DEF N
  <1>4. down = [j \in 0..N |-> Level(down, j)]
    BY <1>2, <1>3
  <1>5. down[k] = Level(down, k)
    BY <1>4 DEF N
  <1>. QED  BY <1>5 DEF Level

\* Placed cells only, and each, but the top, placed by another one.
Rooted(S) ==
  /\ Top \in S /\ S \subseteq Cell
  /\ \A c \in S \ {Top} : \E p \in S : c \in children[p]

Closed(S) == \A c \in S : children[c] \subseteq S

\* Every level adds a cell until nothing is left to add, and there are no more
\* cells than levels.
LEMMA TreeClosed ==
  ASSUME \A c \in Cell : children[c] \subseteq Cell
  PROVE  Rooted(Tree) /\ Closed(Tree)
  <1> DEFINE N == Cardinality(Cell)
             Grown(S, k) == Closed(S) \/ Cardinality(S) > k
             T == {k \in Nat : k <= N => Rooted(down[k]) /\ Grown(down[k], k)}
  <1>1. N \in Nat /\ IsFiniteSet(Cell) /\ Top \in Cell
    BY FS_CardinalityType, StreamAssumption
  <1>2. 0 \in T
    <2>1. down[0] = {Top}
      BY <1>1, DownUnfolds
    <2>2. Cardinality({Top}) = 1
      <3>1. IsFiniteSet({}) /\ Cardinality({}) = 0
        BY FS_EmptySet
      <3>2. Cardinality({} \cup {Top}) = Cardinality({}) + 1
        BY <3>1, FS_AddElement
      <3>3. {} \cup {Top} = {Top}
        OBVIOUS
      <3>. QED  BY <3>1, <3>2, <3>3
    <2>3. Rooted({Top})
      BY <1>1 DEF Rooted
    <2>. QED  BY <2>1, <2>2, <2>3
  <1>3. ASSUME NEW k \in Nat, k \in T PROVE k + 1 \in T
    <2> SUFFICES ASSUME k + 1 <= N
                 PROVE  Rooted(down[k+1]) /\ Grown(down[k+1], k + 1)
      OBVIOUS
    <2> DEFINE S == down[k]
    <2>1. Rooted(S) /\ Grown(S, k)
      BY <1>1, <1>3
    <2>2. down[k+1] = Deeper(S)
      <3>1. k + 1 \in 0..Cardinality(Cell) /\ k + 1 # 0 /\ (k + 1) - 1 = k
        BY <1>1
      <3>. QED  BY <3>1, DownUnfolds
    <2> HIDE DEF S
    <2>3. Rooted(Deeper(S))
      <3>1. Top \in Deeper(S) /\ Deeper(S) \subseteq Cell
        BY <2>1 DEF Rooted, Deeper
      <3>2. ASSUME NEW c \in Deeper(S) \ {Top}
            PROVE  \E p \in Deeper(S) : c \in children[p]
        BY <2>1 DEF Rooted, Deeper
      <3>. QED  BY <3>1, <3>2 DEF Rooted
    <2>4. CASE Closed(S)
      <3>1. Deeper(S) = S
        BY <2>4 DEF Deeper, Closed
      <3>. QED  BY <2>2, <2>3, <2>4, <3>1
    <2>5. CASE ~Closed(S)
      <3>1. PICK c \in S : ~(children[c] \subseteq S)
        BY <2>5 DEF Closed
      <3>2. PICK d \in children[c] : d \notin S
        BY <3>1
      <3>3. S \cup {d} \subseteq Deeper(S)
        BY <3>2 DEF Deeper
      <3>4. IsFiniteSet(S) /\ IsFiniteSet(Deeper(S)) /\ Cardinality(S) \in Nat
        BY <1>1, <2>1, <2>3, FS_Subset, FS_CardinalityType DEF Rooted
      <3>5. Cardinality(S \cup {d}) = Cardinality(S) + 1
        BY <3>2, <3>4, FS_AddElement
      <3>6. Cardinality(S \cup {d}) <= Cardinality(Deeper(S)) /\ Cardinality(Deeper(S)) \in Nat
        BY <3>3, <3>4, FS_Subset, FS_CardinalityType
      <3>7. Cardinality(S) > k
        BY <2>1, <2>5
      <3>8. Cardinality(Deeper(S)) > k + 1
        BY <3>4, <3>5, <3>6, <3>7
      <3>. QED  BY <2>2, <2>3, <3>8
    <2>. QED  BY <2>4, <2>5
  <1>4. Nat \subseteq T
    <2> HIDE DEF T
    <2>. QED  BY <1>2, <1>3, SetInduction
  <1>5. Rooted(Tree) /\ Grown(Tree, N)
    BY <1>1, <1>4 DEF Tree
  <1>6. ~(Cardinality(Tree) > N)
    <2>1. Cardinality(Tree) <= N /\ Cardinality(Tree) \in Nat
      BY <1>1, <1>5, FS_Subset, FS_CardinalityType DEF Rooted
    <2>. QED  BY <1>1, <2>1
  <1>. QED  BY <1>5, <1>6

-----------------------------------------------------------------------------
(* The inductive invariant of the layout script *)

Drawings == {"def", "lef", "gds"}

\* The layout is a tree from here on, and its file is written at the end.
Written == out_file # Nothing
Copied  == step \in {"missing", "orphans", "write"} \/ Written

\* Files, and the cells of the design until the tree is cut out of them.
CellInv ==
  /\ files \in Seq(Streams \cup {Unreadable})
  /\ DOMAIN drawn \subseteq Cell /\ DOMAIN children = DOMAIN drawn
  /\ step \in {"clear", "merge"} => DOMAIN drawn = Cell
  /\ Top \in DOMAIN drawn
  /\ drawn \in [DOMAIN drawn -> SUBSET Drawings]
  /\ \A c \in DOMAIN drawn : drawn[c] \subseteq Drawings /\ children[c] \subseteq Cell

\* Abstracts are cleared; the top and the vias keep what the DEF draws.
DrawnInv ==
  /\ step # "clear" => \A c \in DOMAIN drawn : "lef" \notin drawn[c]
  /\ step = "clear" => \A c \in DOMAIN drawn \cap (Via \cup {Top}) : "lef" \notin drawn[c]
  /\ "def" \in drawn[Top]
  /\ \A p \in DOMAIN drawn : \A c \in children[p] \cap Via : c \in DOMAIN drawn => "def" \in drawn[c]

TreeInv == Copied => Rooted(DOMAIN drawn) /\ Closed(DOMAIN drawn)

\* What has been counted and reported where.
ReportInv ==
  /\ step \in {"clear", "merge", "missing"} => errors = 0
  /\ step \in {"orphans", "write"} \/ Written => errors = Cardinality(Empty \ AllowEmpty)
  /\ Written => step = "end" /\ out_file = drawn /\ status = errors % StatusSpan
  /\ step = "end" /\ ~Written => status = 1

StreamInv == StreamTypeOK /\ CellInv /\ DrawnInv /\ TreeInv /\ ReportInv

\* There are finitely many cells to count.
LEMMA CellFacts ==
  ASSUME StreamInv
  PROVE  /\ IsFiniteSet(DOMAIN drawn) /\ IsFiniteSet(Empty \ AllowEmpty)
         /\ Cardinality(Empty \ AllowEmpty) \in 0..Cardinality(Cell)
         /\ Cardinality(Cell) \in Nat
  <1>1. IsFiniteSet(Cell) /\ Cardinality(Cell) \in Nat
    BY FS_CardinalityType, StreamAssumption
  <1>2. DOMAIN drawn \subseteq Cell /\ Empty \ AllowEmpty \subseteq Cell
    BY DEF StreamInv, CellInv, Empty
  <1>3. IsFiniteSet(DOMAIN drawn) /\ IsFiniteSet(Empty \ AllowEmpty)
        /\ Cardinality(Empty \ AllowEmpty) <= Cardinality(Cell)
    BY <1>1, <1>2, FS_Subset
  <1>4. Cardinality(Empty \ AllowEmpty) \in Nat
    BY <1>3, FS_CardinalityType
  <1>. QED  BY <1>1, <1>3, <1>4

\* The design as placed, with the abstracts of its cells.
LEMMA InitStreamInv == StreamInit => StreamInv
  <1> SUFFICES ASSUME StreamInit PROVE StreamInv
    OBVIOUS
  <1> PICK placed \in Placements :
         /\ children = [c \in Cell |-> IF c = Top THEN placed ELSE {}]
         /\ drawn = [c \in Cell |-> IF c = Top \/ c \in placed \cap Via THEN {"def"}
                                  ELSE IF c \in placed THEN {"lef"} ELSE {}]
    BY DEF StreamInit
  <1>1. /\ step = "clear" /\ errors = 0 /\ out_file = Nothing /\ status = Nothing
        /\ Top \in Cell /\ placed \subseteq Cell /\ Cardinality(Cell) \in Nat
    BY StreamAssumption, FS_CardinalityType DEF StreamInit
  <1>2. files \in Seq(Streams \cup {Unreadable})
    BY DEF StreamInit
  <1>3. /\ DOMAIN drawn = Cell /\ DOMAIN children = Cell
        /\ \A c \in Cell : drawn[c] \subseteq Drawings /\ children[c] \subseteq Cell
    BY <1>1 DEF Drawings
  <1>4. StreamTypeOK
    BY <1>1, <1>3 DEF StreamTypeOK, Drawings
  <1>5. CellInv
    BY <1>1, <1>2, <1>3 DEF CellInv
  <1>6. DrawnInv
    <2>1. \A c \in Cell \cap (Via \cup {Top}) : "lef" \notin drawn[c]
      OBVIOUS
    <2>2. \A p \in Cell : \A c \in children[p] \cap Via : "def" \in drawn[c]
      BY <1>1
    <2>3. "def" \in drawn[Top]
      BY <1>1
    <2>. QED  BY <1>1, <1>3, <2>1, <2>2, <2>3 DEF DrawnInv
  <1>7. TreeInv /\ ReportInv
    BY <1>1 DEF TreeInv, ReportInv, Copied, Written
  <1>. QED  BY <1>4, <1>5, <1>6, <1>7 DEF StreamInv

\* Nothing is written before the end.
LEMMA NotWritten ==
  ASSUME StreamInv, step # "end"
  PROVE  ~Written /\ out_file = Nothing /\ status = Nothing
  BY DEF StreamInv, ReportInv, Written, StreamTypeOK

\* The abstracts go; the top and the vias stay.
LEMMA ClearStep ==
  ASSUME StreamInv, ClearCells
  PROVE  StreamInv'
  <1> USE DEF ClearCells
  <1>1. /\ step = "clear" /\ step' = "merge" /\ files' = files /\ errors' = errors
        /\ out_file' = out_file /\ status' = status
        /\ DOMAIN drawn' = Cell /\ DOMAIN children' = Cell
        /\ \A c \in Cell : /\ drawn'[c] = IF c \in Cleared THEN {} ELSE drawn[c]
                           /\ children'[c] = IF c \in Cleared THEN {} ELSE children[c]
    OBVIOUS
  <1>2. /\ Top \in Cell /\ Top \notin Cleared /\ DOMAIN drawn = Cell
        /\ \A c \in Cell : drawn[c] \subseteq Drawings /\ children[c] \subseteq Cell
    BY <1>1, StreamAssumption DEF StreamInv, CellInv, Cleared
  <1>3. ~Written /\ out_file = Nothing /\ status = Nothing
    BY <1>1, NotWritten
  <1>4. \A c \in Cell : drawn'[c] \subseteq Drawings /\ children'[c] \subseteq Cell
    BY <1>1, <1>2
  <1>5. StreamTypeOK'
    BY <1>1, <1>2, <1>3, <1>4 DEF StreamInv, StreamTypeOK, Drawings
  <1>6. CellInv'
    BY <1>1, <1>2, <1>4 DEF StreamInv, CellInv
  <1>7. DrawnInv'
    <2>1. \A c \in Cell : "lef" \notin drawn'[c]
      <3> TAKE c \in Cell
      <3>1. CASE c \in Cleared
        BY <1>1, <3>1
      <3>2. CASE c \notin Cleared
        BY <1>1, <1>2, <3>2 DEF StreamInv, DrawnInv, Cleared
      <3>. QED  BY <3>1, <3>2
    <2>2. "def" \in drawn'[Top]
      BY <1>1, <1>2 DEF StreamInv, DrawnInv
    <2>3. \A p \in Cell : \A c \in children'[p] \cap Via : c \in Cell => "def" \in drawn'[c]
      BY <1>1, <1>2 DEF StreamInv, DrawnInv, Cleared
    <2>. QED  BY <1>1, <2>1, <2>2, <2>3 DEF DrawnInv
  <1>8. TreeInv' /\ ReportInv'
    BY <1>1, <1>3 DEF StreamInv, TreeInv, ReportInv, Copied, Written
  <1>. QED  BY <1>5, <1>6, <1>7, <1>8 DEF StreamInv

\* A file adds cells and drawings, but no via.
LEMMA MergeStep ==
  ASSUME StreamInv, Merge
  PROVE  StreamInv'
  <1> DEFINE gds == Head(files)
  <1>1. /\ step = "merge" /\ files # <<>> /\ files' = Tail(files)
        /\ errors' = errors /\ out_file' = out_file
    BY DEF Merge
  <1>2. /\ Top \in Cell /\ DOMAIN drawn = Cell /\ DOMAIN children = Cell
        /\ \A c \in Cell : drawn[c] \subseteq Drawings /\ children[c] \subseteq Cell
        /\ \A c \in Cell : "lef" \notin drawn[c]
        /\ files \in Seq(Streams \cup {Unreadable}) /\ errors = 0
    BY <1>1, StreamAssumption DEF StreamInv, CellInv, DrawnInv, ReportInv
  <1>3. ~Written /\ out_file = Nothing /\ status = Nothing
    BY <1>1, NotWritten
  <1>4. files' \in Seq(Streams \cup {Unreadable}) /\ gds \in Streams \cup {Unreadable}
    BY <1>1, <1>2
  <1>5. CASE gds = Unreadable
    <2>1. /\ step' = "end" /\ status' = 1 /\ drawn' = drawn /\ children' = children
      BY <1>5 DEF Merge, layout
    <2>2. StreamTypeOK'
      BY <1>1, <2>1, StreamAssumption DEF StreamInv, StreamTypeOK
    <2>3. CellInv' /\ DrawnInv'
      BY <1>1, <1>2, <1>4, <2>1 DEF StreamInv, CellInv, DrawnInv
    <2>4. TreeInv' /\ ReportInv'
      BY <1>1, <1>3, <2>1 DEF TreeInv, ReportInv, Copied, Written
    <2>. QED  BY <2>2, <2>3, <2>4 DEF StreamInv
  <1>6. CASE gds # Unreadable
    <2>1. /\ step' = step /\ status' = status
          /\ drawn' = [c \in Cell |-> drawn[c] \cup (IF c \in DOMAIN gds THEN {"gds"} ELSE {})]
          /\ children' = [c \in Cell |-> children[c] \cup (IF c \in DOMAIN gds THEN gds[c] ELSE {})]
      BY <1>6 DEF Merge
    <2>2. \A c \in DOMAIN gds : gds[c] \subseteq Cell \ Via
      BY <1>4, <1>6, StreamAssumption
    <2> HIDE DEF gds
    <2>3. /\ DOMAIN drawn' = Cell /\ DOMAIN children' = Cell
          /\ \A c \in Cell :
               /\ drawn[c] \subseteq drawn'[c] /\ drawn'[c] \subseteq drawn[c] \cup {"gds"}
               /\ children'[c] \subseteq Cell
               /\ children'[c] \cap Via \subseteq children[c]
      BY <1>2, <2>1, <2>2
    <2>4. \A c \in Cell : drawn'[c] \subseteq Drawings /\ "lef" \notin drawn'[c]
      BY <1>2, <2>3 DEF Drawings
    <2>5. StreamTypeOK'
      BY <1>1, <1>2, <1>3, <2>1, <2>3, <2>4 DEF StreamInv, StreamTypeOK, Drawings
    <2>6. CellInv'
      BY <1>1, <1>2, <1>4, <2>1, <2>3, <2>4 DEF CellInv
    <2>7. DrawnInv'
      <3>1. "def" \in drawn'[Top]
        BY <1>2, <2>3 DEF StreamInv, DrawnInv
      <3>2. \A p \in Cell : \A c \in children'[p] \cap Via : c \in Cell => "def" \in drawn'[c]
        BY <1>2, <2>3 DEF StreamInv, DrawnInv
      <3>. QED  BY <1>1, <2>1, <2>3, <2>4, <3>1, <3>2 DEF DrawnInv
    <2>8. TreeInv' /\ ReportInv'
      BY <1>1, <1>2, <1>3, <2>1 DEF TreeInv, ReportInv, Copied, Written
    <2>. QED  BY <2>5, <2>6, <2>7, <2>8 DEF StreamInv
  <1>. QED  BY <1>5, <1>6

\* What is copied is closed, and the top its only root.
LEMMA CopyStep ==
  ASSUME StreamInv, CopyTop
  PROVE  StreamInv'
  <1> USE DEF CopyTop
  <1>1. /\ step = "merge" /\ step' = "missing" /\ files' = files /\ errors' = errors
        /\ out_file' = out_file /\ status' = status
        /\ DOMAIN drawn' = Tree /\ DOMAIN children' = Tree
        /\ \A c \in Tree : drawn'[c] = drawn[c] /\ children'[c] = children[c]
    OBVIOUS
  <1>2. /\ Top \in Cell /\ DOMAIN drawn = Cell /\ DOMAIN children = Cell
        /\ \A c \in Cell : drawn[c] \subseteq Drawings /\ children[c] \subseteq Cell
        /\ \A c \in Cell : "lef" \notin drawn[c]
    BY <1>1, StreamAssumption DEF StreamInv, CellInv, DrawnInv
  <1>3. ~Written /\ out_file = Nothing /\ status = Nothing /\ errors = 0
    BY <1>1, NotWritten DEF StreamInv, ReportInv
  <1>4. Rooted(Tree) /\ Closed(Tree)
    BY <1>2, TreeClosed
  <1>5. Top \in Tree /\ Tree \subseteq Cell
    BY <1>4 DEF Rooted
  <1> HIDE DEF CopyTop
  <1>6. StreamTypeOK'
    BY <1>1, <1>2, <1>3, <1>5 DEF StreamInv, StreamTypeOK, Drawings
  <1>7. CellInv'
    <2>1. drawn' \in [Tree -> SUBSET Drawings]
      BY <1>2, <1>5 DEF CopyTop
    <2>. QED  BY <1>1, <1>2, <1>5, <2>1 DEF StreamInv, CellInv
  <1>8. DrawnInv'
    BY <1>1, <1>2, <1>5 DEF StreamInv, DrawnInv
  <1>9. TreeInv'
    <2>1. Rooted(DOMAIN drawn)'
      <3>1. \A c \in Tree \ {Top} : \E p \in Tree : c \in children'[p]
        BY <1>1, <1>4 DEF Rooted
      <3>. QED  BY <1>1, <1>5, <3>1 DEF Rooted
    <2>2. Closed(DOMAIN drawn)'
      <3>1. \A c \in Tree : children'[c] \subseteq Tree
        BY <1>1, <1>4 DEF Closed
      <3>. QED  BY <1>1, <3>1 DEF Closed
    <2>. QED  BY <2>1, <2>2 DEF TreeInv
  <1>10. ReportInv'
    BY <1>1, <1>3 DEF ReportInv, Written
  <1>. QED  BY <1>6, <1>7, <1>8, <1>9, <1>10 DEF StreamInv

\* The cells without a layout are counted.
LEMMA MissingStep ==
  ASSUME StreamInv, CheckMissing
  PROVE  StreamInv'
  <1>1. /\ step = "missing" /\ step' = "orphans" /\ files' = files
        /\ drawn' = drawn /\ children' = children
        /\ errors' = errors + Cardinality(Empty \ AllowEmpty)
        /\ out_file' = out_file /\ status' = status
    BY DEF CheckMissing, layout
  <1>2. ~Written /\ out_file = Nothing /\ status = Nothing /\ errors = 0
    BY <1>1, NotWritten DEF StreamInv, ReportInv
  <1>3. errors' = Cardinality(Empty \ AllowEmpty) /\ errors' \in 0..2 * Cardinality(Cell)
    BY <1>1, <1>2, CellFacts
  <1>4. Empty' = Empty
    BY <1>1 DEF Empty
  <1>5. StreamTypeOK'
    BY <1>1, <1>2, <1>3 DEF StreamInv, StreamTypeOK
  <1>6. CellInv' /\ DrawnInv'
    BY <1>1 DEF StreamInv, CellInv, DrawnInv
  <1>7. TreeInv'
    BY <1>1 DEF StreamInv, TreeInv, Copied, Rooted, Closed
  <1>8. ReportInv'
    BY <1>1, <1>2, <1>3, <1>4 DEF ReportInv, Written
  <1>. QED  BY <1>5, <1>6, <1>7, <1>8 DEF StreamInv

\* There are no orphans to count.
LEMMA OrphansStep ==
  ASSUME StreamInv, CheckOrphans
  PROVE  StreamInv'
  <1>1. /\ step = "orphans" /\ step' = "write" /\ files' = files
        /\ drawn' = drawn /\ children' = children
        /\ errors' = errors + Cardinality(Orphans)
        /\ out_file' = out_file /\ status' = status
    BY DEF CheckOrphans, layout
  <1>2. ~Written /\ out_file = Nothing /\ status = Nothing
        /\ errors = Cardinality(Empty \ AllowEmpty)
    BY <1>1, NotWritten DEF StreamInv, ReportInv
  <1>3. Orphans = {}
    BY <1>1 DEF StreamInv, TreeInv, Copied, Rooted, Orphans
  <1>4. errors' = errors
    BY <1>1, <1>2, <1>3, CellFacts, FS_EmptySet
  <1>5. Empty' = Empty
    BY <1>1 DEF Empty
  <1>6. StreamTypeOK'
    BY <1>1, <1>2, <1>4 DEF StreamInv, StreamTypeOK
  <1>7. CellInv' /\ DrawnInv'
    BY <1>1 DEF StreamInv, CellInv, DrawnInv
  <1>8. TreeInv'
    BY <1>1 DEF StreamInv, TreeInv, Copied, Rooted, Closed
  <1>9. ReportInv'
    BY <1>1, <1>2, <1>4, <1>5 DEF ReportInv, Written
  <1>. QED  BY <1>6, <1>7, <1>8, <1>9 DEF StreamInv

\* The layout and the count are left behind.
LEMMA WriteFileStep ==
  ASSUME StreamInv, Write
  PROVE  StreamInv'
  <1>1. /\ step = "write" /\ step' = "end" /\ files' = files
        /\ drawn' = drawn /\ children' = children
        /\ errors' = errors /\ out_file' = drawn /\ status' = errors % StatusSpan
    BY DEF Write, layout
  <1>2. errors = Cardinality(Empty \ AllowEmpty) /\ Copied
    BY <1>1 DEF StreamInv, ReportInv, Copied
  <1>3. Empty' = Empty
    BY <1>1 DEF Empty
  <1>4. status' \in Nat /\ status' # Nothing
    <2>1. errors \in Nat
      BY <1>2, CellFacts
    <2>. QED  BY <1>1, <2>1, StreamAssumption
  <1>5. StreamTypeOK'
    BY <1>1, <1>4 DEF StreamInv, StreamTypeOK
  <1>6. CellInv' /\ DrawnInv'
    BY <1>1 DEF StreamInv, CellInv, DrawnInv
  <1>7. TreeInv'
    BY <1>1, <1>2 DEF StreamInv, TreeInv, Rooted, Closed
  <1>8. ReportInv'
    <2>1. Written'
      <3>1. drawn \in [DOMAIN drawn -> SUBSET {"def", "lef", "gds"}] /\ DOMAIN drawn \in SUBSET Cell
        BY DEF StreamInv, CellInv, Drawings
      <3>2. drawn # Nothing
        BY <3>1, StreamAssumption
      <3>. QED  BY <1>1, <3>2 DEF Written
    <2>. QED  BY <1>1, <1>2, <1>3, <2>1 DEF ReportInv
  <1>. QED  BY <1>5, <1>6, <1>7, <1>8 DEF StreamInv

\* Nothing changes.
LEMMA StreamStutter ==
  ASSUME StreamInv, UNCHANGED streamVars
  PROVE  StreamInv'
  <1>1. /\ step' = step /\ files' = files /\ drawn' = drawn /\ children' = children
        /\ errors' = errors /\ out_file' = out_file /\ status' = status
    BY DEF streamVars, layout
  <1>2. StreamTypeOK' /\ CellInv' /\ DrawnInv'
    BY <1>1 DEF StreamInv, StreamTypeOK, CellInv, DrawnInv
  <1>3. TreeInv' /\ ReportInv'
    BY <1>1 DEF StreamInv, TreeInv, ReportInv, Copied, Written, Rooted, Closed, Empty
  <1>. QED  BY <1>2, <1>3 DEF StreamInv

\* The invariant gives the property: an exit status of 0 means that nothing was
\* counted, or as much as there are statuses.
LEMMA StreamInvCorrect == StreamInv => StreamCorrect
  <1> SUFFICES ASSUME StreamInv PROVE StreamCorrect
    OBVIOUS
  <1>1. NoAbstractSent
    <2> SUFFICES ASSUME Written, NEW c \in DOMAIN out_file
                 PROVE  "lef" \notin out_file[c] /\ (c \in Via => "def" \in out_file[c])
      BY DEF NoAbstractSent, Written
    <2>1. out_file = drawn /\ step = "end" /\ Rooted(DOMAIN drawn)
      BY DEF StreamInv, ReportInv, TreeInv, Copied
    <2>2. "lef" \notin drawn[c]
      BY <2>1 DEF StreamInv, DrawnInv
    <2>3. "def" \in drawn[Top]
      BY DEF StreamInv, DrawnInv
    <2>4. c \in Via /\ c # Top => "def" \in drawn[c]
      BY <2>1 DEF Rooted, StreamInv, DrawnInv
    <2>. QED  BY <2>1, <2>2, <2>3, <2>4
  <1>2. StatusIsTruthful
    <2> DEFINE missing == {c \in DOMAIN out_file : out_file[c] = {} /\ children[c] = {}} \ AllowEmpty
    <2>1. status = 0 => Written
      BY StreamAssumption DEF StreamInv, StreamTypeOK, ReportInv
    <2>2. ASSUME Written
          PROVE  /\ \A c \in DOMAIN out_file : children[c] \subseteq DOMAIN out_file
                 /\ status = 0 => missing = {} \/ Cardinality(missing) >= StatusSpan
                 /\ missing = {} => status = 0
      <3>1. out_file = drawn /\ status = errors % StatusSpan /\ Closed(DOMAIN drawn)
            /\ errors = Cardinality(Empty \ AllowEmpty)
        BY <2>2 DEF StreamInv, ReportInv, TreeInv, Copied
      <3>2. missing = Empty \ AllowEmpty
        BY <3>1 DEF Empty
      <3> HIDE DEF missing
      <3>3. errors \in Nat /\ errors = Cardinality(missing) /\ (missing = {} <=> errors = 0)
        BY <3>1, <3>2, CellFacts, FS_EmptySet
      <3>4. errors < StatusSpan => errors % StatusSpan = errors
        BY <3>3, StreamAssumption
      <3>5. status = 0 => missing = {} \/ Cardinality(missing) >= StatusSpan
        BY <3>1, <3>3, <3>4, StreamAssumption
      <3>6. missing = {} => status = 0
        BY <3>1, <3>3, <3>4, StreamAssumption
      <3>. QED  BY <3>1, <3>5, <3>6 DEF Closed
    <2>. QED  BY <2>1, <2>2 DEF StatusIsTruthful, Written
  <1>3. ErrorsAreMissing
    BY DEF StreamInv, ReportInv, ErrorsAreMissing, Written
  <1>. QED  BY <1>1, <1>2, <1>3 DEF StreamInv, StreamCorrect

\* The invariant holds for every design, library and sequence of files.
THEOREM StreamInvariant == StreamSpec => []StreamInv
  <1>1. StreamInv /\ [StreamNext]_streamVars => StreamInv'
    BY ClearStep, MergeStep, CopyStep, MissingStep, OrphansStep, WriteFileStep, StreamStutter
       DEF StreamNext
  <1>. QED  BY <1>1, InitStreamInv, PTL DEF StreamSpec

\* The layout written holds no abstract and every cell placed at any depth, and
\* the exit status tells of the cells without a drawing, unless they are as many
\* as there are statuses (def2stream.py:27-87).
THEOREM StreamIsCorrect == StreamSpec => []StreamCorrect
  BY StreamInvariant, StreamInvCorrect, PTL

-----------------------------------------------------------------------------
(* The inductive invariant of the generator of C files: a header that is   *)
(* up to date is the one that would be written now.                        *)

\* What is registered: arrays, and macros by line.
Lists ==
  /\ binaries \in Seq([name: Name])
  /\ codes \in Seq([name: Name, len: Nat])
  /\ input_matrices \in Seq([name: Name, len: Nat, dtype: DType])
  /\ output_matrices \in Seq([name: Name, len: Nat, dtype: DType])

GenInv ==
  /\ Gen!TypeOK /\ Lists
  /\ macros_raw \in Seq(UNION {[L -> {"macro"}] : L \in SUBSET Nat})
  /\ filesize \in [Name -> Nat]
  /\ fresh \in BOOLEAN
  /\ fresh => data_h = Gen!gen_header

\* Which list an array is of: the files take the lists one after the other.
LEMMA ItemOf ==
  ASSUME Lists, NEW i \in 1..Len(Gen!Items)
  PROVE  /\ i \in Nat
         /\ Len(binaries) \in Nat /\ Len(codes) \in Nat
         /\ i <= Len(binaries) => Gen!Items[i] \in [name: Name]
         /\ i > Len(binaries) /\ i <= Len(binaries) + Len(codes)
              => Gen!Items[i] \in [name: Name, len: Nat]
         /\ i > Len(binaries) + Len(codes)
              => /\ Gen!Items[i] \in [name: Name, len: Nat, dtype: DType]
                 /\ \E j \in 1..Len(Gen!Matrices) : Gen!Items[i] = Gen!Matrices[j]
  <1> USE DEF Lists
  <1> DEFINE words == binaries \o codes
             B == Len(binaries)
             C == Len(codes)
             I == Len(input_matrices)
             O == Len(output_matrices)
  <1>1. B \in Nat /\ C \in Nat /\ I \in Nat /\ O \in Nat
    OBVIOUS
  <1>2. Len(words) = B + C /\ Len(Gen!Matrices) = I + O
    BY DEF Gen!Matrices
  <1>3. Len(words \o input_matrices) = B + C + I
    BY <1>2
  <1>4. Len(Gen!Items) = B + C + I + O
    BY <1>3 DEF Gen!Items
  <1>5. ASSUME i <= B PROVE Gen!Items[i] \in [name: Name]
    <2>1. Gen!Items[i] = binaries[i] /\ i \in 1..B
      BY <1>1, <1>4, <1>5 DEF Gen!Items
    <2>. QED  BY <2>1, ElementOfSeq
  <1>6. ASSUME i > B, i <= B + C PROVE Gen!Items[i] \in [name: Name, len: Nat]
    <2>1. Gen!Items[i] = codes[i - B] /\ i - B \in 1..C
      BY <1>1, <1>4, <1>6 DEF Gen!Items
    <2>. QED  BY <2>1, ElementOfSeq
  <1> DEFINE matrices == [name: Name, len: Nat, dtype: DType]
  <1>7. ASSUME i > B + C, i <= B + C + I
        PROVE  Gen!Items[i] \in matrices /\ \E j \in 1..Len(Gen!Matrices) : Gen!Items[i] = Gen!Matrices[j]
    <2> DEFINE j == i - (B + C)
    <2>1. Gen!Items[i] = input_matrices[j] /\ j \in 1..I
      BY <1>1, <1>4, <1>7 DEF Gen!Items
    <2>2. Gen!Matrices[j] = input_matrices[j]
      BY <2>1 DEF Gen!Matrices
    <2>3. j \in 1..Len(Gen!Matrices)
      BY <1>1, <1>2, <2>1
    <2>4. input_matrices[j] \in matrices
      BY <2>1, ElementOfSeq
    <2> HIDE DEF j, matrices
    <2>. QED  BY <2>1, <2>2, <2>3, <2>4
  <1>8. ASSUME i > B + C + I
        PROVE  Gen!Items[i] \in matrices /\ \E j \in 1..Len(Gen!Matrices) : Gen!Items[i] = Gen!Matrices[j]
    <2> DEFINE j == i - (B + C)
               l == i - (B + C + I)
    <2>1. Gen!Items[i] = output_matrices[l] /\ l \in 1..O
      BY <1>1, <1>4, <1>8 DEF Gen!Items
    <2>2. Gen!Matrices[j] = output_matrices[l] /\ j \in 1..(I + O)
      BY <1>1, <1>4, <1>8 DEF Gen!Matrices
    <2>3. output_matrices[l] \in matrices
      BY <2>1, ElementOfSeq
    <2> HIDE DEF j, l, matrices
    <2>. QED  BY <1>2, <2>1, <2>2, <2>3
  <1>9. i \in Nat
    BY <1>4
  <1> HIDE DEF B, C, I, O
  <1>10. B + C \in Nat /\ (i > B + C => i <= B + C + I \/ i > B + C + I)
    BY <1>1, <1>9
  <1>. QED  BY <1>1, <1>5, <1>6, <1>7, <1>8, <1>9, <1>10 DEF B, C

\* The array's place in the files tells what it is.
LEMMA Entries ==
  ASSUME Lists, filesize \in [Name -> Nat],
         NEW S, \A j \in 1..Len(Gen!Matrices) : Gen!Matrices[j].dtype \in S, "word" \notin S,
         NEW i \in 1..Len(Gen!Items)
  PROVE  LET e == Gen!gen_header.externs[i]
             d == Gen!gen_source[i]
         IN  /\ e.name = d.name /\ e.ctype = d.ctype
             /\ e.size \in Nat /\ e.ctype \in S \cup {"word"}
             /\ Gen!Bytes(d) = e.size
  <1> DEFINE x == Gen!Items[i]
             e == Gen!gen_header.externs[i]
             d == Gen!gen_source[i]
             B == Len(binaries)
             C == Len(codes)
  <1>1. B \in Nat /\ C \in Nat /\ i \in Nat
    BY ItemOf
  <1>2. /\ e.name = x.name
        /\ e.ctype = IF i <= B + C THEN "word" ELSE x.dtype
        /\ e.size = IF i <= B THEN Gen!BinarySize(x.name)
                    ELSE IF i <= B + C THEN x.len * 4 ELSE x.len * Gen!itemsize(x.dtype)
    BY DEF Gen!gen_header
  <1>3. /\ d.name = x.name
        /\ d.ctype = IF i <= B + C THEN "word" ELSE x.dtype
        /\ d.len = IF i <= B THEN Gen!BinaryWords(x.name) ELSE x.len
    BY DEF Gen!gen_source
  <1> HIDE DEF e, d
  <1>4. CASE i <= B
    <2>1. x.name \in Name
      BY <1>4, ItemOf
    <2>2. filesize[x.name] \in Nat
      BY <2>1
    <2> DEFINE f == filesize[x.name]
    <2> HIDE DEF x
    <2>3. e.ctype = "word" /\ d.ctype = "word"
      BY <1>1, <1>2, <1>3, <1>4
    <2>4. /\ e.size = f + (IF f % 4 # 0 THEN 4 - (f % 4) ELSE 0)
          /\ Gen!Bytes(d) = ((f \div 4) + (IF (f % 4) # 0 THEN 1 ELSE 0)) * 4
      BY <1>2, <1>3, <1>4, <2>3 DEF Gen!BinarySize, Gen!BinaryWords, Gen!Bytes
    <2> HIDE DEF f
    <2>5. f \in Nat
      BY <2>2 DEF f
    <2>6. e.size \in Nat /\ Gen!Bytes(d) = e.size
      <3> DEFINE q == f \div 4
                 r == f % 4
      <3>1. q \in Nat /\ r \in 0..3 /\ f = 4 * q + r
        BY <2>5, SMT
      <3>2. /\ e.size = f + (IF r # 0 THEN 4 - r ELSE 0)
            /\ Gen!Bytes(d) = (q + (IF r # 0 THEN 1 ELSE 0)) * 4
        BY <2>4
      <3> HIDE DEF q, r
      <3>3. CASE r = 0
        BY <2>5, <3>1, <3>2, <3>3
      <3>4. CASE r # 0
        BY <2>5, <3>1, <3>2, <3>4
      <3>. QED  BY <3>3, <3>4
    <2>. QED  BY <1>2, <1>3, <2>3, <2>6 DEF e, d
  <1>5. CASE i > B /\ i <= B + C
    <2>1. x.len \in Nat
      BY <1>5, ItemOf
    <2> HIDE DEF x
    <2>2. e.ctype = "word" /\ d.ctype = "word" /\ e.size = x.len * 4 /\ d.len = x.len
      BY <1>1, <1>2, <1>3, <1>5
    <2>3. Gen!Bytes(d) = e.size /\ e.size \in Nat
      BY <2>1, <2>2 DEF Gen!Bytes
    <2>. QED  BY <1>2, <1>3, <2>2, <2>3 DEF e, d
  <1>6. CASE i > B + C
    <2>1. x.len \in Nat /\ x.dtype \in S
      BY <1>6, ItemOf
    <2> HIDE DEF x
    <2>2. /\ e.ctype = x.dtype /\ d.ctype = x.dtype /\ x.dtype # "word"
          /\ e.size = x.len * Gen!itemsize(x.dtype) /\ d.len = x.len
      BY <1>1, <1>2, <1>3, <1>6, <2>1
    <2>3. Gen!itemsize(x.dtype) \in {1, 2, 4}
      BY DEF Gen!itemsize
    <2>4. Gen!Bytes(d) = e.size /\ e.size \in Nat
      BY <2>1, <2>2, <2>3 DEF Gen!Bytes
    <2>. QED  BY <1>2, <1>3, <2>1, <2>2, <2>4 DEF e, d
  <1>. QED  BY <1>1, <1>4, <1>5, <1>6

\* Both files have an entry for every array.
LEMMA Lengths ==
  ASSUME Lists
  PROVE  /\ Len(Gen!gen_header.externs) = Len(Gen!Items)
         /\ Len(Gen!gen_source) = Len(Gen!Items)
  <1>1. Len(Gen!Items) \in Nat
    BY DEF Lists, Gen!Items
  <1> DEFINE L == Len(Gen!Items)
  <1> DEFINE externs == Gen!gen_header.externs
  <1>2. externs = [k \in 1..L |-> externs[k]]
    BY DEF Gen!gen_header
  <1>3. Gen!gen_source = [k \in 1..L |-> Gen!gen_source[k]]
    BY DEF Gen!gen_source
  <1> HIDE DEF L, externs
  <1>4. Len(externs) = L
    <2> DEFINE f(k) == externs[k]
    <2>1. externs = [k \in 1..L |-> f(k)]
      BY <1>2
    <2> HIDE DEF f
    <2>. QED  BY <1>1, <2>1 DEF L
  <1>5. Len(Gen!gen_source) = L
    <2> DEFINE f(k) == Gen!gen_source[k]
    <2>1. Gen!gen_source = [k \in 1..L |-> f(k)]
      BY <1>3
    <2> HIDE DEF f
    <2>. QED  BY <1>1, <2>1 DEF L
  <1>. QED  BY <1>4, <1>5 DEF L, externs

\* Every array has a name.
LEMMA NamesOfItems == Lists => \A i \in 1..Len(Gen!Items) : Gen!Items[i].name \in Name
  BY ItemOf

\* The same of the state after a step.
LEMMA GenInvNames ==
  Lists' => (\A i \in 1..Len(Gen!Items) : Gen!Items[i].name \in Name)'
  BY NamesOfItems, PTL

\* The steps that only register: the files written before stay as they are.
LEMMA RegisterStep ==
  ASSUME GenInv, Lists', filesize' = filesize, macros_raw' = macros_raw,
         fresh' = FALSE, data_h' = data_h, data_c' = data_c
  PROVE  GenInv'
  <1>1. (\A i \in 1..Len(Gen!Items) : Gen!Items[i].name \in Name)'
    BY GenInvNames
  <1>2. Gen!TypeOK'
    BY <1>1 DEF GenInv, Gen!TypeOK, Gen!dtype_to_ctype, Gen!signed2unsigned
  <1>. QED  BY <1>2 DEF GenInv, Lists

\* An array is appended to its list.
LEMMA AddStep ==
  ASSUME GenInv,
         \/ \E x \in Name : Gen!add_binary(x)
         \/ \E x \in Name, s \in Sizes : Gen!add_code(x, s)
         \/ \E x \in Name, s \in Sizes, t \in DType : Gen!add_input_matrix(x, s, t)
         \/ \E x \in Name, s \in Sizes, t \in DType : Gen!add_output_matrix(x, s, t)
  PROVE  GenInv'
  <1>1. Lists /\ Sizes \subseteq Nat
    BY GenAssumption DEF GenInv, Lists, Gen!SizesAndLines
  <1>2. filesize' = filesize /\ macros_raw' = macros_raw /\ fresh' = FALSE
        /\ data_h' = data_h /\ data_c' = data_c
    BY DEF Gen!add_binary, Gen!add_code, Gen!add_input_matrix, Gen!add_output_matrix, Gen!Register
  <1>3. Lists'
    <2>1. CASE \E x \in Name : Gen!add_binary(x)
      <3>1. PICK x \in Name : Gen!add_binary(x)
        BY <2>1
      <3>2. [name |-> x] \in [name: Name]
        OBVIOUS
      <3>3. /\ binaries' = Append(binaries, [name |-> x]) /\ codes' = codes
            /\ input_matrices' = input_matrices /\ output_matrices' = output_matrices
        BY <3>1 DEF Gen!add_binary, Gen!Register
      <3>4. binaries' \in Seq([name: Name])
        BY <1>1, <3>2, <3>3, AppendProperties DEF Lists
      <3>. QED  BY <1>1, <3>3, <3>4 DEF Lists
    <2>2. CASE \E x \in Name, s \in Sizes : Gen!add_code(x, s)
      <3>1. PICK x \in Name, s \in Sizes : Gen!add_code(x, s)
        BY <2>2
      <3>2. [name |-> x, len |-> s] \in [name: Name, len: Nat]
        BY <1>1
      <3>3. /\ codes' = Append(codes, [name |-> x, len |-> s]) /\ binaries' = binaries
            /\ input_matrices' = input_matrices /\ output_matrices' = output_matrices
        BY <3>1 DEF Gen!add_code, Gen!Register
      <3>4. codes' \in Seq([name: Name, len: Nat])
        BY <1>1, <3>2, <3>3, AppendProperties DEF Lists
      <3>. QED  BY <1>1, <3>3, <3>4 DEF Lists
    <2>3. CASE \E x \in Name, s \in Sizes, t \in DType : Gen!add_input_matrix(x, s, t)
      <3>1. PICK x \in Name, s \in Sizes, t \in DType : Gen!add_input_matrix(x, s, t)
        BY <2>3
      <3>2. [name |-> x, len |-> s, dtype |-> t] \in [name: Name, len: Nat, dtype: DType]
        BY <1>1
      <3>3. /\ input_matrices' = Append(input_matrices, [name |-> x, len |-> s, dtype |-> t])
            /\ binaries' = binaries /\ codes' = codes /\ output_matrices' = output_matrices
        BY <3>1 DEF Gen!add_input_matrix, Gen!Register
      <3>4. input_matrices' \in Seq([name: Name, len: Nat, dtype: DType])
        BY <1>1, <3>2, <3>3, AppendProperties DEF Lists
      <3>. QED  BY <1>1, <3>3, <3>4 DEF Lists
    <2>4. CASE \E x \in Name, s \in Sizes, t \in DType : Gen!add_output_matrix(x, s, t)
      <3>1. PICK x \in Name, s \in Sizes, t \in DType : Gen!add_output_matrix(x, s, t)
        BY <2>4
      <3>2. [name |-> x, len |-> s, dtype |-> t] \in [name: Name, len: Nat, dtype: DType]
        BY <1>1
      <3>3. /\ output_matrices' = Append(output_matrices, [name |-> x, len |-> s, dtype |-> t])
            /\ binaries' = binaries /\ codes' = codes /\ input_matrices' = input_matrices
        BY <3>1 DEF Gen!add_output_matrix, Gen!Register
      <3>4. output_matrices' \in Seq([name: Name, len: Nat, dtype: DType])
        BY <1>1, <3>2, <3>3, AppendProperties DEF Lists
      <3>. QED  BY <1>1, <3>3, <3>4 DEF Lists
    <2>. QED  BY <2>1, <2>2, <2>3, <2>4
  <1>. QED  BY <1>2, <1>3, RegisterStep

\* The macros above a guard, and no guard, are taken over.
LEMMA MacrosStep ==
  ASSUME GenInv, NEW lines \in SourceFiles, Gen!add_macros_from_source(lines)
  PROVE  GenInv'
  <1> DEFINE read == [i \in Gen!MacrosRead(lines) |-> lines[i]]
             Read == UNION {[L -> {"macro"}] : L \in SUBSET Nat}
  <1>1. lines \in Seq({"other", "macro", "guard"})
    BY GenAssumption DEF Gen!SizesAndLines
  <1>2. \A i \in Gen!MacrosRead(lines) : i \in Nat /\ lines[i] = "macro"
    <2> TAKE i \in Gen!MacrosRead(lines)
    <2>1. i \in 1..Len(lines) /\ lines[i] # "other" /\ \A g \in Gen!Guards(lines) : i < g
      BY DEF Gen!MacrosRead
    <2>2. lines[i] \in {"other", "macro", "guard"} /\ i \in Nat /\ ~(i < i)
      BY <1>1, <2>1
    <2>3. lines[i] # "guard"
      BY <2>1, <2>2 DEF Gen!Guards
    <2>. QED  BY <2>1, <2>2, <2>3
  <1>3. read \in Read
    <2>1. Gen!MacrosRead(lines) \in SUBSET Nat /\ read \in [Gen!MacrosRead(lines) -> {"macro"}]
      BY <1>2
    <2>. QED  BY <2>1
  <1>4. /\ macros_raw' = Append(macros_raw, read)
        /\ binaries' = binaries /\ codes' = codes /\ input_matrices' = input_matrices
        /\ output_matrices' = output_matrices /\ filesize' = filesize
        /\ data_h' = data_h /\ data_c' = data_c /\ fresh' = FALSE
    BY DEF Gen!add_macros_from_source, Gen!lists
  <1> HIDE DEF read
  <1>5. macros_raw \in Seq(Read) /\ macros_raw' \in Seq(Read)
    <2>1. macros_raw \in Seq(Read)
      BY DEF GenInv
    <2> HIDE DEF Read
    <2>. QED  BY <1>3, <1>4, <2>1, AppendProperties
  <1>6. \A i \in 1..Len(macros_raw') :
           \A l \in DOMAIN macros_raw'[i] : macros_raw'[i][l] = "macro"
    <2> TAKE i \in 1..Len(macros_raw')
    <2>1. macros_raw'[i] \in Read
      <3> HIDE DEF Read
      <3>. QED  BY <1>5, ElementOfSeq
    <2>2. PICK L \in SUBSET Nat : macros_raw'[i] \in [L -> {"macro"}]
      BY <2>1
    <2>. QED  BY <2>2
  <1>7. Gen!Items' = Gen!Items
    BY <1>4 DEF Gen!Items
  <1>8. Gen!TypeOK'
    BY <1>4, <1>6, <1>7 DEF GenInv, Gen!TypeOK, Gen!dtype_to_ctype, Gen!signed2unsigned
  <1>. QED  BY <1>4, <1>5, <1>8 DEF GenInv, Lists

\* Writing the header, or failing to.
LEMMA DeclareStep ==
  ASSUME GenInv, Gen!Declare
  PROVE  GenInv'
  <1>1. /\ binaries' = binaries /\ codes' = codes /\ input_matrices' = input_matrices
        /\ output_matrices' = output_matrices /\ filesize' = filesize
        /\ data_c' = data_c /\ macros_raw' = macros_raw
    BY DEF Gen!Declare, Gen!lists
  <1>2. Gen!Items' = Gen!Items
    BY <1>1 DEF Gen!Items
  <1>3. Gen!gen_header' = Gen!gen_header
    BY <1>1, <1>2 DEF Gen!gen_header, Gen!BinarySize, Gen!itemsize
  <1>4. CASE data_h' = data_h /\ fresh' = fresh
    <2>1. Gen!TypeOK'
      BY <1>1, <1>2, <1>4 DEF GenInv, Gen!TypeOK, Gen!dtype_to_ctype, Gen!signed2unsigned
    <2>. QED  BY <1>1, <1>3, <1>4, <2>1 DEF GenInv, Lists
  <1>5. CASE /\ \A j \in 1..Len(Gen!Matrices) : Gen!Matrices[j].dtype \in Gen!dtype_to_ctype
             /\ data_h' = Gen!gen_header /\ fresh' = TRUE
    <2> DEFINE S == Gen!dtype_to_ctype
    <2>1. Lists /\ filesize \in [Name -> Nat]
      BY DEF GenInv, Lists
    <2>2. "word" \notin S
      BY DEF Gen!dtype_to_ctype
    <2>3. \A i \in 1..Len(Gen!gen_header.externs) :
             /\ Gen!gen_header.externs[i].size \in Nat
             /\ Gen!gen_header.externs[i].ctype \in S \cup {"word"}
      <3> HIDE DEF S
      <3>. QED  BY <1>5, <2>1, <2>2, Entries, Lengths DEF S
    <2>4. Gen!TypeOK'
      <3>1. \A i \in 1..Len(data_h'.externs) :
               data_h'.externs[i].size \in Nat /\ data_h'.externs[i].ctype \in S \cup {"word"}
        BY <1>5, <2>3
      <3>2. S' = S
        BY DEF Gen!dtype_to_ctype
      <3> HIDE DEF S
      <3>. QED  BY <1>1, <1>2, <3>1, <3>2 DEF GenInv, Gen!TypeOK, Gen!signed2unsigned, S
    <2>. QED  BY <1>1, <1>3, <1>5, <2>4 DEF GenInv, Lists
  <1>. QED  BY <1>4, <1>5 DEF Gen!Declare

\* Writing the source, or failing to.
LEMMA SourceStep ==
  ASSUME GenInv, Gen!write_source
  PROVE  GenInv'
  <1>1. /\ binaries' = binaries /\ codes' = codes /\ input_matrices' = input_matrices
        /\ output_matrices' = output_matrices /\ filesize' = filesize
        /\ data_h' = data_h /\ macros_raw' = macros_raw /\ fresh' = fresh
    BY DEF Gen!write_source, Gen!lists
  <1>2. Gen!Items' = Gen!Items
    BY <1>1 DEF Gen!Items
  <1>3. Gen!gen_header' = Gen!gen_header
    BY <1>1, <1>2 DEF Gen!gen_header, Gen!BinarySize, Gen!itemsize
  <1>4. CASE data_c' = data_c
    <2>1. Gen!TypeOK'
      BY <1>1, <1>2, <1>4 DEF GenInv, Gen!TypeOK, Gen!dtype_to_ctype, Gen!signed2unsigned
    <2>. QED  BY <1>1, <1>3, <2>1 DEF GenInv, Lists
  <1>5. CASE /\ \A j \in 1..Len(Gen!Matrices) : Gen!Matrices[j].dtype \in Gen!signed2unsigned
             /\ data_c' = Gen!gen_source
    <2> DEFINE S == Gen!signed2unsigned
    <2>1. Lists /\ filesize \in [Name -> Nat]
      BY DEF GenInv, Lists
    <2>2. "word" \notin S
      BY DEF Gen!signed2unsigned
    <2>3. \A i \in 1..Len(Gen!gen_source) : Gen!gen_source[i].ctype \in S \cup {"word"}
      <3> HIDE DEF S
      <3>. QED  BY <1>5, <2>1, <2>2, Entries, Lengths DEF S
    <2>4. Gen!TypeOK'
      <3>1. \A i \in 1..Len(data_c') : data_c'[i].ctype \in S \cup {"word"}
        BY <1>5, <2>3
      <3>2. S' = S
        BY DEF Gen!signed2unsigned
      <3> HIDE DEF S
      <3>. QED  BY <1>1, <1>2, <3>1, <3>2 DEF GenInv, Gen!TypeOK, Gen!dtype_to_ctype, S
    <2>. QED  BY <1>1, <1>3, <2>4 DEF GenInv, Lists
  <1>. QED  BY <1>4, <1>5 DEF Gen!write_source

\* What is written as a source fits a header that is still up to date.
LEMMA SourceFits ==
  ASSUME GenInv, Gen!Next, data_c' # data_c, fresh
  PROVE  /\ Len(data_c') = Len(data_h.externs)
         /\ \A i \in 1..Len(data_c') :
              LET e == data_h.externs[i] IN
                /\ data_c'[i].name = e.name /\ data_c'[i].ctype = e.ctype
                /\ Gen!Bytes(data_c'[i]) = e.size
  <1>1. Gen!write_source
    BY DEF Gen!Next, Gen!add_binary, Gen!add_code, Gen!add_input_matrix, Gen!add_output_matrix,
           Gen!Register, Gen!add_macros_from_source, Gen!write_header, Gen!append_header,
           Gen!Declare, Gen!Rebuild
  <1>2. /\ \A j \in 1..Len(Gen!Matrices) : Gen!Matrices[j].dtype \in Gen!signed2unsigned
        /\ data_c' = Gen!gen_source /\ data_h = Gen!gen_header
    BY <1>1 DEF Gen!write_source, GenInv
  <1>3. Lists /\ filesize \in [Name -> Nat] /\ "word" \notin Gen!signed2unsigned
    BY DEF GenInv, Lists, Gen!signed2unsigned
  <1>. QED  BY <1>2, <1>3, Entries, Lengths

\* A binary that changes makes the header out of date.
LEMMA RebuildStep ==
  ASSUME GenInv, Gen!Rebuild
  PROVE  GenInv'
  <1>1. /\ binaries' = binaries /\ codes' = codes /\ input_matrices' = input_matrices
        /\ output_matrices' = output_matrices /\ data_h' = data_h /\ data_c' = data_c
        /\ macros_raw' = macros_raw /\ fresh' = FALSE
    BY DEF Gen!Rebuild, Gen!lists
  <1>2. Gen!Items' = Gen!Items
    BY <1>1 DEF Gen!Items
  <1>3. filesize' \in [Name -> Nat]
    BY GenAssumption DEF Gen!Rebuild, Gen!SizesAndLines, GenInv
  <1>4. Gen!TypeOK'
    BY <1>1, <1>2 DEF GenInv, Gen!TypeOK, Gen!dtype_to_ctype, Gen!signed2unsigned
  <1>. QED  BY <1>1, <1>3, <1>4 DEF GenInv, Lists

\* Nothing changes, or only the exception.
LEMMA GenStutter ==
  ASSUME GenInv, UNCHANGED <<Gen!lists, macros_raw, filesize, data_h, data_c, fresh>>
  PROVE  GenInv'
  <1>1. /\ binaries' = binaries /\ codes' = codes /\ input_matrices' = input_matrices
        /\ output_matrices' = output_matrices /\ data_h' = data_h /\ data_c' = data_c
        /\ macros_raw' = macros_raw /\ fresh' = fresh /\ filesize' = filesize
    BY DEF Gen!lists
  <1>2. Gen!Items' = Gen!Items
    BY <1>1 DEF Gen!Items
  <1>3. Gen!gen_header' = Gen!gen_header
    BY <1>1, <1>2 DEF Gen!gen_header, Gen!BinarySize, Gen!itemsize
  <1>4. Gen!TypeOK'
    BY <1>1, <1>2 DEF GenInv, Gen!TypeOK, Gen!dtype_to_ctype, Gen!signed2unsigned
  <1>. QED  BY <1>1, <1>3, <1>4 DEF GenInv, Lists

\* Nothing is registered or written.
LEMMA InitGen ==
  ASSUME Gen!Init
  PROVE  GenInv
  <1>1. /\ binaries = <<>> /\ codes = <<>> /\ input_matrices = <<>> /\ output_matrices = <<>>
        /\ macros_raw = <<>> /\ filesize \in [Name -> Nat] /\ fresh = FALSE
        /\ data_h = NoFile /\ data_c = NoFile
    BY GenAssumption DEF Gen!Init, Gen!SizesAndLines
  <1>2. Len(Gen!Items) = 0 /\ Len(macros_raw) = 0
    BY <1>1 DEF Gen!Items
  <1>3. Gen!TypeOK
    BY <1>1, <1>2 DEF Gen!TypeOK
  <1>4. \A S : <<>> \in Seq(S)
    OBVIOUS
  <1>. QED  BY <1>1, <1>3, <1>4 DEF GenInv, Lists

\* Every step keeps the invariant.
LEMMA GenStep ==
  ASSUME GenInv, [Gen!Next]_(Gen!vars)
  PROVE  GenInv'
  <1>1. CASE UNCHANGED Gen!vars
    BY <1>1, GenStutter DEF Gen!vars
  <1>2. CASE \E lines \in SourceFiles : Gen!add_macros_from_source(lines)
    BY <1>2, MacrosStep
  <1>3. CASE Gen!write_header
    BY <1>3, DeclareStep DEF Gen!write_header
  <1>4. ASSUME NEW g \in BOOLEAN, Gen!append_header(g) PROVE GenInv'
    <2>1. CASE g = TRUE
      BY <1>4, <2>1, DeclareStep DEF Gen!append_header
    <2>2. CASE g = FALSE
      BY <1>4, <2>2, GenStutter DEF Gen!append_header
    <2>. QED  BY <2>1, <2>2
  <1>5. CASE Gen!write_source
    BY <1>5, SourceStep
  <1>6. CASE Gen!Rebuild
    BY <1>6, RebuildStep
  <1>. QED  BY <1>1, <1>2, <1>3, <1>4, <1>5, <1>6, AddStep DEF Gen!Next

\* The invariant holds after any sequence of calls, failures and rebuilds.
THEOREM GenInvariant == Gen!Spec => []GenInv
  <1>1. Gen!Init => GenInv
    BY InitGen
  <1>2. GenInv /\ [Gen!Next]_(Gen!vars) => GenInv'
    BY GenStep
  <1>. QED  BY <1>1, <1>2, PTL DEF Gen!Spec

\* Header and source are well-formed, and a source written after its header, with
\* nothing changed in between, defines what the header declares, for any arrays,
\* sizes and source files (c_gen.py:229-385).
THEOREM FilesAgree == Gen!Spec => GenCorrect
  <1>1. GenInv => Gen!TypeOK
    BY DEF GenInv
  <1>2. GenInv /\ [Gen!Next]_(Gen!vars) =>
          [data_c' # data_c /\ fresh =>
             /\ Len(data_c') = Len(data_h.externs)
             /\ \A i \in 1..Len(data_c') :
                  LET e == data_h.externs[i] IN
                    data_c'[i].name = e.name /\ data_c'[i].ctype = e.ctype
                      /\ Gen!Bytes(data_c'[i]) = e.size]_(Gen!vars)
    BY SourceFits
  <1>3. Gen!Spec => []GenInv
    BY GenInvariant
  <1>. QED  BY <1>1, <1>2, <1>3, PTL DEF Gen!Spec, GenCorrect, Gen!GenCorrect, Gen!HeaderMatchesSource

-----------------------------------------------------------------------------
(* A value computed in steps *)

ComputedBy(S, b, N, rule, g) ==
  g \in [0..N -> S] /\ g[0] = b /\ \A k \in 1..N : g[k] = rule[<<k, g[k-1]>>]

LEMMA ComputedExists ==
  ASSUME NEW S, NEW b \in S, NEW N \in Nat, NEW rule \in [(1..N) \X S -> S]
  PROVE  \E g : ComputedBy(S, b, N, rule, g)
  <1> DEFINE Good(g, k) == g[0] = b /\ \A j \in 1..k : g[j] = rule[<<j, g[j-1]>>]
             T == {k \in Nat : k <= N => \E g \in [0..k -> S] : Good(g, k)}
  <1>1. 0 \in T
    <2> DEFINE g == [j \in 0..0 |-> b]
    <2>1. g \in [0..0 -> S] /\ Good(g, 0)
      OBVIOUS
    <2>. QED  BY <2>1
  <1>2. ASSUME NEW k \in Nat, k \in T PROVE k + 1 \in T
    <2> SUFFICES ASSUME k + 1 <= N PROVE \E g \in [0..k+1 -> S] : Good(g, k + 1)
      OBVIOUS
    <2>1. PICK g \in [0..k -> S] : Good(g, k)
      BY <1>2
    <2> DEFINE h == [j \in 0..k+1 |-> IF j = k + 1 THEN rule[<<k + 1, g[k]>>] ELSE g[j]]
    <2>2. k + 1 \in 1..N /\ g[k] \in S /\ rule[<<k + 1, g[k]>>] \in S
      OBVIOUS
    <2>3. h \in [0..k+1 -> S]
      BY <2>2
    <2>4. h[0] = b
      BY <2>1
    <2>5. ASSUME NEW j \in 1..k+1 PROVE h[j] = rule[<<j, h[j-1]>>]
      <3>1. j - 1 \in 0..k /\ h[j-1] = g[j-1]
        BY <2>5
      <3>2. CASE j = k + 1
        BY <3>1, <3>2
      <3>3. CASE j # k + 1
        <4>1. j \in 1..k /\ h[j] = g[j]
          BY <3>3
        <4>. QED  BY <4>1, <3>1, <2>1
      <3>. QED  BY <3>2, <3>3
    <2>. QED  BY <2>3, <2>4, <2>5
  <1>3. N \in T
    <2> HIDE DEF T
    <2>. QED  BY <1>1, <1>2, SetInduction
  <1>. QED  BY <1>3 DEF ComputedBy

-----------------------------------------------------------------------------
(* Counting tokens *)

LEMMA UptoStep ==
  ASSUME NEW t, NEW k \in Nat, NEW W
  PROVE  /\ Upto(t, k, W) \in Nat /\ Upto(t, 0, W) = 0
         /\ t[k+1] \in W => Upto(t, k + 1, W) = Upto(t, k, W) + 1
         /\ t[k+1] \notin W => Upto(t, k + 1, W) = Upto(t, k, W)
  <1> DEFINE C(j) == {i \in 1..j : t[i] \in W}
  <1>1. C(k) \subseteq 1..k /\ C(0) = {} /\ k + 1 \notin C(k)
    OBVIOUS
  <1>2. IsFiniteSet(C(k)) /\ Cardinality(C(k)) \in Nat /\ Cardinality(C(0)) = 0
    <2>1. IsFiniteSet(1..k)
      BY FS_Interval
    <2>. QED  BY <1>1, <2>1, FS_Subset, FS_CardinalityType, FS_EmptySet
  <1>3. C(k + 1) = IF t[k+1] \in W THEN C(k) \cup {k + 1} ELSE C(k)
    OBVIOUS
  <1>4. \A j \in {0, k, k + 1} : Upto(t, j, W) = Cardinality(C(j))
    BY DEF Upto
  <1> HIDE DEF C
  <1>. QED  BY <1>1, <1>2, <1>3, <1>4, FS_AddElement

LEMMA UptoSame ==
  ASSUME NEW t, NEW u, NEW k \in Nat, NEW W, \A j \in 1..k : t[j] = u[j]
  PROVE  Upto(t, k, W) = Upto(u, k, W)
  <1>1. {j \in 1..k : t[j] \in W} = {j \in 1..k : u[j] \in W}
    OBVIOUS
  <1>. QED  BY <1>1 DEF Upto

LEMMA TextConcat ==
  ASSUME NEW S, NEW t \in Seq(S), NEW u \in Seq(S)
  PROVE  /\ t \o u \in Seq(S) /\ Len(t \o u) = Len(t) + Len(u)
         /\ Len(t) \in Nat /\ Len(u) \in Nat
         /\ \A k \in 1..Len(t) : (t \o u)[k] = t[k]
         /\ \A k \in 1..Len(u) : (t \o u)[Len(t) + k] = u[k]
  <1>1. t \o u \in Seq(S) /\ Len(t \o u) = Len(t) + Len(u) /\ Len(t) \in Nat /\ Len(u) \in Nat
    OBVIOUS
  <1>2. \A k \in 1..Len(t) : (t \o u)[k] = t[k]
    OBVIOUS
  <1>3. \A k \in 1..Len(u) : (t \o u)[Len(t) + k] = u[k]
    OBVIOUS
  <1>. QED  BY <1>1, <1>2, <1>3

Adds(t, u, x, W) ==
  /\ \A k \in 0..Len(t) : Upto(x, k, W) = Upto(t, k, W)
  /\ \A k \in 0..Len(u) : Upto(x, Len(t) + k, W) = Upto(t, Len(t), W) + Upto(u, k, W)

LEMMA UptoConcat ==
  ASSUME NEW S, NEW t \in Seq(S), NEW u \in Seq(S), NEW W
  PROVE  Adds(t, u, t \o u, W)
  <1> DEFINE x == t \o u
             T == {k \in Nat : k <= Len(u) =>
                     Upto(x, Len(t) + k, W) = Upto(t, Len(t), W) + Upto(u, k, W)}
  <1>1. /\ Len(t) \in Nat /\ Len(u) \in Nat
        /\ \A k \in 1..Len(t) : x[k] = t[k]
        /\ \A k \in 1..Len(u) : x[Len(t) + k] = u[k]
    BY TextConcat
  <1> HIDE DEF x
  <1>2. \A k \in 0..Len(t) : Upto(x, k, W) = Upto(t, k, W)
    <2> TAKE k \in 0..Len(t)
    <2>1. k \in Nat
      BY <1>1
    <2>2. \A j \in 1..k : x[j] = t[j]
      BY <1>1
    <2>. QED  BY <2>1, <2>2, UptoSame
  <1>3. 0 \in T
    <2>1. Upto(u, 0, W) = 0 /\ Upto(t, Len(t), W) \in Nat
      BY <1>1, UptoStep
    <2>2. Len(t) + 0 = Len(t) /\ Upto(x, Len(t), W) = Upto(t, Len(t), W)
      BY <1>1, <1>2
    <2>. QED  BY <2>1, <2>2
  <1>4. ASSUME NEW k \in Nat, k \in T PROVE k + 1 \in T
    <2> SUFFICES ASSUME k + 1 <= Len(u)
                 PROVE  Upto(x, Len(t) + (k + 1), W) = Upto(t, Len(t), W) + Upto(u, k + 1, W)
      OBVIOUS
    <2> DEFINE l == Len(t) + k
    <2>1. l \in Nat /\ Len(t) + (k + 1) = l + 1 /\ x[l + 1] = u[k + 1]
      <3>1. k + 1 \in 1..Len(u) /\ Len(t) + (k + 1) = l + 1
        BY <1>1
      <3>. QED  BY <1>1, <3>1
    <2>2. Upto(x, l, W) = Upto(t, Len(t), W) + Upto(u, k, W)
      BY <1>1, <1>4
    <2> HIDE DEF l
    <2>3. Upto(t, Len(t), W) \in Nat /\ Upto(u, k, W) \in Nat
      BY <1>1, UptoStep
    <2>4. /\ u[k+1] \in W => Upto(x, l + 1, W) = Upto(x, l, W) + 1 /\ Upto(u, k + 1, W) = Upto(u, k, W) + 1
          /\ u[k+1] \notin W => Upto(x, l + 1, W) = Upto(x, l, W) /\ Upto(u, k + 1, W) = Upto(u, k, W)
      BY <2>1, UptoStep
    <2>. QED  BY <2>1, <2>2, <2>3, <2>4
  <1>5. Nat \subseteq T
    <2> HIDE DEF T
    <2>. QED  BY <1>3, <1>4, SetInduction
  <1>6. \A k \in 0..Len(u) : Upto(x, Len(t) + k, W) = Upto(t, Len(t), W) + Upto(u, k, W)
    BY <1>1, <1>5
  <1>. QED  BY <1>2, <1>6 DEF x, Adds

-----------------------------------------------------------------------------
(* Texts *)

\* The tokens of a matrix: elements that do not exist included.
Tokens(a) == {Open, Close, Sep} \cup {Hex(a, i) : i \in Nat}
Text(a)   == Seq(Tokens(a))

\* What is to be read at a place behind i elements; without elements, commas.
ItemAt(a, i, place) ==
  IF Size(a.shape) # 0 /\ place % 2 = 1 THEN Hex(a, i + ElementAt(place)) ELSE Sep

\* A text of the elements behind i: r tokens of it are to be read, o comments
\* open in it, c of these are closed again.
Part(a, t, i, r, o, c) ==
  /\ t \in Text(a)
  /\ Place(t, Len(t)) = r
  /\ \A k \in ReadAt(t) : Place(t, k) \in 1..r /\ t[k] = ItemAt(a, i, Place(t, k))
  /\ Upto(t, Len(t), {Open}) = o /\ Upto(t, Len(t), {Close}) = c
  /\ \A k \in 0..Len(t) : Upto(t, k, {Close}) <= Upto(t, k, {Open})

Shifts(a, i, j, s) == \A place \in Nat : ItemAt(a, i, s + place) = ItemAt(a, i + j, place)

LEMMA ItemShift ==
  ASSUME NEW a, NEW i \in Nat, NEW j \in Nat, NEW s \in Nat, Size(a.shape) # 0 => s = 2 * j
  PROVE  Shifts(a, i, j, s)
  <1> SUFFICES ASSUME NEW place \in Nat
               PROVE  ItemAt(a, i, s + place) = ItemAt(a, i + j, place)
    BY DEF Shifts
  <1>0. CASE Size(a.shape) = 0
    BY <1>0 DEF ItemAt
  <1>1. (2 * j + place) % 2 = place % 2
    OBVIOUS
  <1>2. i + ((2 * j + place) + 1) \div 2 = (i + j) + (place + 1) \div 2
    OBVIOUS
  <1>3. CASE Size(a.shape) # 0
    <2>1. s = 2 * j
      BY <1>3
    <2>. QED  BY <1>1, <1>2, <2>1 DEF ItemAt, ElementAt
  <1>. QED  BY <1>0, <1>3

LEMMA PartConcat ==
  ASSUME NEW a, NEW t, NEW u, NEW i \in Nat, NEW j \in Nat, NEW s \in Nat, NEW r \in Nat,
         NEW o \in Nat, NEW c \in Nat, NEW p \in Nat, NEW q \in Nat,
         Part(a, t, i, s, o, c), Part(a, u, i + j, r, p, q), c <= o,
         Size(a.shape) # 0 => s = 2 * j
  PROVE  Part(a, t \o u, i, s + r, o + p, c + q)
  <1> DEFINE x == t \o u
             N == Len(t)
             K == Len(u)
  <1>1. t \in Text(a) /\ u \in Text(a)
    BY DEF Part
  <1>2. /\ x \in Text(a) /\ Len(x) = N + K /\ N \in Nat /\ K \in Nat
        /\ \A k \in 1..N : x[k] = t[k]
        /\ \A k \in 1..K : x[N + k] = u[k]
    BY <1>1, TextConcat DEF Text
  <1>3. \A W :
          /\ \A k \in 0..N : Upto(x, k, W) = Upto(t, k, W)
          /\ \A k \in 0..K : Upto(x, N + k, W) = Upto(t, N, W) + Upto(u, k, W)
    <2> TAKE W
    <2>1. t \in Seq(Tokens(a)) /\ u \in Seq(Tokens(a))
      BY <1>1 DEF Text
    <2>2. Adds(t, u, x, W)
      BY <2>1, UptoConcat
    <2>. QED  BY <2>2 DEF Adds
  <1> HIDE DEF x
  <1>4. \A W : \A k \in Nat : Upto(t, k, W) \in Nat /\ Upto(u, k, W) \in Nat /\ Upto(t, 0, W) = 0
    BY UptoStep
  <1>5. \A k \in 1..Len(x) : k \in 1..N \/ \E l \in 1..K : k = N + l
    <2> TAKE k \in 1..Len(x)
    <2>1. CASE k <= N
      BY <1>2, <2>1
    <2>2. CASE k > N
      <3>1. k - N \in 1..K /\ k = N + (k - N)
        BY <1>2, <2>2
      <3>. QED  BY <3>1
    <2>. QED  BY <1>2, <2>1, <2>2
  <1>6. Place(t, N) = s /\ Place(u, K) = r
    BY DEF Part
  <1>7. \A k \in 1..N : Place(x, k) = Place(t, k)
    <2> TAKE k \in 1..N
    <2>0. k \in 0..N
      BY <1>2
    <2>1. Upto(x, k, Comments) = Upto(t, k, Comments)
      BY <1>3, <2>0
    <2>. QED  BY <2>1 DEF Place
  <1>8. \A k \in 0..K : Place(x, N + k) = s + Place(u, k)
    <2> TAKE k \in 0..K
    <2>1. Upto(x, N + k, Comments) = Upto(t, N, Comments) + Upto(u, k, Comments)
      BY <1>3
    <2>2. Upto(t, N, Comments) \in Nat /\ Upto(u, k, Comments) \in Nat /\ k \in Nat
      BY <1>2, <1>4
    <2>. QED  BY <1>2, <1>6, <2>1, <2>2 DEF Place
  <1>9. Place(x, Len(x)) = s + r
    <2>1. K \in 0..K
      BY <1>2
    <2>2. Place(x, N + K) = s + Place(u, K)
      BY <1>8, <2>1
    <2>. QED  BY <1>2, <1>6, <2>2
  <1>10. ASSUME NEW k \in ReadAt(x)
         PROVE  Place(x, k) \in 1..s+r /\ x[k] = ItemAt(a, i, Place(x, k))
    <2>1. k \in 1..Len(x) /\ x[k] \notin Comments
      BY DEF ReadAt
    <2>2. CASE k \in 1..N
      <3>1. k \in ReadAt(t)
        BY <1>2, <2>1, <2>2 DEF ReadAt
      <3>2. Place(t, k) \in 1..s /\ t[k] = ItemAt(a, i, Place(t, k))
        BY <3>1 DEF Part
      <3>. QED  BY <1>2, <1>7, <2>2, <3>2
    <2>3. CASE \E l \in 1..K : k = N + l
      <3>1. PICK l \in 1..K : k = N + l
        BY <2>3
      <3>2. l \in ReadAt(u)
        BY <1>2, <2>1, <3>1 DEF ReadAt
      <3>3. Place(u, l) \in 1..r /\ u[l] = ItemAt(a, i + j, Place(u, l))
        BY <3>2 DEF Part
      <3>4. Place(x, k) = s + Place(u, l)
        BY <1>8, <3>1
      <3>5. ItemAt(a, i, Place(x, k)) = ItemAt(a, i + j, Place(u, l))
        <4>1. Place(u, l) \in Nat
          BY <3>3
        <4>2. Shifts(a, i, j, s)
          BY ItemShift
        <4>. QED  BY <3>4, <4>1, <4>2 DEF Shifts
      <3>. QED  BY <1>2, <3>1, <3>3, <3>4, <3>5
    <2>. QED  BY <1>5, <2>1, <2>2, <2>3
  <1>11. /\ Upto(t, N, {Open}) = o /\ Upto(t, N, {Close}) = c
         /\ Upto(u, K, {Open}) = p /\ Upto(u, K, {Close}) = q
    BY DEF Part
  <1>12. Upto(x, Len(x), {Open}) = o + p /\ Upto(x, Len(x), {Close}) = c + q
    <2>1. Len(x) = N + K /\ K \in 0..K
      BY <1>2
    <2>2. \A W : Upto(x, N + K, W) = Upto(t, N, W) + Upto(u, K, W)
      BY <1>3, <2>1
    <2>. QED  BY <1>11, <2>1, <2>2
  <1>13. ASSUME NEW k \in 0..Len(x)
         PROVE  Upto(x, k, {Close}) <= Upto(x, k, {Open})
    <2>1. CASE k \in 0..N
      BY <1>3, <2>1 DEF Part
    <2>2. CASE k \notin 0..N
      <3>1. k - N \in 0..K /\ k = N + (k - N)
        BY <1>2, <2>2
      <3>2. PICK l \in 0..K : k = N + l
        BY <3>1
      <3>3. Upto(u, l, {Close}) <= Upto(u, l, {Open})
        BY DEF Part
      <3>4. Upto(u, l, {Close}) \in Nat /\ Upto(u, l, {Open}) \in Nat
        BY <1>2, <1>4
      <3>5. Upto(x, k, {Close}) = c + Upto(u, l, {Close}) /\ Upto(x, k, {Open}) = o + Upto(u, l, {Open})
        BY <1>3, <1>11, <3>2
      <3>. QED  BY <3>3, <3>4, <3>5
    <2>. QED  BY <2>1, <2>2
  <1>. QED  BY <1>2, <1>9, <1>10, <1>12, <1>13 DEF Part, x

LEMMA PartEmpty ==
  ASSUME NEW a, NEW i
  PROVE  Part(a, <<>>, i, 0, 0, 0)
  <1>1. <<>> \in Text(a) /\ Len(<<>>) = 0 /\ ReadAt(<<>>) = {}
    BY DEF Text, ReadAt
  <1>2. \A W : Upto(<<>>, 0, W) = 0
    BY UptoStep
  <1>3. Place(<<>>, 0) = 0
    BY <1>2 DEF Place
  <1>. QED  BY <1>1, <1>2, <1>3 DEF Part

\* What one more token changes.
LEMMA Appended ==
  ASSUME NEW S, NEW t \in Seq(S), NEW z \in S
  PROVE  /\ Append(t, z) \in Seq(S) /\ Len(Append(t, z)) = Len(t) + 1 /\ Len(t) \in Nat
         /\ \A k \in 1..Len(t) : Append(t, z)[k] = t[k]
         /\ Append(t, z)[Len(t) + 1] = z
         /\ t \o <<z>> = Append(t, z)
         /\ \A W : \A k \in 0..Len(t) : Upto(Append(t, z), k, W) = Upto(t, k, W)
         /\ \A W : z \in W => Upto(Append(t, z), Len(t) + 1, W) = Upto(t, Len(t), W) + 1
         /\ \A W : z \notin W => Upto(Append(t, z), Len(t) + 1, W) = Upto(t, Len(t), W)
  <1> DEFINE x == Append(t, z)
  <1>1. /\ x \in Seq(S) /\ Len(x) = Len(t) + 1 /\ Len(t) \in Nat
        /\ \A k \in 1..Len(t) : x[k] = t[k]
        /\ x[Len(t) + 1] = z
    OBVIOUS
  <1>2. t \o <<z>> = x
    OBVIOUS
  <1> HIDE DEF x
  <1>3. ASSUME NEW W, NEW k \in 0..Len(t) PROVE Upto(x, k, W) = Upto(t, k, W)
    <2>1. \A j \in 1..k : x[j] = t[j]
      BY <1>1
    <2>. QED  BY <1>1, <2>1, UptoSame
  <1>4. ASSUME NEW W
        PROVE  /\ z \in W => Upto(x, Len(t) + 1, W) = Upto(t, Len(t), W) + 1
               /\ z \notin W => Upto(x, Len(t) + 1, W) = Upto(t, Len(t), W)
    <2>1. Upto(x, Len(t), W) = Upto(t, Len(t), W)
      BY <1>1, <1>3
    <2>. QED  BY <1>1, <2>1, UptoStep
  <1>. QED  BY <1>1, <1>2, <1>3, <1>4 DEF x

\* A text x that goes on with z where t ends.
OneMore(a, t, r, z, x) ==
  /\ x \in Text(a) /\ Len(x) = Len(t) + 1
  /\ \A k \in 1..Len(t) : Place(x, k) = Place(t, k)
  /\ Place(x, Len(t) + 1) = IF z \in Comments THEN r ELSE r + 1
  /\ \A k \in ReadAt(x) :
       \/ k \in ReadAt(t) /\ k \in 1..Len(t) /\ x[k] = t[k]
       \/ k = Len(t) + 1 /\ z \notin Comments /\ x[k] = z

LEMMA PartFacts ==
  ASSUME NEW a, NEW t, NEW i, NEW r \in Nat, NEW o, NEW c, Part(a, t, i, r, o, c),
         NEW z \in Tokens(a)
  PROVE  OneMore(a, t, r, z, Append(t, z))
  <1> DEFINE x == Append(t, z)
             N == Len(t)
  <1>1. t \in Seq(Tokens(a))
    BY DEF Part, Text
  <1>2. /\ x \in Seq(Tokens(a)) /\ Len(x) = N + 1 /\ N \in Nat
        /\ \A k \in 1..N : x[k] = t[k]
        /\ x[N + 1] = z
        /\ \A k \in 0..N : Upto(x, k, Comments) = Upto(t, k, Comments)
        /\ z \in Comments => Upto(x, N + 1, Comments) = Upto(t, N, Comments) + 1
        /\ z \notin Comments => Upto(x, N + 1, Comments) = Upto(t, N, Comments)
    BY <1>1, Appended
  <1> HIDE DEF x
  <1>3. N - Upto(t, N, Comments) = r /\ Upto(t, N, Comments) \in Nat
    BY <1>2, UptoStep DEF Part, Place
  <1>4. \A k \in 1..N : Place(x, k) = Place(t, k)
    BY <1>2 DEF Place
  <1>5. /\ z \in Comments => Place(x, N + 1) = r
        /\ z \notin Comments => Place(x, N + 1) = r + 1
    BY <1>2, <1>3 DEF Place
  <1>6. ASSUME NEW k \in ReadAt(x)
        PROVE  \/ k \in ReadAt(t) /\ k \in 1..N /\ x[k] = t[k]
               \/ k = N + 1 /\ z \notin Comments /\ x[k] = z
    <2>1. k \in 1..N+1 /\ x[k] \notin Comments
      BY <1>2 DEF ReadAt
    <2>2. k \in 1..N \/ k = N + 1
      BY <1>2, <2>1
    <2>. QED  BY <1>2, <2>1, <2>2 DEF ReadAt
  <1>. QED  BY <1>2, <1>4, <1>5, <1>6 DEF x, Text, OneMore

\* The next token to be read.
LEMMA PartRead ==
  ASSUME NEW a, NEW t, NEW i, NEW r \in Nat, NEW o, NEW c, Part(a, t, i, r, o, c),
         NEW z \in Tokens(a), z \notin Comments, z = ItemAt(a, i, r + 1)
  PROVE  Part(a, Append(t, z), i, r + 1, o, c)
  <1> DEFINE x == Append(t, z)
             N == Len(t)
  <1>1. t \in Seq(Tokens(a)) /\ z \notin {Open} /\ z \notin {Close}
    BY DEF Part, Text, Comments
  <1>2. /\ N \in Nat
        /\ \A W : \A k \in 0..N : Upto(x, k, W) = Upto(t, k, W)
        /\ \A W : z \notin W => Upto(x, N + 1, W) = Upto(t, N, W)
    BY <1>1, Appended
  <1>3. /\ x \in Text(a) /\ Len(x) = N + 1
        /\ \A k \in 1..N : Place(x, k) = Place(t, k)
        /\ Place(x, N + 1) = r + 1
        /\ \A k \in ReadAt(x) : (k \in ReadAt(t) /\ k \in 1..N /\ x[k] = t[k]) \/ (k = N + 1 /\ x[k] = z)
    <2>1. OneMore(a, t, r, z, x)
      BY PartFacts
    <2> HIDE DEF x
    <2>. QED  BY <2>1 DEF OneMore
  <1> HIDE DEF x
  <1>4. ASSUME NEW k \in ReadAt(x) PROVE Place(x, k) \in 1..r+1 /\ x[k] = ItemAt(a, i, Place(x, k))
    <2>1. CASE k \in ReadAt(t) /\ k \in 1..N /\ x[k] = t[k]
      <3>1. Place(t, k) \in 1..r /\ t[k] = ItemAt(a, i, Place(t, k))
        BY <2>1 DEF Part
      <3>. QED  BY <1>3, <2>1, <3>1
    <2>2. CASE k = N + 1 /\ x[k] = z
      BY <1>3, <2>2
    <2>. QED  BY <1>3, <2>1, <2>2
  <1>5. Upto(x, N + 1, {Open}) = o /\ Upto(x, N + 1, {Close}) = c
    BY <1>1, <1>2 DEF Part
  <1>6. ASSUME NEW k \in 0..N+1 PROVE Upto(x, k, {Close}) <= Upto(x, k, {Open})
    <2>1. \A j \in 0..N : Upto(t, j, {Close}) <= Upto(t, j, {Open})
      BY DEF Part
    <2>2. Upto(x, N + 1, {Close}) <= Upto(x, N + 1, {Open})
      <3>1. Upto(x, N + 1, {Close}) = Upto(t, N, {Close}) /\ Upto(x, N + 1, {Open}) = Upto(t, N, {Open})
        BY <1>1, <1>2
      <3>2. N \in 0..N
        BY <1>2
      <3>. QED  BY <2>1, <3>1, <3>2
    <2>3. k \in 0..N \/ k = N + 1
      BY <1>2
    <2>4. ASSUME k \in 0..N PROVE Upto(x, k, {Close}) <= Upto(x, k, {Open})
      <3>1. Upto(x, k, {Close}) = Upto(t, k, {Close}) /\ Upto(x, k, {Open}) = Upto(t, k, {Open})
        BY <1>2, <2>4
      <3>. QED  BY <2>1, <2>4, <3>1
    <2>. QED  BY <2>2, <2>3, <2>4
  <1>. QED  BY <1>3, <1>4, <1>5, <1>6 DEF Part, x

\* A comment.
LEMMA PartComment ==
  ASSUME NEW a, NEW t, NEW i, NEW r \in Nat, NEW o \in Nat, NEW c \in Nat, Part(a, t, i, r, o, c)
  PROVE  /\ Part(a, Append(t, Open), i, r, o + 1, c)
         /\ c < o => Part(a, Append(t, Close), i, r, o, c + 1)
  <1> DEFINE N == Len(t)
  <1>1. t \in Seq(Tokens(a)) /\ Open \in Tokens(a) /\ Close \in Tokens(a) /\ Open # Close
    BY FormatAssumption DEF Part, Text, Tokens
  <1>2. /\ Upto(t, N, {Open}) = o /\ Upto(t, N, {Close}) = c
        /\ \A k \in 0..N : Upto(t, k, {Close}) <= Upto(t, k, {Open})
        /\ \A k \in ReadAt(t) : Place(t, k) \in 1..r /\ t[k] = ItemAt(a, i, Place(t, k))
    BY DEF Part
  <1>3. ASSUME NEW z \in Comments, NEW p \in Nat, NEW q \in Nat, q <= p,
               p = IF z = Open THEN o + 1 ELSE o, q = IF z = Close THEN c + 1 ELSE c
        PROVE  Part(a, Append(t, z), i, r, p, q)
    <2> DEFINE x == Append(t, z)
    <2>0. z \in Tokens(a)
      BY <1>1 DEF Comments
    <2>1. /\ N \in Nat
          /\ \A W : \A k \in 0..N : Upto(x, k, W) = Upto(t, k, W)
          /\ \A W : z \in W => Upto(x, N + 1, W) = Upto(t, N, W) + 1
          /\ \A W : z \notin W => Upto(x, N + 1, W) = Upto(t, N, W)
      BY <1>1, <2>0, Appended
    <2>2. /\ x \in Text(a) /\ Len(x) = N + 1
          /\ \A k \in 1..N : Place(x, k) = Place(t, k)
          /\ Place(x, N + 1) = r
          /\ \A k \in ReadAt(x) : k \in ReadAt(t) /\ k \in 1..N /\ x[k] = t[k]
      <3>1. OneMore(a, t, r, z, x)
        BY <2>0, PartFacts
      <3> HIDE DEF x
      <3>. QED  BY <1>3, <3>1 DEF OneMore
    <2> HIDE DEF x
    <2>3. ASSUME NEW k \in ReadAt(x)
          PROVE  Place(x, k) \in 1..r /\ x[k] = ItemAt(a, i, Place(x, k))
      <3>1. k \in ReadAt(t) /\ x[k] = t[k] /\ Place(x, k) = Place(t, k)
        BY <2>2
      <3>. QED  BY <1>2, <3>1
    <2>4. Upto(x, N + 1, {Open}) = p
      <3>1. CASE z = Open
        BY <1>2, <1>3, <2>1, <3>1
      <3>2. CASE z # Open
        BY <1>2, <1>3, <2>1, <3>2
      <3>. QED  BY <3>1, <3>2
    <2>5. Upto(x, N + 1, {Close}) = q
      <3>1. CASE z = Close
        BY <1>2, <1>3, <2>1, <3>1
      <3>2. CASE z # Close
        BY <1>2, <1>3, <2>1, <3>2
      <3>. QED  BY <3>1, <3>2
    <2>6. ASSUME NEW k \in 0..N+1 PROVE Upto(x, k, {Close}) <= Upto(x, k, {Open})
      <3>1. k \in 0..N \/ k = N + 1
        BY <2>1
      <3>2. ASSUME k \in 0..N PROVE Upto(x, k, {Close}) <= Upto(x, k, {Open})
        <4>1. Upto(x, k, {Close}) = Upto(t, k, {Close}) /\ Upto(x, k, {Open}) = Upto(t, k, {Open})
          BY <2>1, <3>2
        <4>. QED  BY <1>2, <3>2, <4>1
      <3>. QED  BY <1>3, <2>4, <2>5, <3>1, <3>2
    <2>. QED  BY <2>2, <2>3, <2>4, <2>5, <2>6 DEF Part, x
  <1>4. Part(a, Append(t, Open), i, r, o + 1, c)
    <2>1. c <= o + 1
      <3>1. N \in 0..N
        BY <1>1
      <3>2. c <= o
        BY <1>2, <3>1
      <3>. QED  BY <3>2
    <2>2. Open \in Comments /\ o + 1 \in Nat
      BY DEF Comments
    <2>. QED  BY <1>1, <1>3, <2>1, <2>2
  <1>5. ASSUME c < o PROVE Part(a, Append(t, Close), i, r, o, c + 1)
    <2>1. Close \in Comments /\ c + 1 \in Nat /\ c + 1 <= o
      BY <1>5 DEF Comments
    <2>. QED  BY <1>1, <1>3, <2>1
  <1>. QED  BY <1>4, <1>5

-----------------------------------------------------------------------------
(* Sizes *)

Shapes == Seq(Nat)

LEMMA SizeUnfolds ==
  ASSUME NEW shape \in Shapes
  PROVE  /\ SizeBelow(shape, 0) = 1
         /\ \A l \in 0..Len(shape) : SizeBelow(shape, l) \in Nat
         /\ \A l \in 1..Len(shape) :
              SizeBelow(shape, l) = shape[Len(shape) - l + 1] * SizeBelow(shape, l - 1)
  <1> DEFINE N == Len(shape)
             S == Nat
             Body(g) == [k \in 0..N |-> IF k = 0 THEN 1 ELSE shape[N - k + 1] * g[k-1]]
             rule == [v \in (1..N) \X S |-> shape[N - v[1] + 1] * v[2]]
             h == CHOOSE g : g = Body(g)
  <1>1. N \in Nat /\ \A k \in 1..N : N - k + 1 \in 1..N /\ shape[N - k + 1] \in S
    <2>1. N \in Nat /\ \A k \in 1..N : shape[k] \in S
      BY DEF Shapes
    <2>2. \A k \in 1..N : N - k + 1 \in 1..N
      BY <2>1
    <2>. QED  BY <2>1, <2>2
  <1>2. \A k \in S, l \in S : k * l \in S
    BY SMT
  <1>3. rule \in [(1..N) \X S -> S] /\ \A k \in 1..N, v \in S : rule[<<k, v>>] = shape[N - k + 1] * v
    BY <1>1, <1>2
  <1> HIDE DEF rule
  <1>4. PICK g : ComputedBy(S, 1, N, rule, g)
    <2>1. 1 \in S
      OBVIOUS
    <2> HIDE DEF S, N
    <2>. QED  BY <1>1, <1>3, <2>1, ComputedExists
  <1>5. g = Body(g)
    <2>1. g \in [0..N -> S] /\ g[0] = 1 /\ \A k \in 1..N : g[k] = rule[<<k, g[k-1]>>]
      BY <1>4 DEF ComputedBy
    <2>2. \A k \in 0..N : g[k] = IF k = 0 THEN 1 ELSE shape[N - k + 1] * g[k-1]
      <3> TAKE k \in 0..N
      <3>1. CASE k = 0
        BY <2>1, <3>1
      <3>2. CASE k # 0
        <4>0. k \in 1..N /\ k - 1 \in 0..N
          BY <1>1, <3>2
        <4>1. g[k-1] \in S
          <5> HIDE DEF S
          <5>. QED  BY <2>1, <4>0
        <4>2. g[k] = shape[N - k + 1] * g[k-1]
          BY <1>3, <2>1, <4>0, <4>1
        <4>. QED  BY <3>2, <4>2
      <3>. QED  BY <3>1, <3>2
    <2>. QED  BY <2>1, <2>2
  <1>6. h = Body(h)
    BY <1>5
  <1>7. \A l : SizeBelow(shape, l) = h[l]
    BY DEF SizeBelow
  <1> HIDE DEF h
  <1>8. /\ h[0] = 1 /\ \A k \in 1..N : h[k] = shape[N - k + 1] * h[k-1]
    <2>1. \A k \in 0..N : h[k] = IF k = 0 THEN 1 ELSE shape[N - k + 1] * h[k-1]
      <3> HIDE DEF N
      <3>. QED  BY <1>6
    <2>2. 0 \in 0..N /\ \A k \in 1..N : k \in 0..N /\ k # 0
      BY <1>1
    <2> HIDE DEF N
    <2>. QED  BY <2>1, <2>2
  <1> DEFINE T == {k \in Nat : k <= N => h[k] \in S}
  <1>9. 0 \in T
    BY <1>8
  <1>10. ASSUME NEW k \in Nat, k \in T PROVE k + 1 \in T
    <2> SUFFICES ASSUME k + 1 <= N PROVE h[k + 1] \in S
      OBVIOUS
    <2>1. k + 1 \in 1..N /\ (k + 1) - 1 = k /\ h[k] \in S
      BY <1>1, <1>10
    <2>2. h[k + 1] = shape[N - (k + 1) + 1] * h[k]
      BY <1>8, <2>1
    <2>3. shape[N - (k + 1) + 1] \in S
      BY <1>1, <2>1
    <2> HIDE DEF S
    <2>. QED  BY <1>2, <2>1, <2>2, <2>3
  <1>11. Nat \subseteq T
    <2> HIDE DEF T
    <2>. QED  BY <1>9, <1>10, SetInduction
  <1>12. \A k \in 0..N : h[k] \in S
    BY <1>1, <1>11
  <1>. QED  BY <1>7, <1>8, <1>12

\* A matrix with elements has no empty subarray.
LEMMA NoneEmpty ==
  ASSUME NEW shape \in Shapes, Size(shape) # 0
  PROVE  \A l \in 0..Len(shape) : SizeBelow(shape, l) # 0
  <1> SUFFICES ASSUME NEW l \in 0..Len(shape), SizeBelow(shape, l) = 0 PROVE FALSE
    OBVIOUS
  <1> DEFINE N == Len(shape)
             T == {k \in Nat : l + k <= N => SizeBelow(shape, l + k) = 0}
  <1>1. N \in Nat /\ l \in Nat /\ l <= N /\ \A k \in 1..N : N - k + 1 \in 1..N /\ shape[N - k + 1] \in Nat
    <2>1. N \in Nat /\ \A k \in 1..N : shape[k] \in Nat
      BY DEF Shapes
    <2>2. \A k \in 1..N : N - k + 1 \in 1..N
      BY <2>1
    <2>. QED  BY <2>1, <2>2
  <1>2. 0 \in T
    BY <1>1
  <1>3. ASSUME NEW k \in Nat, k \in T PROVE k + 1 \in T
    <2> SUFFICES ASSUME l + (k + 1) <= N PROVE SizeBelow(shape, l + (k + 1)) = 0
      OBVIOUS
    <2>1. l + (k + 1) \in 1..N /\ (l + (k + 1)) - 1 = l + k /\ l + k <= N
      BY <1>1
    <2>2. SizeBelow(shape, l + (k + 1)) = shape[N - (l + (k + 1)) + 1] * SizeBelow(shape, l + k)
      BY <2>1, SizeUnfolds
    <2>3. SizeBelow(shape, l + k) = 0 /\ shape[N - (l + (k + 1)) + 1] \in Nat
      BY <1>1, <1>3, <2>1
    <2>. QED  BY <2>2, <2>3, SMT
  <1>4. Nat \subseteq T
    <2> HIDE DEF T
    <2>. QED  BY <1>2, <1>3, SetInduction
  <1>5. N - l \in Nat /\ l + (N - l) = N
    BY <1>1
  <1>6. SizeBelow(shape, N) = 0
    <2>1. N - l \in T
      <3> HIDE DEF T
      <3>. QED  BY <1>4, <1>5
    <2>. QED  BY <1>1, <1>5, <2>1
  <1>. QED  BY <1>6 DEF Size

\* The counts of Structure.
LEMMA StructureUnfold ==
  ASSUME NEW shape \in Shapes
  PROVE  \E level, all \in [0..Len(shape) -> Nat] :
           /\ level[0] = 1 /\ all[0] = 0
           /\ \A k \in 1..Len(shape) : level[k] = level[k-1] * shape[k] /\ all[k] = all[k-1] + level[k]
           /\ \A k \in 0..Len(shape) : level[k] = Structure(shape)[k].level /\ all[k] = Structure(shape)[k].all
  <1> DEFINE N == Len(shape)
             S == [level : Nat, all : Nat]
             Counted(k, v) == [level |-> v.level * shape[k], all |-> v.all + v.level * shape[k]]
             Start == [level |-> 1, all |-> 0]
             Body(g) == [k \in 0..N |->
                        IF k = 0 THEN [level |-> 1, all |-> 0]
                        ELSE LET level == g[k-1].level * shape[k]
                             IN  [level |-> level, all |-> g[k-1].all + level]]
             rule == [v \in (1..N) \X S |-> Counted(v[1], v[2])]
             h == CHOOSE g : g = Body(g)
  <1>1. N \in Nat /\ \A k \in 1..N : shape[k] \in Nat
    BY DEF Shapes
  <1>2. \A k \in 1..N, v \in S : Counted(k, v) \in S
    <2> TAKE k \in 1..N, v \in S
    <2>1. v.level \in Nat /\ v.all \in Nat /\ shape[k] \in Nat
      BY <1>1
    <2>2. v.level * shape[k] \in Nat
      BY <2>1, SMT
    <2>. QED  BY <2>1, <2>2
  <1>3. rule \in [(1..N) \X S -> S] /\ \A k \in 1..N, v \in S : rule[<<k, v>>] = Counted(k, v)
    <2> HIDE DEF Counted, S
    <2>. QED  BY <1>2
  <1> HIDE DEF rule
  <1>4. PICK g : ComputedBy(S, Start, N, rule, g)
    <2>1. Start \in S
      OBVIOUS
    <2> HIDE DEF S, N, Start
    <2>. QED  BY <1>1, <1>3, <2>1, ComputedExists
  <1>5. g = Body(g)
    <2>1. g \in [0..N -> S] /\ g[0] = Start /\ \A k \in 1..N : g[k] = rule[<<k, g[k-1]>>]
      BY <1>4 DEF ComputedBy
    <2>2. \A k \in 1..N : g[k] = Counted(k, g[k-1])
      <3> TAKE k \in 1..N
      <3>0. k - 1 \in 0..N
        BY <1>1
      <3> HIDE DEF Counted, S
      <3>1. g[k-1] \in S
        BY <2>1, <3>0
      <3>. QED  BY <1>3, <2>1, <3>1
    <2>3. g = [k \in 0..N |-> IF k = 0 THEN Start ELSE Counted(k, g[k-1])]
      <3>1. \A k \in 0..N : k = 0 \/ k \in 1..N
        BY <1>1
      <3> HIDE DEF Counted, Start, S
      <3>. QED  BY <2>1, <2>2, <3>1
    <2>. QED  BY <2>3
  <1>6. h = Body(h)
    BY <1>5
  <1>7. Structure(shape) = h
    BY DEF Structure
  <1> HIDE DEF h
  <1>8. h[0] = Start /\ \A k \in 1..N : h[k] = Counted(k, h[k-1])
    BY <1>1, <1>6
  <1> DEFINE T == {k \in Nat : k <= N => h[k] \in S}
  <1>9. 0 \in T
    BY <1>8
  <1>10. ASSUME NEW k \in Nat, k \in T PROVE k + 1 \in T
    <2> SUFFICES ASSUME k + 1 <= N PROVE h[k + 1] \in S
      OBVIOUS
    <2>1. k + 1 \in 1..N /\ (k + 1) - 1 = k /\ h[k] \in S
      BY <1>1, <1>10
    <2>2. h[k + 1] = Counted(k + 1, h[k])
      BY <1>8, <2>1
    <2> HIDE DEF S, Counted
    <2>. QED  BY <1>2, <2>1, <2>2
  <1>11. Nat \subseteq T
    <2> HIDE DEF T
    <2>. QED  BY <1>9, <1>10, SetInduction
  <1>12. \A k \in 0..N : h[k] \in S
    BY <1>1, <1>11
  <1> DEFINE lev == [k \in 0..N |-> h[k].level]
             all == [k \in 0..N |-> h[k].all]
  <1>13. lev \in [0..N -> Nat] /\ all \in [0..N -> Nat]
    BY <1>12
  <1>14. lev[0] = 1 /\ all[0] = 0
    BY <1>1, <1>8
  <1>15. ASSUME NEW k \in 1..N
         PROVE  lev[k] = lev[k-1] * shape[k] /\ all[k] = all[k-1] + lev[k]
    <2>1. k - 1 \in 0..N /\ k \in 0..N
      BY <1>1
    <2>2. h[k] = [level |-> h[k-1].level * shape[k], all |-> h[k-1].all + h[k-1].level * shape[k]]
      BY <1>8
    <2>. QED  BY <2>1, <2>2
  <1>16. \A k \in 0..N : lev[k] = Structure(shape)[k].level /\ all[k] = Structure(shape)[k].all
    BY <1>7
  <1> HIDE DEF lev, all
  <1>. QED  BY <1>13, <1>14, <1>15, <1>16

-----------------------------------------------------------------------------
(* The text of a subarray *)

\* What writing a subarray returns.
Blocks(a) == [text : Text(a), index : Nat]

LEMMA TokenTexts ==
  ASSUME NEW a
  PROVE  /\ Open \in Tokens(a) /\ Close \in Tokens(a) /\ Sep \in Tokens(a)
         /\ \A i \in Nat : Hex(a, i) \in Tokens(a)
         /\ <<>> \in Text(a) /\ <<Open>> \in Text(a) /\ <<Close>> \in Text(a)
         /\ <<Open>> = Append(<<>>, Open)
  <1>1. /\ Open \in Tokens(a) /\ Close \in Tokens(a) /\ Sep \in Tokens(a)
        /\ \A i \in Nat : Hex(a, i) \in Tokens(a)
    BY DEF Tokens
  <1>2. \A S : \A z \in S : <<>> \in Seq(S) /\ <<z>> \in Seq(S) /\ <<z>> = Append(<<>>, z)
    OBVIOUS
  <1>. QED  BY <1>1, <1>2 DEF Text

LEMMA JoinedType ==
  ASSUME NEW a, NEW index \in Nat, NEW len \in Nat \ {0}
  PROVE  /\ Joined(a, index, len) \in Text(a) /\ Len(Joined(a, index, len)) = 2 * len - 1
         /\ Size(a.shape) # 0 => \A k \in 1..2*len-1 : Joined(a, index, len)[k] = ItemAt(a, index, k)
  <1> DEFINE x == Joined(a, index, len)
             K == 2 * len - 1
             Item(k) == IF k % 2 = 1 THEN Hex(a, index + (k + 1) \div 2) ELSE Sep
  <1>1. K \in Nat
    OBVIOUS
  <1>2. \A k \in 1..K : Item(k) \in Tokens(a)
    <2> TAKE k \in 1..K
    <2>1. index + (k + 1) \div 2 \in Nat
      OBVIOUS
    <2>. QED  BY <2>1, TokenTexts
  <1>3. x = [k \in 1..K |-> Item(k)]
    BY DEF Joined
  <1>4. Size(a.shape) # 0 => \A k \in 1..K : Item(k) = ItemAt(a, index, k)
    BY DEF ItemAt, ElementAt
  <1> HIDE DEF x, K, Item
  <1>5. \A S : \A g \in [1..K -> S] : g \in Seq(S) /\ Len(g) = K
    BY <1>1
  <1>6. x \in [1..K -> Tokens(a)]
    BY <1>2, <1>3
  <1>. QED  BY <1>3, <1>4, <1>5, <1>6 DEF x, K, Text

LEMMA JoinedNone ==
  ASSUME NEW a, NEW index \in Nat
  PROVE  Joined(a, index, 0) = <<>>
  <1> DEFINE x == Joined(a, index, 0)
  <1>1. 1..2*0-1 = 1..0
    OBVIOUS
  <1>2. x \in [1..0 -> {}]
    BY <1>1 DEF Joined
  <1> HIDE DEF x
  <1>3. x \in Seq({}) /\ Len(x) = 0
    BY <1>2
  <1>. QED  BY <1>3 DEF x

LEMMA VectorType ==
  ASSUME NEW a, NEW index \in Nat, NEW len \in Nat
  PROVE  Vector(a, len, index) \in Blocks(a)
  <1>1. <<Open>> \in Text(a) /\ <<Close>> \in Text(a) /\ <<>> \in Text(a)
    BY TokenTexts
  <1>2. Joined(a, index, len) \in Text(a)
    <2>1. CASE len = 0
      BY <1>1, <2>1, JoinedNone
    <2>2. CASE len # 0
      BY <2>2, JoinedType
    <2>. QED  BY <2>1, <2>2
  <1>3. \A t, u \in Text(a) : t \o u \in Text(a)
    BY TextConcat DEF Text
  <1>4. <<Open>> \o Joined(a, index, len) \o <<Close>> \in Text(a)
    BY <1>1, <1>2, <1>3
  <1>. QED  BY <1>4 DEF Vector, Blocks

\* The elements behind i, w of them, are numbers.
Numbers(a, i, w) == \A k \in 1..w : Hex(a, i + k) \notin Comments

LEMMA JoinedPart ==
  ASSUME NEW a, NEW index \in Nat, NEW len \in Nat \ {0}, Numbers(a, index, len),
         Size(a.shape) # 0
  PROVE  Part(a, Joined(a, index, len), index, 2 * len - 1, 0, 0)
  <1> DEFINE x == Joined(a, index, len)
             K == 2 * len - 1
  <1>1. /\ x \in Text(a) /\ Len(x) = K /\ K \in Nat
        /\ \A k \in 1..K : x[k] = ItemAt(a, index, k)
    <2>1. /\ x \in Text(a) /\ Len(x) = 2 * len - 1
          /\ \A k \in 1..2*len-1 : x[k] = ItemAt(a, index, k)
      BY JoinedType
    <2>2. K \in Nat
      OBVIOUS
    <2> HIDE DEF x
    <2>. QED  BY <2>1, <2>2
  <1> HIDE DEF x
  <1>2. \A k \in 1..K : x[k] \notin Comments
    <2> TAKE k \in 1..K
    <2>1. CASE k % 2 = 1
      <3>1. (k + 1) \div 2 \in 1..len
        OBVIOUS
      <3>2. x[k] = Hex(a, index + (k + 1) \div 2)
        BY <1>1, <2>1 DEF ItemAt, ElementAt
      <3>. QED  BY <3>1, <3>2 DEF Numbers
    <2>2. CASE k % 2 # 1
      <3>1. x[k] = Sep
        BY <1>1, <2>2 DEF ItemAt
      <3>. QED  BY <3>1, FormatAssumption DEF Comments
    <2>. QED  BY <2>1, <2>2
  <1>3. ASSUME NEW W, W \subseteq Comments, NEW k \in 0..K PROVE Upto(x, k, W) = 0
    <2>1. {j \in 1..k : x[j] \in W} = {}
      BY <1>2, <1>3
    <2>. QED  BY <2>1, FS_EmptySet DEF Upto
  <1>4. {Open} \subseteq Comments /\ {Close} \subseteq Comments /\ K \in 0..K
    BY <1>1 DEF Comments
  <1>5. \A k \in 0..K : Place(x, k) = k
    BY <1>3 DEF Place
  <1>6. \A k \in ReadAt(x) : Place(x, k) \in 1..K /\ x[k] = ItemAt(a, index, Place(x, k))
    BY <1>1, <1>5 DEF ReadAt
  <1>7. \A k \in 0..K : Upto(x, k, {Open}) = 0 /\ Upto(x, k, {Close}) = 0
    BY <1>3, <1>4
  <1>8. Place(x, Len(x)) = K /\ Upto(x, Len(x), {Open}) = 0 /\ Upto(x, Len(x), {Close}) = 0
    BY <1>1, <1>4, <1>5, <1>7
  <1> HIDE DEF K
  <1>9. \A k \in 0..Len(x) : Upto(x, k, {Close}) <= Upto(x, k, {Open})
    <2> TAKE k \in 0..Len(x)
    <2>1. Upto(x, k, {Open}) = 0 /\ Upto(x, k, {Close}) = 0
      BY <1>1, <1>7
    <2>. QED  BY <2>1
  <1>. QED  BY <1>1, <1>6, <1>8, <1>9 DEF Part, x, K

\* A subarray of w elements behind i, with p pairs of comments, of which r
\* tokens and the comma behind them are to be read.
Block(a, b, i, w, r, p) ==
  b \in Blocks(a) /\ b.index = i + w /\ Part(a, b.text, i, r - 1, p, p)

\* What is read of a vector.
VectorReads(len) == IF len = 0 THEN 1 ELSE 2 * len

LEMMA OpenPart ==
  ASSUME NEW a, NEW i
  PROVE  Part(a, <<Open>>, i, 0, 1, 0)
  <1>1. Part(a, <<>>, i, 0, 0, 0)
    BY PartEmpty
  <1>2. Part(a, Append(<<>>, Open), i, 0, 0 + 1, 0)
    BY <1>1, PartComment
  <1>. QED  BY <1>2, TokenTexts

LEMMA VectorBlock ==
  ASSUME NEW a, NEW index \in Nat, NEW len \in Nat, Numbers(a, index, len),
         Size(a.shape) \in Nat, index + len <= Size(a.shape)
  PROVE  Block(a, Vector(a, len, index), index, len, VectorReads(len), 1)
  <1> DEFINE J == Joined(a, index, len)
             t == <<Open>> \o J
             r == VectorReads(len) - 1
  <1>0. r \in Nat
    BY DEF VectorReads
  <1>1. Part(a, J, index + 0, r, 0, 0)
    <2>1. CASE len = 0
      BY <2>1, JoinedNone, PartEmpty DEF VectorReads
    <2>2. CASE len # 0
      <3>1. Size(a.shape) # 0 /\ r = 2 * len - 1 /\ index + 0 = index
        BY <2>2 DEF VectorReads
      <3> HIDE DEF r, J
      <3>. QED  BY <2>2, <3>1, JoinedPart DEF J
    <2>. QED  BY <2>1, <2>2
  <1>2. Part(a, <<Open>>, index, 0, 1, 0)
    BY OpenPart
  <1> HIDE DEF r, J, t
  <1>3. Part(a, t, index, r, 1, 0)
    <2>0. 0 \in Nat /\ 1 \in Nat /\ 0 <= 1 /\ (Size(a.shape) # 0 => 0 = 2 * 0)
      OBVIOUS
    <2>1. Part(a, t, index, 0 + r, 1 + 0, 0 + 0)
      BY <1>0, <1>1, <1>2, <2>0, PartConcat DEF t
    <2>2. 0 + r = r /\ 1 + 0 = 1 /\ 0 + 0 = 0
      BY <1>0
    <2>. QED  BY <2>1, <2>2
  <1>4. Part(a, Append(t, Close), index, r, 1, 0 + 1)
    BY <1>0, <1>3, PartComment
  <1>5. t \o <<Close>> = Append(t, Close)
    <2>1. t \in Seq(Tokens(a)) /\ Close \in Tokens(a)
      BY <1>3, TokenTexts DEF Part, Text
    <2>. QED  BY <2>1, Appended
  <1>6. Vector(a, len, index) = [text |-> Append(t, Close), index |-> index + len]
    BY <1>5 DEF Vector, t, J
  <1>. QED  BY <1>4, <1>6, VectorType DEF Block, r

\* One more subarray of a dimension.
Line(array, v, k, len) ==
  [text |-> Separated(v.text \o array[v.index].text, k, len), index |-> array[v.index].index]
Opening(top) == IF top THEN <<>> ELSE <<Open>>
Closing(top)  == IF top THEN <<>> ELSE <<Close>>

LEMMA LineType ==
  ASSUME NEW a, NEW array \in [Nat -> Blocks(a)], NEW v \in Blocks(a), NEW k, NEW len
  PROVE  Line(array, v, k, len) \in Blocks(a)
  <1>1. v.text \in Text(a) /\ v.index \in Nat
    BY DEF Blocks
  <1>2. array[v.index] \in Blocks(a)
    BY <1>1
  <1>3. array[v.index].text \in Text(a) /\ array[v.index].index \in Nat
    BY <1>2 DEF Blocks
  <1> DEFINE t == v.text \o array[v.index].text
  <1>4. t \in Text(a)
    BY <1>1, <1>3, TextConcat DEF Text
  <1>5. Separated(t, k, len) \in Text(a)
    <2>1. Append(t, Sep) \in Text(a)
      BY <1>4, TokenTexts, Appended DEF Text
    <2>. QED  BY <1>4, <2>1 DEF Separated
  <1> HIDE DEF t
  <1>. QED  BY <1>3, <1>5 DEF Line, Blocks, t

\* The loop over the subarrays.
Looped(a, array, len, top, index, lines) ==
  /\ lines \in [0..len -> Blocks(a)]
  /\ lines[0] = [text |-> Opening(top), index |-> index]
  /\ \A k \in 1..len : lines[k] = Line(array, lines[k-1], k, len)
  /\ Subarrays(array, len, top, index)
       = [text |-> lines[len].text \o Closing(top), index |-> lines[len].index]

LEMMA SubarraysUnfold ==
  ASSUME NEW a, NEW array \in [Nat -> Blocks(a)], NEW len \in Nat, NEW top \in BOOLEAN,
         NEW index \in Nat
  PROVE  \E lines : Looped(a, array, len, top, index, lines)
  <1> DEFINE S == Blocks(a)
             b == [text |-> Opening(top), index |-> index]
             Body(g) == [k \in 0..len |->
                        IF k = 0 THEN [text |-> IF top THEN <<>> ELSE <<Open>>, index |-> index]
                        ELSE LET sub == array[g[k-1].index]
                             IN  [text |-> Separated(g[k-1].text \o sub.text, k, len),
                                  index |-> sub.index]]
             rule == [v \in (1..len) \X S |-> Line(array, v[2], v[1], len)]
             h == CHOOSE g : g = Body(g)
  <1>1. b \in S
    BY TokenTexts DEF Opening, Blocks
  <1>2. \A k \in 1..len, v \in S : Line(array, v, k, len) \in S
    BY LineType
  <1>3. rule \in [(1..len) \X S -> S] /\ \A k \in 1..len, v \in S : rule[<<k, v>>] = Line(array, v, k, len)
    <2> HIDE DEF S
    <2>. QED  BY <1>2
  <1> HIDE DEF rule
  <1>4. \A g : Body(g) = [k \in 0..len |-> IF k = 0 THEN b ELSE Line(array, g[k-1], k, len)]
    BY DEF Opening, Line
  <1>5. Subarrays(array, len, top, index) = [text |-> h[len].text \o Closing(top), index |-> h[len].index]
    BY DEF Subarrays, Closing
  <1> HIDE DEF Body, S, b
  <1>6. PICK g : ComputedBy(S, b, len, rule, g)
    BY <1>1, <1>3, ComputedExists
  <1>7. g \in [0..len -> S] /\ g[0] = b /\ \A k \in 1..len : g[k] = rule[<<k, g[k-1]>>]
    BY <1>6 DEF ComputedBy
  <1>8. \A k \in 1..len : g[k] = Line(array, g[k-1], k, len)
    <2> TAKE k \in 1..len
    <2>1. k - 1 \in 0..len
      OBVIOUS
    <2>2. g[k-1] \in S
      BY <1>7, <2>1
    <2>. QED  BY <1>3, <1>7, <2>2
  <1>9. g = Body(g)
    <2>1. \A k \in 0..len : k = 0 \/ k \in 1..len
      OBVIOUS
    <2>2. g = [k \in 0..len |-> IF k = 0 THEN b ELSE Line(array, g[k-1], k, len)]
      BY <1>7, <1>8, <2>1
    <2>. QED  BY <1>4, <2>2
  <1>10. h = Body(h)
    BY <1>9
  <1> HIDE DEF h
  <1>11. h = [k \in 0..len |-> IF k = 0 THEN b ELSE Line(array, h[k-1], k, len)]
    BY <1>4, <1>10
  <1>12. h[0] = b /\ \A k \in 1..len : h[k] = Line(array, h[k-1], k, len)
    <2>1. 0 \in 0..len /\ \A k \in 1..len : k \in 0..len /\ k # 0
      OBVIOUS
    <2>. QED  BY <1>11, <2>1
  <1> DEFINE T == {k \in Nat : k <= len => h[k] \in S}
  <1>13. 0 \in T
    BY <1>1, <1>12
  <1>14. ASSUME NEW k \in Nat, k \in T PROVE k + 1 \in T
    <2> SUFFICES ASSUME k + 1 <= len PROVE h[k + 1] \in S
      OBVIOUS
    <2>1. k + 1 \in 1..len /\ (k + 1) - 1 = k /\ h[k] \in S
      BY <1>14
    <2>2. h[k + 1] = Line(array, h[k], k + 1, len)
      BY <1>12, <2>1
    <2>. QED  BY <1>2, <2>1, <2>2
  <1>15. Nat \subseteq T
    <2> HIDE DEF T
    <2>. QED  BY <1>13, <1>14, SetInduction
  <1>16. h \in [0..len -> S]
    <2>1. \A k \in 0..len : h[k] \in S
      BY <1>15
    <2>2. \E D : h = [k \in 0..len |-> D[k]]
      <3>1. h = [k \in 0..len |-> [j \in 0..len |-> IF j = 0 THEN b ELSE Line(array, h[j-1], j, len)][k]]
        BY <1>11
      <3>. QED  BY <3>1
    <2>. QED  BY <2>1, <2>2
  <1>. QED  BY <1>5, <1>12, <1>16 DEF S, b, Looped

\* An array writes the subarrays of w elements, each with p pairs, and r
\* tokens and commas are to be read.
Writes(a, array, w, r, p) ==
  \A i \in Nat : i + w <= Size(a.shape) => Block(a, array[i], i, w, r, p)

LEMMA SubarraysType ==
  ASSUME NEW a, NEW array \in [Nat -> Blocks(a)], NEW len \in Nat, NEW top \in BOOLEAN,
         NEW index \in Nat
  PROVE  Subarrays(array, len, top, index) \in Blocks(a)
  <1>1. PICK lines : Looped(a, array, len, top, index, lines)
    BY SubarraysUnfold
  <1>2. lines[len] \in Blocks(a)
        /\ Subarrays(array, len, top, index)
             = [text |-> lines[len].text \o Closing(top), index |-> lines[len].index]
    BY <1>1 DEF Looped
  <1>3. lines[len].text \in Text(a) /\ lines[len].index \in Nat /\ Closing(top) \in Text(a)
    BY <1>2, TokenTexts DEF Blocks, Closing
  <1>4. lines[len].text \o Closing(top) \in Text(a)
    BY <1>3, TextConcat DEF Text
  <1>. QED  BY <1>2, <1>3, <1>4 DEF Blocks

\* The first k subarrays, followed by a comma as long as there are more.
Underway(a, v, i, k, len, w, r, p, e) ==
  /\ v \in Blocks(a) /\ v.index = i + k * w
  /\ Part(a, v.text, i, IF k < len THEN k * r ELSE k * r - 1, e + k * p, k * p)

LEMMA LinePart ==
  ASSUME NEW a, NEW array \in [Nat -> Blocks(a)], NEW len \in Nat \ {0}, NEW i \in Nat,
         NEW w \in Nat, NEW r \in Nat \ {0}, NEW p \in Nat, NEW e \in Nat, NEW k \in Nat, k < len,
         NEW v, Writes(a, array, w, r, p), i + len * w <= Size(a.shape), Size(a.shape) \in Nat,
         Size(a.shape) # 0 => r = 2 * w,
         Underway(a, v, i, k, len, w, r, p, e)
  PROVE  Underway(a, Line(array, v, k + 1, len), i, k + 1, len, w, r, p, e)
  <1> DEFINE j == k * w
             b == array[v.index]
             t == v.text \o b.text
             x == Line(array, v, k + 1, len)
             s == k * r
  <1>1. /\ j \in Nat /\ (k + 1) * w = j + w /\ k * p \in Nat /\ (k + 1) * p = k * p + p
        /\ j + w <= len * w /\ len * w \in Nat
    <2>1. (k + 1) * w <= len * w
      BY SMT
    <2>2. /\ j \in Nat /\ (k + 1) * w = j + w /\ k * p \in Nat /\ (k + 1) * p = k * p + p
          /\ len * w \in Nat
      BY SMT
    <2>. QED  BY <2>1, <2>2
  <1>2. /\ s \in Nat /\ (k + 1) * r = s + r /\ r - 1 \in Nat
        /\ Size(a.shape) # 0 => s = 2 * j /\ r = 2 * w
    <2>1. s \in Nat /\ (k + 1) * r = s + r /\ r - 1 \in Nat
      BY SMT
    <2>2. r = 2 * w => k * r = 2 * (k * w)
      BY SMT
    <2>. QED  BY <2>1, <2>2
  <1>3. v \in Blocks(a) /\ v.index = i + j /\ Part(a, v.text, i, s, e + k * p, k * p)
    BY DEF Underway
  <1> HIDE DEF j, s
  <1>4. Block(a, b, i + j, w, r, p)
    <2>1. (i + j) \in Nat /\ (i + j) + w <= Size(a.shape)
      BY <1>1
    <2>. QED  BY <1>3, <2>1 DEF Writes
  <1>5. b \in Blocks(a) /\ b.index = (i + j) + w /\ Part(a, b.text, i + j, r - 1, p, p)
    BY <1>4 DEF Block
  <1> HIDE DEF b
  <1> DEFINE o == e + (k + 1) * p
             c == (k + 1) * p
  <1>6. Part(a, t, i, s + (r - 1), o, c)
    <2> DEFINE oo == e + k * p
               cc == k * p
               rr == r - 1
    <2>1. oo \in Nat /\ cc \in Nat /\ rr \in Nat /\ cc <= oo /\ oo + p = o /\ cc + p = c
      BY <1>1, <1>2
    <2>2. Part(a, v.text, i, s, oo, cc) /\ Part(a, b.text, i + j, rr, p, p)
      BY <1>3, <1>5
    <2>3. s \in Nat /\ (Size(a.shape) # 0 => s = 2 * j) /\ j \in Nat
      BY <1>1, <1>2
    <2> HIDE DEF oo, cc, rr, o, c
    <2>4. Part(a, t, i, s + rr, oo + p, cc + p)
      BY <2>1, <2>2, <2>3, PartConcat
    <2>. QED  BY <2>1, <2>4 DEF rr
  <1>7. s + (r - 1) = (k + 1) * r - 1 /\ (k + 1) * r - 1 \in Nat
    BY <1>2
  <1> DEFINE q == (k + 1) * r
  <1>8. x = [text |-> Separated(t, k + 1, len), index |-> (i + j) + w]
    BY <1>5 DEF Line, b
  <1>9. Part(a, t, i, q - 1, o, c) /\ q - 1 \in Nat /\ (q - 1) + 1 = q
    BY <1>2, <1>6, <1>7
  <1>10. Sep = ItemAt(a, i, q) /\ Sep \notin Comments /\ Sep \in Tokens(a)
    <2>1. Size(a.shape) # 0 => q % 2 = 0
      <3>1. Size(a.shape) # 0 => q = 2 * (j + w)
        BY <1>1, <1>2
      <3> HIDE DEF q
      <3>. QED  BY <1>1, <3>1
    <2> HIDE DEF q
    <2>2. Sep = ItemAt(a, i, q)
      BY <2>1 DEF ItemAt
    <2>. QED  BY <2>2, FormatAssumption, TokenTexts DEF Comments
  <1> HIDE DEF t, o, c, q
  <1>11. CASE k + 1 < len
    <2>1. Separated(t, k + 1, len) = Append(t, Sep)
      BY <1>11 DEF Separated
    <2>2. Part(a, Append(t, Sep), i, q, o, c)
      <3> DEFINE d == q - 1
      <3>1. d \in Nat /\ d + 1 = q /\ Part(a, t, i, d, o, c)
        BY <1>9
      <3> HIDE DEF d
      <3>2. Part(a, Append(t, Sep), i, d + 1, o, c)
        BY <1>10, <3>1, PartRead
      <3>. QED  BY <3>1, <3>2
    <2>3. Part(a, x.text, i, q, o, c)
      <3>1. x.text = Append(t, Sep)
        <4> HIDE DEF x
        <4>. QED  BY <1>8, <2>1
      <3> HIDE DEF x
      <3>. QED  BY <2>2, <3>1
    <2>. QED  BY <1>1, <1>8, <1>11, <2>3, LineType, <1>3 DEF Underway, o, c, q
  <1>12. CASE ~(k + 1 < len)
    <2>1. Part(a, x.text, i, q - 1, o, c)
      BY <1>8, <1>9, <1>12 DEF Separated
    <2>. QED  BY <1>1, <1>8, <1>12, <2>1, LineType, <1>3 DEF Underway, o, c, q
  <1>. QED  BY <1>11, <1>12

\* What is read of a dimension of `len` subarrays of r each.
DimensionReads(len, r) == IF len = 0 THEN 1 ELSE len * r

LEMMA SubarraysBlock ==
  ASSUME NEW a, NEW array \in [Nat -> Blocks(a)], NEW len \in Nat, NEW i \in Nat,
         NEW w \in Nat, NEW r \in Nat \ {0}, NEW p \in Nat, NEW top \in BOOLEAN,
         Writes(a, array, w, r, p), i + len * w <= Size(a.shape), Size(a.shape) \in Nat,
         Size(a.shape) # 0 => r = 2 * w
  PROVE  Block(a, Subarrays(array, len, top, i), i, len * w, DimensionReads(len, r),
               IF top THEN len * p ELSE 1 + len * p)
  <1> DEFINE e == IF top THEN 0 ELSE 1
             sub == Subarrays(array, len, top, i)
  <1>0. PICK lines : Looped(a, array, len, top, i, lines)
    BY SubarraysUnfold
  <1>1. /\ lines \in [0..len -> Blocks(a)]
        /\ lines[0] = [text |-> Opening(top), index |-> i]
        /\ \A k \in 1..len : lines[k] = Line(array, lines[k-1], k, len)
        /\ sub = [text |-> lines[len].text \o Closing(top), index |-> lines[len].index]
    BY <1>0 DEF Looped
  <1>2. sub \in Blocks(a)
    BY SubarraysType
  <1> HIDE DEF sub
  <1>3. e \in Nat
    OBVIOUS
  <1>4. Part(a, Opening(top), i, 0, e, 0)
    BY OpenPart, PartEmpty DEF Opening
  <1> DEFINE t == lines[len].text
             q == len * p
             d == DimensionReads(len, r) - 1
  <1>5. q \in Nat /\ len * w \in Nat /\ d \in Nat
    <2>1. q \in Nat /\ len * w \in Nat
      BY SMT
    <2>2. len # 0 => len * r \in Nat \ {0}
      BY SMT
    <2>3. d \in Nat
      BY <2>2 DEF DimensionReads
    <2>. QED  BY <2>1, <2>3
  <1>6. Part(a, t, i, d, e + q, q) /\ lines[len].index = i + len * w
    <2>1. CASE len = 0
      <3>1. q = 0 /\ len * w = 0 /\ d = 0 /\ e + q = e /\ i + len * w = i
        BY <1>3, <2>1 DEF DimensionReads
      <3>2. t = Opening(top) /\ lines[len].index = i
        BY <1>1, <2>1
      <3> HIDE DEF e, t, q, d
      <3>. QED  BY <1>4, <3>1, <3>2
    <2>2. CASE len # 0
      <3> DEFINE T == {k \in Nat : k <= len => Underway(a, lines[k], i, k, len, w, r, p, e)}
      <3>0. len \in Nat \ {0}
        BY <2>2
      <3>1. 0 \in T
        <4>1. 0 * w = 0 /\ 0 * p = 0 /\ i + 0 * w = i /\ 0 * r = 0 /\ e + 0 * p = e /\ 0 < len
          BY <1>3, <3>0, SMT
        <4>2. lines[0] \in Blocks(a)
          BY <1>1
        <4>3. lines[0].text = Opening(top) /\ lines[0].index = i
          BY <1>1
        <4> HIDE DEF e
        <4>4. Underway(a, lines[0], i, 0, len, w, r, p, e)
          BY <1>4, <4>1, <4>2, <4>3 DEF Underway
        <4>. QED  BY <4>4
      <3>2. ASSUME NEW k \in Nat, k \in T PROVE k + 1 \in T
        <4> SUFFICES ASSUME k + 1 <= len PROVE Underway(a, lines[k+1], i, k + 1, len, w, r, p, e)
          OBVIOUS
        <4>1. k + 1 \in 1..len /\ (k + 1) - 1 = k /\ k < len
          OBVIOUS
        <4>2. Underway(a, lines[k], i, k, len, w, r, p, e)
          BY <3>2, <4>1
        <4>3. lines[k + 1] = Line(array, lines[k], k + 1, len)
          BY <1>1, <4>1
        <4> HIDE DEF e
        <4>4. Underway(a, Line(array, lines[k], k + 1, len), i, k + 1, len, w, r, p, e)
          BY <1>3, <3>0, <4>1, <4>2, LinePart
        <4>. QED  BY <4>3, <4>4
      <3>3. Nat \subseteq T
        <4> HIDE DEF T
        <4>. QED  BY <3>1, <3>2, SetInduction
      <3>4. Underway(a, lines[len], i, len, len, w, r, p, e)
        <4> HIDE DEF e
        <4>. QED  BY <3>3
      <3>5. d = len * r - 1
        BY <2>2 DEF DimensionReads
      <3> HIDE DEF d
      <3>. QED  BY <3>4, <3>5 DEF Underway
    <2>. QED  BY <2>1, <2>2
  <1>7. sub.text = t \o Closing(top) /\ sub.index = i + len * w
    BY <1>1, <1>6
  <1>8. t \in Seq(Tokens(a))
    BY <1>6 DEF Part, Text
  <1> HIDE DEF t, q, d
  <1>9. Part(a, sub.text, i, d, e + q, e + q)
    <2>1. CASE top
      <3>1. t \o <<>> = t
        BY <1>8
      <3>2. sub.text = t /\ e = 0 /\ e + q = q
        BY <1>5, <1>7, <2>1, <3>1 DEF Closing
      <3>. QED  BY <1>6, <3>2
    <2>2. CASE ~top
      <3>1. t \o <<Close>> = Append(t, Close)
        BY <1>8, TokenTexts, Appended
      <3>2. sub.text = Append(t, Close) /\ e = 1 /\ e + q = q + 1 /\ q < q + 1 /\ q + 1 \in Nat
        BY <1>5, <1>7, <2>2, <3>1 DEF Closing
      <3>3. Part(a, t, i, d, q + 1, q)
        BY <1>6, <3>2
      <3>4. Part(a, Append(t, Close), i, d, q + 1, q + 1)
        BY <1>5, <3>2, <3>3, PartComment
      <3>. QED  BY <3>2, <3>4
    <2>. QED  BY <2>1, <2>2
  <1>10. e + q = IF top THEN len * p ELSE 1 + len * p
    BY <1>5 DEF q
  <1>. QED  BY <1>2, <1>7, <1>9, <1>10 DEF Block, sub, d

-----------------------------------------------------------------------------
(* The text of a matrix *)

\* How the dimensions of a matrix are written, from the inner one.
Dimension(a, array, l) ==
  [index \in Nat |->
     IF l = 1 THEN Vector(a, a.shape[Len(a.shape)], index)
     ELSE Subarrays(array, a.shape[Len(a.shape) - l + 1], l = Len(a.shape), index)]

LEMMA DimensionType ==
  ASSUME NEW a, a.shape \in Shapes, NEW l \in 1..Len(a.shape),
         NEW array \in [Nat -> Blocks(a)]
  PROVE  Dimension(a, array, l) \in [Nat -> Blocks(a)]
  <1>1. /\ Len(a.shape) \in Nat /\ \A k \in 1..Len(a.shape) : a.shape[k] \in Nat
    BY DEF Shapes
  <1>2. Len(a.shape) \in 1..Len(a.shape) /\ Len(a.shape) - l + 1 \in 1..Len(a.shape)
    BY <1>1
  <1>3. ASSUME NEW index \in Nat
        PROVE  (IF l = 1 THEN Vector(a, a.shape[Len(a.shape)], index)
                ELSE Subarrays(array, a.shape[Len(a.shape) - l + 1], l = Len(a.shape), index)) \in Blocks(a)
    <2>1. CASE l = 1
      BY <1>1, <1>2, <2>1, VectorType
    <2>2. CASE l # 1
      <3>1. (l = Len(a.shape)) \in BOOLEAN
        OBVIOUS
      <3>. QED  BY <1>1, <1>2, <2>2, <3>1, SubarraysType
    <2>. QED  BY <2>1, <2>2
  <1>. QED  BY <1>3 DEF Dimension

LEMMA DimensionsUnfold ==
  ASSUME NEW a, a.shape \in Shapes, a.shape # <<>>
  PROVE  \E array \in [1..Len(a.shape) -> [Nat -> Blocks(a)]] :
           /\ array[1] = [index \in Nat |-> Vector(a, a.shape[Len(a.shape)], index)]
           /\ \A l \in 2..Len(a.shape) : array[l] = Dimension(a, array[l-1], l)
           /\ generate_structure_comments(a) = array[Len(a.shape)][0].text
  <1> DEFINE N == Len(a.shape)
             S == [Nat -> Blocks(a)]
             b == [index \in Nat |-> Vector(a, a.shape[N], index)]
             Body(g) == [l \in 1..N |->
                        [index \in Nat |->
                           IF l = 1 THEN Vector(a, a.shape[N], index)
                           ELSE Subarrays(g[l-1], a.shape[N - l + 1], l = N, index)]]
             rule == [v \in (1..N) \X S |-> Dimension(a, v[2], v[1])]
             h == CHOOSE g : g = Body(g)
  <1>1. N \in Nat \ {0} /\ a.shape[N] \in Nat
    <2>1. N \in Nat /\ (N = 0 => a.shape = <<>>) /\ \A k \in 1..N : a.shape[k] \in Nat
      BY DEF Shapes
    <2>. QED  BY <2>1
  <1>2. b \in S
    <2>1. \A index \in Nat : Vector(a, a.shape[N], index) \in Blocks(a)
      BY <1>1, VectorType
    <2>. QED  BY <2>1
  <1>3. \A l \in 1..N, v \in S : Dimension(a, v, l) \in S
    BY DimensionType
  <1>4. rule \in [(1..N) \X S -> S] /\ \A l \in 1..N, v \in S : rule[<<l, v>>] = Dimension(a, v, l)
    <2> HIDE DEF S, N
    <2>. QED  BY <1>3
  <1> HIDE DEF rule
  <1>5. \A g : Body(g) = [l \in 1..N |-> Dimension(a, g[l-1], l)]
    BY DEF Dimension
  <1>6. \A v : Dimension(a, v, 1) = b
    BY DEF Dimension
  <1>7. generate_structure_comments(a) = h[N][0].text
    BY DEF generate_structure_comments
  <1> HIDE DEF Body, S, b, N
  <1>8. PICK g : ComputedBy(S, b, N, rule, g)
    BY <1>1, <1>2, <1>4, ComputedExists
  <1>9. g \in [0..N -> S] /\ \A l \in 1..N : g[l] = rule[<<l, g[l-1]>>]
    BY <1>8 DEF ComputedBy
  <1>10. \A l \in 1..N : g[l] = Dimension(a, g[l-1], l) /\ g[l] \in S
    <2> TAKE l \in 1..N
    <2>1. l - 1 \in 0..N /\ l \in 0..N
      BY <1>1
    <2>2. g[l-1] \in S
      BY <1>9, <2>1
    <2>. QED  BY <1>4, <1>9, <2>1, <2>2
  <1> DEFINE f == [l \in 1..N |-> g[l]]
  <1>11. \A l \in 1..N : Dimension(a, f[l-1], l) = g[l]
    <2> TAKE l \in 1..N
    <2>1. CASE l = 1
      BY <1>6, <1>10, <2>1
    <2>2. CASE l # 1
      <3>1. l - 1 \in 1..N
        BY <1>1, <2>2
      <3>2. f[l-1] = g[l-1]
        BY <3>1
      <3>. QED  BY <1>10, <3>2
    <2>. QED  BY <2>1, <2>2
  <1>12. f = Body(f)
    <2>1. [l \in 1..N |-> Dimension(a, f[l-1], l)] = [l \in 1..N |-> g[l]]
      BY <1>11
    <2>. QED  BY <1>5, <2>1
  <1>13. h = Body(h)
    <2> HIDE DEF f
    <2>. QED  BY <1>12
  <1> HIDE DEF h, f
  <1>14. h = [l \in 1..N |-> Dimension(a, h[l-1], l)]
    BY <1>5, <1>13
  <1>15. \A l \in 1..N : h[l] = Dimension(a, h[l-1], l)
    BY <1>14
  <1> DEFINE T == {k \in Nat : k + 1 <= N => h[k + 1] \in S}
  <1>16. 0 \in T
    <2>1. 1 \in 1..N
      BY <1>1
    <2>2. h[1] = b
      BY <1>6, <1>15, <2>1
    <2>. QED  BY <1>2, <2>2
  <1>17. ASSUME NEW k \in Nat, k \in T PROVE k + 1 \in T
    <2> SUFFICES ASSUME (k + 1) + 1 <= N PROVE h[(k + 1) + 1] \in S
      OBVIOUS
    <2>1. (k + 1) + 1 \in 1..N /\ ((k + 1) + 1) - 1 = k + 1 /\ h[k + 1] \in S
      BY <1>1, <1>17
    <2>2. h[(k + 1) + 1] = Dimension(a, h[k + 1], (k + 1) + 1)
      BY <1>15, <2>1
    <2>. QED  BY <1>3, <2>1, <2>2
  <1>18. Nat \subseteq T
    <2> HIDE DEF T
    <2>. QED  BY <1>16, <1>17, SetInduction
  <1>19. h \in [1..N -> S]
    <2>1. \A l \in 1..N : h[l] \in S
      <3> TAKE l \in 1..N
      <3>1. l - 1 \in Nat /\ (l - 1) + 1 = l /\ l <= N
        BY <1>1
      <3>. QED  BY <1>18, <3>1
    <2>2. \E D : h = [l \in 1..N |-> D[l]]
      <3>1. h = [l \in 1..N |-> [j \in 1..N |-> Dimension(a, h[j-1], j)][l]]
        BY <1>14
      <3>. QED  BY <3>1
    <2>. QED  BY <2>1, <2>2
  <1>20. h[1] = b /\ \A l \in 2..N : h[l] = Dimension(a, h[l-1], l)
    <2>1. 1 \in 1..N /\ \A l \in 2..N : l \in 1..N
      BY <1>1
    <2>. QED  BY <1>6, <1>15, <2>1
  <1>. QED  BY <1>7, <1>19, <1>20 DEF S, b, N

\* The counts of the subarrays of a shape.
Counts(shape, level, all) ==
  /\ level \in [0..Len(shape) -> Nat] /\ all \in [0..Len(shape) -> Nat]
  /\ level[0] = 1 /\ all[0] = 0
  /\ \A k \in 1..Len(shape) : level[k] = level[k-1] * shape[k] /\ all[k] = all[k-1] + level[k]

\* What is read of a subarray of l dimensions and the comma behind it: each
\* element with a comma, or one comma for each subarray that is empty.
Commas(shape, level, r) ==
  \E k \in 1..Len(shape) : shape[k] = 0 /\ level[k-1] # 0 /\ r = level[k-1]
Reads(shape, l, level, r) ==
  /\ Size(shape) # 0 => r = 2 * SizeBelow(shape, l)
  /\ SizeBelow(shape, l) = 0 /\ level[Len(shape) - l] # 0 => Commas(shape, level, level[Len(shape) - l] * r)

LEMMA ReadsStep ==
  ASSUME NEW shape \in Shapes, NEW level, NEW all, Counts(shape, level, all),
         NEW l \in 2..Len(shape), NEW r \in Nat \ {0}, Reads(shape, l - 1, level, r),
         NEW len, len = shape[Len(shape) - l + 1]
  PROVE  /\ DimensionReads(len, r) \in Nat \ {0}
         /\ Reads(shape, l, level, DimensionReads(len, r))
  <1> DEFINE N == Len(shape)
             w == SizeBelow(shape, l - 1)
             v == SizeBelow(shape, l)
             q == DimensionReads(len, r)
             x == level[N - l]
             y == level[N - l + 1]
  <1>1. N \in Nat /\ l \in 1..N /\ l - 1 \in 0..N /\ l \in 0..N /\ N - l \in 0..N /\ N - l + 1 \in 1..N
        /\ N - (l - 1) = N - l + 1 /\ (N - l + 1) - 1 = N - l
    <2>1. N \in Nat /\ l \in 2..N
      BY DEF Shapes
    <2> HIDE DEF N
    <2>. QED  BY <2>1
  <1>2. len \in Nat /\ w \in Nat /\ v = len * w
    <2>1. len \in Nat
      BY <1>1 DEF Shapes
    <2>. QED  BY <1>1, <2>1, SizeUnfolds
  <1>3. x \in Nat /\ y = x * len
    BY <1>1 DEF Counts
  <1>4. q \in Nat \ {0} /\ (len # 0 => q = len * r)
    <2>1. len # 0 => len * r \in Nat \ {0}
      BY <1>2, SMT
    <2>. QED  BY <2>1 DEF DimensionReads
  <1>5. Size(shape) # 0 => q = 2 * v
    <2> SUFFICES ASSUME Size(shape) # 0 PROVE q = 2 * v
      OBVIOUS
    <2>1. v # 0
      BY <1>1, NoneEmpty
    <2>2. len # 0
      <3>1. len = 0 => len * w = 0
        BY <1>2, SMT
      <3>. QED  BY <1>2, <2>1, <3>1
    <2>3. r = 2 * w
      BY DEF Reads
    <2>4. q = len * (2 * w)
      BY <1>4, <2>2, <2>3
    <2> HIDE DEF q, w, v
    <2>. QED  BY <1>2, <2>4, SMT
  <1>6. ASSUME v = 0, x # 0 PROVE Commas(shape, level, x * q)
    <2>1. CASE len = 0
      <3>1. q = 1 /\ x * q = x
        BY <1>3, <2>1 DEF DimensionReads
      <3> DEFINE k == N - l + 1
      <3>2. k \in 1..N /\ shape[k] = 0 /\ level[k-1] = x
        BY <1>1, <2>1
      <3> HIDE DEF k, x, q, N
      <3>. QED  BY <1>6, <3>1, <3>2 DEF Commas, N
    <2>2. CASE len # 0
      <3>1. w = 0
        <4> HIDE DEF w, v
        <4>. QED  BY <1>2, <1>6, <2>2, SMT
      <3>2. y # 0
        <4> HIDE DEF x, y
        <4>. QED  BY <1>2, <1>3, <1>6, <2>2, SMT
      <3>3. Commas(shape, level, y * r)
        BY <1>1, <3>1, <3>2 DEF Reads
      <3>4. x * q = y * r
        <4>1. q = len * r /\ y = x * len
          BY <1>3, <1>4, <2>2
        <4> HIDE DEF x, y, q
        <4>2. x * (len * r) = (x * len) * r
          BY <1>2, <1>3, SMT
        <4>. QED  BY <4>1, <4>2
      <3>. QED  BY <3>3, <3>4
    <2>. QED  BY <2>1, <2>2
  <1>. QED  BY <1>4, <1>5, <1>6 DEF Reads

LEMMA ReadsStart ==
  ASSUME NEW shape \in Shapes, shape # <<>>, NEW level, NEW all, Counts(shape, level, all)
  PROVE  /\ VectorReads(shape[Len(shape)]) \in Nat \ {0}
         /\ SizeBelow(shape, 1) = shape[Len(shape)]
         /\ Reads(shape, 1, level, VectorReads(shape[Len(shape)]))
  <1> DEFINE N == Len(shape)
             len == shape[N]
             q == VectorReads(len)
  <1>1. N \in Nat \ {0} /\ len \in Nat
    <2>1. N \in Nat /\ (N = 0 => shape = <<>>) /\ \A k \in 1..N : shape[k] \in Nat
      BY DEF Shapes
    <2>. QED  BY <2>1
  <1>2. SizeBelow(shape, 1) = len
    <2>1. 1 \in 1..N /\ N - 1 + 1 = N /\ 1 - 1 = 0
      BY <1>1
    <2>2. SizeBelow(shape, 1) = shape[N - 1 + 1] * SizeBelow(shape, 1 - 1) /\ SizeBelow(shape, 0) = 1
      BY <2>1, SizeUnfolds
    <2>. QED  BY <1>1, <2>1, <2>2
  <1>3. q \in Nat \ {0}
    BY <1>1 DEF VectorReads
  <1>4. Size(shape) # 0 => q = 2 * len
    <2>1. Size(shape) # 0 => len # 0
      BY <1>1, <1>2, NoneEmpty
    <2>. QED  BY <2>1 DEF VectorReads
  <1>5. ASSUME len = 0, level[N - 1] # 0 PROVE Commas(shape, level, level[N - 1] * q)
    <2>1. level[N - 1] \in Nat /\ N \in 1..N
      <3>1. N - 1 \in 0..N /\ N \in 1..N /\ level \in [0..N -> Nat]
        BY <1>1 DEF Counts
      <3> HIDE DEF N
      <3>. QED  BY <3>1
    <2>2. q = 1 /\ level[N - 1] * q = level[N - 1]
      BY <1>5, <2>1 DEF VectorReads
    <2> HIDE DEF q
    <2>. QED  BY <1>5, <2>1, <2>2 DEF Commas
  <1> HIDE DEF q
  <1>. QED  BY <1>2, <1>3, <1>4, <1>5 DEF Reads, q

\* The dimensions up to l, when the pairs of comments add up to those of the
\* whole matrix: `level` counts the subarrays of a dimension, `all` those of
\* the ones outside of it as well.
DimensionOK(a, array, l, level, all) ==
  \E p \in Nat, r \in Nat \ {0} :
    /\ Writes(a, array[l], SizeBelow(a.shape, l), r, p)
    /\ Reads(a.shape, l, level, r)
    /\ IF l = Len(a.shape) THEN p = Pairs(a.shape)
       ELSE all[Len(a.shape) - l - 1] + level[Len(a.shape) - l] * p = Pairs(a.shape)

LEMMA DimensionStep ==
  ASSUME NEW a, a.shape \in Shapes, NEW level, NEW all, NEW array, NEW l \in Nat,
         l > 1, l <= Len(a.shape),
         array \in [1..Len(a.shape) -> [Nat -> Blocks(a)]],
         array[l] = Dimension(a, array[l-1], l),
         Counts(a.shape, level, all),
         DimensionOK(a, array, l - 1, level, all)
  PROVE  DimensionOK(a, array, l, level, all)
  <1> DEFINE N == Len(a.shape)
             w == SizeBelow(a.shape, l - 1)
             len == a.shape[N - l + 1]
             top == (l = N)
  <1>1. /\ N \in Nat /\ l - 1 \in 1..N /\ l - 1 # N /\ l - 1 \in 0..N /\ l \in 1..N
        /\ N - l + 1 \in 1..N /\ N - (l - 1) - 1 = N - l /\ N - (l - 1) = N - l + 1
    <2>1. N \in Nat
      BY DEF Shapes
    <2>2. l <= N
      OBVIOUS
    <2> HIDE DEF N
    <2>. QED  BY <2>1, <2>2
  <1>2. len \in Nat /\ w \in Nat /\ SizeBelow(a.shape, l) = len * w /\ Size(a.shape) \in Nat
    <2>1. N \in 0..N
      BY <1>1
    <2>2. Size(a.shape) \in Nat /\ w \in Nat /\ SizeBelow(a.shape, l) = len * w
      BY <1>1, <2>1, SizeUnfolds DEF Size
    <2>3. len \in Nat
      BY <1>1 DEF Shapes
    <2>. QED  BY <2>2, <2>3
  <1>3. PICK p \in Nat, r \in Nat \ {0} :
          /\ Writes(a, array[l-1], w, r, p)
          /\ Reads(a.shape, l - 1, level, r)
          /\ all[N - l] + level[N - l + 1] * p = Pairs(a.shape)
    BY <1>1 DEF DimensionOK
  <1>4. /\ DimensionReads(len, r) \in Nat \ {0}
        /\ Reads(a.shape, l, level, DimensionReads(len, r))
        /\ Size(a.shape) # 0 => r = 2 * w
    <2>1. l \in 2..N
      BY <1>1
    <2>2. Size(a.shape) # 0 => r = 2 * w
      BY <1>3 DEF Reads
    <2> HIDE DEF len, w, N
    <2>. QED  BY <1>3, <2>1, <2>2, ReadsStep DEF len, N
  <1>5. array[l-1] \in [Nat -> Blocks(a)] /\ top \in BOOLEAN
    BY <1>1
  <1>6. \A i \in Nat : array[l][i] = Subarrays(array[l-1], len, top, i)
    BY DEF Dimension
  <1> DEFINE q == IF top THEN len * p ELSE 1 + len * p
  <1>7. q \in Nat
    <2>1. len * p \in Nat
      BY <1>2, SMT
    <2> HIDE DEF len, top
    <2>. QED  BY <2>1
  <1>8. Writes(a, array[l], SizeBelow(a.shape, l), DimensionReads(len, r), q)
    <2> SUFFICES ASSUME NEW i \in Nat, i + len * w <= Size(a.shape)
                 PROVE  Block(a, array[l][i], i, len * w, DimensionReads(len, r), q)
      BY <1>2 DEF Writes
    <2> DEFINE prev == array[l-1]
    <2>1. /\ len \in Nat /\ w \in Nat /\ prev \in [Nat -> Blocks(a)] /\ top \in BOOLEAN
          /\ Writes(a, prev, w, r, p) /\ Size(a.shape) \in Nat
          /\ (Size(a.shape) # 0 => r = 2 * w)
      <3>1. len \in Nat /\ w \in Nat /\ Size(a.shape) \in Nat
        BY <1>2
      <3>2. prev \in [Nat -> Blocks(a)] /\ top \in BOOLEAN
        BY <1>5
      <3>3. Writes(a, prev, w, r, p)
        BY <1>3
      <3>4. Size(a.shape) # 0 => r = 2 * w
        BY <1>4
      <3>. QED  BY <3>1, <3>2, <3>3, <3>4
    <2> HIDE DEF len, w, top, prev
    <2>2. Block(a, Subarrays(prev, len, top, i), i, len * w, DimensionReads(len, r),
               IF top THEN len * p ELSE 1 + len * p)
      BY <2>1, SubarraysBlock
    <2>. QED  BY <1>6, <2>2 DEF q, prev
  <1>9. /\ level[N - l] \in Nat /\ level[N - l + 1] = level[N - l] * len
        /\ all[N - l] \in Nat
    <2>1. N - l \in 0..N /\ (N - l + 1) - 1 = N - l
      BY <1>1
    <2>. QED  BY <1>1, <2>1 DEF Counts
  <1>10. CASE top
    <2>1. N - l = 0 /\ l = N
      BY <1>1, <1>10
    <2>2. level[N - l] = 1 /\ all[N - l] = 0
      BY <2>1 DEF Counts
    <2>3. level[N - l + 1] = len
      BY <1>2, <1>9, <2>2
    <2>4. q = Pairs(a.shape)
      <3>1. len * p \in Nat
        BY <1>2, SMT
      <3> HIDE DEF len
      <3>. QED  BY <1>3, <1>10, <2>2, <2>3, <3>1
    <2> DEFINE d == DimensionReads(len, r)
    <2>5. d \in Nat \ {0} /\ Reads(a.shape, l, level, d) /\ Writes(a, array[l], SizeBelow(a.shape, l), d, q)
      <3>1. d \in Nat \ {0} /\ Reads(a.shape, l, level, d)
        BY <1>4
      <3>2. Writes(a, array[l], SizeBelow(a.shape, l), d, q)
        BY <1>8
      <3>. QED  BY <3>1, <3>2
    <2> HIDE DEF q, d
    <2>. QED  BY <1>7, <2>1, <2>4, <2>5 DEF DimensionOK
  <1>11. CASE ~top
    <2>1. N - l \in 1..N /\ N - l - 1 \in 0..N /\ (N - l) - 1 = N - l - 1
      <3>1. l # N
        BY <1>11
      <3> HIDE DEF N, top
      <3>. QED  BY <1>1, <3>1
    <2>2. all[N - l] = all[N - l - 1] + level[N - l] /\ all[N - l - 1] \in Nat
      BY <2>1 DEF Counts
    <2>3. all[N - l - 1] + level[N - l] * q = Pairs(a.shape)
      <3> DEFINE x == level[N - l]
                 y == all[N - l - 1]
      <3>1. x \in Nat /\ y \in Nat /\ all[N - l] = y + x /\ level[N - l + 1] = x * len
        BY <1>9, <2>2
      <3>2. q = 1 + len * p
        BY <1>11
      <3> HIDE DEF x, y, q, len
      <3>3. x * (1 + len * p) = x + (x * len) * p /\ (x * len) * p \in Nat
        BY <1>2, <3>1, SMT
      <3>4. (y + x) + (x * len) * p = Pairs(a.shape)
        BY <1>3, <3>1
      <3>5. y + x * q = Pairs(a.shape)
        BY <3>1, <3>2, <3>3, <3>4
      <3>. QED  BY <3>5 DEF x, y
    <2> DEFINE d == DimensionReads(len, r)
    <2>4. d \in Nat \ {0} /\ Reads(a.shape, l, level, d) /\ Writes(a, array[l], SizeBelow(a.shape, l), d, q)
      <3>1. d \in Nat \ {0} /\ Reads(a.shape, l, level, d)
        BY <1>4
      <3>2. Writes(a, array[l], SizeBelow(a.shape, l), d, q)
        BY <1>8
      <3>. QED  BY <3>1, <3>2
    <2> HIDE DEF q, d
    <2>. QED  BY <1>7, <1>11, <2>3, <2>4 DEF DimensionOK
  <1>. QED  BY <1>10, <1>11

LEMMA DimensionStart ==
  ASSUME NEW a, a.shape \in Shapes, a.shape # <<>>, NEW level, NEW all, NEW array,
         Counts(a.shape, level, all),
         \A i \in Nat : i + 1 <= Size(a.shape) => Hex(a, i + 1) \notin Comments,
         array[1] = [index \in Nat |-> Vector(a, a.shape[Len(a.shape)], index)],
         Len(a.shape) > 1 =>
           all[Len(a.shape) - 2] + level[Len(a.shape) - 1] * 1 = Pairs(a.shape)
  PROVE  DimensionOK(a, array, 1, level, all)
  <1> DEFINE N == Len(a.shape)
             len == a.shape[N]
             q == VectorReads(len)
  <1>1. N \in Nat \ {0} /\ len \in Nat
    <2>1. N \in Nat /\ (N = 0 => a.shape = <<>>) /\ \A k \in 1..N : a.shape[k] \in Nat
      BY DEF Shapes
    <2>. QED  BY <2>1
  <1>2. Size(a.shape) \in Nat
    <2>1. N \in 0..N
      BY <1>1
    <2>. QED  BY <2>1, SizeUnfolds DEF Size
  <1>3. q \in Nat \ {0} /\ SizeBelow(a.shape, 1) = len /\ Reads(a.shape, 1, level, q)
    BY ReadsStart
  <1> HIDE DEF len, q
  <1>4. Writes(a, array[1], len, q, 1)
    <2> SUFFICES ASSUME NEW i \in Nat, i + len <= Size(a.shape)
                 PROVE  Block(a, array[1][i], i, len, q, 1)
      BY DEF Writes
    <2>1. Numbers(a, i, len)
      <3> SUFFICES ASSUME NEW k \in 1..len PROVE Hex(a, i + k) \notin Comments
        BY DEF Numbers
      <3>1. i + k - 1 \in Nat /\ (i + k - 1) + 1 = i + k /\ (i + k - 1) + 1 <= Size(a.shape)
        BY <1>1, <1>2
      <3>. QED  BY <3>1
    <2>2. array[1][i] = Vector(a, len, i)
      BY DEF len
    <2>. QED  BY <1>1, <1>2, <2>1, <2>2, VectorBlock DEF q
  <1>5. Writes(a, array[1], SizeBelow(a.shape, 1), q, 1)
    BY <1>3, <1>4
  <1>6. CASE N = 1
    <2>1. Pairs(a.shape) = 1
      BY <1>6 DEF Pairs
    <2>. QED  BY <1>3, <1>5, <1>6, <2>1 DEF DimensionOK
  <1>7. CASE N # 1
    <2>1. N > 1 /\ N - 1 - 1 = N - 2
      <3> HIDE DEF N
      <3>. QED  BY <1>1, <1>7
    <2>2. all[N - 1 - 1] + level[N - 1] * 1 = Pairs(a.shape)
      BY <2>1
    <2>3. 1 \in Nat /\ 1 # N
      BY <1>7
    <2>. QED  BY <1>3, <1>5, <2>2, <2>3 DEF DimensionOK
  <1>. QED  BY <1>6, <1>7

\* What is read of a matrix and a comma behind it.
MatrixReads(shape, r) ==
  IF Size(shape) # 0 THEN r = 2 * Size(shape)
  ELSE \E k \in 1..Len(shape) : EmptyAt(shape, k) /\ r = Structure(shape)[k-1].level

\* A matrix whose elements are numbers is written as one block.
LEMMA MatrixBlock ==
  ASSUME NEW a, a.shape \in Shapes, a.shape # <<>>,
         \A i \in Nat : i + 1 <= Size(a.shape) => Hex(a, i + 1) \notin Comments
  PROVE  \E r \in Nat \ {0} :
           /\ Part(a, generate_structure_comments(a), 0, r - 1, Pairs(a.shape), Pairs(a.shape))
           /\ MatrixReads(a.shape, r)
  <1> DEFINE N == Len(a.shape)
  <1>1. N \in Nat \ {0}
    <2>1. N \in Nat /\ (N = 0 => a.shape = <<>>)
      BY DEF Shapes
    <2>. QED  BY <2>1
  <1>2. PICK array \in [1..N -> [Nat -> Blocks(a)]] :
          /\ array[1] = [index \in Nat |-> Vector(a, a.shape[N], index)]
          /\ \A l \in 2..N : array[l] = Dimension(a, array[l-1], l)
          /\ generate_structure_comments(a) = array[N][0].text
    BY DimensionsUnfold
  <1>3. PICK level, all :
          /\ Counts(a.shape, level, all)
          /\ \A k \in 0..N : level[k] = Structure(a.shape)[k].level /\ all[k] = Structure(a.shape)[k].all
    <2>1. \E level, all \in [0..N -> Nat] :
            /\ level[0] = 1 /\ all[0] = 0
            /\ \A k \in 1..N : level[k] = level[k-1] * a.shape[k] /\ all[k] = all[k-1] + level[k]
            /\ \A k \in 0..N : level[k] = Structure(a.shape)[k].level /\ all[k] = Structure(a.shape)[k].all
      BY StructureUnfold
    <2>. QED  BY <2>1 DEF Counts
  <1>4. DimensionOK(a, array, 1, level, all)
    <2>1. N > 1 => all[N - 2] + level[N - 1] * 1 = Pairs(a.shape)
      <3> SUFFICES ASSUME N > 1 PROVE all[N - 2] + level[N - 1] * 1 = Pairs(a.shape)
        OBVIOUS
      <3>1. N - 1 \in 1..N /\ (N - 1) - 1 = N - 2 /\ N - 1 \in 0..N /\ N # 1
        <4>1. N > 1
          OBVIOUS
        <4> HIDE DEF N
        <4>. QED  BY <1>1, <4>1
      <3>2. Pairs(a.shape) = all[N - 1]
        BY <1>3, <3>1 DEF Pairs
      <3>3. all[N - 1] = all[N - 2] + level[N - 1] /\ level[N - 1] \in Nat
        <4> HIDE DEF N
        <4>. QED  BY <1>3, <3>1 DEF Counts, N
      <3>4. level[N - 1] * 1 = level[N - 1]
        BY <3>3
      <3>. QED  BY <3>2, <3>3, <3>4
    <2>. QED  BY <1>2, <1>3, <2>1, DimensionStart
  <1> DEFINE T == {k \in Nat : k + 1 <= N => DimensionOK(a, array, k + 1, level, all)}
  <1>5. 0 \in T
    BY <1>4
  <1>6. ASSUME NEW k \in Nat, k \in T PROVE k + 1 \in T
    <2> SUFFICES ASSUME (k + 1) + 1 <= N PROVE DimensionOK(a, array, (k + 1) + 1, level, all)
      OBVIOUS
    <2> DEFINE l == (k + 1) + 1
    <2>1. l \in Nat /\ l > 1 /\ l <= N /\ l \in 2..N /\ l - 1 = k + 1
      BY <1>1
    <2>2. DimensionOK(a, array, l - 1, level, all)
      BY <1>6, <2>1
    <2>3. array[l] = Dimension(a, array[l-1], l)
      BY <1>2, <2>1
    <2> HIDE DEF l
    <2>. QED  BY <1>2, <1>3, <2>1, <2>2, <2>3, DimensionStep DEF l
  <1>7. Nat \subseteq T
    <2> HIDE DEF T
    <2>. QED  BY <1>5, <1>6, SetInduction
  <1>8. DimensionOK(a, array, N, level, all)
    <2>1. N - 1 \in Nat /\ (N - 1) + 1 = N /\ N <= N
      <3> HIDE DEF N
      <3>. QED  BY <1>1
    <2>2. N - 1 \in T
      <3> HIDE DEF T, N
      <3>. QED  BY <1>7, <2>1
    <2> HIDE DEF N
    <2>. QED  BY <2>1, <2>2
  <1>9. PICK r \in Nat \ {0} : Writes(a, array[N], Size(a.shape), r, Pairs(a.shape)) /\ Reads(a.shape, N, level, r)
    BY <1>8 DEF DimensionOK, Size
  <1>10. Size(a.shape) \in Nat
    <2>1. N \in 0..N
      BY <1>1
    <2>. QED  BY <2>1, SizeUnfolds DEF Size
  <1>11. Block(a, array[N][0], 0, Size(a.shape), r, Pairs(a.shape))
    BY <1>9, <1>10 DEF Writes
  <1>12. MatrixReads(a.shape, r)
    <2>1. CASE Size(a.shape) # 0
      BY <1>9, <2>1 DEF Reads, MatrixReads, Size
    <2>2. CASE Size(a.shape) = 0
      <3>1. N - N = 0 /\ level[0] = 1 /\ 1 * r = r
        BY <1>1, <1>3 DEF Counts
      <3>2. Commas(a.shape, level, level[N - N] * r)
        BY <1>9, <2>2, <3>1 DEF Reads, Size
      <3>3. PICK k \in 1..N : a.shape[k] = 0 /\ level[k-1] # 0 /\ r = level[k-1]
        BY <3>1, <3>2 DEF Commas
      <3>4. k - 1 \in 0..N
        BY <1>1
      <3>5. level[k-1] = Structure(a.shape)[k-1].level
        BY <1>3, <3>4
      <3>. QED  BY <2>2, <3>3, <3>5 DEF MatrixReads, EmptyAt
    <2>. QED  BY <2>1, <2>2
  <1>. QED  BY <1>2, <1>11, <1>12 DEF Block

-----------------------------------------------------------------------------
(* The text of a program *)

LEMMA CodeNone ==
  ASSUME NEW a
  PROVE  code_contents(a, 0) = <<>>
  <1> DEFINE Body(g) == [k \in 0..0 |->
                        IF k = 0 THEN <<>> ELSE Separated(Append(g[k-1], Hex(a, k)), k, 0)]
             h == CHOOSE g : g = Body(g)
             f == [k \in 0..0 |-> <<>>]
  <1>1. code_contents(a, 0) = h[0]
    BY DEF code_contents
  <1>2. f = Body(f)
    OBVIOUS
  <1>3. h = Body(h)
    <2> HIDE DEF Body, f
    <2>. QED  BY <1>2
  <1> HIDE DEF h
  <1>4. h[0] = <<>>
    BY <1>3
  <1>. QED  BY <1>1, <1>4

LEMMA CodePart ==
  ASSUME NEW a, NEW len \in Nat \ {0}, Numbers(a, 0, len), Size(a.shape) # 0
  PROVE  Part(a, code_contents(a, len), 0, 2 * len - 1, 0, 0)
  <1> DEFINE S == Text(a)
             OneMoreItem(v, k) == Separated(Append(v, Hex(a, k)), k, len)
             Body(g) == [k \in 0..len |->
                        IF k = 0 THEN <<>> ELSE Separated(Append(g[k-1], Hex(a, k)), k, len)]
             rule == [v \in (1..len) \X S |-> OneMoreItem(v[2], v[1])]
             h == CHOOSE g : g = Body(g)
  <1>1. \A k \in 1..len, v \in S : OneMoreItem(v, k) \in S
    <2> TAKE k \in 1..len, v \in S
    <2>1. Hex(a, k) \in Tokens(a) /\ Sep \in Tokens(a)
      BY TokenTexts
    <2>2. Append(v, Hex(a, k)) \in S
      BY <2>1, Appended DEF Text
    <2>3. Append(Append(v, Hex(a, k)), Sep) \in S
      BY <2>1, <2>2, Appended DEF Text
    <2>. QED  BY <2>2, <2>3 DEF Separated
  <1>2. rule \in [(1..len) \X S -> S] /\ \A k \in 1..len, v \in S : rule[<<k, v>>] = OneMoreItem(v, k)
    <2> HIDE DEF S, OneMoreItem
    <2>. QED  BY <1>1
  <1> HIDE DEF rule
  <1>3. code_contents(a, len) = h[len]
    BY DEF code_contents
  <1>4. \A g : Body(g) = [k \in 0..len |-> IF k = 0 THEN <<>> ELSE OneMoreItem(g[k-1], k)]
    OBVIOUS
  <1> HIDE DEF Body, S, OneMoreItem
  <1>5. PICK g : ComputedBy(S, <<>>, len, rule, g)
    <2>1. <<>> \in S
      BY TokenTexts DEF S
    <2>. QED  BY <1>2, <2>1, ComputedExists
  <1>6. g \in [0..len -> S] /\ g[0] = <<>> /\ \A k \in 1..len : g[k] = rule[<<k, g[k-1]>>]
    BY <1>5 DEF ComputedBy
  <1>7. g = Body(g)
    <2>1. \A k \in 1..len : g[k] = OneMoreItem(g[k-1], k)
      <3> TAKE k \in 1..len
      <3>1. k - 1 \in 0..len
        OBVIOUS
      <3>2. g[k-1] \in S
        BY <1>6, <3>1
      <3>. QED  BY <1>2, <1>6, <3>2
    <2>2. \A k \in 0..len : k = 0 \/ k \in 1..len
      OBVIOUS
    <2>3. g = [k \in 0..len |-> IF k = 0 THEN <<>> ELSE OneMoreItem(g[k-1], k)]
      BY <1>6, <2>1, <2>2
    <2>. QED  BY <1>4, <2>3
  <1>8. h = Body(h)
    BY <1>7
  <1> HIDE DEF h
  <1>9. h[0] = <<>> /\ \A k \in 1..len : h[k] = OneMoreItem(h[k-1], k)
    <2>1. h = [k \in 0..len |-> IF k = 0 THEN <<>> ELSE OneMoreItem(h[k-1], k)]
      BY <1>4, <1>8
    <2>2. 0 \in 0..len /\ \A k \in 1..len : k \in 0..len /\ k # 0
      OBVIOUS
    <2>. QED  BY <2>1, <2>2
  <1> DEFINE T == {k \in Nat : k <= len =>
                     Part(a, h[k], 0, IF k < len THEN 2 * k ELSE 2 * len - 1, 0, 0)}
  <1>10. 0 \in T
    <2>1. Part(a, <<>>, 0, 0, 0, 0)
      BY PartEmpty
    <2>2. 0 < len /\ 2 * 0 = 0
      OBVIOUS
    <2>. QED  BY <1>9, <2>1, <2>2
  <1>11. ASSUME NEW k \in Nat, k \in T PROVE k + 1 \in T
    <2> SUFFICES ASSUME k + 1 <= len
                 PROVE  Part(a, h[k+1], 0, IF k + 1 < len THEN 2 * (k + 1) ELSE 2 * len - 1, 0, 0)
      OBVIOUS
    <2>1. k + 1 \in 1..len /\ (k + 1) - 1 = k /\ k < len
      OBVIOUS
    <2>2. Part(a, h[k], 0, 2 * k, 0, 0) /\ 2 * k \in Nat
      BY <1>11, <2>1
    <2> DEFINE z == Hex(a, k + 1)
               t == Append(h[k], z)
    <2>3. z \in Tokens(a) /\ z \notin Comments /\ z = ItemAt(a, 0, 2 * k + 1)
      <3>1. z \in Tokens(a)
        BY TokenTexts
      <3>2. z \notin Comments
        <4>1. Hex(a, 0 + (k + 1)) \notin Comments /\ 0 + (k + 1) = k + 1
          BY <2>1 DEF Numbers
        <4>. QED  BY <4>1
      <3>3. (2 * k + 1) % 2 = 1 /\ 0 + ((2 * k + 1) + 1) \div 2 = k + 1
        OBVIOUS
      <3>. QED  BY <3>1, <3>2, <3>3 DEF ItemAt, ElementAt
    <2>4. h[k+1] = Separated(t, k + 1, len)
      BY <1>9, <2>1 DEF OneMoreItem
    <2>5. Part(a, t, 0, 2 * k + 1, 0, 0)
      <3> HIDE DEF z
      <3>. QED  BY <2>2, <2>3, PartRead
    <2> HIDE DEF t, z
    <2>6. CASE k + 1 < len
      <3> DEFINE r == 2 * k + 1
      <3>1. r \in Nat /\ r + 1 = 2 * (k + 1) /\ (r + 1) % 2 = 0
        OBVIOUS
      <3>2. Sep = ItemAt(a, 0, r + 1) /\ Sep \notin Comments /\ Sep \in Tokens(a)
        BY <3>1, FormatAssumption, TokenTexts DEF ItemAt, Comments
      <3>3. Part(a, t, 0, r, 0, 0)
        BY <2>5
      <3> HIDE DEF r
      <3>4. Part(a, Append(t, Sep), 0, r + 1, 0, 0)
        BY <3>1, <3>2, <3>3, PartRead
      <3>. QED  BY <2>4, <2>6, <3>1, <3>4 DEF Separated
    <2>7. CASE ~(k + 1 < len)
      <3>1. 2 * k + 1 = 2 * len - 1
        BY <2>7
      <3>. QED  BY <2>4, <2>5, <2>7, <3>1 DEF Separated
    <2>. QED  BY <2>6, <2>7
  <1>12. Nat \subseteq T
    <2> HIDE DEF T
    <2>. QED  BY <1>10, <1>11, SetInduction
  <1>13. Part(a, h[len], 0, 2 * len - 1, 0, 0)
    BY <1>12
  <1>. QED  BY <1>3, <1>13

-----------------------------------------------------------------------------
(* What is read *)

LEMMA Division ==
  ASSUME NEW i \in Int, NEW s \in Nat \ {0}
  PROVE  \E q \in Int : \E r \in 0..s-1 : i = s * q + r /\ r = i % s
  <1> DEFINE q == i \div s
             r == i % s
  <1>1. q \in Int /\ r \in 0..s-1
    BY SMT
  <1>2. i = s * q + r
    BY SMT
  <1>3. r = i % s
    OBVIOUS
  <1> HIDE DEF q, r
  <1>. QED  BY <1>1, <1>2, <1>3

LEMMA Residue ==
  ASSUME NEW half \in Nat \ {0}, NEW s \in Nat \ {0}, s = 2 * half, NEW v \in Int,
         -half <= v, v < half
  PROVE  v % s \in 0..s-1 /\ (IF (v % s) >= half THEN (v % s) - s ELSE v % s) = v
  <1>0. PICK q \in Int, u \in 0..s-1 : v = s * q + u /\ u = v % s
    BY Division
  <1>1. q \in Int /\ u \in 0..s-1 /\ v = s * q + u
    BY <1>0
  <1>2. q >= 1 => s * q >= s
    BY <1>1, SMT
  <1>3. q <= -2 => s * q <= -2 * s
    BY <1>1, SMT
  <1>4. s * q \in Int
    BY <1>1, SMT
  <1>5. q = 0 \/ q = -1
    <2>1. ~(q >= 1)
      BY <1>1, <1>2, <1>4
    <2>2. ~(q <= -2)
      BY <1>1, <1>3, <1>4
    <2>. QED  BY <1>1, <2>1, <2>2
  <1>6. CASE q = 0
    <2>1. s * q = 0
      BY <1>6, SMT
    <2>2. u = v /\ u < half
      BY <1>1, <2>1
    <2>. QED  BY <1>0, <1>1, <2>2
  <1>7. CASE q = -1
    <2>1. s * q = -s
      BY <1>7, SMT
    <2>2. u = v + s /\ u >= half
      BY <1>1, <2>1
    <2>. QED  BY <1>0, <1>1, <2>2
  <1>. QED  BY <1>5, <1>6, <1>7

\* The unsigned number of an element, and back.
LEMMA SignedBack ==
  ASSUME NEW v \in -Half .. Half-1
  PROVE  v % Span \in 0..Span-1 /\ Signed(v % Span) = v
  <1>1. Half \in Nat \ {0} /\ Span = 2 * Half /\ Span \in Nat \ {0} /\ v \in Int /\ -Half <= v /\ v < Half
    BY FormatAssumption DEF Span
  <1>. QED  BY <1>1, Residue DEF Signed

LEMMA MatrixFacts ==
  ASSUME NEW a \in Arrays
  PROVE  /\ a.shape \in Shapes /\ a.shape # <<>> /\ Size(a.shape) \in Nat
         /\ \A i \in 1..Size(a.shape) :
              Hex(a, i) \notin Comments /\ Signed(Hex(a, i)) = a.elements[i]
  <1>1. a.shape \in Shapes /\ a.shape # <<>> /\ a.elements \in [1..Size(a.shape) -> -Half .. Half-1]
    BY FormatAssumption DEF Shapes
  <1>2. Size(a.shape) \in Nat
    <2>1. Len(a.shape) \in 0..Len(a.shape)
      BY <1>1 DEF Shapes
    <2>. QED  BY <1>1, <2>1, SizeUnfolds DEF Size
  <1>3. ASSUME NEW i \in 1..Size(a.shape)
        PROVE  Hex(a, i) \notin Comments /\ Signed(Hex(a, i)) = a.elements[i]
    <2>1. a.elements[i] \in -Half .. Half-1
      BY <1>1
    <2>2. Hex(a, i) \in 0..Span-1 /\ Signed(Hex(a, i)) = a.elements[i]
      BY <2>1, SignedBack DEF Hex
    <2>. QED  BY <2>2, FormatAssumption DEF Comments
  <1>. QED  BY <1>1, <1>2, <1>3

LEMMA PartIsList ==
  ASSUME NEW a \in Arrays, NEW t, NEW o, NEW c, Part(a, t, 0, 2 * Size(a.shape) - 1, o, c),
         Size(a.shape) # 0
  PROVE  IsList(t, a)
  <1>1. \A k \in ReadAt(t) : t[k] = ItemAt(a, 0, Place(t, k)) /\ Place(t, k) \in 1..2*Size(a.shape)-1
    BY DEF Part
  <1>2. \A place \in Nat : 0 + (place + 1) \div 2 = (place + 1) \div 2
    OBVIOUS
  <1>3. Size(a.shape) \in Nat
    BY MatrixFacts
  <1>4. \A k \in ReadAt(t) :
          t[k] = IF Place(t, k) % 2 = 1 THEN Hex(a, ElementAt(Place(t, k))) ELSE Sep
    <2> TAKE k \in ReadAt(t)
    <2>1. Place(t, k) \in Nat
      BY <1>1, <1>3
    <2>2. 0 + ElementAt(Place(t, k)) = ElementAt(Place(t, k))
      BY <1>2, <2>1 DEF ElementAt
    <2>. QED  BY <1>1, <2>2 DEF ItemAt
  <1>. QED  BY <1>4 DEF IsList, Part

Formatted(t, a) ==
  /\ IF Size(a.shape) # 0 THEN IsList(t, a) ELSE IsEmpty(t, a)
  /\ Nested(t) /\ Upto(t, Len(t), {Open}) = Pairs(a.shape)
  /\ \A k \in ReadAt(t) : t[k] # Sep => Signed(t[k]) = a.elements[ElementAt(Place(t, k))]

LEMMA FormattedOK ==
  ASSUME NEW a \in Arrays, NEW t, t = generate_structure_comments(a)
  PROVE  Formatted(t, a)
  <1> DEFINE size == Size(a.shape)
  <1>1. /\ a.shape \in Shapes /\ a.shape # <<>> /\ size \in Nat
        /\ \A i \in 1..size : Hex(a, i) \notin Comments /\ Signed(Hex(a, i)) = a.elements[i]
    BY MatrixFacts
  <1> HIDE DEF size
  <1>2. PICK r \in Nat \ {0} :
          Part(a, t, 0, r - 1, Pairs(a.shape), Pairs(a.shape)) /\ MatrixReads(a.shape, r)
    <2>1. \A i \in Nat : i + 1 <= size => Hex(a, i + 1) \notin Comments
      BY <1>1
    <2>. QED  BY <1>1, <2>1, MatrixBlock DEF size
  <1>3. size # 0 => IsList(t, a)
    <2> SUFFICES ASSUME size # 0 PROVE IsList(t, a)
      OBVIOUS
    <2>1. r = 2 * size
      BY <1>2 DEF MatrixReads, size
    <2>2. Part(a, t, 0, 2 * Size(a.shape) - 1, Pairs(a.shape), Pairs(a.shape))
      BY <1>2, <2>1 DEF size
    <2>. QED  BY <2>2, PartIsList DEF size
  <1>4. size = 0 => IsEmpty(t, a) /\ \A k \in ReadAt(t) : t[k] = Sep
    <2> SUFFICES ASSUME size = 0 PROVE IsEmpty(t, a) /\ \A k \in ReadAt(t) : t[k] = Sep
      OBVIOUS
    <2>1. PICK k \in 1..Len(a.shape) : EmptyAt(a.shape, k) /\ r = Structure(a.shape)[k-1].level
      BY <1>2 DEF MatrixReads, size
    <2>2. Place(t, Len(t)) = r - 1 /\ \A j \in ReadAt(t) : t[j] = ItemAt(a, 0, Place(t, j))
      BY <1>2 DEF Part
    <2>3. \A j \in ReadAt(t) : t[j] = Sep
      BY <2>2 DEF ItemAt, size
    <2>. QED  BY <2>1, <2>2, <2>3 DEF IsEmpty
  <1>5. Upto(t, Len(t), {Open}) = Pairs(a.shape) /\ Upto(t, Len(t), {Close}) = Pairs(a.shape)
    BY <1>2 DEF Part
  <1>6. \A k \in 0..Len(t) : Upto(t, k, {Close}) <= Upto(t, k, {Open})
    BY <1>2 DEF Part
  <1>7. Len(t) \in Nat
    BY <1>2 DEF Part, Text
  <1>8. Nested(t)
    <2>1. \A k \in Nat : Upto(t, k, {Open}) \in Nat /\ Upto(t, k, {Close}) \in Nat
      BY UptoStep
    <2>2. Upto(t, Len(t), {Open}) - Upto(t, Len(t), {Close}) = 0
      BY <1>5, <1>7, <2>1
    <2>3. \A k \in 0..Len(t) : Upto(t, k, {Open}) - Upto(t, k, {Close}) >= 0
      <3> TAKE k \in 0..Len(t)
      <3>1. k \in Nat
        BY <1>7
      <3>2. Upto(t, k, {Open}) \in Nat /\ Upto(t, k, {Close}) \in Nat
        BY <2>1, <3>1
      <3>3. Upto(t, k, {Close}) <= Upto(t, k, {Open})
        BY <1>6
      <3>. QED  BY <3>2, <3>3
    <2>. QED  BY <2>2, <2>3 DEF Nested
  <1>9. ASSUME NEW k \in ReadAt(t), t[k] # Sep
        PROVE  Signed(t[k]) = a.elements[ElementAt(Place(t, k))]
    <2>1. size # 0 /\ IsList(t, a)
      BY <1>3, <1>4, <1>9
    <2>2. Place(t, k) % 2 = 1 /\ t[k] = Hex(a, ElementAt(Place(t, k)))
      BY <1>9, <2>1 DEF IsList
    <2>3. Place(t, k) \in 1..2*size-1
      <3>1. r = 2 * size
        BY <1>2, <2>1 DEF MatrixReads, size
      <3>. QED  BY <1>2, <3>1 DEF Part
    <2>4. ElementAt(Place(t, k)) \in 1..size
      BY <1>1, <2>2, <2>3 DEF ElementAt
    <2>. QED  BY <1>1, <2>2, <2>4
  <1>. QED  BY <1>3, <1>4, <1>5, <1>8, <1>9 DEF Formatted, size

-----------------------------------------------------------------------------
(* The inductive invariant of the formatting *)

CodeText(a) == code_contents(a, Size(a.shape))
FormatInv ==
  /\ matrix \in Arrays
  /\ text # <<>> => text = generate_structure_comments(matrix)
  /\ code # <<>> => code = CodeText(matrix)

LEMMA FormatInvCorrect == FormatInv => TextCorrect
  <1> SUFFICES ASSUME FormatInv PROVE TextCorrect
    OBVIOUS
  <1>1. matrix \in Arrays
    BY DEF FormatInv
  <1>2. text # <<>> => Formatted(text, matrix)
    BY <1>1, FormattedOK DEF FormatInv
  <1>3. code # <<>> => Size(matrix.shape) # 0 /\ IsList(code, matrix)
    <2> SUFFICES ASSUME code # <<>> PROVE Size(matrix.shape) # 0 /\ IsList(code, matrix)
      OBVIOUS
    <2> DEFINE a == matrix
    <2>1. Size(a.shape) \in Nat /\ \A i \in 1..Size(a.shape) : Hex(a, i) \notin Comments
      BY <1>1, MatrixFacts
    <2>2. code = CodeText(a)
      BY DEF FormatInv
    <2>3. Size(a.shape) # 0
      BY <2>2, CodeNone DEF CodeText
    <2>4. Numbers(a, 0, Size(a.shape))
      <3>1. \A k \in 1..Size(a.shape) : 0 + k = k
        BY <2>1
      <3>. QED  BY <2>1, <3>1 DEF Numbers
    <2>5. Part(a, CodeText(a), 0, 2 * Size(a.shape) - 1, 0, 0)
      BY <2>1, <2>3, <2>4, CodePart DEF CodeText
    <2>6. IsList(CodeText(a), a)
      BY <1>1, <2>3, <2>5, PartIsList
    <2>. QED  BY <2>2, <2>3, <2>6
  <1>. QED  BY <1>2, <1>3 DEF TextCorrect, MatrixIsList, SignsSurvive, CommentsNest, CodeIsList, Formatted

\* The text of every array that the generator writes: with elements, it is an
\* initializer list of them in their order and with their values; without, it
\* has no number, and a comma between any two empty subarrays.  Its comments
\* show the dimensions (c_gen.py:155-226).
THEOREM TextReadsBack == FormatSpec => []TextCorrect
  <1>1. FormatInit => FormatInv
    BY DEF FormatInit, FormatInv
  <1>2. FormatInv /\ [FormatNext]_formatVars => FormatInv'
    BY DEF FormatInv, FormatNext, format_matrix, format_matrix_raises, format_code, formatVars, CodeText
  <1>. QED  BY <1>1, <1>2, FormatInvCorrect, PTL DEF FormatSpec
=============================================================================
