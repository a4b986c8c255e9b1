---------------------------- MODULE ConvHw_proofs ----------------------------
(***************************************************************************)
(* Proofs about ConvHw: conv1d_hw computes what conv1d_sw does, for every  *)
(* problem and every tile geometry the assumptions of Conv1dLayout allow.  *)
(* The argument: the address map and the flat indices of the arrays give   *)
(* each element a place of its own; so the copies put the operands of the  *)
(* pass where the engine takes them, a run adds each product of the pass   *)
(* once, and a tile's outputs are read back to places no other tile has.   *)
(***************************************************************************)
EXTENDS ConvHw, FiniteSetTheorems, TLAPS

(* Rows and tiles of natural numbers.                                      *)

\* Products with a natural number keep the order.
LEMMA ProductOrder ==
  ASSUME NEW a \in Nat, NEW b \in Nat, NEW n \in Nat, a <= b
  PROVE  a * n <= b * n
  OBVIOUS

\* A number has one quotient and one remainder: rows of n elements do not
\* overlap.
LEMMA Digits ==
  ASSUME NEW n \in Nat, NEW a \in Nat, NEW b \in Nat,
         NEW i \in 0..n-1, NEW j \in 0..n-1, a * n + i = b * n + j
  PROVE  a = b /\ i = j
  <1>1. a * n \in Nat /\ b * n \in Nat /\ (a + 1) * n = a * n + n /\ (b + 1) * n = b * n + n
    BY SMT
  <1>2. CASE a < b
    <2>1. (a + 1) * n <= b * n
      BY <1>2, ProductOrder
    <2>. QED  BY <1>1, <2>1
  <1>3. CASE b < a
    <2>1. (b + 1) * n <= a * n
      BY <1>3, ProductOrder
    <2>. QED  BY <1>1, <2>1
  <1>4. CASE a = b
    BY <1>1, <1>4
  <1>. QED  BY <1>2, <1>3, <1>4

\* An element of one of k rows of n elements is one of k * n elements.
LEMMA DigitsBelow ==
  ASSUME NEW n \in Nat, NEW k \in Nat, NEW a \in 0..k-1, NEW i \in 0..n-1
  PROVE  a * n \in Nat /\ a * n + i \in 0..k * n - 1
  <1>1. a * n \in Nat /\ (a + 1) * n = a * n + n /\ k * n \in Nat
    BY SMT
  <1>2. (a + 1) * n <= k * n
    BY ProductOrder
  <1>. QED  BY <1>1, <1>2

\* Tiles follow each other without a gap.
LEMMA StartFacts ==
  ASSUME NEW i \in Nat, NEW size \in Nat
  PROVE  /\ Start(i, size) \in Nat
         /\ Start(i + 1, size) = Start(i, size) + size
         /\ Start(0, size) = 0
  BY SMT DEF Start

\* The rounded-up division: that many tiles cover n elements, and the last one
\* still holds an element.
LEMMA TilesCover ==
  ASSUME NEW n \in Nat \ {0}, NEW size \in Nat \ {0}
  PROVE  /\ Tiles(n, size) \in Nat \ {0}
         /\ Start(Tiles(n, size) - 1, size) < n
         /\ n <= Start(Tiles(n, size), size)
  <1> DEFINE d == (n + size - 1) \div size
             r == (n + size - 1) % size
  <1>1. d \in Int /\ r \in 0..size-1 /\ n + size - 1 = size * d + r
    BY SMT
  <1> HIDE DEF d, r
  <1>2. d * size = size * d /\ d * size \in Int
    BY <1>1, SMT
  <1>3. d >= 1
    <2> SUFFICES ASSUME d <= 0 PROVE FALSE
      BY <1>1
    <2>1. size * d <= 0
      BY <1>1, SMT
    <2>. QED  BY <2>1, <1>1
  <1>4. (d - 1) * size = d * size - size
    BY <1>1, SMT
  <1>. QED
    BY <1>1, <1>2, <1>3, <1>4 DEF Tiles, Start, d

\* A tile of n elements that starts inside the problem and does not stick out;
\* only the last one is partial, and it ends with the problem.
TileLies(start, actual, i, size, n) ==
  /\ start \in Nat /\ actual \in 1..size /\ start + actual <= n
  /\ i + 1 < Tiles(n, size) => actual = size
  /\ i + 1 = Tiles(n, size) => start + actual = n

\* Every tile of the loops is of this kind.
LEMMA TileRange ==
  ASSUME NEW n \in Nat \ {0}, NEW size \in Nat \ {0}, NEW i \in 0..Tiles(n, size)-1
  PROVE  TileLies(Start(i, size), Actual(i, size, n), i, size, n)
  <1> DEFINE tiles == Tiles(n, size)
  <1>1. tiles \in Nat /\ tiles - 1 \in Nat /\ i \in 0..tiles-1
    BY TilesCover
  <1>2. Start(i, size) \in Nat /\ Start(i + 1, size) = Start(i, size) + size
    BY <1>1, StartFacts
  <1>3. Start(i, size) <= Start(tiles - 1, size)
    BY <1>1, ProductOrder DEF Start
  <1>4. i + 1 < tiles => Start(i + 1, size) <= Start(tiles - 1, size)
    BY <1>1, ProductOrder DEF Start
  <1>5. Start(tiles - 1, size) < n /\ n <= Start(tiles, size)
    BY TilesCover
  <1>6. Start(tiles - 1, size) \in Nat /\ Start(tiles, size) \in Nat
    BY <1>1, StartFacts
  <1>7. i + 1 = tiles => Start(i + 1, size) = Start(tiles, size)
    OBVIOUS
  <1>8. /\ Start(i, size) + size > n => Actual(i, size, n) = n - Start(i, size)
        /\ Start(i, size) + size <= n => Actual(i, size, n) = size
    BY <1>2 DEF Actual
  <1>. QED
    BY <1>1, <1>2, <1>3, <1>4, <1>5, <1>6, <1>7, <1>8 DEF TileLies

-----------------------------------------------------------------------------
(* The address map: no two words of a tile share an address.               *)

\* The sizes of a tile as natural numbers.
LEMMA Sizes ==
  /\ TILE_CIN \in Nat \ {0} /\ TILE_COUT \in Nat \ {0} /\ TILE_T \in Nat \ {0}
  /\ KERNEL_K \in Nat \ {0} /\ INPUT_WINDOW \in Nat \ {0} /\ NUM_OUTPUTS \in Nat \ {0}
  /\ INPUT_WINDOW = TILE_T + KERNEL_K - 1
  /\ TILE_CIN * KERNEL_K \in Nat \ {0}
  /\ NUM_OUTPUTS = TILE_COUT * TILE_T /\ TILE_COUT \in {1, 2}
  BY GeometryAssumption, SMT DEF INPUT_WINDOW, NUM_OUTPUTS

\* The three regions of the scratchpad follow each other.
LEMMA Regions ==
  /\ INPUT_BASE \in Nat /\ WEIGHT_BASE \in Nat /\ OUTPUT_BASE \in Nat /\ NumWords \in Nat
  /\ TILE_CIN * INPUT_WINDOW \in Nat /\ TILE_COUT * (TILE_CIN * KERNEL_K) \in Nat
  /\ INPUT_BASE + TILE_CIN * INPUT_WINDOW <= WEIGHT_BASE
  /\ WEIGHT_BASE + TILE_COUT * (TILE_CIN * KERNEL_K) <= OUTPUT_BASE
  /\ OUTPUT_BASE + NUM_OUTPUTS <= NumWords
  /\ INPUT_BASE <= WEIGHT_BASE /\ WEIGHT_BASE <= OUTPUT_BASE
  <1> DEFINE inputs  == TILE_CIN * INPUT_WINDOW
             weights == TILE_COUT * (TILE_CIN * KERNEL_K)
  <1>1. inputs \in Nat /\ weights \in Nat
    BY Sizes, SMT
  <1>2. /\ INPUT_BASE \in Nat /\ WEIGHT_BASE \in Nat /\ OUTPUT_BASE \in Nat /\ NumWords \in Nat
        /\ INPUT_BASE + inputs <= WEIGHT_BASE /\ WEIGHT_BASE + weights <= OUTPUT_BASE
        /\ OUTPUT_BASE + NUM_OUTPUTS <= NumWords
    BY LayoutAssumption
  <1>3. INPUT_BASE <= WEIGHT_BASE /\ WEIGHT_BASE <= OUTPUT_BASE
    <2> HIDE DEF inputs, weights
    <2>. QED  BY <1>1, <1>2
  <1>. QED  BY <1>1, <1>2, <1>3

\* The words of the input windows lie in their region, one for each sample.
LEMMA InputRegion ==
  ASSUME NEW c \in Channel, NEW i \in 0..INPUT_WINDOW-1
  PROVE  InputWord(c, i) \in INPUT_BASE..WEIGHT_BASE-1
  <1>1. c * INPUT_WINDOW \in Nat /\ c * INPUT_WINDOW + i \in 0..TILE_CIN * INPUT_WINDOW - 1
    BY Sizes, DigitsBelow DEF Channel
  <1> DEFINE all == TILE_CIN * INPUT_WINDOW
             off == c * INPUT_WINDOW
  <1> HIDE DEF all, off
  <1>2. off \in Nat /\ off + i \in 0..all-1 /\ all \in Nat /\ INPUT_BASE + all <= WEIGHT_BASE
    BY <1>1, Regions DEF all, off
  <1>3. InputWord(c, i) = INPUT_BASE + off + i
    BY DEF InputWord, off
  <1>4. i \in Nat
    BY Sizes
  <1>. QED  BY <1>2, <1>3, <1>4, Regions

\* No two samples share a word.
LEMMA InputInjective ==
  ASSUME NEW c \in Channel, NEW i \in 0..INPUT_WINDOW-1,
         NEW d \in Channel, NEW j \in 0..INPUT_WINDOW-1,
         InputWord(c, i) = InputWord(d, j)
  PROVE  c = d /\ i = j
  <1>1. c \in Nat /\ d \in Nat /\ i \in Nat /\ j \in Nat
    BY Sizes DEF Channel
  <1>2. c * INPUT_WINDOW \in Nat /\ d * INPUT_WINDOW \in Nat
    BY <1>1, Sizes, SMT
  <1>3. c * INPUT_WINDOW + i = d * INPUT_WINDOW + j
    BY <1>1, <1>2, Regions DEF InputWord
  <1>. QED  BY <1>1, <1>3, Sizes, Digits

\* The words of the kernels lie in their region, one for each tap.
LEMMA WeightRegion ==
  ASSUME NEW m \in 0..TILE_COUT-1, NEW c \in Channel, NEW k \in Kernel
  PROVE  WeightWord(m, c, k) \in WEIGHT_BASE..OUTPUT_BASE-1
  <1> DEFINE size == TILE_CIN * KERNEL_K
             all  == TILE_COUT * size
             off  == c * KERNEL_K + k
  <1>1. c * KERNEL_K \in Nat /\ off \in 0..size - 1
    BY Sizes, DigitsBelow DEF Channel, Kernel
  <1>2. size \in Nat
    BY Sizes
  <1>3. m * size \in Nat /\ m * size + off \in 0..all - 1
    <2> HIDE DEF size, off
    <2>. QED  BY <1>1, <1>2, Sizes, DigitsBelow
  <1>4. WEIGHT_BASE + all <= OUTPUT_BASE /\ all \in Nat
    BY Regions
  <1>5. WeightWord(m, c, k) = WEIGHT_BASE + m * size + c * KERNEL_K + k
    BY DEF WeightWord
  <1>6. k \in Nat
    BY Sizes DEF Kernel
  <1> DEFINE x == m * size
             y == c * KERNEL_K
  <1>7. WeightWord(m, c, k) = WEIGHT_BASE + x + y + k /\ off = y + k /\ x \in Nat /\ y \in Nat
        /\ x + off \in 0..all - 1
    BY <1>1, <1>3, <1>5
  <1> HIDE DEF size, all, off, x, y
  <1>. QED  BY <1>4, <1>6, <1>7, Regions

\* No two taps share a word.
LEMMA WeightInjective ==
  ASSUME NEW m \in 0..TILE_COUT-1, NEW c \in Channel, NEW k \in Kernel,
         NEW n \in 0..TILE_COUT-1, NEW d \in Channel, NEW l \in Kernel,
         WeightWord(m, c, k) = WeightWord(n, d, l)
  PROVE  m = n /\ c = d /\ k = l
  <1> DEFINE size == TILE_CIN * KERNEL_K
             off  == c * KERNEL_K + k
             oth  == d * KERNEL_K + l
  <1>1. c * KERNEL_K \in Nat /\ off \in 0..size - 1
    BY Sizes, DigitsBelow DEF Channel, Kernel
  <1>2. d * KERNEL_K \in Nat /\ oth \in 0..size - 1
    BY Sizes, DigitsBelow DEF Channel, Kernel
  <1>3. /\ size \in Nat /\ m \in Nat /\ n \in Nat
        /\ c \in Nat /\ d \in Nat /\ k \in Nat /\ l \in Nat
    BY Sizes DEF Channel, Kernel
  <1>4. m * size \in Nat /\ n * size \in Nat
    <2> HIDE DEF size
    <2>. QED  BY <1>3, SMT
  <1>5. WeightWord(m, c, k) = WEIGHT_BASE + m * size + c * KERNEL_K + k
    BY DEF WeightWord
  <1>6. WeightWord(n, d, l) = WEIGHT_BASE + n * size + d * KERNEL_K + l
    BY DEF WeightWord
  <1>7. m * size + off = n * size + oth
    <2> DEFINE x == m * size
               y == c * KERNEL_K
               z == n * size
               w == d * KERNEL_K
    <2>1. x \in Nat /\ y \in Nat /\ z \in Nat /\ w \in Nat /\ off = y + k /\ oth = w + l
          /\ WEIGHT_BASE + x + y + k = WEIGHT_BASE + z + w + l
      BY <1>1, <1>2, <1>4, <1>5, <1>6
    <2>2. x + off = z + oth
      <3> HIDE DEF size, off, oth, x, y, z, w
      <3>. QED  BY <1>3, <2>1, Regions
    <2>. QED  BY <2>2
  <1>8. m = n /\ off = oth
    <2> HIDE DEF size, off, oth
    <2>. QED  BY <1>1, <1>2, <1>3, <1>7, Digits
  <1>9. off = oth
    BY <1>8
  <1>. QED  BY <1>3, <1>8, <1>9, Sizes, Digits DEF Kernel

\* An output's word is in the output region, and its channel and sample can be
\* told from its place there.
LEMMA OutputRegion ==
  ASSUME NEW m \in 0..TILE_COUT-1, NEW t \in 0..TILE_T-1
  PROVE  /\ OutputWord(m, t) \in OUTPUT_BASE..OUTPUT_BASE + NUM_OUTPUTS - 1
         /\ OutputWord(m, t) \in Address
         /\ OutputWord(m, t) - OUTPUT_BASE = m * TILE_T + t
         /\ ChannelOf(m * TILE_T + t) = m
         /\ SampleOf(m * TILE_T + t) = t
  <1>1. TILE_T \in Nat /\ m \in {0, 1} /\ t \in 0..TILE_T-1 /\ NumWords \in Nat
        /\ OUTPUT_BASE \in Nat /\ NUM_OUTPUTS \in Nat
    BY Sizes, Regions
  <1>2. m * TILE_T = (IF m = 0 THEN 0 ELSE TILE_T)
    BY <1>1, SMT
  <1>3. m * TILE_T \in Nat /\ m * TILE_T + t \in 0..NUM_OUTPUTS - 1
    BY Sizes, DigitsBelow
  <1>4. OutputWord(m, t) = OUTPUT_BASE + m * TILE_T + t
    BY DEF OutputWord
  <1>5. OutputWord(m, t) \in OUTPUT_BASE..OUTPUT_BASE + NUM_OUTPUTS - 1
        /\ OutputWord(m, t) - OUTPUT_BASE = m * TILE_T + t
    BY <1>1, <1>3, <1>4
  <1>6. OutputWord(m, t) \in Address
    BY <1>1, <1>5, Regions DEF Address
  <1>7. ChannelOf(m * TILE_T + t) = m
    BY <1>1, <1>2, <1>3 DEF ChannelOf
  <1>8. SampleOf(m * TILE_T + t) = t
    BY <1>1, <1>3, <1>7 DEF SampleOf
  <1>. QED  BY <1>5, <1>6, <1>7, <1>8

-----------------------------------------------------------------------------
(* The problem and its tiles, and the sums of conv1d_sw.                   *)

\* The sizes of the problem and the numbers of tiles.
LEMMA ShapeFacts ==
  ASSUME shape \in Shapes
  PROVE  /\ shape.input_len \in Nat /\ output_len \in Nat \ {0}
         /\ shape.input_len = output_len + KERNEL_K - 1
         /\ shape.input_ch \in Nat \ {0} /\ shape.output_ch \in Nat \ {0}
         /\ num_cin_tiles \in Nat \ {0} /\ num_cout_tiles \in Nat \ {0}
         /\ num_t_tiles \in Nat \ {0}
  <1>1. /\ shape.input_len \in Nat /\ output_len \in Nat \ {0}
        /\ shape.input_len = output_len + KERNEL_K - 1
        /\ shape.input_ch \in Nat \ {0} /\ shape.output_ch \in Nat \ {0}
    BY ShapesAssumption, Sizes DEF output_len
  <1>. QED
    BY <1>1, Sizes, TilesCover DEF num_cin_tiles, num_cout_tiles, num_t_tiles

\* Where the current tile lies in the problem.
InTile ==
  /\ shape \in Shapes
  /\ cout_tile \in 0..num_cout_tiles - 1
  /\ t_tile \in 0..num_t_tiles - 1
  /\ cin_tile \in 0..num_cin_tiles - 1

\* The current tile's place in the problem, in each direction.
LEMMA TileFacts ==
  ASSUME InTile
  PROVE  /\ m_start \in Nat /\ actual_cout \in 1..TILE_COUT
         /\ m_start + actual_cout <= shape.output_ch
         /\ t_start \in Nat /\ actual_t_samples \in 1..TILE_T
         /\ t_start + actual_t_samples <= output_len
         /\ n_start \in Nat /\ actual_cin \in 1..TILE_CIN
         /\ n_start + actual_cin <= shape.input_ch
         /\ cin_tile + 1 < num_cin_tiles => actual_cin = TILE_CIN
         /\ cin_tile + 1 = num_cin_tiles => n_start + actual_cin = shape.input_ch
         /\ t_tile + 1 < num_t_tiles => actual_t_samples = TILE_T
         /\ t_tile + 1 = num_t_tiles => t_start + actual_t_samples = output_len
         /\ cout_tile + 1 < num_cout_tiles => actual_cout = TILE_COUT
         /\ cout_tile + 1 = num_cout_tiles => m_start + actual_cout = shape.output_ch
  <1>1. TileLies(m_start, actual_cout, cout_tile, TILE_COUT, shape.output_ch)
    BY ShapeFacts, Sizes, TileRange DEF InTile, m_start, actual_cout, num_cout_tiles
  <1>2. TileLies(t_start, actual_t_samples, t_tile, TILE_T, output_len)
    BY ShapeFacts, Sizes, TileRange DEF InTile, t_start, actual_t_samples, num_t_tiles
  <1>3. TileLies(n_start, actual_cin, cin_tile, TILE_CIN, shape.input_ch)
    BY ShapeFacts, Sizes, TileRange DEF InTile, n_start, actual_cin, num_cin_tiles
  <1>. QED
    BY <1>1, <1>2, <1>3 DEF TileLies, num_cout_tiles, num_t_tiles, num_cin_tiles

\* Within an output channel, no two taps of the filter share an element.
LEMMA FilterInjective ==
  ASSUME shape \in Shapes, NEW m \in Nat,
         NEW c \in 0..shape.input_ch-1, NEW k \in Kernel,
         NEW d \in 0..shape.input_ch-1, NEW l \in Kernel,
         Filter(m, c, k) = Filter(m, d, l)
  PROVE  c = d /\ k = l
  <1>1. shape.input_ch \in Nat /\ c \in Nat /\ d \in Nat
    BY ShapeFacts
  <1>2. /\ m * shape.input_ch + c \in Nat /\ m * shape.input_ch + d \in Nat
        /\ m * shape.input_ch \in Nat
    BY <1>1, SMT
  <1>3. (m * shape.input_ch + c) * KERNEL_K + k = (m * shape.input_ch + d) * KERNEL_K + l
    BY DEF Filter
  <1> DEFINE x == m * shape.input_ch + c
             y == m * shape.input_ch + d
  <1>4. x = y /\ k = l
    <2> HIDE DEF x, y
    <2>1. x \in Nat /\ y \in Nat /\ x * KERNEL_K + k = y * KERNEL_K + l
      BY <1>2, <1>3 DEF x, y
    <2>. QED  BY <2>1, Sizes, Digits DEF Kernel
  <1>. QED  BY <1>1, <1>2, <1>4

\* A word copied from an array is not taken for the word 0.
LEMMA ElementsNotZero ==
  ASSUME shape \in Shapes, NEW m \in Nat, NEW c \in Nat, NEW k \in Nat, NEW t \in Nat
  PROVE  InData(c, t) # Zero /\ Filter(m, c, k) # Zero
  <1>1. c * shape.input_len \in Nat /\ m * shape.input_ch \in Nat
    BY ShapeFacts, SMT
  <1>2. c * shape.input_len + t \in Nat /\ m * shape.input_ch + c \in Nat
    BY <1>1
  <1>3. (m * shape.input_ch + c) * KERNEL_K \in Nat
    BY <1>2, Sizes, SMT
  <1>4. (m * shape.input_ch + c) * KERNEL_K + k \in Nat
    BY <1>3
  <1>5. InData(c, t) \in {"in_data", "filter"} \X Nat
    BY <1>2 DEF InData
  <1>6. Filter(m, c, k) \in {"in_data", "filter"} \X Nat
    BY <1>4 DEF Filter
  <1>. QED  BY <1>5, <1>6, ZeroAssumption

\* The products that d input channels from n on add to output o of channel m.
PassProducts(m, o, n, d) ==
  {<<InData(n + c, o + k), Filter(m, n + c, k)>> : c \in 0..d-1, k \in Kernel}

\* No input channel, no product.
LEMMA ReferenceStarts ==
  ASSUME NEW m, NEW o
  PROVE  Reference(m, o, 0) = EmptyBag
  <1>1. {<<InData(c, o + k), Filter(m, c, k)>> : c \in 0..0-1, k \in Kernel} = {}
    OBVIOUS
  <1>. QED  BY <1>1 DEF Reference, EmptyBag

\* Adding bags of disjoint sets is the bag of their union.
LEMMA BagsOfDisjointSets ==
  ASSUME NEW S, NEW T, S \cap T = {}
  PROVE  SetToBag(S) (+) SetToBag(T) = SetToBag(S \cup T)
  <1>1. DOMAIN SetToBag(S) = S /\ DOMAIN SetToBag(T) = T
    BY DEF SetToBag
  <1>2. SetToBag(S) (+) SetToBag(T)
          = [e \in S \cup T |-> (IF e \in S THEN SetToBag(S)[e] ELSE 0)
                              + (IF e \in T THEN SetToBag(T)[e] ELSE 0)]
    BY <1>1 DEF (+)
  <1>3. ASSUME NEW e \in S \cup T
        PROVE  (IF e \in S THEN SetToBag(S)[e] ELSE 0)
                 + (IF e \in T THEN SetToBag(T)[e] ELSE 0) = 1
    BY DEF SetToBag
  <1>. QED  BY <1>2, <1>3 DEF SetToBag

\* The sum over n channels and the products of the next d are the sum over
\* n + d: no product is among both.
LEMMA ReferenceGrows ==
  ASSUME shape \in Shapes, NEW m \in Nat, NEW o \in Nat, NEW n \in Nat, NEW d \in Nat,
         n + d <= shape.input_ch
  PROVE  Reference(m, o, n) (+) SetToBag(PassProducts(m, o, n, d)) = Reference(m, o, n + d)
  <1> DEFINE product(c, k) == <<InData(c, o + k), Filter(m, c, k)>>
             Before == {product(c, k) : c \in 0..n-1, k \in Kernel}
             After  == {product(c, k) : c \in 0..n+d-1, k \in Kernel}
             Pass   == {product(n + c, k) : c \in 0..d-1, k \in Kernel}
  <1>1. shape.input_ch \in Nat
    BY ShapeFacts
  <1>2. ASSUME NEW c \in 0..n-1, NEW e \in 0..d-1, NEW k \in Kernel, NEW l \in Kernel
        PROVE  product(c, k) # product(n + e, l)
    <2>1. c \in 0..shape.input_ch-1 /\ n + e \in 0..shape.input_ch-1 /\ c # n + e
      BY <1>1
    <2>2. Filter(m, c, k) # Filter(m, n + e, l)
      BY <2>1, FilterInjective
    <2>. QED  BY <2>2
  <1>3. Before \cap Pass = {}
    <2> SUFFICES ASSUME NEW p \in Before, p \in Pass PROVE FALSE
      OBVIOUS
    <2>1. PICK c \in 0..n-1, k \in Kernel : p = product(c, k)
      OBVIOUS
    <2>2. PICK e \in 0..d-1, l \in Kernel : p = product(n + e, l)
      OBVIOUS
    <2>. QED  BY <1>2, <2>1, <2>2
  <1>4. After = Before \cup Pass
    <2>1. ASSUME NEW c \in 0..n+d-1, NEW k \in Kernel PROVE product(c, k) \in Before \cup Pass
      <3>1. CASE c < n
        <4>1. c \in 0..n-1
          BY <3>1
        <4>. QED  BY <4>1
      <3>2. CASE c >= n
        <4>1. c - n \in 0..d-1 /\ n + (c - n) = c
          BY <3>2
        <4>2. product(c, k) = product(n + (c - n), k)
          BY <4>1
        <4>. QED  BY <4>1, <4>2
      <3>. QED  BY <3>1, <3>2
    <2>2. ASSUME NEW c \in 0..n-1, NEW k \in Kernel PROVE product(c, k) \in After
      <3>1. c \in 0..n+d-1
        OBVIOUS
      <3>. QED  BY <3>1
    <2>3. ASSUME NEW c \in 0..d-1, NEW k \in Kernel PROVE product(n + c, k) \in After
      <3>1. n + c \in 0..n+d-1
        OBVIOUS
      <3>. QED  BY <3>1
    <2> HIDE DEF product
    <2>. QED  BY <2>1, <2>2, <2>3
  <1>5. Reference(m, o, n) = SetToBag(Before) /\ Reference(m, o, n + d) = SetToBag(After)
    BY DEF Reference
  <1>6. PassProducts(m, o, n, d) = Pass
    BY DEF PassProducts
  <1> HIDE DEF Before, After, Pass
  <1>. QED  BY <1>3, <1>4, <1>5, <1>6, BagsOfDisjointSets

-----------------------------------------------------------------------------
(* One pass: copy, run, accumulate.                                        *)

\* What the copy loops store for the current tile.
TileCopied(c, i) ==
  IF c < actual_cin /\ t_start + i < shape.input_len
  THEN InData(n_start + c, t_start + i) ELSE Zero
KernelCopied(m, c, k) ==
  IF m < actual_cout /\ c < actual_cin
  THEN Filter(m_start + m, n_start + c, k) ELSE Zero

\* The copy of the inputs is complete.
InputsCopied ==
  \A c \in Channel, i \in 0..INPUT_WINDOW-1 : scratchpad[InputWord(c, i)] = TileCopied(c, i)
\* The copy of the weights is complete.
WeightsCopied ==
  \A m \in 0..TILE_COUT-1, c \in Channel, k \in Kernel :
    scratchpad[WeightWord(m, c, k)] = KernelCopied(m, c, k)

\* Once both copies are done, the engine finds for a valid output the elements
\* of in_data and filter that conv1d_sw takes, and 0 in the padding channels.
LEMMA OperandsOfPass ==
  ASSUME InTile, InputsCopied, WeightsCopied,
         NEW m \in 0..actual_cout-1, NEW t \in 0..actual_t_samples-1,
         NEW c \in Channel, NEW k \in Kernel
  PROVE  LET x == Operands(scratchpad, m * TILE_T + t, k)[1][c]
             w == Operands(scratchpad, m * TILE_T + t, k)[2][c]
         IN  /\ c < actual_cin => /\ x = InData(n_start + c, t_start + t + k) /\ x # Zero
                                  /\ w = Filter(m_start + m, n_start + c, k) /\ w # Zero
             /\ c >= actual_cin => x = Zero
  <1>1. /\ m_start \in Nat /\ actual_cout \in 1..TILE_COUT
        /\ t_start \in Nat /\ actual_t_samples \in 1..TILE_T
        /\ t_start + actual_t_samples <= output_len
        /\ n_start \in Nat /\ actual_cin \in 1..TILE_CIN
    BY TileFacts
  <1>2. shape \in Shapes /\ shape.input_len \in Nat /\ output_len \in Nat
        /\ shape.input_len = output_len + KERNEL_K - 1
    BY ShapeFacts DEF InTile
  <1>3. m \in 0..TILE_COUT-1 /\ t \in 0..TILE_T-1 /\ c \in Nat /\ k \in Nat
        /\ t + k \in 0..INPUT_WINDOW-1 /\ t_start + (t + k) < shape.input_len
    BY <1>1, <1>2, Sizes DEF Kernel, Channel
  <1> DEFINE j == m * TILE_T + t
  <1>4. ChannelOf(j) = m /\ SampleOf(j) = t
    BY <1>3, OutputRegion
  <1> HIDE DEF j
  <1>5. Operands(scratchpad, j, k)[1][c] = scratchpad[InputWord(c, t + k)]
    BY <1>4 DEF Operands
  <1>6. Operands(scratchpad, j, k)[2][c] = scratchpad[WeightWord(m, c, k)]
    BY <1>4 DEF Operands
  <1>7. scratchpad[InputWord(c, t + k)] = TileCopied(c, t + k)
    BY <1>3 DEF InputsCopied
  <1>8. scratchpad[WeightWord(m, c, k)] = KernelCopied(m, c, k)
    BY <1>3 DEF WeightsCopied
  <1>9. t_start + (t + k) = t_start + t + k
    BY <1>1, <1>3
  <1>10. CASE c < actual_cin
    <2>1. TileCopied(c, t + k) = InData(n_start + c, t_start + t + k)
      BY <1>3, <1>9, <1>10 DEF TileCopied
    <2>2. KernelCopied(m, c, k) = Filter(m_start + m, n_start + c, k)
      BY <1>10, <1>1, <1>3 DEF KernelCopied
    <2>3. n_start + c \in Nat /\ m_start + m \in Nat /\ t_start + t + k \in Nat
      BY <1>1, <1>3
    <2>4. /\ InData(n_start + c, t_start + t + k) # Zero
          /\ Filter(m_start + m, n_start + c, k) # Zero
      BY <2>3, <1>2, <1>3, ElementsNotZero
    <2>. QED  BY <1>5, <1>6, <1>7, <1>8, <1>10, <1>1, <1>3, <2>1, <2>2, <2>4 DEF j
  <1>11. CASE c >= actual_cin
    <2>1. TileCopied(c, t + k) = Zero
      BY <1>11, <1>1, <1>3 DEF TileCopied
    <2>. QED  BY <1>5, <1>7, <2>1, <1>11, <1>1, <1>3 DEF j
  <1>. QED  BY <1>10, <1>11, <1>1, <1>3

\* So a run forms each product of the pass once, and no other.
LEMMA ProductsOfPass ==
  ASSUME InTile, InputsCopied, WeightsCopied,
         NEW m \in 0..actual_cout-1, NEW t \in 0..actual_t_samples-1
  PROVE  Products(m * TILE_T + t)
           = SetToBag(PassProducts(m_start + m, t_start + t, n_start, actual_cin))
  <1> DEFINE j == m * TILE_T + t
             product(i) == <<Operands(scratchpad, j, i[2])[1][i[1]],
                             Operands(scratchpad, j, i[2])[2][i[1]]>>
             added == {i \in Channel \X Kernel : product(i)[1] # Zero /\ product(i)[2] # Zero}
             formed(c, k) == <<InData(n_start + c, t_start + t + k),
                               Filter(m_start + m, n_start + c, k)>>
  <1>1. /\ m_start \in Nat /\ n_start \in Nat /\ actual_cin \in 1..TILE_CIN
        /\ n_start + actual_cin <= shape.input_ch
    BY TileFacts
  <1>2. shape \in Shapes /\ shape.input_ch \in Nat
    BY ShapeFacts DEF InTile
  <1>3. ASSUME NEW c \in Channel, NEW k \in Kernel
        PROVE  /\ <<c, k>> \in added <=> c < actual_cin
               /\ c < actual_cin => product(<<c, k>>) = formed(c, k)
    <2>1. c \in Nat
      BY DEF Channel
    <2>2. product(<<c, k>>) = <<Operands(scratchpad, j, k)[1][c],
                                Operands(scratchpad, j, k)[2][c]>>
      OBVIOUS
    <2>3. CASE c < actual_cin
      BY <2>2, <2>3, OperandsOfPass
    <2>4. CASE c >= actual_cin
      BY <2>1, <2>2, <2>4, <1>1, OperandsOfPass
    <2>. QED  BY <2>1, <2>3, <2>4, <1>1
  <1>4. ASSUME NEW c \in 0..actual_cin-1, NEW d \in 0..actual_cin-1,
               NEW k \in Kernel, NEW l \in Kernel, formed(c, k) = formed(d, l)
        PROVE  c = d /\ k = l
    <2>1. Filter(m_start + m, n_start + c, k) = Filter(m_start + m, n_start + d, l)
      BY <1>4
    <2>2. /\ n_start + c \in 0..shape.input_ch-1 /\ n_start + d \in 0..shape.input_ch-1
          /\ m_start + m \in Nat
      BY <1>1, <1>2
    <2>3. n_start + c = n_start + d /\ k = l
      BY <1>2, <2>1, <2>2, FilterInjective
    <2>. QED  BY <1>1, <2>3
  <1>5. ASSUME NEW p
        PROVE  p \in {product(i) : i \in added}
                 <=> p \in PassProducts(m_start + m, t_start + t, n_start, actual_cin)
    <2>1. ASSUME NEW i \in added, p = product(i)
          PROVE  \E c \in 0..actual_cin-1, k \in Kernel : p = formed(c, k)
      <3>1. PICK c \in Channel, k \in Kernel : i = <<c, k>>
        OBVIOUS
      <3>2. c \in 0..actual_cin-1
        BY <3>1, <1>3, <1>1 DEF Channel
      <3>. HIDE DEF product, formed, added
      <3>. QED  BY <3>1, <3>2, <2>1, <1>3, <1>1
    <2>2. ASSUME NEW c \in 0..actual_cin-1, NEW k \in Kernel, p = formed(c, k)
          PROVE  p \in {product(i) : i \in added}
      <3>1. c \in Channel /\ c < actual_cin
        BY <1>1, Sizes DEF Channel
      <3>. HIDE DEF product, formed, added
      <3>2. <<c, k>> \in added /\ product(<<c, k>>) = p
        BY <3>1, <2>2, <1>3
      <3>. QED  BY <3>2
    <2>3. PassProducts(m_start + m, t_start + t, n_start, actual_cin)
            = {formed(c, k) : c \in 0..actual_cin-1, k \in Kernel}
      BY DEF PassProducts
    <2>. HIDE DEF product, formed, added
    <2>. QED  BY <2>1, <2>2, <2>3
  <1>6. ASSUME NEW p \in {product(i) : i \in added}
        PROVE  Cardinality({i \in added : product(i) = p}) = 1
    <2>1. PICK i \in added : p = product(i)
      OBVIOUS
    <2>2. PICK c \in Channel, k \in Kernel : i = <<c, k>>
      OBVIOUS
    <2>3. c \in 0..actual_cin-1 /\ product(i) = formed(c, k)
      BY <2>2, <1>1, <1>3 DEF Channel
    <2>4. ASSUME NEW h \in added, product(h) = p PROVE h = i
      <3>1. PICK d \in Channel, l \in Kernel : h = <<d, l>>
        OBVIOUS
      <3>2. d \in 0..actual_cin-1 /\ product(h) = formed(d, l)
        BY <3>1, <1>1, <1>3 DEF Channel
      <3>. HIDE DEF product, formed, added
      <3>3. formed(c, k) = formed(d, l)
        BY <3>2, <2>1, <2>3, <2>4
      <3>4. c = d /\ k = l
        BY <3>2, <3>3, <2>3, <1>4
      <3>. QED  BY <3>1, <3>4, <2>2
    <2>. HIDE DEF product, formed, added
    <2>5. {h \in added : product(h) = p} = {i}
      BY <2>1, <2>4
    <2>. QED  BY <2>5, FS_Singleton
  <1>7. Products(j) = [p \in {product(i) : i \in added} |->
                        Cardinality({i \in added : product(i) = p})]
    BY DEF Products
  <1> HIDE DEF product, added, formed
  <1>8. {product(i) : i \in added} = PassProducts(m_start + m, t_start + t, n_start, actual_cin)
    BY <1>5
  <1>. QED  BY <1>6, <1>7, <1>8 DEF SetToBag

\* The sums of the current tile's outputs over the first n input channels.
SumsHold(n) ==
  \A m \in 0..actual_cout-1, t \in 0..actual_t_samples-1 :
    scratchpad[OutputWord(m, t)] = Reference(m_start + m, t_start + t, n)

\* A run takes the sum over the channels before it to the sum with its own.
LEMMA PassAdds ==
  ASSUME InTile, InputsCopied, WeightsCopied, cin_tile > 0 => SumsHold(n_start), RunTile,
         NEW m \in 0..actual_cout-1, NEW t \in 0..actual_t_samples-1
  PROVE  scratchpad'[OutputWord(m, t)]
           = Reference(m_start + m, t_start + t, n_start + actual_cin)
  <1>1. /\ m_start \in Nat /\ actual_cout \in 1..TILE_COUT
        /\ t_start \in Nat /\ actual_t_samples \in 1..TILE_T
        /\ n_start \in Nat /\ actual_cin \in 1..TILE_CIN
        /\ n_start + actual_cin <= shape.input_ch
    BY TileFacts
  <1>2. m \in 0..TILE_COUT-1 /\ t \in 0..TILE_T-1 /\ m_start + m \in Nat /\ t_start + t \in Nat
    BY <1>1, Sizes
  <1> DEFINE a == OutputWord(m, t)
             before == IF cin_tile > 0 THEN scratchpad[a] ELSE EmptyBag
             M == m_start + m
             T == t_start + t
  <1>3. a \in Address /\ a \in OUTPUT_BASE..OUTPUT_BASE + NUM_OUTPUTS - 1
        /\ a - OUTPUT_BASE = m * TILE_T + t
    BY <1>2, OutputRegion
  <1>4. scratchpad'[a] = before (+) Products(m * TILE_T + t)
    <2>. HIDE DEF a
    <2>. QED  BY <1>3 DEF RunTile, Base
  <1>5. before = Reference(M, T, n_start)
    <2>1. CASE cin_tile > 0
      BY <2>1 DEF SumsHold
    <2>2. CASE cin_tile = 0
      <3>1. n_start = 0
        BY <2>2, Sizes, StartFacts DEF n_start
      <3>. QED  BY <2>2, <3>1, ReferenceStarts
    <2>3. cin_tile \in Nat
      BY ShapeFacts DEF InTile
    <2>. QED  BY <2>1, <2>2, <2>3
  <1>6. Products(m * TILE_T + t) = SetToBag(PassProducts(M, T, n_start, actual_cin))
    BY ProductsOfPass
  <1>7. Reference(M, T, n_start) (+) SetToBag(PassProducts(M, T, n_start, actual_cin))
          = Reference(M, T, n_start + actual_cin)
    <2>1. shape \in Shapes /\ M \in Nat /\ T \in Nat /\ actual_cin \in Nat
      BY <1>1, <1>2 DEF InTile
    <2>. HIDE DEF M, T
    <2>. QED  BY <1>1, <2>1, ReferenceGrows
  <1>. QED  BY <1>4, <1>5, <1>6, <1>7

-----------------------------------------------------------------------------
(* The invariant of the loops.                                             *)

\* The loops return when all tiles are done, and read after the last pass.
LoopInv ==
  /\ pc # "returned" => cout_tile < num_cout_tiles
  /\ pc = "returned" => cout_tile = num_cout_tiles
  /\ pc = "read_outputs" => cin_tile = num_cin_tiles - 1

\* The operands of the tile are in place as far as they have been copied.
CopyInv ==
  /\ pc \in {"copy_weights", "run"} => InputsCopied
  /\ pc = "run" => WeightsCopied

\* The sums survive the copies of the next pass.
SumInv ==
  /\ pc \in {"copy_inputs", "copy_weights", "run"} /\ cin_tile > 0 => SumsHold(n_start)
  /\ pc = "read_outputs" => SumsHold(shape.input_ch)

\* The outputs of the tiles done so far.
Assigned(m, t) == m < m_start \/ (m < m_start + TILE_COUT /\ t < t_start)

\* They are right and the others unwritten.
OutputInv ==
  \A m \in 0..shape.output_ch-1, t \in 0..output_len-1 :
    output_data[m * output_len + t] =
      IF Assigned(m, t) THEN Reference(m, t, shape.input_ch) ELSE Garbage

\* The inductive invariant.  TilesCorrect alone is not one: it says nothing of
\* the copied operands, nor of what has been read back.
HwInv == TypeOK /\ LoopInv /\ CopyInv /\ SumInv /\ OutputInv

\* Until it returns, the loops are at a tile of the problem.
LEMMA Running ==
  ASSUME HwInv, pc # "returned"
  PROVE  InTile
  BY ShapeFacts DEF HwInv, TypeOK, LoopInv, InTile

\* The call starts in the invariant.
LEMMA InitHw ==
  ASSUME Init
  PROVE  HwInv
  <1>1. shape \in Shapes /\ cout_tile = 0 /\ t_tile = 0 /\ cin_tile = 0 /\ pc = "copy_inputs"
    BY DEF Init
  <1>2. output_len \in Nat \ {0} /\ shape.output_ch \in Nat \ {0}
        /\ num_cin_tiles \in Nat \ {0} /\ num_cout_tiles \in Nat \ {0}
        /\ num_t_tiles \in Nat \ {0}
    BY <1>1, ShapeFacts
  <1>3. TypeOK /\ LoopInv
    BY <1>1, <1>2 DEF TypeOK, LoopInv, Init
  <1>4. CopyInv /\ SumInv
    BY <1>1 DEF CopyInv, SumInv
  <1>5. OutputInv
    <2>1. m_start = 0 /\ t_start = 0
      BY <1>1, Sizes, StartFacts DEF m_start, t_start
    <2> SUFFICES ASSUME NEW m \in 0..shape.output_ch-1, NEW t \in 0..output_len-1
                 PROVE  output_data[m * output_len + t] = Garbage /\ ~Assigned(m, t)
      BY DEF OutputInv
    <2>2. ~Assigned(m, t)
      BY <1>2, <2>1 DEF Assigned
    <2>3. m * output_len + t \in 0..shape.output_ch * output_len - 1
      BY <1>2, DigitsBelow
    <2>. QED  BY <2>2, <2>3 DEF Init
  <1>. QED  BY <1>3, <1>4, <1>5 DEF HwInv

\* Everything that only depends on the shape and the loop counters.
LEMMA SameTile ==
  ASSUME UNCHANGED <<shape, cout_tile, t_tile, cin_tile>>
  PROVE  /\ UNCHANGED <<output_len, num_cin_tiles, num_cout_tiles, num_t_tiles>>
         /\ UNCHANGED <<m_start, t_start, n_start, actual_cout, actual_t_samples, actual_cin>>
         /\ \A c, i : TileCopied(c, i)' = TileCopied(c, i)
         /\ \A m, c, k : KernelCopied(m, c, k)' = KernelCopied(m, c, k)
         /\ \A m, o, n : Reference(m, o, n)' = Reference(m, o, n)
         /\ \A m, t : Assigned(m, t)' = Assigned(m, t)
  BY DEF output_len, num_cin_tiles, num_cout_tiles, num_t_tiles, m_start, t_start, n_start,
         actual_cout, actual_t_samples, actual_cin, TileCopied, KernelCopied, Reference,
         InData, Filter, Assigned

\* Copying the inputs leaves the sums alone.
LEMMA CopyInputsHw ==
  ASSUME HwInv, CopyInputs
  PROVE  HwInv'
  <1> USE SameTile
  <1>1. /\ pc = "copy_inputs" /\ pc' = "copy_weights"
        /\ UNCHANGED <<shape, cout_tile, t_tile, cin_tile, output_data>>
    BY DEF CopyInputs
  <1>2. TypeOK' /\ LoopInv'
    BY <1>1 DEF HwInv, TypeOK, LoopInv, CopyInputs, Store
  <1>3. ASSUME NEW c \in Channel, NEW i \in 0..INPUT_WINDOW-1
        PROVE  scratchpad'[InputWord(c, i)] = TileCopied(c, i)
    <2> DEFINE I == Channel \X (0..INPUT_WINDOW-1)
               at(x) == InputWord(x[1], x[2])
               chosen == CHOOSE x \in I : at(x) = InputWord(c, i)
    <2>1. <<c, i>> \in I /\ at(<<c, i>>) = InputWord(c, i)
      OBVIOUS
    <2>2. chosen \in I /\ at(chosen) = InputWord(c, i)
      BY <2>1
    <2>3. chosen = <<c, i>>
      <3>1. PICK d \in Channel, j \in 0..INPUT_WINDOW-1 : chosen = <<d, j>>
        BY <2>2
      <3>2. InputWord(d, j) = InputWord(c, i)
        BY <3>1, <2>2
      <3>. HIDE DEF chosen
      <3>. QED  BY <3>1, <3>2, InputInjective
    <2>4. InputWord(c, i) \in Address
      BY InputRegion, Regions, Sizes DEF Address
    <2>. QED  BY <2>1, <2>3, <2>4 DEF CopyInputs, Store, TileCopied
  <1>4. CopyInv'
    <2>1. InputsCopied'
      BY <1>1, <1>3 DEF InputsCopied
    <2>. QED  BY <1>1, <2>1 DEF CopyInv
  <1>5. ASSUME NEW a \in Address, a >= WEIGHT_BASE
        PROVE  scratchpad'[a] = scratchpad[a]
    <2>1. ASSUME NEW x \in Channel \X (0..INPUT_WINDOW-1) PROVE InputWord(x[1], x[2]) # a
      <3>1. InputWord(x[1], x[2]) \in INPUT_BASE..WEIGHT_BASE-1
        BY InputRegion
      <3>. QED  BY <3>1, <1>5, Regions DEF Address
    <2>. QED  BY <2>1 DEF CopyInputs, Store
  <1>6. cin_tile > 0 => SumsHold(n_start)
    BY <1>1 DEF HwInv, SumInv
  <1>7. SumInv'
    <2> SUFFICES ASSUME cin_tile > 0,
                        NEW m \in 0..actual_cout-1, NEW t \in 0..actual_t_samples-1
                 PROVE  scratchpad'[OutputWord(m, t)] = scratchpad[OutputWord(m, t)]
      BY <1>1, <1>6 DEF SumInv, SumsHold
    <2>1. InTile
      BY <1>1, Running
    <2>2. m \in 0..TILE_COUT-1 /\ t \in 0..TILE_T-1
      BY <2>1, TileFacts, Sizes
    <2>3. OutputWord(m, t) \in Address /\ OutputWord(m, t) >= WEIGHT_BASE
      <3>1. OutputWord(m, t) \in Address
            /\ OutputWord(m, t) \in OUTPUT_BASE..OUTPUT_BASE + NUM_OUTPUTS - 1
        BY <2>2, OutputRegion
      <3>2. /\ WEIGHT_BASE \in Nat /\ OUTPUT_BASE \in Nat /\ WEIGHT_BASE <= OUTPUT_BASE
            /\ NUM_OUTPUTS \in Nat
        BY Regions, Sizes
      <3>. QED  BY <3>1, <3>2
    <2>. QED  BY <2>3, <1>5
  <1>8. OutputInv'
    BY <1>1 DEF HwInv, OutputInv
  <1>. QED  BY <1>2, <1>4, <1>7, <1>8 DEF HwInv

\* Copying the weights leaves the inputs and the sums alone.
LEMMA CopyWeightsHw ==
  ASSUME HwInv, CopyWeights
  PROVE  HwInv'
  <1> USE SameTile
  <1>1. /\ pc = "copy_weights" /\ pc' = "run"
        /\ UNCHANGED <<shape, cout_tile, t_tile, cin_tile, output_data>>
    BY DEF CopyWeights
  <1>2. TypeOK' /\ LoopInv'
    BY <1>1 DEF HwInv, TypeOK, LoopInv, CopyWeights, Store
  <1>3. ASSUME NEW m \in 0..TILE_COUT-1, NEW c \in Channel, NEW k \in Kernel
        PROVE  scratchpad'[WeightWord(m, c, k)] = KernelCopied(m, c, k)
    <2> DEFINE I == (0..TILE_COUT-1) \X Channel \X Kernel
               at(x) == WeightWord(x[1], x[2], x[3])
               chosen == CHOOSE x \in I : at(x) = WeightWord(m, c, k)
    <2>1. <<m, c, k>> \in I /\ at(<<m, c, k>>) = WeightWord(m, c, k)
      OBVIOUS
    <2>2. chosen \in I /\ at(chosen) = WeightWord(m, c, k)
      BY <2>1
    <2>3. chosen = <<m, c, k>>
      <3>1. PICK n \in 0..TILE_COUT-1, d \in Channel, l \in Kernel : chosen = <<n, d, l>>
        BY <2>2
      <3>2. WeightWord(n, d, l) = WeightWord(m, c, k)
        BY <3>1, <2>2
      <3>. HIDE DEF chosen
      <3>. QED  BY <3>1, <3>2, WeightInjective
    <2>4. WeightWord(m, c, k) \in Address
      <3>1. WeightWord(m, c, k) \in WEIGHT_BASE..OUTPUT_BASE-1
        BY WeightRegion
      <3>. QED  BY <3>1, Regions, Sizes DEF Address
    <2>. QED  BY <2>1, <2>3, <2>4 DEF CopyWeights, Store, KernelCopied
  <1>4. ASSUME NEW a \in Address, a < WEIGHT_BASE \/ a >= OUTPUT_BASE
        PROVE  scratchpad'[a] = scratchpad[a]
    <2>1. ASSUME NEW x \in (0..TILE_COUT-1) \X Channel \X Kernel
          PROVE  WeightWord(x[1], x[2], x[3]) # a
      <3>1. WeightWord(x[1], x[2], x[3]) \in WEIGHT_BASE..OUTPUT_BASE-1
        BY WeightRegion
      <3>2. WEIGHT_BASE \in Nat /\ OUTPUT_BASE \in Nat /\ a \in Int
        BY Regions DEF Address
      <3>. QED  BY <3>1, <1>4, <3>2
    <2>. QED  BY <2>1 DEF CopyWeights, Store
  <1>5. InputsCopied'
    <2>1. InputsCopied
      BY <1>1 DEF HwInv, CopyInv
    <2> SUFFICES ASSUME NEW c \in Channel, NEW i \in 0..INPUT_WINDOW-1
                 PROVE  scratchpad'[InputWord(c, i)] = scratchpad[InputWord(c, i)]
      BY <1>1, <2>1 DEF InputsCopied
    <2>2. InputWord(c, i) \in INPUT_BASE..WEIGHT_BASE-1
      BY InputRegion
    <2>3. INPUT_BASE \in Nat /\ WEIGHT_BASE \in Nat /\ OUTPUT_BASE \in Nat /\ NumWords \in Nat
          /\ WEIGHT_BASE <= OUTPUT_BASE /\ OUTPUT_BASE + NUM_OUTPUTS <= NumWords
          /\ NUM_OUTPUTS \in Nat
      BY Regions, Sizes
    <2>4. InputWord(c, i) \in Address /\ InputWord(c, i) < WEIGHT_BASE
      BY <2>2, <2>3 DEF Address
    <2>. QED  BY <2>4, <1>4
  <1>6. CopyInv'
    BY <1>1, <1>3, <1>5 DEF CopyInv, WeightsCopied
  <1>7. cin_tile > 0 => SumsHold(n_start)
    BY <1>1 DEF HwInv, SumInv
  <1>8. SumInv'
    <2> SUFFICES ASSUME cin_tile > 0,
                        NEW m \in 0..actual_cout-1, NEW t \in 0..actual_t_samples-1
                 PROVE  scratchpad'[OutputWord(m, t)] = scratchpad[OutputWord(m, t)]
      BY <1>1, <1>7 DEF SumInv, SumsHold
    <2>1. InTile
      BY <1>1, Running
    <2>2. m \in 0..TILE_COUT-1 /\ t \in 0..TILE_T-1
      BY <2>1, TileFacts, Sizes
    <2>3. OutputWord(m, t) \in Address
          /\ OutputWord(m, t) \in OUTPUT_BASE..OUTPUT_BASE + NUM_OUTPUTS - 1
      BY <2>2, OutputRegion
    <2>4. OUTPUT_BASE \in Nat /\ NUM_OUTPUTS \in Nat
      BY Regions, Sizes
    <2>5. OutputWord(m, t) >= OUTPUT_BASE
      BY <2>3, <2>4
    <2>. QED  BY <2>3, <2>5, <1>4
  <1>9. OutputInv'
    BY <1>1 DEF HwInv, OutputInv
  <1>. QED  BY <1>2, <1>6, <1>8, <1>9 DEF HwInv

\* A run completes the pass, and the last pass the sums.
LEMMA RunTileHw ==
  ASSUME HwInv, RunTile
  PROVE  HwInv'
  <1>1. /\ pc = "run" /\ UNCHANGED <<shape, cout_tile, t_tile, output_data>>
        /\ InTile
    BY Running DEF RunTile
  <1>2. InputsCopied /\ WeightsCopied /\ (cin_tile > 0 => SumsHold(n_start))
    BY <1>1 DEF HwInv, CopyInv, SumInv
  <1>3. ASSUME NEW m \in 0..actual_cout-1, NEW t \in 0..actual_t_samples-1
        PROVE  scratchpad'[OutputWord(m, t)]
                 = Reference(m_start + m, t_start + t, n_start + actual_cin)
    BY <1>1, <1>2, PassAdds
  <1>4. /\ UNCHANGED <<output_len, num_cin_tiles, num_cout_tiles, num_t_tiles>>
        /\ UNCHANGED <<m_start, t_start, actual_cout, actual_t_samples>>
        /\ \A m, o, n : Reference(m, o, n)' = Reference(m, o, n)
        /\ \A m, t : Assigned(m, t)' = Assigned(m, t)
    BY <1>1 DEF output_len, num_cin_tiles, num_cout_tiles, num_t_tiles, m_start, t_start,
                actual_cout, actual_t_samples, Reference, InData, Filter, Assigned
  <1>5. TypeOK' /\ LoopInv' /\ CopyInv' /\ SumInv'
    <2>1. DOMAIN scratchpad' = Address
      BY DEF RunTile
    <2>2. cin_tile \in 0..num_cin_tiles-1 /\ num_cin_tiles \in Nat
          /\ cout_tile \in 0..num_cout_tiles-1 /\ num_cout_tiles \in Nat
      BY <1>1, ShapeFacts DEF InTile
    <2>3. CASE MorePasses
      <3>1. cin_tile' = cin_tile + 1 /\ pc' = "copy_inputs"
        BY <2>3 DEF RunTile, NextPass
      <3>2. cin_tile' \in 0..num_cin_tiles-1 /\ cin_tile' > 0
        BY <3>1, <2>2, <2>3 DEF MorePasses
      <3>3. TypeOK'
        BY <3>1, <3>2, <2>1, <1>1, <1>4 DEF HwInv, TypeOK
      <3>4. LoopInv' /\ CopyInv'
        BY <3>1, <1>1, <1>4 DEF HwInv, LoopInv, CopyInv
      <3>5. n_start' = n_start + actual_cin
        <4>1. actual_cin = TILE_CIN
          BY <1>1, <2>3, TileFacts DEF MorePasses
        <4>. QED  BY <4>1, <2>2, <3>1, Sizes, StartFacts DEF n_start
      <3>6. SumInv'
        BY <3>1, <3>5, <1>3, <1>4 DEF SumInv, SumsHold
      <3>. QED  BY <3>3, <3>4, <3>6
    <2>4. CASE ~MorePasses
      <3>1. cin_tile' = cin_tile /\ pc' = "read_outputs"
        BY <2>4 DEF RunTile
      <3>2. cin_tile + 1 = num_cin_tiles
        BY <2>2, <2>4 DEF MorePasses
      <3>3. TypeOK'
        BY <3>1, <2>1, <1>1, <1>4 DEF HwInv, TypeOK
      <3>4. LoopInv' /\ CopyInv'
        BY <3>1, <3>2, <2>2, <1>1, <1>4 DEF HwInv, LoopInv, CopyInv
      <3>5. n_start + actual_cin = shape.input_ch
        BY <1>1, <3>2, TileFacts
      <3>6. SumInv'
        BY <3>1, <3>5, <1>1, <1>3, <1>4 DEF SumInv, SumsHold
      <3>. QED  BY <3>3, <3>4, <3>6
    <2>. QED  BY <2>3, <2>4
  <1>6. OutputInv'
    BY <1>1, <1>4 DEF HwInv, OutputInv
  <1>. QED  BY <1>5, <1>6 DEF HwInv

-----------------------------------------------------------------------------
(* Reading a tile back.                                                    *)

\* The outputs that the read loops of the current tile assign.
OfTile(m, t) ==
  /\ m \in m_start..m_start + actual_cout - 1
  /\ t \in t_start..t_start + actual_t_samples - 1

\* output_data after the words of the tile's outputs O are copied to it.
ReadBack(O) ==
  LET index(o) == OutputIndex(o[1], o[2])
  IN  [i \in DOMAIN output_data |->
         IF \E o \in O : index(o) = i
         THEN LET o == CHOOSE o \in O : index(o) = i
              IN  scratchpad[OutputWord(o[1], o[2])]
         ELSE output_data[i]]

\* Reading a tile back replaces its outputs and no other, even if the loop over
\* the channels runs to the end of a partial tile: what lies behind the last
\* channel is outside output_data.
LEMMA TileRead ==
  ASSUME InTile, DOMAIN output_data = 0..shape.output_ch * output_len - 1,
         NEW O, TileOutputs \subseteq O,
         O \subseteq {o \in WholeTile : o[2] < actual_t_samples},
         NEW m \in 0..shape.output_ch-1, NEW t \in 0..output_len-1
  PROVE  ReadBack(O)[m * output_len + t]
           = IF OfTile(m, t) THEN scratchpad[OutputWord(m - m_start, t - t_start)]
             ELSE output_data[m * output_len + t]
  <1> DEFINE i == m * output_len + t
             index(o) == OutputIndex(o[1], o[2])
             chosen == CHOOSE o \in O : index(o) = i
  <1>1. /\ m_start \in Nat /\ actual_cout \in 1..TILE_COUT
        /\ m_start + actual_cout <= shape.output_ch
        /\ t_start \in Nat /\ actual_t_samples \in 1..TILE_T
        /\ t_start + actual_t_samples <= output_len
        /\ actual_cout = TILE_COUT \/ m_start + actual_cout = shape.output_ch
    <2>1. cout_tile + 1 < num_cout_tiles \/ cout_tile + 1 = num_cout_tiles
      BY ShapeFacts DEF InTile
    <2>. QED  BY <2>1, TileFacts
  <1>2. shape.output_ch \in Nat /\ output_len \in Nat /\ m \in Nat
    BY ShapeFacts DEF InTile
  <1>3. i \in DOMAIN output_data
    BY <1>2, DigitsBelow
  <1>4. ReadBack(O)[i] = IF \E o \in O : index(o) = i
                         THEN scratchpad[OutputWord(chosen[1], chosen[2])]
                         ELSE output_data[i]
    <2>. HIDE DEF i
    <2>. QED  BY <1>3 DEF ReadBack
  <1>5. ASSUME NEW o \in O, index(o) = i
        PROVE  /\ m = m_start + o[1] /\ t = t_start + o[2]
               /\ o[1] \in 0..TILE_COUT-1 /\ o[2] \in 0..actual_t_samples-1
    <2>1. o[1] \in 0..TILE_COUT-1 /\ o[2] \in 0..actual_t_samples-1
      BY <1>1, Sizes DEF WholeTile
    <2> DEFINE M == m_start + o[1]
               T == t_start + o[2]
    <2>2. M \in Nat /\ T \in 0..output_len-1
      <3> DEFINE x == o[1]
                 y == o[2]
      <3>1. x \in Nat /\ y \in Nat /\ y < actual_t_samples
        BY <2>1, <1>1, Sizes
      <3> HIDE DEF x, y
      <3>2. m_start + x \in Nat /\ t_start + y \in 0..output_len-1
        BY <1>1, <1>2, <3>1
      <3>. QED  BY <3>2 DEF x, y
    <2>3. m * output_len + t = M * output_len + T
      BY <1>5 DEF OutputIndex
    <2>4. m = M /\ t = T
      <3>. HIDE DEF index, i, M, T
      <3>. QED  BY <2>2, <2>3, <1>2, Digits
    <2>. QED  BY <2>1, <2>4
  <1>6. CASE OfTile(m, t)
    <2> DEFINE o == <<m - m_start, t - t_start>>
    <2>1. o[1] \in 0..actual_cout-1 /\ o[2] \in 0..actual_t_samples-1
          /\ m_start + o[1] = m /\ t_start + o[2] = t
      BY <1>1, <1>6 DEF OfTile
    <2>2. o \in O /\ index(o) = i
      BY <2>1 DEF TileOutputs, OutputIndex
    <2>3. chosen \in O /\ index(chosen) = i
      <3>. HIDE DEF index, i, o
      <3>. QED  BY <2>2
    <2>4. chosen[1] = m - m_start /\ chosen[2] = t - t_start
      <3>1. m = m_start + chosen[1] /\ t = t_start + chosen[2]
            /\ chosen[1] \in 0..TILE_COUT-1 /\ chosen[2] \in 0..actual_t_samples-1
        <4>. HIDE DEF index, i, chosen
        <4>. QED  BY <2>3, <1>5
      <3>. HIDE DEF chosen
      <3> DEFINE x == chosen[1]
                 y == chosen[2]
      <3>2. x \in Nat /\ y \in Nat /\ m = m_start + x /\ t = t_start + y
        BY <3>1, <1>1, Sizes
      <3> HIDE DEF x, y
      <3>3. x = m - m_start /\ y = t - t_start
        BY <3>2, <1>1
      <3>. QED  BY <3>3 DEF x, y
    <2>. HIDE DEF index, i, chosen, o
    <2>5. ReadBack(O)[i] = scratchpad[OutputWord(m - m_start, t - t_start)]
      BY <1>4, <2>2, <2>4
    <2>. QED  BY <1>6, <2>5 DEF i
  <1>7. CASE ~OfTile(m, t)
    <2>1. ASSUME NEW o \in O, index(o) = i PROVE FALSE
      <3>1. /\ m = m_start + o[1] /\ t = t_start + o[2]
            /\ o[1] \in 0..TILE_COUT-1 /\ o[2] \in 0..actual_t_samples-1
        BY <2>1, <1>5
      <3>. HIDE DEF index, i
      <3>2. m - m_start < actual_cout
        <4> DEFINE x == o[1]
        <4>1. x \in Nat /\ x < TILE_COUT /\ m = m_start + x /\ m < shape.output_ch
          BY <3>1, <1>2, Sizes
        <4> HIDE DEF x
        <4>2. m - m_start = x /\ TILE_COUT \in Nat
          BY <4>1, <1>1, Sizes
        <4>3. CASE actual_cout = TILE_COUT
          BY <4>1, <4>2, <4>3
        <4>4. CASE m_start + actual_cout = shape.output_ch
          BY <4>1, <4>4, <1>1, <1>2
        <4>. QED  BY <4>3, <4>4, <1>1
      <3>3. m \in m_start..m_start + actual_cout - 1
        <4>1. o[1] \in Nat /\ actual_cout \in Nat /\ m - m_start < actual_cout /\ m = m_start + o[1]
          BY <3>1, <3>2, <1>1, Sizes
        <4>. QED  BY <4>1, <1>1, <1>2
      <3>4. t \in t_start..t_start + actual_t_samples - 1
        BY <3>1, <1>1
      <3>. QED  BY <3>3, <3>4, <1>7 DEF OfTile
    <2>. HIDE DEF index, i, chosen
    <2>2. ReadBack(O)[i] = output_data[i]
      BY <1>4, <2>1
    <2>. QED  BY <1>7, <2>2 DEF i
  <1>. QED  BY <1>6, <1>7

\* Stepping the time and output channel loops marks the tile's outputs, and no
\* other, as assigned.
LEMMA AssignedGrows ==
  ASSUME InTile, shape' = shape,
         t_tile' = IF t_tile + 1 = num_t_tiles THEN 0 ELSE t_tile + 1,
         cout_tile' = IF t_tile + 1 = num_t_tiles THEN cout_tile + 1 ELSE cout_tile,
         NEW m \in 0..shape.output_ch-1, NEW t \in 0..output_len-1
  PROVE  Assigned(m, t)' <=> Assigned(m, t) \/ OfTile(m, t)
  <1>1. /\ m_start \in Nat /\ actual_cout \in 1..TILE_COUT
        /\ t_start \in Nat /\ actual_t_samples \in 1..TILE_T
        /\ t_start + actual_t_samples <= output_len
        /\ t_tile + 1 < num_t_tiles => actual_t_samples = TILE_T
        /\ t_tile + 1 = num_t_tiles => t_start + actual_t_samples = output_len
        /\ cout_tile + 1 < num_cout_tiles => actual_cout = TILE_COUT
        /\ cout_tile + 1 = num_cout_tiles => m_start + actual_cout = shape.output_ch
    BY TileFacts
  <1>2. /\ cout_tile \in 0..num_cout_tiles-1 /\ t_tile \in 0..num_t_tiles-1
        /\ num_cout_tiles \in Nat /\ num_t_tiles \in Nat
        /\ output_len \in Nat /\ shape.output_ch \in Nat
    BY ShapeFacts DEF InTile
  <1>3. Assigned(m, t)' <=> m < m_start' \/ (m < m_start' + TILE_COUT /\ t < t_start')
    BY DEF Assigned
  <1>4. TILE_COUT \in Nat \ {0} /\ TILE_T \in Nat \ {0}
    BY Sizes
  <1>5. CASE t_tile + 1 = num_t_tiles
    <2>1. m_start' = m_start + TILE_COUT
      BY <1>2, <1>4, <1>5, StartFacts DEF m_start
    <2>2. t_start' = 0
      BY <1>4, <1>5, StartFacts DEF t_start
    <2>. QED  BY <2>1, <2>2, <1>1, <1>2, <1>3, <1>4, <1>5 DEF Assigned, OfTile
  <1>6. CASE t_tile + 1 # num_t_tiles
    <2>1. m_start' = m_start
      BY <1>6 DEF m_start
    <2>2. t_start' = t_start + TILE_T
      BY <1>2, <1>4, <1>6, StartFacts DEF t_start
    <2>. QED  BY <2>1, <2>2, <1>1, <1>2, <1>3, <1>4, <1>6 DEF Assigned, OfTile
  <1>. QED  BY <1>5, <1>6

\* No output of the current tile has been assigned by an earlier tile.
LEMMA NotYetAssigned ==
  ASSUME InTile, NEW m \in 0..shape.output_ch-1, NEW t \in 0..output_len-1, OfTile(m, t)
  PROVE  ~Assigned(m, t)
  BY TileFacts, ShapeFacts, Sizes DEF Assigned, OfTile, InTile

\* So reading back a tile whose sums are complete, and stepping the loops,
\* leaves output_data right as far as it has been assigned.
LEMMA OutputsGrow ==
  ASSUME InTile, DOMAIN output_data = 0..shape.output_ch * output_len - 1,
         SumsHold(shape.input_ch), OutputInv, shape' = shape,
         NEW O, TileOutputs \subseteq O,
         O \subseteq {o \in WholeTile : o[2] < actual_t_samples},
         output_data' = ReadBack(O),
         t_tile' = IF t_tile + 1 = num_t_tiles THEN 0 ELSE t_tile + 1,
         cout_tile' = IF t_tile + 1 = num_t_tiles THEN cout_tile + 1 ELSE cout_tile
  PROVE  OutputInv'
  <1>1. /\ output_len' = output_len
        /\ \A m, o, n : Reference(m, o, n)' = Reference(m, o, n)
    BY DEF output_len, Reference, InData, Filter
  <1> SUFFICES ASSUME NEW m \in 0..shape.output_ch-1, NEW t \in 0..output_len-1
               PROVE  output_data'[m * output_len + t]
                        = IF Assigned(m, t)' THEN Reference(m, t, shape.input_ch) ELSE Garbage
    BY <1>1 DEF OutputInv
  <1>2. output_data[m * output_len + t]
          = IF Assigned(m, t) THEN Reference(m, t, shape.input_ch) ELSE Garbage
    BY DEF OutputInv
  <1>3. Assigned(m, t)' <=> Assigned(m, t) \/ OfTile(m, t)
    BY AssignedGrows
  <1>4. output_data'[m * output_len + t]
          = IF OfTile(m, t) THEN scratchpad[OutputWord(m - m_start, t - t_start)]
            ELSE output_data[m * output_len + t]
    BY TileRead
  <1>5. ASSUME OfTile(m, t)
        PROVE  scratchpad[OutputWord(m - m_start, t - t_start)]
                 = Reference(m, t, shape.input_ch)
    <2>1. m - m_start \in 0..actual_cout-1 /\ t - t_start \in 0..actual_t_samples-1
          /\ m_start + (m - m_start) = m /\ t_start + (t - t_start) = t
      <3>1. /\ m_start \in Nat /\ actual_cout \in Nat
            /\ t_start \in Nat /\ actual_t_samples \in Nat
        BY TileFacts
      <3>2. /\ m \in m_start..m_start + actual_cout - 1
            /\ t \in t_start..t_start + actual_t_samples - 1
        BY <1>5 DEF OfTile
      <3>. QED  BY <3>1, <3>2
    <2>. QED  BY <2>1 DEF SumsHold
  <1>. QED  BY <1>2, <1>3, <1>4, <1>5

\* Reading back completes the tile.
LEMMA ReadOutputsHw ==
  ASSUME HwInv, ReadOutputs
  PROVE  HwInv'
  <1> DEFINE last_t == t_tile + 1 = num_t_tiles
  <1>1. /\ pc = "read_outputs" /\ UNCHANGED <<shape, scratchpad>>
        /\ cin_tile' = 0
        /\ t_tile' = IF last_t THEN 0 ELSE t_tile + 1
        /\ cout_tile' = IF last_t THEN cout_tile + 1 ELSE cout_tile
        /\ pc' = IF last_t /\ cout_tile + 1 = num_cout_tiles THEN "returned" ELSE "copy_inputs"
        /\ output_data' = ReadBack(TileOutputs)
        /\ DOMAIN output_data' = DOMAIN output_data
    BY DEF ReadOutputs, ReadBack
  <1>2. InTile
    BY <1>1, Running
  <1>3. UNCHANGED <<output_len, num_cin_tiles, num_cout_tiles, num_t_tiles>>
    BY <1>1 DEF output_len, num_cin_tiles, num_cout_tiles, num_t_tiles
  <1>4. /\ cout_tile \in 0..num_cout_tiles-1 /\ t_tile \in 0..num_t_tiles-1
        /\ num_cin_tiles \in Nat \ {0} /\ num_cout_tiles \in Nat \ {0}
        /\ num_t_tiles \in Nat \ {0}
    BY <1>2, ShapeFacts DEF InTile
  <1>5. TypeOK'
    <2>1. /\ cout_tile' \in 0..num_cout_tiles /\ t_tile' \in 0..num_t_tiles-1
          /\ cin_tile' \in 0..num_cin_tiles-1
      BY <1>1, <1>4
    <2>2. pc' \in {"copy_inputs", "returned"}
      BY <1>1
    <2>. QED  BY <1>1, <1>3, <2>1, <2>2 DEF HwInv, TypeOK
  <1>6. LoopInv'
    BY <1>1, <1>3, <1>4 DEF LoopInv
  <1>7. CopyInv' /\ SumInv'
    BY <1>1 DEF CopyInv, SumInv
  <1>8. OutputInv'
    <2>1. TileOutputs \subseteq {o \in WholeTile : o[2] < actual_t_samples}
      BY <1>2, TileFacts, Sizes DEF TileOutputs, WholeTile
    <2>2. DOMAIN output_data = 0..shape.output_ch * output_len - 1
          /\ SumsHold(shape.input_ch) /\ OutputInv
      BY <1>1 DEF HwInv, TypeOK, SumInv
    <2>. QED  BY <1>1, <1>2, <2>1, <2>2, OutputsGrow
  <1>. QED  BY <1>5, <1>6, <1>7, <1>8 DEF HwInv

\* The invariant only depends on the variables of the call.
LEMMA StutterHw ==
  ASSUME HwInv, UNCHANGED vars
  PROVE  HwInv'
  <1>1. UNCHANGED <<shape, cout_tile, t_tile, cin_tile, pc, scratchpad, output_data>>
    BY DEF vars
  <1>. QED
    BY <1>1, SameTile DEF HwInv, TypeOK, LoopInv, CopyInv, InputsCopied, WeightsCopied,
       SumInv, SumsHold, OutputInv

\* Once the loop over the output channels has ended, nothing is left out.
LEMMA AllAssigned ==
  ASSUME shape \in Shapes, cout_tile = num_cout_tiles, NEW m \in 0..shape.output_ch-1, NEW t
  PROVE  Assigned(m, t)
  <1>1. shape.output_ch \in Nat \ {0} /\ num_cout_tiles \in Nat
    BY ShapeFacts
  <1>2. shape.output_ch <= m_start /\ m_start \in Nat
    BY <1>1, Sizes, TilesCover, StartFacts DEF m_start, num_cout_tiles
  <1>. QED  BY <1>1, <1>2 DEF Assigned

-----------------------------------------------------------------------------
(* The theorems.                                                           *)

\* The invariant of the loop nest: what the scratchpad holds in each phase of a
\* pass, and which outputs are assigned (conv1d.c, conv1d_hw).
THEOREM TilingInvariant == Spec => []HwInv
  <1>1. Init => HwInv
    BY InitHw
  <1>2. HwInv /\ [Next]_vars => HwInv'
    <2> SUFFICES ASSUME HwInv, [Next]_vars PROVE HwInv'
      OBVIOUS
    <2>1. CASE CopyInputs
      BY <2>1, CopyInputsHw
    <2>2. CASE CopyWeights
      BY <2>2, CopyWeightsHw
    <2>3. CASE RunTile
      BY <2>3, RunTileHw
    <2>4. CASE ReadOutputs
      BY <2>4, ReadOutputsHw
    <2>5. CASE UNCHANGED vars
      BY <2>5, StutterHw
    <2>. QED  BY <2>1, <2>2, <2>3, <2>4, <2>5 DEF Next
  <1>. QED  BY <1>1, <1>2, PTL DEF Spec

\* Between the passes, the scratchpad holds the sums over the channels already
\* processed, for every problem and every tile size: partial tiles in each of
\* the three directions included.
THEOREM TilingCorrect == Spec => []TilesCorrect
  <1>1. HwInv => TilesCorrect
    BY DEF HwInv, SumInv, SumsHold, TilesCorrect, PassesAccumulate
  <1>. QED  BY <1>1, TilingInvariant, PTL

\* What conv1d_hw returns is what conv1d_sw computes, for every problem.
THEOREM ResultCorrect == Spec => []SameAsSoftware
  <1>1. HwInv => SameAsSoftware
    BY AllAssigned DEF SameAsSoftware, HwInv, TypeOK, LoopInv, OutputInv
  <1>. QED  BY <1>1, TilingInvariant, PTL

\* No output is assigned by two tiles, or twice by one.
THEOREM OutputsAssignedOnce == Spec => AssignedOnce
  <1> DEFINE Kept == \A i \in DOMAIN output_data :
                       output_data[i] # Garbage => output_data'[i] = output_data[i]
  <1>1. HwInv /\ [Next]_vars => [Kept]_vars
    <2> SUFFICES ASSUME HwInv, Next, NEW i \in DOMAIN output_data, output_data[i] # Garbage
                 PROVE  output_data'[i] = output_data[i]
      OBVIOUS
    <2>1. CASE ReadOutputs
      <3>1. InTile
        BY <2>1, Running DEF ReadOutputs
      <3>2. ASSUME \A o \in TileOutputs : OutputIndex(o[1], o[2]) # i
            PROVE  output_data'[i] = output_data[i]
        BY <2>1, <3>2 DEF ReadOutputs
      <3>3. ASSUME NEW o \in TileOutputs, OutputIndex(o[1], o[2]) = i PROVE FALSE
        <4> DEFINE m == m_start + o[1]
                   t == t_start + o[2]
        <4>1. o[1] \in 0..actual_cout-1 /\ o[2] \in 0..actual_t_samples-1
          BY DEF TileOutputs
        <4>2. /\ m \in 0..shape.output_ch-1 /\ t \in 0..output_len-1 /\ OfTile(m, t)
          BY <4>1, <3>1, TileFacts, ShapeFacts DEF InTile, OfTile
        <4>3. ~Assigned(m, t)
          <5>. HIDE DEF m, t
          <5>. QED  BY <4>2, <3>1, NotYetAssigned
        <4>4. output_data[m * output_len + t] = Garbage
          <5>. HIDE DEF m, t
          <5>. QED  BY <4>2, <4>3 DEF HwInv, OutputInv
        <4>. QED  BY <3>3, <4>4 DEF OutputIndex
      <3>. QED  BY <3>2, <3>3
    <2>2. CASE CopyInputs \/ CopyWeights \/ RunTile
      BY <2>2 DEF CopyInputs, CopyWeights, RunTile
    <2>. QED  BY <2>1, <2>2 DEF Next
  <1>. QED  BY <1>1, TilingInvariant, PTL DEF Spec, AssignedOnce
=============================================================================
