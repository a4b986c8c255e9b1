------------------------------ MODULE CGenFormat ------------------------------
(***************************************************************************)
(* How the generator (common/c_gen.py) writes one array in C: the elements *)
(* of a matrix of any dimension in row-major order, as unsigned            *)
(* hexadecimal numbers, structured by comments; instructions of a program  *)
(* one after the other.  A text is a sequence of tokens: Open and Close    *)
(* for the comments around a dimension, Sep for a comma, and numbers;      *)
(* lines and indentation are white space.                                  *)
(***************************************************************************)
EXTENDS Integers, Sequences, FiniteSets

CONSTANTS
  Arrays,      \* the matrices tried: their lengths from the outer dimension
               \* to the inner one, and their elements in row-major order
  Half,        \* elements are signed numbers below it
  Open, Close, Sep

Span == 2 * Half

\* The number of elements of the subarrays of l dimensions; numpy's size.
SizeBelow(shape, l) ==
  LET size[k \in 0..Len(shape)] ==
        IF k = 0 THEN 1 ELSE shape[Len(shape) - k + 1] * size[k-1]
  IN  size[l]
Size(shape) == SizeBelow(shape, Len(shape))

\* Arrays have as many elements as their lengths say, none where a length is
\* zero (c_gen.py cannot format an array without dimensions); a number is no
\* comma.
ASSUME FormatAssumption ==
  /\ Half \in Nat \ {0}
  /\ \A a \in Arrays :
       /\ a.shape \in Seq(Nat) \ {<<>>}
       /\ a.elements \in [1..Size(a.shape) -> -Half .. Half-1]
  /\ {Open, Close, Sep} \cap 0..Span-1 = {} /\ Open # Close /\ Sep \notin {Open, Close}

VARIABLES
  matrix,
  text,      \* its text, or <<>>
  code,      \* the text of as many instructions, or <<>>
  unbound    \* format_matrix has raised: the loop that binds idx had no step

formatVars == <<matrix, text, code, unbound>>

-----------------------------------------------------------------------------
\* hex_values: astype of the unsigned type of the same width.
Hex(a, i) == a.elements[i] % Span

\* ', '.join of the elements after `index`.
Joined(a, index, len) ==
  [k \in 1..2*len-1 |-> IF k % 2 = 1 THEN Hex(a, index + (k + 1) \div 2) ELSE Sep]

\* Mutant: a comma follows the last subarray too.
SeparatedAlways(t, k, len) == Append(t, Sep)
Separated(t, k, len) == IF k < len THEN Append(t, Sep) ELSE t

\* generate_structure_comments: the text of the subarray that begins after
\* `index`, and the index after it.
Vector(a, len, index) ==
  [text |-> <<Open>> \o Joined(a, index, len) \o <<Close>>, index |-> index + len]

\* `array` writes a subarray of the next dimension.
Subarrays(array, len, top, index) ==
  LET lines[k \in 0..len] ==
        IF k = 0 THEN [text |-> IF top THEN <<>> ELSE <<Open>>, index |-> index]
        ELSE LET sub == array[lines[k-1].index]
             IN  [text |-> Separated(lines[k-1].text \o sub.text, k, len), index |-> sub.index]
  IN  [text |-> lines[len].text \o (IF top THEN <<>> ELSE <<Close>>), index |-> lines[len].index]

generate_structure_comments(a) ==
  LET dims == Len(a.shape)
      array[l \in 1..dims] ==
        [index \in Nat |->
           IF l = 1 THEN Vector(a, a.shape[dims], index)
           ELSE Subarrays(array[l-1], a.shape[dims - l + 1], l = dims, index)]
  IN  array[dims][0].text

\* The loop over the instructions.
code_contents(a, len) ==
  LET contents[k \in 0..len] ==
        IF k = 0 THEN <<>> ELSE Separated(Append(contents[k-1], Hex(a, k)), k, len)
  IN  contents[len]

FormatInit == matrix \in Arrays /\ text = <<>> /\ code = <<>> /\ unbound = FALSE

\* The top level of several dimensions uses idx after its loop.
NoSubarrays(shape) == Len(shape) > 1 /\ shape[1] = 0

format_matrix ==
  /\ text = <<>> /\ ~NoSubarrays(matrix.shape)
  /\ text' = generate_structure_comments(matrix)
  /\ UNCHANGED <<matrix, code, unbound>>

format_matrix_raises ==
  /\ NoSubarrays(matrix.shape)
  /\ unbound' = TRUE
  /\ UNCHANGED <<matrix, text, code>>

format_code ==
  /\ text # <<>> /\ code = <<>>
  /\ code' = code_contents(matrix, Size(matrix.shape))
  /\ UNCHANGED <<matrix, text, unbound>>

FormatNext == format_matrix \/ format_matrix_raises \/ format_code
FormatSpec == FormatInit /\ [][FormatNext]_formatVars

-----------------------------------------------------------------------------
\* What a C compiler reads: it skips the comments.
Upto(t, k, tokens) == Cardinality({j \in 1..k : t[j] \in tokens})
Comments == {Open, Close}
Place(t, k) == k - Upto(t, k, Comments)
ReadAt(t) == {k \in 1..Len(t) : t[k] \notin Comments}

\* An initializer list with the elements in their order, and one comma between
\* any two of them: none is missing between two subarrays of any level, none
\* is doubled, and no element is skipped or repeated.
ElementAt(place) == (place + 1) \div 2
IsList(t, a) ==
  /\ Place(t, Len(t)) = 2 * Size(a.shape) - 1
  /\ \A k \in ReadAt(t) :
       t[k] = IF Place(t, k) % 2 = 1 THEN Hex(a, ElementAt(Place(t, k))) ELSE Sep

\* For each k, the subarrays of the first k dimensions: `level` those of the
\* k-th, `all` of all of them.
Structure(shape) ==
  LET count[k \in 0..Len(shape)] ==
        IF k = 0 THEN [level |-> 1, all |-> 0]
        ELSE LET level == count[k-1].level * shape[k]
             IN  [level |-> level, all |-> count[k-1].all + level]
  IN  count

\* Without elements there is no number, and one comma between any two of the
\* subarrays that are empty at once: an (empty) list only if there is one.
EmptyAt(shape, k) == shape[k] = 0 /\ Structure(shape)[k-1].level # 0
IsEmpty(t, a) ==
  /\ \E k \in 1..Len(a.shape) :
       EmptyAt(a.shape, k) /\ Place(t, Len(t)) = Structure(a.shape)[k-1].level - 1
  /\ \A k \in ReadAt(t) : t[k] = Sep

MatrixIsList ==
  text # <<>> => IF Size(matrix.shape) # 0 THEN IsList(text, matrix) ELSE IsEmpty(text, matrix)

\* Cast back to the signed type, every number is the element it was.
Signed(v) == IF v >= Half THEN v - Span ELSE v
SignsSurvive ==
  text # <<>> =>
    \A k \in ReadAt(text) : text[k] # Sep =>
      Signed(text[k]) = matrix.elements[ElementAt(Place(text, k))]

\* The comments show the structure: they nest, one pair for each subarray.
Nested(t) ==
  LET depth(k) == Upto(t, k, {Open}) - Upto(t, k, {Close})
  IN  depth(Len(t)) = 0 /\ \A k \in 0..Len(t) : depth(k) >= 0

\* A subarray of the last dimension holds the elements.
Pairs(shape) == IF Len(shape) = 1 THEN 1 ELSE Structure(shape)[Len(shape) - 1].all
CommentsNest ==
  text # <<>> => Nested(text) /\ Upto(text, Len(text), {Open}) = Pairs(matrix.shape)

\* The instructions are an initializer list as well; there is one for each element.
CodeIsList == code # <<>> => Size(matrix.shape) # 0 /\ IsList(code, matrix)

\* A C compiler reads back the arrays that were written (c_gen.py:155-242), if
\* they have elements; of the others it reads no number.
TextCorrect == MatrixIsList /\ SignsSurvive /\ CommentsNest /\ CodeIsList
=============================================================================
