--------------------------- MODULE Conv1dTb_proofs ---------------------------
(***************************************************************************)
(* Proofs about Conv1dTb: the verdict of the testbench is right, for every *)
(* problem, every tile geometry and every time limit of the watchdog.      *)
(* The steps that load and run a tile are those of ConvHw, and so is the   *)
(* invariant of the data as long as the device works; what is new is that  *)
(* storing the padding channels of a partial tile spoils no other output,  *)
(* and how the errors and the watchdog's cycles are counted.               *)
(***************************************************************************)
EXTENDS Conv1dTb, ConvHw_proofs

\* The program is at a tile; the device has not failed.
AtTile  == pc \in {"copy_inputs", "copy_weights", "run", "read_outputs"}
Working == fault \subseteq {"late"}

\* The ranges of the counters and the shapes of the arrays.
TbTypes ==
  /\ shape \in Shapes
  /\ pc \in {"copy_inputs", "copy_weights", "run", "read_outputs", "compare", "end"}
  /\ cout_tile \in 0..num_cout_tiles
  /\ t_tile \in 0..num_t_tiles - 1 /\ cin_tile \in 0..num_cin_tiles - 1
  /\ DOMAIN scratchpad = Address
  /\ DOMAIN output_data = 0..total_outputs - 1
  /\ data_idx \in 0..total_outputs
  /\ errors \in Nat /\ err_num \in Nat /\ watchdog \in Nat /\ waited \in Nat

\* Nothing is compared before the last tile is stored, and an error of the
\* scoreboard ends the program.
TbLoop ==
  /\ AtTile => cout_tile < num_cout_tiles /\ data_idx = 0 /\ errors = 0
  /\ pc = "read_outputs" => cin_tile = num_cin_tiles - 1
  /\ pc = "compare" => cout_tile = num_cout_tiles /\ data_idx < total_outputs
  /\ pc # "end" => err_num = 0

\* A working device leaves the data of ConvHw, and no mismatch.
TbData ==
  Working => /\ AtTile => HwInv
             /\ pc = "compare" => OutputInv
             /\ errors = 0

\* The ways to the end, and the verdict printed there.
TbVerdict ==
  /\ pc = "end" /\ err_num = 0 /\ "time" \notin fault => data_idx = total_outputs
  /\ verdict # None => /\ pc = "end"
                       /\ verdict = IF err_num > 0 THEN "FAILED" ELSE "PASSED"

\* While the device is neither late nor faulty, the watchdog counts the cycles
\* of the present run, or of the comparison, and no others.
TbWatchdog ==
  fault = {} => /\ AtTile => watchdog = waited
                /\ AtTile /\ pc # "run" => waited = 0
                /\ pc = "compare" => waited = 0
                /\ pc = "compare" => watchdog = data_idx
                /\ total_outputs <= WATCHDOG_TIMEOUT + 1 => err_num = 0

\* The inductive invariant of the testbench.
TbInv == TbTypes /\ TbLoop /\ TbData /\ TbVerdict /\ TbWatchdog /\ StoresInside

-----------------------------------------------------------------------------
(* The outputs, their places and the stores of step 7.                     *)

\* Division takes a flat index apart into its row and column.
LEMMA Division ==
  ASSUME NEW n \in Nat \ {0}, NEW c \in Nat, NEW i \in Nat, i < c * n
  PROVE  \E q \in 0..c-1, r \in 0..n-1 : q = i \div n /\ r = i % n /\ q * n + r = i
  <1> DEFINE q == i \div n
             r == i % n
  <1>1. q \in Int /\ r \in 0..n-1 /\ i = n * q + r
    BY SMT
  <1>. HIDE DEF q, r
  <1>2. n * q = q * n /\ q * n \in Int /\ c * n \in Int
    BY <1>1, SMT
  <1>3. q >= 0
    <2> SUFFICES ASSUME q < 0 PROVE FALSE
      BY <1>1
    <2>1. 0 - q - 1 \in Nat
      BY <1>1
    <2>2. (0 - q - 1) * n >= 0 /\ (0 - q - 1) * n = 0 - q * n - n
      BY <2>1, <1>1, SMT
    <2>. QED  BY <2>2, <1>1, <1>2
  <1>4. q < c
    <2> SUFFICES ASSUME c <= q PROVE FALSE
      BY <1>1
    <2>1. c * n <= q * n
      BY <1>1, <1>3, ProductOrder
    <2>. QED  BY <2>1, <1>1, <1>2
  <1>5. q \in 0..c-1 /\ q * n + r = i
    BY <1>1, <1>2, <1>3, <1>4
  <1>6. q = i \div n /\ r = i % n
    BY DEF q, r
  <1>. QED  BY <1>1, <1>5, <1>6

\* There is an output to compare.
LEMMA TotalOutputs ==
  ASSUME shape \in Shapes
  PROVE  total_outputs \in Nat \ {0}
  <1> DEFINE c == shape.output_ch
             n == output_len
  <1>1. c \in Nat \ {0} /\ n \in Nat \ {0} /\ total_outputs = c * n
    BY ShapeFacts DEF total_outputs
  <1>. HIDE DEF c, n
  <1>2. c * n \in Nat /\ 1 * n <= c * n /\ 1 * n = n
    BY <1>1, ProductOrder, SMT
  <1>. QED  BY <1>1, <1>2

\* Each of them is a sample of a channel, and the golden model's is its.
LEMMA OutputPlaced ==
  ASSUME shape \in Shapes, NEW i \in 0..total_outputs-1
  PROVE  \E m \in 0..shape.output_ch-1, t \in 0..output_len-1 :
           m * output_len + t = i /\ Expected(i) = Reference(m, t, shape.input_ch)
  <1>1. output_len \in Nat \ {0} /\ shape.output_ch \in Nat /\ i \in Nat
        /\ i < shape.output_ch * output_len
    BY ShapeFacts, TotalOutputs DEF total_outputs
  <1>2. PICK m \in 0..shape.output_ch-1, t \in 0..output_len-1 :
          m = i \div output_len /\ t = i % output_len /\ m * output_len + t = i
    BY <1>1, Division
  <1>3. Expected(i) = Reference(m, t, shape.input_ch)
    BY <1>2 DEF Expected
  <1>. QED  BY <1>2, <1>3

\* Everything that only depends on the problem.
LEMMA SameShape ==
  ASSUME shape' = shape
  PROVE  /\ UNCHANGED <<output_len, total_outputs, num_cin_tiles, num_cout_tiles, num_t_tiles>>
         /\ \A i : Expected(i)' = Expected(i)
  BY DEF output_len, total_outputs, num_cin_tiles, num_cout_tiles, num_t_tiles, Expected,
         Reference, InData, Filter

\* At a tile, the loops are inside the problem.
LEMMA TbInTile ==
  ASSUME TbInv, AtTile
  PROVE  InTile
  BY ShapeFacts DEF TbInv, TbTypes, TbLoop, InTile

\* A number of channels that fills the tiles has no partial tile.
LEMMA FilledTiles ==
  ASSUME InTile, shape.output_ch % TILE_COUT = 0
  PROVE  actual_cout = TILE_COUT
  <1>1. m_start \in Nat /\ actual_cout \in 1..TILE_COUT /\ m_start + actual_cout <= shape.output_ch
        /\ shape.output_ch \in Nat /\ cout_tile \in Nat
    BY TileFacts, ShapeFacts DEF InTile
  <1>2. CASE TILE_COUT = 1
    BY <1>1, <1>2
  <1>3. CASE TILE_COUT = 2
    <2>1. m_start = cout_tile * 2
      BY <1>3 DEF m_start, Start
    <2>2. actual_cout = (IF m_start + 2 > shape.output_ch THEN shape.output_ch
                         ELSE m_start + 2) - m_start
      BY <1>3 DEF actual_cout, Actual, m_start
    <2>3. shape.output_ch % 2 = 0
      BY <1>3
    <2>. QED  BY <1>1, <1>3, <2>1, <2>2, <2>3
  <1>. QED  BY <1>2, <1>3, Sizes

\* Then no store leaves computed_outputs.
LEMMA NoOverrun ==
  ASSUME InTile, shape.output_ch % TILE_COUT = 0, NEW o \in Stored
  PROVE  OutputIndex(o[1], o[2]) \in 0..total_outputs - 1
  <1> DEFINE m == m_start + o[1]
             t == t_start + o[2]
  <1>1. /\ m_start \in Nat /\ m_start + actual_cout <= shape.output_ch /\ actual_cout = TILE_COUT
        /\ t_start \in Nat /\ actual_t_samples \in 1..TILE_T
        /\ t_start + actual_t_samples <= output_len
        /\ output_len \in Nat /\ shape.output_ch \in Nat
    BY TileFacts, ShapeFacts, FilledTiles DEF InTile
  <1>2. o[1] \in 0..TILE_COUT-1 /\ o[2] \in 0..TILE_T-1 /\ o[2] < actual_t_samples
    BY DEF Stored, WholeTile
  <1>3. m \in 0..shape.output_ch-1 /\ t \in 0..output_len-1
    BY <1>1, <1>2, Sizes
  <1>4. OutputIndex(o[1], o[2]) = m * output_len + t
    BY DEF OutputIndex
  <1>. HIDE DEF m, t
  <1>5. m * output_len + t \in 0..shape.output_ch * output_len - 1
    BY <1>1, <1>3, DigitsBelow
  <1>. QED  BY <1>4, <1>5 DEF total_outputs

\* The index tested in step 7 takes in every valid output.
LEMMA StoredOutputs ==
  ASSUME InTile
  PROVE  TileOutputs \subseteq Stored /\ Stored \subseteq {o \in WholeTile : o[2] < actual_t_samples}
  BY TileFacts, Sizes DEF Stored, TileOutputs, WholeTile

\* What a comparison finds when the device has worked.
LEMMA ExpectedFound ==
  ASSUME TbInv, Working, pc = "compare"
  PROVE  output_data[data_idx] = Expected(data_idx)
  <1>1. shape \in Shapes /\ cout_tile = num_cout_tiles /\ OutputInv
        /\ data_idx \in 0..total_outputs /\ data_idx < total_outputs
    BY DEF TbInv, TbTypes, TbLoop, TbData
  <1>2. data_idx \in 0..total_outputs-1
    BY <1>1, TotalOutputs
  <1>3. PICK m \in 0..shape.output_ch-1, t \in 0..output_len-1 :
          /\ m * output_len + t = data_idx
          /\ Expected(data_idx) = Reference(m, t, shape.input_ch)
    BY <1>1, <1>2, OutputPlaced
  <1>4. output_data[m * output_len + t] = Reference(m, t, shape.input_ch)
    BY <1>1, AllAssigned DEF OutputInv
  <1>. QED  BY <1>3, <1>4

-----------------------------------------------------------------------------
(* One lemma for each step of the program.                                 *)

\* Only step 7 stores.
LEMMA NothingStored ==
  ASSUME TbInv, UNCHANGED <<shape, overrun>>
  PROVE  StoresInside'
  BY DEF TbInv, StoresInside

\* The testbench starts in the invariant.
LEMMA InitTb ==
  ASSUME TbInit
  PROVE  TbInv
  <1>1. HwInv
    BY InitHw DEF TbInit
  <1>2. /\ pc = "copy_inputs" /\ data_idx = 0 /\ errors = 0 /\ err_num = 0 /\ watchdog = 0 /\ waited = 0
        /\ overrun = {} /\ fault = {} /\ verdict = None
    BY DEF TbInit, Init
  <1>3. shape \in Shapes
    BY DEF TbInit, Init
  <1>4. TbTypes /\ TbLoop
    BY <1>1, <1>2, <1>3, TotalOutputs DEF HwInv, TypeOK, LoopInv, TbTypes, TbLoop, AtTile, total_outputs
  <1>5. TbData
    BY <1>1, <1>2 DEF TbData
  <1>6. TbVerdict /\ TbWatchdog
    BY <1>2 DEF TbVerdict, TbWatchdog
  <1>7. StoresInside
    BY <1>2 DEF StoresInside
  <1>. QED  BY <1>4, <1>5, <1>6, <1>7 DEF TbInv

\* Loading a tile, or running it, is a step of ConvHw.
LEMMA TileStepTb ==
  ASSUME TbInv,
         \/ (CopyInputs \/ CopyWeights) /\ UNCHANGED <<watchdog, waited>>
         \/ RunTile /\ watchdog' = 0 /\ waited' = 0,
         UNCHANGED <<data_idx, errors, err_num, overrun, fault, verdict>>
  PROVE  TbInv'
  <1>1. /\ AtTile /\ AtTile' /\ pc # "end" /\ pc' \notin {"compare", "end"}
        /\ UNCHANGED <<shape, cout_tile, t_tile, output_data>> /\ DOMAIN scratchpad' = Address
    BY DEF CopyInputs, CopyWeights, RunTile, Store, AtTile
  <1>2. UNCHANGED <<output_len, total_outputs, num_cin_tiles, num_cout_tiles, num_t_tiles>>
    BY <1>1, SameShape
  <1>3. /\ cin_tile' \in 0..num_cin_tiles-1
        /\ pc' = "read_outputs" => cin_tile' = num_cin_tiles - 1
    <2>1. cin_tile \in 0..num_cin_tiles-1 /\ num_cin_tiles \in Nat
      BY ShapeFacts DEF TbInv, TbTypes
    <2>2. CASE CopyInputs \/ CopyWeights
      BY <2>1, <2>2 DEF CopyInputs, CopyWeights
    <2>3. CASE RunTile
      BY <2>1, <2>3 DEF RunTile, MorePasses, NextPass
    <2>. QED  BY <2>2, <2>3
  <1>4. TbTypes'
    BY <1>1, <1>2, <1>3 DEF TbInv, TbTypes, AtTile
  <1>5. TbLoop'
    BY <1>1, <1>2, <1>3 DEF TbInv, TbLoop
  <1>6. TbData'
    <2>1. HwInv => HwInv'
      BY CopyInputsHw, CopyWeightsHw, RunTileHw
    <2>. QED  BY <1>1, <2>1 DEF TbInv, TbData, Working
  <1>7. TbVerdict' /\ TbWatchdog'
    <2>1. fault = {} => watchdog' = waited' /\ waited' = 0
      <3>1. CASE CopyInputs \/ CopyWeights
        BY <1>1, <3>1 DEF TbInv, TbWatchdog, CopyInputs, CopyWeights, RunTile
      <3>2. CASE RunTile
        BY <3>2 DEF RunTile, CopyInputs, CopyWeights
      <3>. QED  BY <3>1, <3>2
    <2>. QED  BY <1>1, <1>2, <2>1 DEF TbInv, TbVerdict, TbWatchdog
  <1>. QED  BY <1>1, <1>4, <1>5, <1>6, <1>7, NothingStored DEF TbInv

\* A wrong output is the end of a working device.
LEMMA WrongOutputTb ==
  ASSUME TbInv, WrongOutput
  PROVE  TbInv'
  <1>1. /\ pc = "read_outputs" /\ fault' = {"wrong"} /\ DOMAIN scratchpad' = DOMAIN scratchpad
        /\ UNCHANGED <<shape, cout_tile, t_tile, cin_tile, pc, output_data>>
        /\ UNCHANGED <<data_idx, errors, err_num, watchdog, waited, overrun, verdict>>
    BY DEF WrongOutput
  <1>2. UNCHANGED <<output_len, total_outputs, num_cin_tiles, num_cout_tiles, num_t_tiles>>
    BY <1>1, SameShape
  <1>3. TbTypes' /\ TbLoop'
    BY <1>1, <1>2 DEF TbInv, TbTypes, TbLoop, AtTile
  <1>4. TbData' /\ TbVerdict' /\ TbWatchdog'
    BY <1>1, <1>2 DEF TbInv, TbData, TbVerdict, TbWatchdog, Working
  <1>. QED  BY <1>1, <1>3, <1>4, NothingStored DEF TbInv

\* So is a hang.
LEMMA HangTb ==
  ASSUME TbInv, Hang
  PROVE  TbInv'
  <1>1. /\ pc = "run" /\ fault' = {"hang"}
        /\ UNCHANGED <<shape, cout_tile, t_tile, cin_tile, pc, scratchpad, output_data>>
        /\ UNCHANGED <<data_idx, errors, err_num, watchdog, waited, overrun, verdict>>
    BY DEF Hang, vars
  <1>2. UNCHANGED <<output_len, total_outputs, num_cin_tiles, num_cout_tiles, num_t_tiles>>
    BY <1>1, SameShape
  <1>3. TbTypes' /\ TbLoop'
    BY <1>1, <1>2 DEF TbInv, TbTypes, TbLoop, AtTile
  <1>4. TbData' /\ TbVerdict' /\ TbWatchdog'
    BY <1>1, <1>2 DEF TbInv, TbData, TbVerdict, TbWatchdog, Working
  <1>. QED  BY <1>1, <1>3, <1>4, NothingStored DEF TbInv

\* The time limit ends the program, and says so.
LEMMA TimeLimitTb ==
  ASSUME TbInv, TimeLimit
  PROVE  TbInv'
  <1>1. /\ pc # "end" /\ pc' = "end" /\ fault' = fault \cup {"time"}
        /\ UNCHANGED <<shape, cout_tile, t_tile, cin_tile, scratchpad, output_data>>
        /\ UNCHANGED <<data_idx, errors, err_num, watchdog, waited, overrun, verdict>>
    BY DEF TimeLimit
  <1>2. UNCHANGED <<output_len, total_outputs, num_cin_tiles, num_cout_tiles, num_t_tiles>>
    BY <1>1, SameShape
  <1>3. TbTypes' /\ TbLoop'
    BY <1>1, <1>2 DEF TbInv, TbTypes, TbLoop, AtTile
  <1>4. ~Working' /\ fault' # {} /\ "time" \in fault'
    BY <1>1 DEF Working
  <1>5. TbData' /\ TbVerdict' /\ TbWatchdog'
    BY <1>1, <1>4 DEF TbInv, TbData, TbVerdict, TbWatchdog
  <1>. QED  BY <1>1, <1>3, <1>5, NothingStored DEF TbInv

\* Waiting costs a cycle of the watchdog.
LEMMA WaitTb ==
  ASSUME TbInv, Wait
  PROVE  TbInv'
  <1>1. /\ pc = "run" /\ watchdog' = watchdog + 1 /\ waited' = waited + 1
        /\ fault' = fault \cup (IF waited' > WATCHDOG_TIMEOUT THEN {"late"} ELSE {})
        /\ UNCHANGED <<shape, cout_tile, t_tile, cin_tile, scratchpad, output_data>>
        /\ UNCHANGED <<data_idx, errors, overrun, verdict>>
        /\ \/ watchdog' > WATCHDOG_TIMEOUT /\ err_num' = err_num + 1 /\ pc' = "end"
           \/ err_num' = err_num /\ pc' = pc
    BY DEF Wait, SameStep, Expired
  <1>2. UNCHANGED <<output_len, total_outputs, num_cin_tiles, num_cout_tiles, num_t_tiles>>
    BY <1>1, SameShape
  <1>3. err_num = 0 /\ verdict = None /\ errors = 0 /\ watchdog \in Nat /\ waited \in Nat
    BY <1>1 DEF TbInv, TbLoop, TbVerdict, TbTypes, AtTile
  <1>4. TbTypes'
    BY <1>1, <1>2, <1>3 DEF TbInv, TbTypes
  <1>5. TbLoop'
    BY <1>1, <1>2, <1>3 DEF TbInv, TbLoop, AtTile
  <1>6. /\ Working' => Working
        /\ fault' = {} => fault = {} /\ ~(waited' > WATCHDOG_TIMEOUT)
    BY <1>1 DEF Working
  <1>7. TbData'
    <2>1. CASE pc' = "end"
      BY <2>1, <1>1, <1>3 DEF TbData, AtTile
    <2>2. CASE pc' = pc
      <3>1. Working => HwInv
        BY <1>1 DEF TbInv, TbData, AtTile
      <3>2. UNCHANGED vars
        BY <1>1, <2>2 DEF vars
      <3>3. HwInv => HwInv'
        BY <3>2, StutterHw
      <3>. QED  BY <3>1, <3>3, <1>1, <1>3, <1>6, <2>2 DEF TbData
    <2>. QED  BY <2>1, <2>2, <1>1
  <1>8. TbVerdict'
    BY <1>1, <1>3 DEF TbVerdict
  <1>9. TbWatchdog'
    <2> SUFFICES ASSUME fault' = {}
                 PROVE  watchdog' = waited' /\ pc' = "run" /\ err_num' = 0
      BY DEF TbWatchdog
    <2>1. watchdog = waited
      BY <1>1, <1>6 DEF TbInv, TbWatchdog, AtTile
    <2>2. watchdog' = waited'
      BY <1>1, <2>1
    <2>. QED  BY <1>1, <1>3, <1>6, <2>2
  <1>. QED  BY <1>1, <1>4, <1>5, <1>7, <1>8, <1>9, NothingStored DEF TbInv

\* Storing a tile makes its outputs right, the last one all of them.
LEMMA ReadTileTb ==
  ASSUME TbInv, ReadTile
  PROVE  TbInv'
  <1> DEFINE last_t == t_tile + 1 = num_t_tiles
  <1>1. /\ pc = "read_outputs" /\ UNCHANGED <<shape, scratchpad, data_idx, errors, err_num, waited, fault, verdict>>
        /\ cin_tile' = 0 /\ watchdog' = 0
        /\ t_tile' = IF last_t THEN 0 ELSE t_tile + 1
        /\ cout_tile' = IF last_t THEN cout_tile + 1 ELSE cout_tile
        /\ pc' = IF last_t /\ cout_tile + 1 = num_cout_tiles THEN "compare" ELSE "copy_inputs"
        /\ output_data' = ReadBack(Stored)
        /\ DOMAIN output_data' = DOMAIN output_data
        /\ overrun' = overrun \cup ({OutputIndex(o[1], o[2]) : o \in Stored} \ DOMAIN output_data)
    BY DEF ReadTile, ReadBack
  <1>2. InTile /\ AtTile /\ shape \in Shapes
    BY <1>1, TbInTile DEF AtTile, InTile
  <1>3. UNCHANGED <<output_len, total_outputs, num_cin_tiles, num_cout_tiles, num_t_tiles>>
    BY <1>1, SameShape
  <1>4. /\ cout_tile \in 0..num_cout_tiles-1 /\ t_tile \in 0..num_t_tiles-1
        /\ num_cin_tiles \in Nat \ {0} /\ num_cout_tiles \in Nat \ {0}
        /\ num_t_tiles \in Nat \ {0} /\ total_outputs \in Nat \ {0}
        /\ data_idx = 0 /\ errors = 0 /\ err_num = 0 /\ verdict = None
    BY <1>1, <1>2, ShapeFacts, TotalOutputs DEF InTile, TbInv, TbLoop, TbVerdict
  <1>5. TbTypes'
    <2>1. /\ cout_tile' \in 0..num_cout_tiles /\ t_tile' \in 0..num_t_tiles-1
          /\ cin_tile' \in 0..num_cin_tiles-1
      BY <1>1, <1>4
    <2>2. pc' \in {"copy_inputs", "compare"}
      BY <1>1
    <2>. QED  BY <1>1, <1>3, <2>1, <2>2 DEF TbInv, TbTypes
  <1>6. TbLoop'
    BY <1>1, <1>3, <1>4 DEF TbLoop, AtTile
  <1>7. Working => OutputInv'
    <2>1. ASSUME Working
          PROVE  /\ DOMAIN output_data = 0..shape.output_ch * output_len - 1
                 /\ SumsHold(shape.input_ch) /\ OutputInv
      BY <2>1, <1>1, <1>2 DEF TbInv, TbData, HwInv, TypeOK, SumInv
    <2>. QED  BY <2>1, <1>1, <1>2, StoredOutputs, OutputsGrow
  <1>8. TbData'
    <2>1. ASSUME pc' = "copy_inputs", OutputInv' PROVE HwInv'
      <3>1. TypeOK'
        BY <2>1, <1>5 DEF TbTypes, TypeOK, total_outputs
      <3>2. LoopInv'
        BY <2>1, <1>6 DEF TbLoop, LoopInv, AtTile
      <3>3. CopyInv' /\ SumInv'
        BY <2>1, <1>1 DEF CopyInv, SumInv
      <3>. QED  BY <2>1, <3>1, <3>2, <3>3 DEF HwInv
    <2>2. Working' <=> Working
      BY <1>1 DEF Working
    <2>3. (AtTile' => pc' = "copy_inputs") /\ errors' = 0
      BY <1>1, <1>4 DEF AtTile
    <2>. QED  BY <1>7, <2>1, <2>2, <2>3 DEF TbData
  <1>9. TbVerdict' /\ TbWatchdog'
    <2>1. fault = {} => waited = 0
      BY <1>1, <1>2 DEF TbInv, TbWatchdog
    <2>. QED  BY <1>1, <1>4, <2>1 DEF TbVerdict, TbWatchdog
  <1>10. StoresInside'
    <2> SUFFICES ASSUME shape.output_ch % TILE_COUT = 0 PROVE overrun' = {}
      BY <1>1 DEF StoresInside
    <2>1. overrun = {} /\ DOMAIN output_data = 0..total_outputs-1
      BY DEF TbInv, StoresInside, TbTypes
    <2>2. \A o \in Stored : OutputIndex(o[1], o[2]) \in 0..total_outputs-1
      BY <1>2, NoOverrun
    <2>. QED  BY <1>1, <2>1, <2>2
  <1>. QED  BY <1>5, <1>6, <1>8, <1>9, <1>10 DEF TbInv

\* A comparison finds what it expects of a working device, and is not timed out
\* when there are no more outputs than the watchdog allows.
LEMMA CompareTb ==
  ASSUME TbInv, Compare
  PROVE  TbInv'
  <1>1. /\ pc = "compare" /\ data_idx' = data_idx + 1
        /\ errors' = errors + (IF output_data[data_idx] # Expected(data_idx) THEN 1 ELSE 0)
        /\ UNCHANGED <<shape, cout_tile, t_tile, cin_tile, scratchpad, output_data>>
        /\ UNCHANGED <<waited, overrun, fault, verdict>>
    BY DEF Compare
  <1>2. /\ \/ LastOutput /\ watchdog' = 0 /\ pc' = "end" /\ err_num' = err_num
           \/ ~LastOutput /\ watchdog' = watchdog + 1 /\ Expired(watchdog + 1)
              /\ err_num' = err_num + 1 /\ pc' = "end"
           \/ ~LastOutput /\ watchdog' = watchdog + 1 /\ ~Expired(watchdog + 1)
              /\ err_num' = err_num /\ pc' = pc
    BY DEF Compare, SameStep
  <1>3. UNCHANGED <<output_len, total_outputs, num_cin_tiles, num_cout_tiles, num_t_tiles>>
    BY <1>1, SameShape
  <1>4. /\ shape \in Shapes /\ total_outputs \in Nat /\ data_idx \in Nat /\ data_idx < total_outputs
        /\ cout_tile = num_cout_tiles
        /\ errors \in Nat /\ err_num = 0 /\ watchdog \in Nat /\ waited \in Nat
        /\ verdict = None
    BY <1>1, TotalOutputs DEF TbInv, TbTypes, TbLoop, TbVerdict
  <1>5. data_idx' \in 0..total_outputs /\ errors' \in Nat /\ err_num' \in Nat
        /\ watchdog' \in Nat /\ waited' \in Nat /\ pc' \in {"compare", "end"}
    BY <1>1, <1>2, <1>4
  <1>6. TbTypes'
    BY <1>1, <1>3, <1>5 DEF TbInv, TbTypes
  <1>7. TbLoop'
    <2>1. ~AtTile' /\ pc' # "read_outputs"
      BY <1>5 DEF AtTile
    <2>2. pc' = "compare" => data_idx' < total_outputs /\ err_num' = 0
      BY <1>1, <1>2, <1>4 DEF LastOutput
    <2>. QED  BY <1>1, <1>3, <1>4, <1>5, <2>1, <2>2 DEF TbLoop
  <1>8. TbData'
    <2>1. ~AtTile' /\ (Working' <=> Working)
      BY <1>1, <1>5 DEF AtTile, Working
    <2>2. Working => OutputInv /\ errors = 0
      BY <1>1 DEF TbInv, TbData
    <2>3. OutputInv => OutputInv'
      BY <1>1, SameTile DEF OutputInv
    <2>4. Working => errors' = 0
      BY <1>1, <2>2, ExpectedFound
    <2>. QED  BY <2>1, <2>2, <2>3, <2>4 DEF TbData
  <1>9. TbVerdict'
    BY <1>1, <1>2, <1>3, <1>4 DEF TbVerdict, LastOutput
  <1>10. TbWatchdog'
    <2>1. ~AtTile'
      BY <1>5 DEF AtTile
    <2>2. fault = {} => watchdog = data_idx /\ waited = 0
      BY <1>1 DEF TbInv, TbWatchdog
    <2>. QED
      BY <1>1, <1>2, <1>3, <1>4, <2>1, <2>2, WatchdogAssumption DEF TbWatchdog, LastOutput, Expired
  <1>. QED  BY <1>1, <1>6, <1>7, <1>8, <1>9, <1>10, NothingStored DEF TbInv

\* The verdict is the scoreboard's.
LEMMA SummaryTb ==
  ASSUME TbInv, Summary
  PROVE  TbInv'
  <1>1. /\ pc = "end" /\ verdict' = IF err_num > 0 THEN "FAILED" ELSE "PASSED"
        /\ UNCHANGED <<shape, cout_tile, t_tile, cin_tile, pc, scratchpad, output_data>>
        /\ UNCHANGED <<data_idx, errors, err_num, watchdog, waited, overrun, fault>>
    BY DEF Summary, vars
  <1>2. UNCHANGED <<output_len, total_outputs, num_cin_tiles, num_cout_tiles, num_t_tiles>>
    BY <1>1, SameShape
  <1>3. TbTypes' /\ TbLoop'
    BY <1>1, <1>2 DEF TbInv, TbTypes, TbLoop, AtTile
  <1>4. TbData' /\ TbWatchdog'
    BY <1>1, <1>2 DEF TbInv, TbData, TbWatchdog, Working, AtTile
  <1>5. TbVerdict'
    BY <1>1, <1>2 DEF TbInv, TbVerdict
  <1>. QED  BY <1>1, <1>3, <1>4, <1>5, NothingStored DEF TbInv

\* Nothing else is read.
LEMMA StutterTb ==
  ASSUME TbInv, UNCHANGED tbvars
  PROVE  TbInv'
  <1>1. /\ UNCHANGED <<shape, cout_tile, t_tile, cin_tile, pc, scratchpad, output_data>>
        /\ UNCHANGED <<data_idx, errors, err_num, watchdog, waited, overrun, fault, verdict>>
        /\ UNCHANGED vars
    BY DEF tbvars, vars, tb
  <1>2. UNCHANGED <<output_len, total_outputs, num_cin_tiles, num_cout_tiles, num_t_tiles>>
    BY <1>1, SameShape
  <1>3. TbTypes' /\ TbLoop'
    BY <1>1, <1>2 DEF TbInv, TbTypes, TbLoop, AtTile
  <1>4. TbData'
    <2>1. HwInv => HwInv'
      BY <1>1, StutterHw
    <2>2. OutputInv => OutputInv'
      BY <1>1, SameTile DEF OutputInv
    <2>. QED  BY <1>1, <2>1, <2>2 DEF TbInv, TbData, Working, AtTile
  <1>5. TbVerdict' /\ TbWatchdog'
    BY <1>1, <1>2 DEF TbInv, TbVerdict, TbWatchdog, AtTile
  <1>. QED  BY <1>1, <1>3, <1>4, <1>5, NothingStored DEF TbInv

-----------------------------------------------------------------------------
(* The theorems.                                                           *)

\* The invariant of the testbench (conv1d_tb.cpp): what is stored of each tile,
\* and the ways the program ends.
THEOREM TestbenchInvariant == TbSpec => []TbInv
  <1>1. TbInit => TbInv
    BY InitTb
  <1>2. TbInv /\ [TbNext]_tbvars => TbInv'
    <2> SUFFICES ASSUME TbInv, [TbNext]_tbvars PROVE TbInv'
      OBVIOUS
    <2>1. CASE LoadTile
      BY <2>1, TileStepTb DEF LoadTile, tb
    <2>2. CASE Run
      BY <2>2, TileStepTb DEF Run
    <2>3. CASE Wait
      BY <2>3, WaitTb
    <2>4. CASE ReadTile
      BY <2>4, ReadTileTb
    <2>5. CASE Compare
      BY <2>5, CompareTb
    <2>6. CASE Summary
      BY <2>6, SummaryTb
    <2>7. CASE Hang
      BY <2>7, HangTb
    <2>8. CASE WrongOutput
      BY <2>8, WrongOutputTb
    <2>9. CASE TimeLimit
      BY <2>9, TimeLimitTb
    <2>10. CASE UNCHANGED tbvars
      BY <2>10, StutterTb
    <2>. QED
      BY <2>1, <2>2, <2>3, <2>4, <2>5, <2>6, <2>7, <2>8, <2>9, <2>10 DEF TbNext, Cycle
  <1>. QED  BY <1>1, <1>2, PTL DEF TbSpec

\* The verdict of the testbench is right: no mismatch and no alarm for a device
\* that works, no pass without a complete comparison, no store out of bounds
\* when the channels fill the tiles (conv1d_tb.cpp:346-360, 397-425, 458-464).
THEOREM VerdictCorrect == TbSpec => []VerdictRight
  <1>1. TbInv => VerdictRight
    <2> SUFFICES ASSUME TbInv PROVE VerdictRight
      OBVIOUS
    <2>1. NoFalseMismatch
      BY DEF TbInv, TbData, Working, NoFalseMismatch
    <2>2. AllCompared
      <3> SUFFICES ASSUME verdict = "PASSED", "time" \notin fault PROVE data_idx = total_outputs
        BY DEF AllCompared
      <3>1. pc = "end" /\ err_num \in Nat /\ ~(err_num > 0)
        BY NoneAssumption DEF TbInv, TbVerdict, TbTypes
      <3>2. err_num = 0
        BY <3>1
      <3>. QED  BY <3>1, <3>2 DEF TbInv, TbVerdict
    <2>3. NoFalseAlarm
      <3> SUFFICES ASSUME fault = {}, total_outputs <= WATCHDOG_TIMEOUT + 1, verdict = "FAILED"
                   PROVE  FALSE
        BY DEF NoFalseAlarm
      <3>1. err_num = 0
        BY DEF TbInv, TbWatchdog
      <3>2. err_num > 0
        BY NoneAssumption DEF TbInv, TbVerdict
      <3>. QED  BY <3>1, <3>2
    <2>4. StoresInside
      BY DEF TbInv
    <2>. QED  BY <2>1, <2>2, <2>3, <2>4 DEF VerdictRight
  <1>. QED  BY <1>1, TestbenchInvariant, PTL
=============================================================================
