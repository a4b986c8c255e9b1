------------------------------- MODULE Soc_proofs -------------------------------
(***************************************************************************)
(* The parts of the SoC beside the accelerator: the demultiplexer for any  *)
(* set of targets and any width of its counter, the folded memory for any  *)
(* number of rows and any words, the counter peripheral for any width.     *)
(***************************************************************************)
EXTENDS ObiDemux, TcSramImpl, SimpleCnt, TLAPS

-----------------------------------------------------------------------------
(* ObiDemux: the type invariant, the single target and the exact count     *)
(* hold together.                                                          *)

DemuxInv == TypeOK /\ SingleTarget /\ CountExact

\* The reset state has nothing in flight.
LEMMA InitDemuxInv == Init => DemuxInv
BY TargetAssumption, RoomAssumption DEF Init, DemuxInv, TypeOK, SingleTarget, CountExact

\* Below the overflow bit the count is what the demultiplexer sees.
LEMMA CountSeen ==
  ASSUME TypeOK, CountExact
  PROVE  /\ overflow <=> counter_q = Room
         /\ ~overflow => in_flight = counter_q
         /\ counter_q \in Nat
BY RoomAssumption, SMT DEF TypeOK, CountExact, overflow, in_flight

\* What the counter becomes, when the count is exact and a grant keeps to the
\* limit.
LEMMA CountStep ==
  ASSUME TypeOK, CountExact
  PROVE  \A up, down \in BOOLEAN :
           (up => counter_q < Room) /\ (down => counter_q > 0) =>
             Counted(up, down) = (counter_q + (IF up THEN 1 ELSE 0)) - (IF down THEN 1 ELSE 0)
<1> TAKE up, down \in BOOLEAN
<1> HAVE (up => counter_q < Room) /\ (down => counter_q > 0)
<1>1. counter_q \in Nat /\ counter_q <= Room /\ Room \in Nat /\ Room > 1
  BY RoomAssumption DEF TypeOK, CountExact
<1>2. CASE up /\ ~down
  <2>1. (counter_q + 1) % (2 * Room) = counter_q + 1
    BY <1>1, <1>2, SMT
  <2>2. QED BY <1>1, <1>2, <2>1, SMT DEF Counted
<1>3. CASE down /\ ~up
  <2>1. counter_q + 2 * Room - 1 = 2 * Room + (counter_q - 1)
    BY <1>1, SMT
  <2>2. counter_q - 1 \in Nat /\ counter_q - 1 < 2 * Room
    BY <1>1, <1>3, SMT
  <2>3. (counter_q + 2 * Room - 1) % (2 * Room) = counter_q - 1
    BY <1>1, <2>1, <2>2, SMTT(30)
  <2>4. QED BY <1>1, <1>3, <2>3, SMT DEF Counted
<1>4. CASE up <=> down
  BY <1>1, <1>4, SMT DEF Counted
<1>5. QED BY <1>2, <1>3, <1>4

\* A grant changes the target only when the last answer is in, or comes now.
LEMMA GrantSafe ==
  ASSUME DemuxInv
  PROVE  \A down \in BOOLEAN :
           Open(down) /\ (down => counter_q > 0) =>
             /\ counter_q < Room
             /\ waiting = select_q \/ counter_q = IF down THEN 1 ELSE 0
<1> TAKE down \in BOOLEAN
<1> HAVE Open(down) /\ (down => counter_q > 0)
<1>1. counter_q < Room /\ in_flight = counter_q
  BY CountSeen, RoomAssumption DEF DemuxInv, TypeOK, CountExact, Open, overflow
<1>2. QED BY <1>1 DEF Open

LEMMA CycleDemuxInv ==
  ASSUME DemuxInv, NEW gnt \in SUBSET Target, NEW rvalid \in SUBSET Answering, Cycle(gnt, rvalid)
  PROVE  DemuxInv'
<1> DEFINE down == select_q \in rvalid
           up   == waiting # None /\ Open(down) /\ waiting \in gnt
<1>1. TypeOK /\ SingleTarget /\ CountExact
  BY DEF DemuxInv
<1>2. rvalid \subseteq {select_q} /\ (down => counter_q > 0)
  BY <1>1 DEF Answering, SingleTarget, CountExact
<1>3. up \in BOOLEAN /\ down \in BOOLEAN /\ (up => waiting \in Target /\ Open(down))
  BY DEF Open
<1>4. up => counter_q < Room /\ (waiting = select_q \/ counter_q = IF down THEN 1 ELSE 0)
  BY <1>2, <1>3, GrantSafe
<1>5. counter_q' = (counter_q + (IF up THEN 1 ELSE 0)) - (IF down THEN 1 ELSE 0)
  <2>1. counter_q' = Counted(up, down)
    BY DEF Cycle
  <2>2. QED BY <1>1, <1>2, <1>4, <1>3, <2>1, CountStep
<1>6. /\ select_q' = IF up THEN waiting ELSE select_q
      /\ waiting' = IF up THEN None ELSE waiting
      /\ outstanding' =
           [t \in Target |-> (outstanding[t] + (IF up /\ t = waiting THEN 1 ELSE 0))
                             - (IF t \in rvalid THEN 1 ELSE 0)]
  BY DEF Cycle
<1> HIDE DEF up, down
<1>7. \A t \in Target : t # select_q => outstanding[t] = 0
  BY <1>1 DEF SingleTarget, TypeOK
<1>8. counter_q = outstanding[select_q] /\ counter_q <= Room /\ select_q \in Target
      /\ counter_q \in Nat /\ Room \in Nat /\ Room > 1
  BY <1>1, RoomAssumption DEF CountExact, TypeOK
<1>9. \A t \in Target : t \in rvalid <=> (t = select_q /\ down)
  BY <1>2 DEF down
<1>10. \A t \in Target : outstanding'[t] \in Nat
  BY <1>1, <1>2, <1>3, <1>6, <1>7, <1>8, <1>9, SMT DEF TypeOK
<1>11. TypeOK'
  <2>1. counter_q' \in 0..2 * Room - 1
    BY <1>2, <1>4, <1>5, <1>3, <1>8, SMT
  <2>2. outstanding' \in [Target -> Nat]
    BY <1>6, <1>10
  <2>3. QED BY <1>1, <1>3, <1>6, <2>1, <2>2 DEF TypeOK
<1>12. SingleTarget'
  BY <1>2, <1>4, <1>3, <1>6, <1>7, <1>8, <1>9, SMT DEF SingleTarget
<1>13. CountExact'
  BY <1>2, <1>4, <1>5, <1>3, <1>6, <1>7, <1>8, <1>9, SMT DEF CountExact
<1>14. QED BY <1>11, <1>12, <1>13 DEF DemuxInv

\* The next request and steps that change nothing.
LEMMA QuietDemuxInv ==
  ASSUME DemuxInv, Request \/ UNCHANGED vars
  PROVE  DemuxInv'
BY DEF DemuxInv, TypeOK, SingleTarget, CountExact, Request, vars

\* The inductive invariant of the demultiplexer.
THEOREM DemuxInvariant == Spec => []DemuxInv
<1>1. DemuxInv /\ [Next]_vars => DemuxInv'
  BY CycleDemuxInv, QuietDemuxInv DEF Next
<1>2. QED BY InitDemuxInv, <1>1, PTL DEF Spec

\* However many targets there are and however wide the counter is, answers
\* in flight are those of one target, so none is lost or comes out of order.
THEOREM SingleTargetCorrect == Spec => []SingleTarget
<1>1. DemuxInv => SingleTarget
  BY DEF DemuxInv
<1>2. QED BY DemuxInvariant, <1>1, PTL

\* The count is exact and never passes the limit.
THEOREM CountCorrect == Spec => []CountExact
<1>1. DemuxInv => CountExact
  BY DEF DemuxInv
<1>2. QED BY DemuxInvariant, <1>1, PTL

-----------------------------------------------------------------------------
(* TcSramImpl and Sram.                                                    *)

\* While `current`, both memories show the word of the last read, which is why
\* a register of the one follows the register of the other.
ShowsLastRead == current => rdata_o = LastRead

FoldedInv == MemoriesAgree /\ ShowsLastRead

\* An address is a row and a half, and no two addresses are the same ones.
LEMMA Split ==
  /\ \A a \in Address : a \div 2 \in Row /\ a % 2 \in Half
  /\ \A a, b \in Address : a \div 2 = b \div 2 /\ a % 2 = b % 2 => a = b
<1>1. \A a \in Address : a \in Nat /\ a = 2 * (a \div 2) + (a % 2) /\ a % 2 \in {0, 1} /\ a \div 2 \in Nat
  BY RowsAssumption, SMT DEF Address
<1>2. \A a \in Address : a \div 2 \in Row
  BY <1>1, RowsAssumption, SMT DEF Address, Row
<1>3. \A a, b \in Address : a \div 2 = b \div 2 /\ a % 2 = b % 2 => a = b
  BY <1>1
<1>4. QED BY <1>1, <1>2, <1>3 DEF Half

\* The address of the last read exists from the reset on.
LEMMA FirstAddress == 0 \in Address
BY RowsAssumption, SMT DEF Address

LEMMA WriteTypeOK ==
  ASSUME FoldedTypeOK, NEW a \in Address, NEW w \in Word, NEW be \in SUBSET Byte, Write(a, w, be)
  PROVE  FoldedTypeOK'
<1>1. Written(cell[a \div 2], w, bm64(a, be)) \in [Half -> Word]
  BY Split DEF FoldedTypeOK, Written, Word
<1>2. Stored(sram[a], w, be) \in Word
  BY DEF FoldedTypeOK, Stored, Word
<1>3. cell' \in [Row -> [Half -> Word]] /\ rdata64' \in [Half -> Word] /\ sel_q' \in Half
  BY <1>1 DEF FoldedTypeOK, Write, KeptOnWrite
<1>4. sram' \in [Address -> Word] /\ r_addr_q' \in Address /\ rdata_q' \in Word
  BY <1>2 DEF FoldedTypeOK, Write, SramWrite, LastRead
<1>5. current' \in BOOLEAN
  BY DEF FoldedTypeOK, Write
<1>6. QED BY <1>3, <1>4, <1>5 DEF FoldedTypeOK

\* A write changes one word: the other half of its row is masked.
LEMMA WriteContents ==
  ASSUME FoldedTypeOK, SameContents,
         NEW a \in Address, NEW w \in Word, NEW be \in SUBSET Byte, Write(a, w, be)
  PROVE  SameContents'
<1>1. cell' = [cell EXCEPT ![a \div 2] = Written(@, w, bm64(a, be))] /\ cell \in [Row -> [Half -> Word]]
  BY DEF Write, FoldedTypeOK
<1>2. sram' = [sram EXCEPT ![a] = Stored(@, w, be)] /\ sram \in [Address -> Word]
  BY DEF Write, SramWrite, FoldedTypeOK
<1> DEFINE row == cell[a \div 2]
<1>3. row \in [Half -> Word] /\ a \div 2 \in Row /\ a % 2 \in Half
  BY <1>1, Split
<1>4. \A h \in Half : Written(row, w, bm64(a, be))[h] = IF h = a % 2 THEN Stored(row[h], w, be) ELSE row[h]
  <2> TAKE h \in Half
  <2>1. CASE h = a % 2
    BY <2>1 DEF Written, bm64, Stored
  <2>2. CASE h # a % 2
    <3>1. Written(row, w, bm64(a, be))[h] = [b \in Byte |-> row[h][b]]
      BY <2>2 DEF Written, bm64
    <3>2. row[h] \in [Byte -> Value]
      BY <1>3 DEF Word
    <3>3. QED BY <2>2, <3>1, <3>2
  <2>3. QED BY <2>1, <2>2
<1>5. ASSUME NEW x \in Address PROVE cell'[x \div 2][x % 2] = sram'[x]
  <2>1. x \div 2 \in Row /\ x % 2 \in Half
    BY Split
  <2>2. cell[x \div 2][x % 2] = sram[x] /\ row[a % 2] = sram[a]
    BY DEF SameContents
  <2>3. CASE x \div 2 # a \div 2
    <3>1. cell'[x \div 2] = cell[x \div 2] /\ x # a
      BY <1>1, <2>1, <2>3
    <3>2. sram'[x] = sram[x]
      BY <1>2, <3>1
    <3>3. QED BY <2>2, <3>1, <3>2
  <2>4. CASE x \div 2 = a \div 2
    <3>1. cell'[x \div 2] = Written(row, w, bm64(a, be))
      BY <1>1, <1>3, <2>4
    <3>2. (x % 2 = a % 2) <=> x = a
      BY <2>4, Split
    <3>3. sram'[x] = IF x = a THEN Stored(sram[a], w, be) ELSE sram[x]
      BY <1>2
    <3> HIDE DEF row
    <3>4. cell'[x \div 2][x % 2] = IF x % 2 = a % 2 THEN Stored(row[x % 2], w, be) ELSE row[x % 2]
      BY <1>4, <2>1, <3>1
    <3>5. row[x % 2] = sram[x]
      BY <2>2, <2>4 DEF row
    <3>6. QED BY <2>2, <3>2, <3>3, <3>4, <3>5
  <2>5. QED BY <2>3, <2>4
<1>6. QED BY <1>5 DEF SameContents

LEMMA WriteAgrees ==
  ASSUME FoldedInv, NEW a \in Address, NEW w \in Word, NEW be \in SUBSET Byte, Write(a, w, be)
  PROVE  FoldedInv'
<1>1. FoldedTypeOK' /\ SameContents'
  BY WriteTypeOK, WriteContents DEF FoldedInv, MemoriesAgree
<1>2. rdata_o' = rdata_o /\ rdata_q' = LastRead /\ r_addr_q' = r_addr_q
      /\ current' = (current /\ a # r_addr_q)
  BY DEF Write, KeptOnWrite, SramWrite, rdata_o
<1>3. SameAnswers'
  BY <1>2 DEF FoldedInv, ShowsLastRead, SameAnswers
<1>4. a # r_addr_q => sram'[r_addr_q] = sram[r_addr_q]
  BY DEF Write, SramWrite, FoldedInv, MemoriesAgree, FoldedTypeOK
<1>5. ShowsLastRead'
  BY <1>2, <1>4 DEF FoldedInv, ShowsLastRead, LastRead
<1>6. QED BY <1>1, <1>3, <1>5 DEF FoldedInv, MemoriesAgree

LEMMA ReadAgrees ==
  ASSUME FoldedInv, NEW a \in Address, Read(a)
  PROVE  FoldedInv'
<1>1. FoldedTypeOK' /\ SameContents'
  BY Split DEF FoldedInv, MemoriesAgree, FoldedTypeOK, SameContents, Read, SramRead
<1>2. rdata_o' = cell[a \div 2][a % 2] /\ rdata_q' = sram[a] /\ LastRead' = sram[a]
  BY DEF Read, SramRead, rdata_o, LastRead
<1>3. cell[a \div 2][a % 2] = sram[a]
  BY DEF FoldedInv, MemoriesAgree, SameContents
<1>4. QED BY <1>1, <1>2, <1>3 DEF FoldedInv, MemoriesAgree, SameAnswers, ShowsLastRead

LEMMA NoRequestAgrees == FoldedInv /\ NoRequest => FoldedInv'
<1> SUFFICES ASSUME FoldedInv, NoRequest PROVE FoldedInv'
  OBVIOUS
<1>1. FoldedTypeOK' /\ SameContents'
  BY DEF FoldedInv, MemoriesAgree, FoldedTypeOK, SameContents, NoRequest, SramIdle, LastRead
<1>2. rdata_o' = rdata_o /\ rdata_q' = LastRead /\ LastRead' = LastRead /\ current' = current
  BY DEF NoRequest, SramIdle, rdata_o, LastRead
<1>3. QED BY <1>1, <1>2 DEF FoldedInv, MemoriesAgree, SameAnswers, ShowsLastRead

LEMMA ResetAgrees == FoldedInv /\ Reset => FoldedInv'
<1> SUFFICES ASSUME FoldedInv, Reset PROVE FoldedInv'
  OBVIOUS
<1>1. FoldedTypeOK' /\ SameContents'
  BY FirstAddress DEF FoldedInv, MemoriesAgree, FoldedTypeOK, SameContents, Reset, SramReset, Half
<1>2. QED BY <1>1 DEF FoldedInv, MemoriesAgree, SameAnswers, ShowsLastRead, Reset

LEMMA FoldedStep == FoldedInv /\ [FoldedNext]_foldedVars => FoldedInv'
<1> SUFFICES ASSUME FoldedInv, [FoldedNext]_foldedVars PROVE FoldedInv'
  OBVIOUS
<1>1. CASE \E a \in Address, w \in Word, be \in SUBSET Byte : Write(a, w, be)
  BY <1>1, WriteAgrees
<1>2. CASE \E a \in Address : Read(a)
  BY <1>2, ReadAgrees
<1>3. CASE NoRequest \/ Reset
  BY <1>3, NoRequestAgrees, ResetAgrees
<1>4. CASE UNCHANGED foldedVars
  BY <1>4 DEF foldedVars, sramVars, FoldedInv, MemoriesAgree, FoldedTypeOK, SameContents, SameAnswers,
              ShowsLastRead, LastRead, rdata_o
<1>5. QED BY <1>1, <1>2, <1>3, <1>4 DEF FoldedNext

\* With any number of rows and any byte values, the chip's folded macro and
\* the memory of the simulation hold the same words and answer alike, unless
\* the word read last has been written since.
THEOREM ChipMemoryAgrees == FoldedSpec => []MemoriesAgree
<1>1. FoldedInit => FoldedInv
  <2> SUFFICES ASSUME FoldedInit PROVE FoldedInv
    OBVIOUS
  <2>1. FoldedTypeOK
    BY FirstAddress DEF FoldedInit, SramInit, FoldedTypeOK, Half
  <2>2. SameContents
    BY DEF FoldedInit, SameContents
  <2>3. QED BY <2>1, <2>2 DEF FoldedInit, FoldedInv, MemoriesAgree, SameAnswers, ShowsLastRead
<1>2. FoldedInv => MemoriesAgree
  BY DEF FoldedInv
<1>3. QED BY <1>1, <1>2, FoldedStep, PTL DEF FoldedSpec

-----------------------------------------------------------------------------
(* The counter peripheral and its driver.                                  *)

\* A read-modify-write of CONTROL is one of the three calls that make it.
CallInv == pc \in {"read_control", "write_control"} => op \in ReadModifyWrite

\* The value software relies on is that of the counter, which stands still, or
\* is 0 and will be that of the counter, by the clear under way.
ValueInv ==
  expected # Unknown =>
    /\ ~cnt_en
    /\ IF cnt_clr THEN expected = 0 ELSE cnt_val = expected

\* A clear bit that a read-modify-write will write back repeats a clear.
WordInv == pc = "write_control" /\ CLEAR \in word => expected \in {0, Unknown}

CntInv == CntCorrect /\ CallInv /\ ValueInv /\ WordInv

\* The word that a read-modify-write writes to CONTROL.
WrittenBack == CASE op = "enable"  -> word \cup {ENABLE}
                 [] op = "disable" -> word \ {ENABLE}
                 [] op = "clear"   -> word \cup {CLEAR}

-----------------------------------------------------------------------------
(* The clock edge. *)

LEMMA CountedUpIsValue ==
  ASSUME cnt_val \in CountValue PROVE CountedUp \in CountValue
<1>1. \A x \in Nat : x % Modulus \in CountValue  BY ModulusAssumption DEF CountValue
<1> QED  BY <1>1, ModulusAssumption DEF CountedUp, CountValue

\* An edge keeps the types of the registers if the access's data has the right one.
LEMMA ClockTypes ==
  ASSUME CntTypeOK, NEW access, Clock(access),
         access.to = "CONTROL" => access.data \subseteq {ENABLE, CLEAR},
         access.to \in {"load", "THRESHOLD"} => access.data \in CountValue
  PROVE  /\ cnt_val' \in CountValue /\ threshold' \in CountValue
         /\ control' \subseteq {ENABLE, CLEAR}
         /\ {status, reached}' \subseteq BOOLEAN
<1>1. 0 \in CountValue  BY ModulusAssumption DEF CountValue
<1>2. cnt_val' \in CountValue  BY CountedUpIsValue, <1>1 DEF Clock, CntTypeOK
<1>3. threshold' \in CountValue  BY DEF Clock, CntTypeOK
<1>4. control' \subseteq {ENABLE, CLEAR}  BY DEF Clock, CntTypeOK, ControlNext
<1>5. status' \in BOOLEAN
  <2>1. status' = ((IF tc \/ cnt_clr THEN tc /\ ~cnt_clr ELSE status) /\ access.to # "STATUS")
    BY Zenon DEF Clock, StatusNext
  <2> QED  BY <2>1, Zenon
<1>6. reached' \in BOOLEAN  BY Zenon DEF Clock
<1> QED  BY <1>2, <1>3, <1>4, <1>5, <1>6

\* The flag keeps its meaning at every edge.
LEMMA ClockFlag ==
  ASSUME TcMeansReached, NEW access, Clock(access)
  PROVE  TcMeansReached'
<1> SUFFICES ASSUME status' PROVE reached'  BY Zenon DEF TcMeansReached
<1>1. (IF tc \/ cnt_clr THEN tc /\ ~cnt_clr ELSE status)  BY Zenon DEF Clock, StatusNext
<1>2. reached' = (~cnt_clr /\ (reached \/ tc))  BY Zenon DEF Clock
<1> QED  BY <1>1, <1>2, Zenon DEF TcMeansReached

\* An edge without an access to the counter or to CONTROL keeps what software
\* expects: a clear under way takes effect, and the clear bit goes.
LEMMA ClockValue ==
  ASSUME CntTypeOK, ValueInv, NEW access, Clock(access),
         access.to \notin {"load", "CONTROL"}, expected' = expected
  PROVE  ValueInv'
<1>1. control' = control \ {CLEAR}  BY DEF Clock, ControlNext
<1>2. (cnt_en' <=> cnt_en) /\ ~cnt_clr'  BY <1>1 DEF cnt_en, cnt_clr, ENABLE, CLEAR
<1>3. ~cnt_en => cnt_val' = IF cnt_clr THEN 0 ELSE cnt_val  BY DEF Clock
<1> QED  BY <1>2, <1>3 DEF ValueInv

-----------------------------------------------------------------------------
(* The steps. *)

\* What CONTROL is written with is made of its two bits.
LEMMA WrittenBackType ==
  ASSUME CntTypeOK, op \in ReadModifyWrite
  PROVE  WrittenBack \subseteq {ENABLE, CLEAR}
BY DEF CntTypeOK, ReadModifyWrite, WrittenBack

\* Types and the flag, at an edge with any access of the driver.
LEMMA EdgeCorrect ==
  ASSUME CntCorrect, NEW access, Clock(access),
         access.to = "CONTROL" => access.data \subseteq {ENABLE, CLEAR},
         access.to \in {"load", "THRESHOLD"} => access.data \in CountValue,
         op' = op, arg' = arg, word' \subseteq {ENABLE, CLEAR},
         expected' \in CountValue \cup {Unknown}
  PROVE  CntCorrect'
<1>1. CntTypeOK /\ TcMeansReached  BY DEF CntCorrect
<1>2. /\ cnt_val' \in CountValue /\ threshold' \in CountValue
      /\ control' \subseteq {ENABLE, CLEAR} /\ {status, reached}' \subseteq BOOLEAN
  BY <1>1, ClockTypes
<1>3. TcMeansReached'  BY <1>1, ClockFlag
<1> QED  BY <1>1, <1>2, <1>3 DEF CntCorrect, CntTypeOK

\* A cycle in which the CPU only reads, or none of its accesses matters here.
LEMMA QuietStep ==
  ASSUME CntInv, NEW access, Clock(access), access.to \in {"none", "THRESHOLD", "STATUS"},
         access.to = "THRESHOLD" => access.data \in CountValue,
         op' = op, arg' = arg, word' = word, expected' = expected,
         pc' \notin {"read_control", "write_control"} \/ pc' = pc
  PROVE  CntInv'
<1>1. CntTypeOK  BY DEF CntInv, CntCorrect
<1>2. CntCorrect'  BY <1>1, EdgeCorrect DEF CntInv, CntTypeOK
<1>3. ValueInv'  BY <1>1, ClockValue DEF CntInv
<1>4. CallInv' /\ WordInv'  BY DEF CntInv, CallInv, WordInv
<1> QED  BY <1>2, <1>3, <1>4 DEF CntInv

LEMMA CallStep == CntInv /\ Call => CntInv'
<1> SUFFICES ASSUME CntInv, Call PROVE CntInv'  OBVIOUS
<1> USE DEF hw
<1>1. UNCHANGED <<cnt_val, control, status, threshold, word, reached, expected>>
  BY DEF Call
<1>2. op' \in ReadModifyWrite \cup {"none", "set_threshold", "set_value", "get_value", "wait_poll", "clear_tc"}
      /\ arg' \in CountValue /\ pc' # "write_control"
      /\ (pc' = "read_control" => op' \in ReadModifyWrite)
  BY DEF Call, CntInv, CntCorrect, CntTypeOK
<1>3. CntTypeOK'  BY <1>1, <1>2 DEF CntInv, CntCorrect, CntTypeOK
<1>4. TcMeansReached'  BY <1>1, Zenon DEF CntInv, CntCorrect, TcMeansReached
<1>5. CallInv' /\ WordInv'  BY <1>2 DEF CallInv, WordInv
<1>6. ValueInv'  BY <1>1 DEF CntInv, ValueInv, cnt_en, cnt_clr
<1> QED  BY <1>3, <1>4, <1>5, <1>6 DEF CntInv, CntCorrect

LEMMA ReadControlStep == CntInv /\ ReadControl => CntInv'
<1> SUFFICES ASSUME CntInv, ReadControl PROVE CntInv'  OBVIOUS
<1>1. /\ Clock(NoAccess) /\ NoAccess.to = "none" /\ pc = "read_control" /\ pc' = "write_control"
      /\ word' = control /\ UNCHANGED <<op, arg, expected>>
  BY DEF ReadControl, NoAccess
<1>2. CntCorrect'  BY <1>1, EdgeCorrect DEF CntInv, CntCorrect, CntTypeOK
<1>3. ValueInv'  BY <1>1, ClockValue DEF CntInv, CntCorrect
<1>4. WordInv'  BY <1>1 DEF CntInv, WordInv, ValueInv, cnt_clr
<1>5. CallInv'  BY <1>1 DEF CntInv, CallInv
<1> QED  BY <1>2, <1>3, <1>4, <1>5 DEF CntInv

\* The clear bit in what is written back makes the counter 0 in the next cycle.
LEMMA WriteControlStep == CntInv /\ WriteControl => CntInv'
<1> SUFFICES ASSUME CntInv, WriteControl PROVE CntInv'  OBVIOUS
<1> DEFINE data   == WrittenBack
           access == [to |-> "CONTROL", data |-> data]
<1>1. /\ Clock(access) /\ pc = "write_control" /\ pc' = "idle" /\ UNCHANGED <<op, arg, word>>
      /\ expected' = IF ENABLE \in data \/ cnt_en THEN Unknown
                     ELSE IF op = "clear" THEN 0 ELSE expected
  BY DEF WriteControl, WrittenBack
<1>2. op \in ReadModifyWrite  BY <1>1 DEF CntInv, CallInv
<1>3. data \subseteq {ENABLE, CLEAR} /\ access.to = "CONTROL" /\ access.data = data
  BY <1>2, WrittenBackType DEF CntInv, CntCorrect
<1>4. expected' \in CountValue \cup {Unknown}
  BY <1>1, ModulusAssumption DEF CntInv, CntCorrect, CntTypeOK, CountValue
<1>5. CntCorrect'
  <2> HIDE DEF access
  <2> QED  BY <1>1, <1>3, <1>4, EdgeCorrect DEF CntInv, CntCorrect, CntTypeOK
<1>6. CallInv' /\ WordInv'  BY <1>1 DEF CallInv, WordInv
<1>7. ValueInv'
  <2> SUFFICES ASSUME expected' # Unknown
               PROVE  ~cnt_en' /\ IF cnt_clr' THEN expected' = 0 ELSE cnt_val' = expected'
    BY DEF ValueInv
  <2>1. ENABLE \notin data /\ ~cnt_en /\ control' = data
    BY <1>1, <1>3 DEF Clock, ControlNext
  <2>2. cnt_val' = IF cnt_clr THEN 0 ELSE cnt_val  BY <1>1, <1>3, <2>1 DEF Clock
  <2>3. CASE op = "clear"
    <3>1. CLEAR \in data  BY <2>3 DEF WrittenBack
    <3> QED  BY <1>1, <2>1, <2>3, <3>1 DEF cnt_en, cnt_clr
  <2>4. CASE op = "disable"
    <3>1. data = word \ {ENABLE} /\ expected' = expected
      BY <1>1, <2>1, <2>4 DEF WrittenBack
    <3>2. CLEAR \in data => expected = 0
      BY <1>1, <3>1 DEF CntInv, WordInv
    <3>3. IF cnt_clr THEN expected = 0 ELSE cnt_val = expected  BY <3>1 DEF CntInv, ValueInv
    <3> QED  BY <2>1, <2>2, <3>1, <3>2, <3>3 DEF cnt_en, cnt_clr
  <2>5. op # "enable"  BY <2>1 DEF WrittenBack
  <2> QED  BY <1>2, <2>3, <2>4, <2>5 DEF ReadModifyWrite
<1> QED  BY <1>5, <1>6, <1>7 DEF CntInv

\* The load waits while the counter is being cleared.
LEMMA LoadStep == CntInv /\ Load => CntInv'
<1> SUFFICES ASSUME CntInv, Load PROVE CntInv'  OBVIOUS
<1> DEFINE access == [to |-> "load", data |-> arg]
<1>1. /\ Clock(access) /\ access.to = "load" /\ access.data = arg /\ pc' \in {"load", "idle"}
      /\ UNCHANGED <<op, arg, word>>
      /\ expected' = IF cnt_clr THEN expected ELSE IF cnt_en THEN Unknown ELSE arg
  BY DEF Load, obi_gnt
<1>2. CntTypeOK /\ arg \in CountValue  BY DEF CntInv, CntCorrect, CntTypeOK
<1>3. CntCorrect'
  <2> HIDE DEF access
  <2> QED  BY <1>1, <1>2, EdgeCorrect DEF CntInv, CntTypeOK
<1>4. CallInv' /\ WordInv'  BY <1>1 DEF CallInv, WordInv
<1>5. control' = control \ {CLEAR} /\ cnt_val' = IF cnt_clr THEN 0 ELSE arg
  BY <1>1 DEF Clock, ControlNext
<1>6. (cnt_en' <=> cnt_en) /\ ~cnt_clr'  BY <1>5 DEF cnt_en, cnt_clr, ENABLE, CLEAR
<1>7. ValueInv'  BY <1>1, <1>5, <1>6 DEF CntInv, ValueInv
<1> QED  BY <1>3, <1>4, <1>7 DEF CntInv

LEMMA CntInvStep == CntInv /\ [CntNext]_cntVars => CntInv'
<1> SUFFICES ASSUME CntInv, [CntNext]_cntVars PROVE CntInv'  OBVIOUS
<1>0. NoAccess.to = "none"  BY DEF NoAccess
<1>1. CASE Idle
  BY <1>0, <1>1, QuietStep DEF Idle, cpu
<1>2. CASE Call  BY <1>2, CallStep
<1>3. CASE ReadControl  BY <1>3, ReadControlStep
<1>4. CASE WriteControl  BY <1>4, WriteControlStep
<1>5. CASE WriteThreshold
  <2> DEFINE access == [to |-> "THRESHOLD", data |-> arg]
  <2>1. Clock(access) /\ access.to = "THRESHOLD" /\ access.data = arg /\ pc' = "idle"
        /\ UNCHANGED <<op, arg, word, expected>>
    BY <1>5 DEF WriteThreshold
  <2>2. arg \in CountValue  BY DEF CntInv, CntCorrect, CntTypeOK
  <2> HIDE DEF access
  <2> QED  BY <2>1, <2>2, QuietStep
<1>6. CASE Load  BY <1>6, LoadStep
<1>7. CASE Fetch
  BY <1>0, <1>7, QuietStep DEF Fetch
<1>8. CASE Poll
  BY <1>0, <1>8, QuietStep DEF Poll
<1>9. CASE ReadStatus
  BY <1>0, <1>9, QuietStep DEF ReadStatus
<1>10. CASE WriteStatus
  <2> DEFINE access == [to |-> "STATUS"]
  <2>1. Clock(access) /\ access.to = "STATUS" /\ pc' = "idle"
        /\ UNCHANGED <<op, arg, word, expected>>
    BY <1>10 DEF WriteStatus
  <2> HIDE DEF access
  <2> QED  BY <2>1, QuietStep
<1>11. CASE UNCHANGED cntVars
  <2>1. UNCHANGED <<cnt_val, control, status, threshold, pc, op, arg, word, reached, expected>>
    BY <1>11 DEF cntVars, hw, cpu
  <2>2. CntTypeOK'  BY <2>1 DEF CntInv, CntCorrect, CntTypeOK
  <2>3. TcMeansReached'  BY <2>1, Zenon DEF CntInv, CntCorrect, TcMeansReached
  <2>4. CallInv' /\ WordInv' /\ ValueInv'
    BY <2>1 DEF CntInv, CallInv, WordInv, ValueInv, cnt_en, cnt_clr
  <2> QED  BY <2>2, <2>3, <2>4 DEF CntInv, CntCorrect
<1> QED
  BY <1>1, <1>2, <1>3, <1>4, <1>5, <1>6, <1>7, <1>8, <1>9, <1>10, <1>11 DEF CntNext, Access

LEMMA CntInvInit == CntInit => CntInv
<1> SUFFICES ASSUME CntInit PROVE CntInv  OBVIOUS
<1>1. CntTypeOK
  <2>1. status \in BOOLEAN /\ reached \in BOOLEAN  BY Zenon DEF CntInit
  <2>2. 0 \in CountValue /\ Modulus - 1 \in CountValue  BY ModulusAssumption DEF CountValue
  <2> QED  BY <2>1, <2>2 DEF CntInit, CntTypeOK
<1>2. TcMeansReached  BY Zenon DEF CntInit, TcMeansReached
<1>3. CallInv /\ ValueInv /\ WordInv
  BY DEF CntInit, CallInv, ValueInv, WordInv, cnt_en, cnt_clr
<1> QED  BY <1>1, <1>2, <1>3 DEF CntInv, CntCorrect

-----------------------------------------------------------------------------
\* The inductive invariant of the counter and its driver.
THEOREM CounterInvariant == CntSpec => []CntInv
BY CntInvInit, CntInvStep, PTL DEF CntSpec

\* The variables keep their types, and TC is set only by a threshold crossed
\* since the counter was last cleared.
THEOREM CounterCorrect == CntSpec => []CntCorrect
BY CounterInvariant, PTL DEF CntInv

\* Software reads of a stopped counter what it last gave it, at any distance of
\* the calls and for any width.
THEOREM CounterReadsBack == CntSpec => ReadsBack
<1>1. CntInv /\ [CntNext]_cntVars
        => [pc = "fetch" /\ pc' = "idle" => expected \in {cnt_val, Unknown}]_cntVars
  <2> SUFFICES ASSUME CntInv, CntNext, pc = "fetch", pc' = "idle"
               PROVE  expected \in {cnt_val, Unknown}
    OBVIOUS
  <2>1. Fetch
    BY DEF CntNext, Access, Idle, cpu, Call, ReadControl, WriteControl, WriteThreshold, Load,
           Poll, ReadStatus, WriteStatus
  <2>2. ~cnt_clr  BY <2>1 DEF Fetch, obi_gnt
  <2> QED  BY <2>2 DEF CntInv, ValueInv
<1> QED  BY <1>1, CounterInvariant, PTL DEF CntSpec, ReadsBack
=============================================================================
