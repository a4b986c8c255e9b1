------------------------------ MODULE TcSramImpl ------------------------------
(***************************************************************************)
(* tc_sram_impl.sv, 128x32: the engine's memory on the chip is a macro of  *)
(* half as many rows of double width.  The lowest address bit selects the  *)
(* even or the odd bits of a row, for a write by the bit mask, for a read  *)
(* by a register that remembers it until the answer.  The macro itself is  *)
(* external: it keeps its output unless it reads.                          *)
(*                                                                         *)
(* The chip has this memory where a simulation has the one of Sram.  They  *)
(* are given the same accesses here, side by side.                         *)
(***************************************************************************)
EXTENDS Sram

Row  == 0..Rows - 1
Half == {0, 1}      \* the even and the odd bits of a row

VARIABLES
  cell,      \* the macro's rows
  rdata64,   \* its output register
  sel_q,     \* the half of the last read
  current    \* history: there was a read since the reset, and no write since
             \* then of the word that was read

foldedVars == <<sramVars, cell, rdata64, sel_q, current>>

rdata_o == rdata64[sel_q]

\* Both memories begin with the same contents.
FoldedInit ==
  /\ cell \in [Row -> [Half -> Word]]
  /\ rdata64 \in [Half -> Word]
  /\ sel_q = 0 /\ current = FALSE
  /\ SramInit
  /\ sram = [a \in Address |-> cell[a \div 2][a % 2]]

\* bm64: the duplicated word is enabled in the half the address selects.
bm64(a, be) == [h \in Half |-> IF h = a % 2 THEN be ELSE {}]

Written(row, w, bm) ==
  [h \in Half |-> [b \in Byte |-> IF b \in bm[h] THEN w[b] ELSE row[h][b]]]

\* Mutant: the half follows the address of every request.
MovedOnWrite(a) == sel_q' = a % 2

KeptOnWrite(a) == UNCHANGED sel_q

Write(a, w, be) ==
  /\ cell' = [cell EXCEPT ![a \div 2] = Written(@, w, bm64(a, be))]
  /\ KeptOnWrite(a)
  /\ UNCHANGED rdata64
  /\ SramWrite(a, w, be)
  /\ current' = (current /\ a # r_addr_q)

Read(a) ==
  /\ rdata64' = cell[a \div 2]
  /\ sel_q' = a % 2
  /\ UNCHANGED cell
  /\ SramRead(a)
  /\ current' = TRUE

NoRequest ==
  /\ UNCHANGED <<cell, rdata64, sel_q, current>>
  /\ SramIdle

Reset ==
  /\ sel_q' = 0
  /\ UNCHANGED <<cell, rdata64>>
  /\ SramReset
  /\ current' = FALSE

FoldedNext ==
  \/ \E a \in Address, w \in Word, be \in SUBSET Byte : Write(a, w, be)
  \/ \E a \in Address : Read(a)
  \/ NoRequest \/ Reset

FoldedSpec == FoldedInit /\ [][FoldedNext]_foldedVars

FoldedTypeOK ==
  /\ cell \in [Row -> [Half -> Word]]
  /\ rdata64 \in [Half -> Word]
  /\ sel_q \in Half /\ current \in BOOLEAN
  /\ sram \in [Address -> Word]
  /\ r_addr_q \in Address /\ rdata_q \in Word

\* No write touches the neighbouring word of its row.
SameContents == \A a \in Address : cell[a \div 2][a % 2] = sram[a]

\* The answers to a read agree in the next cycle, which is when the engine and
\* its port take them, and from then on whatever cycles of writing to other
\* words lie in between.  Only the word last read may not have been written:
\* tc_sram shows the new one (tc_sram.sv:140), the macro the old one.
SameAnswers == current => rdata_o = rdata_q

\* What is simulated is what the chip does (tc_sram_impl.sv:149-171).
MemoriesAgree == FoldedTypeOK /\ SameContents /\ SameAnswers
=============================================================================
