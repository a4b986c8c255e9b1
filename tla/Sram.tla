--------------------------------- MODULE Sram ---------------------------------
(***************************************************************************)
(* The memory of the simulation, tc_sram.sv with one port, a latency of    *)
(* one cycle and no initialisation.  A cycle writes the enabled bytes of a *)
(* word, reads a word, or does neither; in every cycle but that of a read  *)
(* the output register is loaded once more from the address of the last    *)
(* read, so that it follows what is written there, a cycle later.          *)
(***************************************************************************)
EXTENDS Naturals

CONSTANTS Rows, Byte, Value   \* 2 * Rows words

ASSUME RowsAssumption == Rows \in Nat \ {0}

Address == 0..2 * Rows - 1
Word    == [Byte -> Value]

VARIABLES sram, r_addr_q, rdata_q

sramVars == <<sram, r_addr_q, rdata_q>>

\* The memory powers up with anything in it.
SramInit ==
  /\ sram \in [Address -> Word]
  /\ r_addr_q = 0
  /\ rdata_q \in Word

Stored(old, w, be) == [b \in Byte |-> IF b \in be THEN w[b] ELSE old[b]]

\* rdata_d of a cycle without a read.
LastRead == sram[r_addr_q]

SramWrite(a, w, be) ==
  /\ sram' = [sram EXCEPT ![a] = Stored(@, w, be)]
  /\ rdata_q' = LastRead
  /\ UNCHANGED r_addr_q

SramRead(a) == rdata_q' = sram[a] /\ r_addr_q' = a /\ UNCHANGED sram

SramIdle == rdata_q' = LastRead /\ UNCHANGED <<sram, r_addr_q>>

SramReset == r_addr_q' = 0 /\ UNCHANGED <<sram, rdata_q>>
=============================================================================
