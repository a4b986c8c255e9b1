-------------------------- MODULE Conv1dControlReg --------------------------
(***************************************************************************)
(* The CONTROL and STATUS registers of the accelerator and the bridge that *)
(* puts them on the OBI bus.  A register is the set of its bits that are 1.*)
(* A request is granted in the cycle it is made; the word it reads leaves  *)
(* the bridge in the next cycle.                                           *)
(***************************************************************************)
EXTENDS Integers

VARIABLES
  control,      \* CONTROL, written by software only
  status,       \* STATUS, a copy of running_o and done_o one cycle old
  reg_rvalid,   \* the bridge answers a request of the previous cycle
  reg_rdata     \* with this word

regVars == <<control, status, reg_rvalid, reg_rdata>>

START      == 0     \* bits of CONTROL
ACCUMULATE == 1
RUNNING    == 0     \* bits of STATUS
DONE       == 1
Bits       == {0, 1}

NoAccess == [valid |-> FALSE, write |-> FALSE, addr |-> "CONTROL", wdata |-> {}]

start_o      == START \in control
accumulate_o == ACCUMULATE \in control

RegInit ==
  /\ control = {} /\ status = {}
  /\ reg_rvalid = FALSE /\ reg_rdata = {}

\* Mutant: DONE stays set until software writes STATUS.
RegClockSticky(reg, running_i, done_i) ==
  LET wrote(r) == reg.valid /\ reg.write /\ reg.addr = r
  IN  /\ control' = IF wrote("CONTROL") THEN reg.wdata ELSE control
      /\ status' = IF wrote("STATUS") THEN reg.wdata
                   ELSE {b \in Bits : (b = RUNNING /\ running_i)
                                   \/ (b = DONE /\ (done_i \/ DONE \in status))}
      /\ reg_rvalid' = reg.valid
      /\ reg_rdata' = IF reg.addr = "CONTROL" THEN control ELSE status

\* Mutant: STATUS follows the engine only while the engine runs.
RegClockWhileRunning(reg, running_i, done_i) ==
  LET wrote(r) == reg.valid /\ reg.write /\ reg.addr = r
  IN  /\ control' = IF wrote("CONTROL") THEN reg.wdata ELSE control
      /\ status' = IF wrote("STATUS") THEN reg.wdata
                   ELSE IF running_i THEN {RUNNING} ELSE status
      /\ reg_rvalid' = reg.valid
      /\ reg_rdata' = IF reg.addr = "CONTROL" THEN control ELSE status

\* One clock edge.  A software write to STATUS wins over the hardware's
\* update of the same cycle.
RegClock(reg, running_i, done_i) ==
  LET wrote(r) == reg.valid /\ reg.write /\ reg.addr = r
  IN  /\ control' = IF wrote("CONTROL") THEN reg.wdata ELSE control
      /\ status' = IF wrote("STATUS") THEN reg.wdata
                   ELSE {b \in Bits : (b = RUNNING /\ running_i) \/ (b = DONE /\ done_i)}
      /\ reg_rvalid' = reg.valid
      /\ reg_rdata' = IF reg.addr = "CONTROL" THEN control ELSE status

RegReset ==
  /\ control' = {} /\ status' = {}
  /\ reg_rvalid' = FALSE /\ reg_rdata' = {}
=============================================================================
