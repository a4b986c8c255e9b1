------------------------------- MODULE SimpleCnt -------------------------------
(***************************************************************************)
(* The counter peripheral: cnt.sv behind its bus bridge cnt_obi.sv, the    *)
(* registers CONTROL, STATUS and THRESHOLD (cnt_control_reg.sv), and a CPU *)
(* that makes the calls of the driver simple_cnt.c in any order.           *)
(*                                                                         *)
(* The counter's value and its registers are on different buses.  A step   *)
(* other than a call is a clock cycle, in which the CPU makes at most one  *)
(* access; what it reads is the word of the cycle of the grant.            *)
(***************************************************************************)
EXTENDS Naturals

CONSTANTS
  Modulus,  \* 2^W
  Unknown

ASSUME ModulusAssumption == Modulus \in Nat /\ Modulus > 1

CountValue == 0..Modulus-1
ENABLE == 0
CLEAR == 1

VARIABLES
  cnt_val, control, status, threshold,  \* CONTROL as the set of its bits
  pc, op, arg, word,                    \* the driver call in progress
  reached,     \* history: at the threshold since the last clear
  expected     \* history: the value software last gave the stopped counter

hw   == <<cnt_val, control, status, threshold>>
cpu  == <<pc, op, arg, word>>
cntVars == <<hw, cpu, reached, expected>>

tc      == cnt_val = threshold
cnt_en  == ENABLE \in control
cnt_clr == CLEAR \in control

CntInit ==
  /\ cnt_val = 0 /\ control = {} /\ status = FALSE /\ threshold = Modulus - 1
  /\ pc = "idle" /\ op = "none" /\ arg = 0 /\ word = {}
  /\ reached = FALSE /\ expected = 0

-----------------------------------------------------------------------------
(* The clock edge, with the access of the cycle. *)

NoAccess == [to |-> "none"]

\* The clear bit stays until software resets it.
ControlKept(access) == IF access.to = "CONTROL" THEN access.data ELSE control

ControlNext(access) == IF access.to = "CONTROL" THEN access.data ELSE control \ {CLEAR}

\* A clear leaves the terminal count as it is.
StatusNoClear(access) == IF tc THEN access.to # "STATUS" ELSE status /\ access.to # "STATUS"

\* Hardware sets and clears it, and software that writes a one, as it does
\* whenever it writes, clears it even then.
StatusNext(access) ==
  (IF tc \/ cnt_clr THEN tc /\ ~cnt_clr ELSE status) /\ access.to # "STATUS"

CountedUp == IF tc THEN 0 ELSE (cnt_val + 1) % Modulus

Clock(access) ==
  /\ cnt_val' = IF cnt_clr THEN 0
                ELSE IF access.to = "load" THEN access.data
                ELSE IF cnt_en THEN CountedUp ELSE cnt_val
  /\ control' = ControlNext(access)
  /\ status' = StatusNext(access)
  /\ threshold' = IF access.to = "THRESHOLD" THEN access.data ELSE threshold
  /\ reached' = (~cnt_clr /\ (reached \/ tc))

\* A counter access is accepted whenever it is made.
obi_gntAlways == TRUE

obi_gnt == ~cnt_clr

-----------------------------------------------------------------------------
(* The driver.  A cycle without an access of the CPU is always possible.   *)

Idle == Clock(NoAccess) /\ UNCHANGED <<cpu, expected>>

ReadModifyWrite == {"enable", "disable", "clear"}

\* It takes no cycle: an access can follow that of the call before at once.
Call ==
  /\ pc = "idle"
  /\ \/ op' \in ReadModifyWrite /\ pc' = "read_control" /\ UNCHANGED arg
     \/ op' = "set_threshold" /\ pc' = "write_threshold" /\ arg' \in CountValue
     \/ op' = "set_value" /\ pc' = "load" /\ arg' \in CountValue
     \/ op' = "get_value" /\ pc' = "fetch" /\ UNCHANGED arg
     \/ op' = "wait_poll" /\ pc' = "poll" /\ UNCHANGED arg
     \/ op' = "clear_tc" /\ pc' = "read_status" /\ UNCHANGED arg
  /\ UNCHANGED <<hw, word, reached, expected>>

ReadControl ==
  /\ pc = "read_control"
  /\ Clock(NoAccess)
  /\ word' = control
  /\ pc' = "write_control"
  /\ UNCHANGED <<op, arg, expected>>

WriteControl ==
  LET data == CASE op = "enable"  -> word \cup {ENABLE}
                [] op = "disable" -> word \ {ENABLE}
                [] op = "clear"   -> word \cup {CLEAR}
  IN  /\ pc = "write_control"
      /\ Clock([to |-> "CONTROL", data |-> data])
      /\ expected' = IF ENABLE \in data \/ cnt_en THEN Unknown
                     ELSE IF op = "clear" THEN 0 ELSE expected
      /\ pc' = "idle"
      /\ UNCHANGED <<op, arg, word>>

WriteThreshold ==
  /\ pc = "write_threshold"
  /\ Clock([to |-> "THRESHOLD", data |-> arg])
  /\ pc' = "idle"
  /\ UNCHANGED <<op, arg, word, expected>>

\* An access that is not granted is made again in the next cycle.
Load ==
  /\ pc = "load"
  /\ Clock([to |-> "load", data |-> arg])
  /\ IF obi_gnt THEN /\ pc' = "idle"
                     /\ expected' = IF cnt_en THEN Unknown ELSE arg
                ELSE UNCHANGED <<pc, expected>>
  /\ UNCHANGED <<op, arg, word>>

\* The word read is cnt_val.
Fetch ==
  /\ pc = "fetch"
  /\ Clock(NoAccess)
  /\ pc' = IF obi_gnt THEN "idle" ELSE pc
  /\ UNCHANGED <<op, arg, word, expected>>

\* simple_cnt_wait_poll: read STATUS until TC is set, then clear it.
Poll ==
  /\ pc = "poll"
  /\ Clock(NoAccess)
  /\ pc' = IF status THEN "read_status" ELSE pc
  /\ UNCHANGED <<op, arg, word, expected>>

\* simple_cnt_clear_tc: the word is read, and written with TC set.
ReadStatus ==
  /\ pc = "read_status"
  /\ Clock(NoAccess)
  /\ pc' = "write_status"
  /\ UNCHANGED <<op, arg, word, expected>>

WriteStatus ==
  /\ pc = "write_status"
  /\ Clock([to |-> "STATUS"])
  /\ pc' = "idle"
  /\ UNCHANGED <<op, arg, word, expected>>

Access ==
  \/ ReadControl \/ WriteControl \/ WriteThreshold \/ Load \/ Fetch
  \/ Poll \/ ReadStatus \/ WriteStatus

CntNext == Idle \/ Call \/ Access

CntSpec == CntInit /\ [][CntNext]_cntVars

\* The CPU goes on with the call it is in, and the clock ticks.
CntLiveSpec == CntSpec /\ WF_cntVars(Access)

-----------------------------------------------------------------------------
CntTypeOK ==
  /\ cnt_val \in CountValue /\ threshold \in CountValue /\ arg \in CountValue
  /\ control \subseteq {ENABLE, CLEAR} /\ word \subseteq {ENABLE, CLEAR}
  /\ {status, reached} \subseteq BOOLEAN
  /\ expected \in CountValue \cup {Unknown}
  /\ op \in ReadModifyWrite \cup {"none", "set_threshold", "set_value", "get_value", "wait_poll", "clear_tc"}

\* What software reads of a stopped counter is what it last loaded or 0 after
\* a clear: a clear takes effect a cycle after its write, over the other bus,
\* and neither a load nor a read that follows at once gets ahead of it, not
\* even with calls in between whose read-modify-write repeats the clear bit
\* (cnt.sv:41-42, cnt_obi.sv:77-88, cnt_control_reg.sv:47-48, simple_cnt.c:31).
ReadsBack ==
  [][pc = "fetch" /\ pc' = "idle" => expected \in {cnt_val, Unknown}]_cntVars

\* TC is set only by a threshold crossed since the counter was last cleared,
\* also when the value being cleared is the threshold, and when the threshold
\* is moved under the counter (cnt_control_reg.sv:41-44).
TcMeansReached == status => reached

\* The type invariant and what the flag means.
CntCorrect == CntTypeOK /\ TcMeansReached

\* simple_cnt_wait_poll returns if the counter is enabled: whatever value it
\* was loaded with, beyond the threshold as well, and although a count that
\* ends in the cycle of an earlier clear_tc is lost (simple_cnt.c:59-65).
WaitReturns == pc = "poll" /\ cnt_en ~> pc # "poll"
=============================================================================
