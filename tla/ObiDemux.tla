------------------------------- MODULE ObiDemux -------------------------------
(***************************************************************************)
(* The demultiplexer of the SoC's peripheral buses, obi_demux.sv: one      *)
(* requester, several targets, answers without an identifier.  An answer   *)
(* is routed by the target of the last grant alone, so the demultiplexer   *)
(* stalls a request that could overtake an answer of another target, and a *)
(* request that its counter (delta_counter.sv) has no room for.  One step  *)
(* is a clock cycle.                                                       *)
(***************************************************************************)
EXTENDS Naturals, FiniteSets

CONSTANTS
  Target,
  Reset0,    \* the target that the select register is reset to
  Room,      \* 2^CounterWidth
  None

ASSUME TargetAssumption == Reset0 \in Target /\ None \notin Target
ASSUME RoomAssumption == Room \in Nat /\ Room > 1

VARIABLES
  waiting,      \* the target of the request on the subordinate port, or None
  select_q,     \* the target of the last grant
  counter_q,    \* requests in flight, with the overflow bit on top
  outstanding   \* environment: the requests each target has yet to answer

vars == <<waiting, select_q, counter_q, outstanding>>

Init ==
  /\ waiting = None
  /\ select_q = Reset0
  /\ counter_q = 0
  /\ outstanding = [t \in Target |-> 0]

in_flight == counter_q % Room
overflow  == counter_q >= Room

\* The last target is never waited for.
OpenAlways(cnt_down) == ~overflow

\* The only answer in flight need not be the one that comes.
OpenEarly(cnt_down) == ~overflow /\ (waiting = select_q \/ in_flight <= 1)

\* The target never changes.
OpenSame(cnt_down) == ~overflow /\ waiting = select_q

\* There is room without looking at the overflow bit.
OpenFull(cnt_down) ==
  waiting = select_q \/ in_flight = 0 \/ (in_flight = 1 /\ cnt_down)

\* The condition under which the request is shown to its target.
Open(cnt_down) ==
  /\ ~overflow
  /\ waiting = select_q \/ in_flight = 0 \/ (in_flight = 1 /\ cnt_down)

\* The overflow bit is not taken off the count.
CountedNarrow(cnt_up, cnt_down) ==
  IF cnt_up /\ ~cnt_down THEN (counter_q + 1) % Room
  ELSE IF cnt_down /\ ~cnt_up THEN counter_q - 1 ELSE counter_q

\* delta_counter, one bit wider than its output.
Counted(cnt_up, cnt_down) ==
  IF cnt_up /\ ~cnt_down THEN (counter_q + 1) % (2 * Room)
  ELSE IF cnt_down /\ ~cnt_up THEN (counter_q + 2 * Room - 1) % (2 * Room) ELSE counter_q

\* One cycle in which the targets of gnt would grant and those of rvalid
\* answer a request of an earlier cycle.
Cycle(gnt, rvalid) ==
  LET cnt_down == select_q \in rvalid
      cnt_up   == waiting # None /\ Open(cnt_down) /\ waiting \in gnt
  IN  /\ counter_q' = Counted(cnt_up, cnt_down)
      /\ select_q' = IF cnt_up THEN waiting ELSE select_q
      /\ waiting' = IF cnt_up THEN None ELSE waiting
      /\ outstanding' =
           [t \in Target |-> (outstanding[t] + (IF cnt_up /\ t = waiting THEN 1 ELSE 0))
                             - (IF t \in rvalid THEN 1 ELSE 0)]

\* Environment: the requester puts up its next request and holds it.
Request ==
  /\ waiting = None
  /\ waiting' \in Target
  /\ UNCHANGED <<select_q, counter_q, outstanding>>

Answering == {t \in Target : outstanding[t] > 0}

Next == Request \/ \E gnt \in SUBSET Target, rvalid \in SUBSET Answering : Cycle(gnt, rvalid)

Spec == Init /\ [][Next]_vars

\* The targets grant and answer again and again, in whatever cycles.
LiveSpec == Spec /\ WF_vars(Cycle(Target, Answering))

-----------------------------------------------------------------------------
TypeOK ==
  /\ waiting \in Target \cup {None}
  /\ select_q \in Target
  /\ counter_q \in 0..2 * Room - 1
  /\ outstanding \in [Target -> Nat]

\* Every request in flight waits at the selected target: no answer is lost,
\* because only that target's answers are routed back, and answers come in the
\* order of the requests, because each target answers in order
\* (obi_demux.sv:56-68, 70-72).
SingleTarget == \A t \in Target : outstanding[t] > 0 => t = select_q

\* The count is that of the requests in flight, up to the one that sets the
\* overflow bit, where the count itself reads 0 (obi_demux.sv:56-57, 84-103).
CountExact == counter_q = outstanding[select_q] /\ counter_q <= Room

\* A request shown to the demultiplexer is granted in the end: neither the
\* limit nor the change of target stalls it for ever.
Granted == waiting # None ~> waiting = None
=============================================================================
