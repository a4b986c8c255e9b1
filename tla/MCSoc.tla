--------------------------------- MODULE MCSoc ---------------------------------
(***************************************************************************)
(* Three parts of the SoC that do not depend on each other, in one run:    *)
(* the demultiplexer with five targets, the folded memory with two rows of *)
(* two words of two bytes, and the counter with two bits.  A behaviour is  *)
(* one of one of the parts; the other two stay where they start.           *)
(***************************************************************************)
EXTENDS ObiDemux, TcSramImpl, SimpleCnt

VARIABLE part

MCInit ==
  /\ part \in {"demux", "memory", "counter"}
  /\ Init
  /\ cell \in IF part = "memory" THEN [Row -> [Half -> Word]]
              ELSE {[r \in Row |-> [h \in Half |-> CHOOSE w \in Word : TRUE]]}
  /\ rdata64 \in IF part = "memory" THEN [Half -> Word] ELSE {cell[0]}
  /\ rdata_q \in IF part = "memory" THEN Word ELSE {rdata64[0]}
  /\ sram = [a \in Address |-> cell[a \div 2][a % 2]]
  /\ FoldedInit
  /\ CntInit

MCNext ==
  /\ UNCHANGED part
  /\ \/ part = "demux"   /\ Next       /\ UNCHANGED <<foldedVars, cntVars>>
     \/ part = "memory"  /\ FoldedNext /\ UNCHANGED <<vars, cntVars>>
     \/ part = "counter" /\ CntNext    /\ UNCHANGED <<vars, foldedVars>>

\* The fairness of ObiDemux!LiveSpec and SimpleCnt!CntLiveSpec, each in its part.
MCSpec ==
  /\ MCInit /\ [][MCNext]_<<part, vars, foldedVars, cntVars>>
  /\ WF_vars(part = "demux" /\ Cycle(Target, Answering))
  /\ WF_cntVars(part = "counter" /\ Access)
=============================================================================
