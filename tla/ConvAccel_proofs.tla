-------------------------- MODULE ConvAccel_proofs --------------------------
(***************************************************************************)
(* The firmware and the engine, for every number of passes and every       *)
(* geometry.  First the handshake: where the program is decides what START *)
(* is and which states the engine can be in.  Then the contents of the     *)
(* scratchpad: what the program waits for and reads back is the sum over   *)
(* all the passes.                                                         *)
(***************************************************************************)
EXTENDS ConvAccel, Conv1d_proofs, WellFoundedInduction

\* What the program knows of the engine at each of its places.
Handshake ==
  /\ pc \in {"init", "copy"} => step = "request"
  /\ pc = "init" => state = "IDLE" /\ control = {}
  /\ pc \in {"copy", "read"} => state \in {"IDLE", "DONE"} /\ START \notin control
  /\ pc = "copy" /\ cursor > 0 => state = "IDLE"
  /\ pc \in {"set_accumulate", "start"} => state = "IDLE" /\ START \notin control
  /\ pc = "start" => status = {}
  /\ pc = "wait" => START \in control /\ (DONE \in status => state = "DONE")
  /\ pc = "wait" /\ step = "answer" /\ DONE \in reg_rdata => state = "DONE"
  /\ pc = "clear" => START \in control /\ state = "DONE"
  /\ pc \in Rmw /\ step = "answer" => reg_rdata = control
  /\ pc \in Rmw /\ step = "store" => val = control

-----------------------------------------------------------------------------
(* One clock edge of the hardware *)

\* Without START the engine comes to rest; with START it stays in DONE.
LEMMA EngineRests ==
  ASSUME NEW reg, NEW ext, HwClock(reg, ext)
  PROVE  /\ state \in {"IDLE", "DONE"} /\ START \notin control => state' = "IDLE"
         /\ state = "DONE" /\ START \in control => state' = "DONE"
  BY DEF HwClock, Clock, start_o, Idle, Done, ReadPrevOut, WaitPrevOut,
         FetchInputs, FetchWeights, WaitCapture, Compute, NextKernel,
         WriteOutput, NextOutput, Goto

\* An edge without a write to the registers: CONTROL stays, STATUS follows the
\* engine.
LEMMA RegistersFollow ==
  ASSUME NEW reg, NEW ext, HwClock(reg, ext), reg.write = FALSE
  PROVE  /\ control' = control
         /\ status' \subseteq Bits
         /\ DONE \in status' => state = "DONE"
         /\ state = "IDLE" => status' = {}
         /\ reg_rvalid' = reg.valid
         /\ reg_rdata' = IF reg.addr = "CONTROL" THEN control ELSE status
  BY DEF HwClock, RegClock, running, done, Bits, RUNNING, DONE

\* A write to CONTROL.
LEMMA ControlWritten ==
  ASSUME NEW w, NEW ext, HwClock(Csr(TRUE, "CONTROL", w), ext)
  PROVE  /\ control' = w
         /\ status' \subseteq Bits
         /\ DONE \in status' => state = "DONE"
         /\ state = "IDLE" => status' = {}
         /\ reg_rvalid' = TRUE /\ reg_rdata' = control
  BY DEF HwClock, RegClock, Csr, running, done, Bits, RUNNING, DONE

\* The loops are entered, and the copy loop takes more than one access.
LEMMA LoopSizes ==
  /\ CopyWords \in Nat /\ CopyWords >= 2
  /\ NUM_OUTPUTS \in Nat /\ NUM_OUTPUTS >= 1
  <1>1. InputWords \in Nat /\ InputWords >= 1
    BY GeometryFacts, SMT DEF InputWords
  <1>2. TILE_CIN * KERNEL_K \in Nat /\ TILE_CIN * KERNEL_K >= 1
    BY GeometryFacts, SMT
  <1>3. TILE_COUT * (TILE_CIN * KERNEL_K) \in Nat
        /\ TILE_COUT * (TILE_CIN * KERNEL_K) >= 1
    <2> DEFINE n == TILE_CIN * KERNEL_K
    <2>1. n \in Nat /\ n >= 1
      BY <1>2
    <2> HIDE DEF n
    <2>2. TILE_COUT * n \in Nat /\ TILE_COUT * n >= 1
      BY <2>1, GeometryFacts, SMT
    <2>. QED  BY <2>2 DEF n
  <1>. QED
    BY <1>1, <1>3, GeometryFacts DEF CopyWords

\* What the driver stores in CONTROL.
LEMMA ModifiedBits ==
  ASSUME CpuTypeOK, pc \in Rmw
  PROVE  /\ Modified(val) \subseteq Bits
         /\ pc = "start" => START \in Modified(val)
         /\ pc = "clear" => START \notin Modified(val)
         /\ pc = "set_accumulate" /\ START \notin val => START \notin Modified(val)
  <1>1. pass = 1 \/ pass > 1
    BY PassesAssumption DEF CpuTypeOK
  <1>2. val \subseteq Bits
    BY DEF CpuTypeOK
  <1>3. CASE pc = "start"
    BY <1>2, <1>3 DEF Modified, Bits, START
  <1>4. CASE pc = "clear"
    BY <1>2, <1>4 DEF Modified, Bits, START
  <1>5. CASE pc = "set_accumulate"
    BY <1>1, <1>2, <1>5 DEF Modified, Bits, START, ACCUMULATE
  <1>. QED
    BY <1>3, <1>4, <1>5 DEF Rmw

-----------------------------------------------------------------------------
(* One lemma per action of the program *)

CpuGoal == CpuTypeOK' /\ Handshake'

\* conv_accel_init: CONTROL is cleared, the engine rests.
LEMMA InitAccelStep ==
  ASSUME CpuTypeOK, Handshake, InitAccel
  PROVE  CpuGoal
  <1>1. state' = "IDLE"
    BY EngineRests DEF InitAccel, Handshake, START
  <1>2. /\ control' = {} /\ status' \subseteq Bits
        /\ reg_rvalid' = TRUE /\ reg_rdata' = control
    BY ControlWritten DEF InitAccel
  <1>3. pc = "init" /\ pc' = "copy" /\ UNCHANGED <<step, pass, cursor, val>>
    BY DEF InitAccel
  <1>4. CpuTypeOK'
    BY <1>2, <1>3, LoopSizes DEF CpuTypeOK, Bits
  <1>5. Handshake'
    BY <1>1, <1>2, <1>3 DEF Handshake, START, Rmw
  <1>. QED
    BY <1>4, <1>5 DEF CpuGoal

\* An edge at which the program does not write to the registers and stays
\* where it is, or moves within its function, keeps the handshake.
LEMMA QuietHandshake ==
  ASSUME CpuTypeOK, Handshake, NEW reg, NEW ext, HwClock(reg, ext),
         reg.write = FALSE, pc' = pc, cursor' = cursor
  PROVE  /\ pc = "init" => state' = "IDLE" /\ control' = {}
         /\ pc \in {"copy", "read"} =>
              state' \in {"IDLE", "DONE"} /\ START \notin control'
         /\ pc = "copy" /\ cursor > 0 => state' = "IDLE"
         /\ pc \in {"set_accumulate", "start"} =>
              state' = "IDLE" /\ START \notin control'
         /\ pc = "start" => status' = {}
         /\ pc = "wait" => START \in control' /\ (DONE \in status' => state' = "DONE")
         /\ pc = "clear" => START \in control' /\ state' = "DONE"
  BY EngineRests, RegistersFollow DEF Handshake

\* The load of a read-modify-write.
LEMMA LoadControlStep ==
  ASSUME CpuTypeOK, Handshake, LoadControl
  PROVE  CpuGoal
  <1> DEFINE reg == Csr(FALSE, "CONTROL", {})
  <1>1. HwClock(reg, Quiet) /\ reg.write = FALSE /\ reg.addr = "CONTROL"
        /\ reg.valid = TRUE
    BY DEF LoadControl, Csr
  <1>2. /\ pc \in Rmw /\ pc' = pc /\ step' = "answer"
        /\ UNCHANGED <<pass, cursor, val>>
    BY DEF LoadControl
  <1> HIDE DEF reg
  <1>3. /\ control' = control /\ status' \subseteq Bits
        /\ reg_rvalid' = TRUE /\ reg_rdata' = control
    BY <1>1, RegistersFollow
  <1>4. CpuTypeOK'
    BY <1>2, <1>3 DEF CpuTypeOK
  <1>5. Handshake'
    BY <1>1, <1>2, <1>3, QuietHandshake DEF Handshake, Rmw
  <1>. QED
    BY <1>4, <1>5 DEF CpuGoal

\* The word loaded is CONTROL: nobody else writes it.
LEMMA ControlLoadedStep ==
  ASSUME CpuTypeOK, Handshake, ControlLoaded
  PROVE  CpuGoal
  <1>1. HwClock(NoAccess, Quiet) /\ NoAccess.write = FALSE
        /\ NoAccess.addr = "CONTROL" /\ NoAccess.valid = FALSE
    BY DEF ControlLoaded, NoAccess
  <1>2. /\ pc \in Rmw /\ pc' = pc /\ step = "answer" /\ step' = "store"
        /\ val' = reg_rdata /\ UNCHANGED <<pass, cursor>>
    BY DEF ControlLoaded
  <1>3. /\ control' = control /\ status' \subseteq Bits
        /\ reg_rvalid' = FALSE /\ reg_rdata' = control
    BY <1>1, RegistersFollow
  <1>4. CpuTypeOK'
    BY <1>2, <1>3 DEF CpuTypeOK
  <1>5. Handshake'
    BY <1>1, <1>2, <1>3, QuietHandshake DEF Handshake, Rmw
  <1>. QED
    BY <1>4, <1>5 DEF CpuGoal

\* The store of a read-modify-write: START rises with the engine in IDLE and
\* STATUS clear, and falls with the engine in DONE.
LEMMA StoreControlStep ==
  ASSUME CpuTypeOK, Handshake, StoreControl
  PROVE  CpuGoal
  <1>1. HwClock(Csr(TRUE, "CONTROL", Modified(val)), Quiet)
    BY DEF StoreControl
  <1>2. /\ pc \in Rmw /\ step = "store" /\ step' = "request" /\ val = control
        /\ UNCHANGED <<cursor, val>>
    BY DEF StoreControl, Handshake
  <1>3. /\ control' = Modified(val) /\ status' \subseteq Bits
        /\ DONE \in status' => state = "DONE"
        /\ state = "IDLE" => status' = {}
        /\ reg_rvalid' = TRUE /\ reg_rdata' = control
    BY <1>1, ControlWritten
  <1>4. /\ Modified(val) \subseteq Bits
        /\ pc = "start" => START \in Modified(val)
        /\ pc = "clear" => START \notin Modified(val)
        /\ pc = "set_accumulate" /\ START \notin val => START \notin Modified(val)
    BY <1>2, ModifiedBits
  <1>5. /\ state \in {"IDLE", "DONE"} /\ START \notin control => state' = "IDLE"
        /\ state = "DONE" /\ START \in control => state' = "DONE"
    BY <1>1, EngineRests
  <1>6. /\ pc = "set_accumulate" => pc' = "start" /\ pass' = pass
        /\ pc = "start" => pc' = "wait" /\ pass' = pass
        /\ pc = "clear" => \/ pc' = "copy" /\ pass < PASSES /\ pass' = pass + 1
                           \/ pc' = "read" /\ pass' = pass
    BY DEF StoreControl
  <1>7. cursor' = 0
    BY <1>2 DEF CpuTypeOK, Rmw
  <1>8. CpuTypeOK'
    <2>1. pass' \in 1..PASSES
      BY <1>2, <1>6, PassesAssumption DEF CpuTypeOK, Rmw
    <2>2. pc' \in {"start", "wait", "copy", "read"}
      BY <1>2, <1>6 DEF Rmw
    <2>3. 0 \in 0..CopyWords-1 /\ 0 \in Output
      BY LoopSizes DEF Output
    <2>. QED  BY <1>2, <1>3, <1>4, <1>7, <2>1, <2>2, <2>3 DEF CpuTypeOK, Rmw
  <1>9. Handshake'
    BY <1>2, <1>3, <1>4, <1>5, <1>6, <1>7 DEF Handshake, Rmw
  <1>. QED
    BY <1>8, <1>9 DEF CpuGoal

\* The load of STATUS.
LEMMA PollStep ==
  ASSUME CpuTypeOK, Handshake, Poll
  PROVE  CpuGoal
  <1> DEFINE reg == Csr(FALSE, "STATUS", {})
  <1>1. HwClock(reg, Quiet) /\ reg.write = FALSE /\ reg.addr = "STATUS"
        /\ reg.valid = TRUE
    BY DEF Poll, Csr
  <1>2. pc = "wait" /\ pc' = pc /\ step' = "answer" /\ UNCHANGED <<pass, cursor, val>>
    BY DEF Poll
  <1> HIDE DEF reg
  <1>3. /\ control' = control /\ status' \subseteq Bits
        /\ reg_rvalid' = TRUE /\ reg_rdata' = status
    BY <1>1, RegistersFollow
  <1>4. CpuTypeOK'
    BY <1>2, <1>3 DEF CpuTypeOK
  <1>5. DONE \in reg_rdata' => state' = "DONE"
    BY <1>1, <1>2, <1>3, EngineRests DEF Handshake
  <1>6. Handshake'
    BY <1>1, <1>2, <1>3, <1>5, QuietHandshake DEF Handshake, Rmw
  <1>. QED
    BY <1>4, <1>6 DEF CpuGoal

\* The loop ends only in DONE.
LEMMA PollAnsweredStep ==
  ASSUME CpuTypeOK, Handshake, PollAnswered
  PROVE  CpuGoal
  <1>1. HwClock(NoAccess, Quiet) /\ NoAccess.write = FALSE
        /\ NoAccess.addr = "CONTROL" /\ NoAccess.valid = FALSE
    BY DEF PollAnswered, NoAccess
  <1>2. /\ pc = "wait" /\ step = "answer" /\ step' = "request"
        /\ pc' = IF DONE \in reg_rdata THEN "clear" ELSE "wait"
        /\ UNCHANGED <<pass, cursor, val>>
    BY DEF PollAnswered
  <1>3. /\ control' = control /\ status' \subseteq Bits
        /\ DONE \in status' => state = "DONE"
        /\ reg_rvalid' = FALSE /\ reg_rdata' = control
    BY <1>1, RegistersFollow
  <1>4. CpuTypeOK'
    BY <1>2, <1>3 DEF CpuTypeOK, Rmw
  <1>5. state = "DONE" /\ START \in control => state' = "DONE"
    BY <1>1, EngineRests
  <1>6. Handshake'
    BY <1>2, <1>3, <1>5 DEF Handshake, Rmw
  <1>. QED
    BY <1>4, <1>6 DEF CpuGoal

\* The copy loop runs while the engine comes to rest.
LEMMA CopyOperandStep ==
  ASSUME CpuTypeOK, Handshake, CopyOperand
  PROVE  CpuGoal
  <1>1. PICK ext : HwClock(NoAccess, ext)
    BY DEF CopyOperand
  <1>2. NoAccess.write = FALSE /\ NoAccess.addr = "CONTROL" /\ NoAccess.valid = FALSE
    BY DEF NoAccess
  <1>3. /\ control' = control /\ status' \subseteq Bits
        /\ reg_rvalid' = FALSE /\ reg_rdata' = control
    BY <1>1, <1>2, RegistersFollow
  <1>4. /\ pc = "copy" /\ state \in {"IDLE", "DONE"} /\ START \notin control
        /\ step = "request" /\ UNCHANGED <<step, pass, val>>
        /\ cursor \in 0..CopyWords-1
    BY DEF CopyOperand, Handshake, CpuTypeOK
  <1>5. state' = "IDLE"
    BY <1>1, <1>4, EngineRests
  <1>6. /\ cursor = CopyWords - 1 => cursor' = 0 /\ pc' = "set_accumulate"
        /\ cursor # CopyWords - 1 => cursor' = cursor + 1 /\ pc' = "copy"
    BY <1>4 DEF CopyOperand, ext_mem_gnt
  <1>7. CpuTypeOK'
    <2>1. CASE cursor = CopyWords - 1
      BY <2>1, <1>3, <1>4, <1>6 DEF CpuTypeOK, Rmw
    <2>2. CASE cursor # CopyWords - 1
      <3>1. cursor' \in 0..CopyWords-1
        BY <2>2, <1>4, <1>6, LoopSizes
      <3>. QED  BY <2>2, <3>1, <1>3, <1>4, <1>6 DEF CpuTypeOK
    <2>. QED  BY <2>1, <2>2
  <1>8. Handshake'
    BY <1>3, <1>4, <1>5, <1>6 DEF Handshake, Rmw
  <1>. QED
    BY <1>7, <1>8 DEF CpuGoal

\* The read loop: a request, and its answer.
LEMMA ReadStep ==
  ASSUME CpuTypeOK, Handshake, ReadOutput \/ OutputRead
  PROVE  CpuGoal
  <1>1. PICK ext : HwClock(NoAccess, ext)
    BY DEF ReadOutput, OutputRead
  <1>2. NoAccess.write = FALSE /\ NoAccess.addr = "CONTROL" /\ NoAccess.valid = FALSE
    BY DEF NoAccess
  <1>3. /\ control' = control /\ status' \subseteq Bits
        /\ reg_rvalid' = FALSE /\ reg_rdata' = control
    BY <1>1, <1>2, RegistersFollow
  <1>4. /\ pc = "read" /\ state \in {"IDLE", "DONE"} /\ START \notin control
        /\ cursor \in Output /\ val' = val
    BY DEF ReadOutput, OutputRead, Handshake, CpuTypeOK
  <1>5. state' = "IDLE"
    BY <1>1, <1>4, EngineRests
  <1>6. CASE ReadOutput
    <2>1. step' \in {"answer", "request"} /\ UNCHANGED <<pc, pass, cursor>>
      BY <1>6 DEF ReadOutput
    <2>2. CpuTypeOK'
      BY <2>1, <1>3, <1>4 DEF CpuTypeOK
    <2>3. Handshake'
      BY <2>1, <1>3, <1>4, <1>5 DEF Handshake, Rmw
    <2>. QED  BY <2>2, <2>3 DEF CpuGoal
  <1>7. CASE OutputRead
    <2>1. /\ step' = "request"
          /\ \/ cursor # NUM_OUTPUTS - 1 /\ pc' = "read" /\ cursor' = cursor + 1
                /\ pass' = pass
             \/ pc' = "copy" /\ cursor' = 0 /\ pass' = 1
      BY <1>7 DEF OutputRead
    <2>2. CpuTypeOK'
      <3>1. cursor # NUM_OUTPUTS - 1 => cursor + 1 \in Output
        BY <1>4, CounterRanges
      <3>2. 0 \in 0..CopyWords-1 /\ 1 \in 1..PASSES
        BY LoopSizes, PassesAssumption
      <3>. QED  BY <2>1, <3>1, <3>2, <1>3, <1>4 DEF CpuTypeOK
    <2>3. Handshake'
      BY <2>1, <1>3, <1>4, <1>5 DEF Handshake, Rmw
    <2>. QED  BY <2>2, <2>3 DEF CpuGoal
  <1>. QED
    BY <1>6, <1>7

\* A cycle in which the CPU accesses nothing.
LEMMA PauseStep ==
  ASSUME CpuTypeOK, Handshake, Pause
  PROVE  CpuGoal
  <1>1. HwClock(NoAccess, Quiet) /\ NoAccess.write = FALSE
        /\ NoAccess.addr = "CONTROL" /\ NoAccess.valid = FALSE
    BY DEF Pause, NoAccess
  <1>2. step # "answer" /\ UNCHANGED <<pc, step, pass, cursor, val>>
    BY DEF Pause, cpuVars
  <1>3. /\ control' = control /\ status' \subseteq Bits
        /\ reg_rvalid' = FALSE /\ reg_rdata' = control
    BY <1>1, RegistersFollow
  <1>4. CpuTypeOK'
    BY <1>2, <1>3 DEF CpuTypeOK
  <1>5. Handshake'
    BY <1>1, <1>2, <1>3, QuietHandshake DEF Handshake, Rmw
  <1>. QED
    BY <1>4, <1>5 DEF CpuGoal

-----------------------------------------------------------------------------
\* Cleared registers and counters are in range.
LEMMA Cleared ==
  {} \subseteq Bits /\ 1 \in 1..PASSES /\ 0 \in {0} /\ FALSE \in BOOLEAN
  BY PassesAssumption

\* The handshake holds throughout, whatever pauses the CPU makes and whenever
\* it is reset.
THEOREM HandshakeKept == Spec => [](CpuTypeOK /\ Handshake)
  <1>1. ASSUME Init PROVE CpuTypeOK /\ Handshake
    <2>1. /\ pc = "init" /\ step = "request" /\ pass = 1 /\ cursor = 0 /\ val = {}
          /\ control = {} /\ status = {} /\ reg_rvalid = FALSE /\ reg_rdata = {}
      BY <1>1 DEF Init, RegInit
    <2>2. state = "IDLE"
      BY <1>1 DEF Init, ConvInit
    <2>3. CpuTypeOK
      BY <2>1, Cleared DEF CpuTypeOK, Rmw
    <2>. QED
      BY <2>1, <2>2, <2>3 DEF Handshake, Rmw
  <1>2. CpuTypeOK /\ Handshake /\ [Next \/ Reset]_vars => CpuTypeOK' /\ Handshake'
    <2> SUFFICES ASSUME CpuTypeOK, Handshake, [Next \/ Reset]_vars PROVE CpuGoal
      BY DEF CpuGoal
    <2>1. CASE CpuStep
      BY <2>1, InitAccelStep, LoadControlStep, ControlLoadedStep, StoreControlStep,
         PollStep, PollAnsweredStep, CopyOperandStep, ReadStep DEF CpuStep
    <2>2. CASE Pause
      BY <2>2, PauseStep
    <2>3. CASE Reset
      <3>1. /\ pc' = "init" /\ step' = "request" /\ pass' = 1 /\ cursor' = 0 /\ val' = {}
            /\ control' = {} /\ status' = {} /\ reg_rvalid' = FALSE /\ reg_rdata' = {}
        BY <2>3 DEF Reset, RegReset
      <3>2. state' = "IDLE"
        BY <2>3 DEF Reset, RegisterReset
      <3>3. CpuTypeOK'
        BY <3>1, Cleared DEF CpuTypeOK, Rmw
      <3>4. Handshake'
        BY <3>1, <3>2 DEF Handshake, Rmw
      <3>. QED
        BY <3>3, <3>4 DEF CpuGoal
    <2>4. CASE UNCHANGED vars
      BY <2>4 DEF vars, convVars, fsm, capture, regVars, cpuVars, CpuGoal,
         CpuTypeOK, Handshake
    <2>. QED
      BY <2>1, <2>2, <2>3, <2>4 DEF Next
  <1>. QED
    BY <1>1, <1>2, PTL DEF Spec

\* No access of the firmware to the scratchpad is ever stalled.
THEOREM FirmwareNeverStalled == Spec => []NeverStalled
  <1>1. Handshake => NeverStalled
    BY DEF Handshake, NeverStalled, ext_mem_gnt
  <1>. QED
    BY <1>1, HandshakeKept, PTL

\* Neither START nor ACCUMULATE changes during a run.
THEOREM ControlHeldInRun == Spec => ControlStable
  <1>1. CpuTypeOK /\ Handshake /\ [Next \/ Reset]_vars
          => [running /\ running' => control' = control]_vars
    <2> SUFFICES ASSUME CpuTypeOK, Handshake, Next \/ Reset, running, running'
                 PROVE  control' = control
      OBVIOUS
    <2>1. pc = "wait"
      BY DEF Handshake, CpuTypeOK, Rmw, running
    <2>2. ~Reset
      BY DEF Reset, RegisterReset, running
    <2>3. PICK reg, ext : HwClock(reg, ext) /\ reg.write = FALSE
      BY <2>1, <2>2
         DEF Next, CpuStep, Pause, InitAccel, LoadControl, ControlLoaded, StoreControl,
             Poll, PollAnswered, CopyOperand, ReadOutput, OutputRead, Rmw, Csr, NoAccess
    <2>. QED  BY <2>3, RegistersFollow
  <1>. QED
    BY <1>1, HandshakeKept, PTL DEF Spec, ControlStable

\* The firmware is one of the environments of ConvSpec, so what is proved of
\* the engine in any environment holds of the engine under the firmware.
THEOREM FirmwareIsLegal == Spec => ConvSpec
  <1>1. Init => ConvInit
    BY DEF Init
  <1>2. CpuTypeOK /\ [Next \/ Reset]_vars => [ConvNext]_convVars
    <2> SUFFICES ASSUME CpuTypeOK, [Next \/ Reset]_vars PROVE [ConvNext]_convVars
      OBVIOUS
    <2>1. ASSUME NEW reg, NEW ext \in ExtRequest, HwClock(reg, ext)
          PROVE  ConvNext
      <3>1. start_o \in BOOLEAN /\ accumulate_o \in BOOLEAN
        BY DEF start_o, accumulate_o
      <3>. QED  BY <2>1, <3>1 DEF HwClock, ConvNext
    <2>2. Quiet \in ExtRequest
      BY RequestAssumption
    <2>3. CASE CopyOperand
      <3>1. cursor \in 0..CopyWords-1 /\ pass \in 1..PASSES
        BY <2>3 DEF CopyOperand, CpuTypeOK
      <3>2. Write(CopyAddress(cursor), Operand(pass, CopyAddress(cursor))) \in ExtRequest
        BY <3>1, FirmwareRequestAssumption
      <3>. QED  BY <2>1, <2>3, <3>2 DEF CopyOperand
    <2>4. CASE ReadOutput
      <3>1. cursor \in Output
        BY <2>4 DEF ReadOutput, CpuTypeOK
      <3>2. Read(OUTPUT_BASE + cursor) \in ExtRequest
        BY <3>1, FirmwareRequestAssumption
      <3>. QED  BY <2>1, <2>4, <3>2 DEF ReadOutput
    <2>5. CASE (CpuStep /\ ~CopyOperand /\ ~ReadOutput) \/ Pause
      BY <2>1, <2>2, <2>5
         DEF CpuStep, Pause, InitAccel, LoadControl, ControlLoaded, StoreControl,
             Poll, PollAnswered, OutputRead
    <2>6. CASE Reset
      BY <2>6 DEF Reset, ConvNext
    <2>7. CASE UNCHANGED vars
      BY <2>7 DEF vars
    <2>. QED
      BY <2>3, <2>4, <2>5, <2>6, <2>7 DEF Next, CpuStep
  <1>. QED
    BY <1>1, <1>2, HandshakeKept, PTL DEF Spec, ConvSpec

-----------------------------------------------------------------------------
(* What the scratchpad holds.  The passes of an output tile are counted by *)
(* the recursive function OutputAfter; its equation is proved first.       *)

\* Induction on a set of natural numbers, from the least number outside it.
LEMMA SetInduction ==
  ASSUME NEW T, 0 \in T, \A n \in Nat : n \in T => n + 1 \in T
  PROVE  Nat \subseteq T
  <1> SUFFICES ASSUME Nat \ T # {} PROVE FALSE
    OBVIOUS
  <1> DEFINE B == Nat \ T
             R == OpToRel(<, Nat)
  <1>1. IsWellFoundedOn(R, Nat)
    BY NatLessThanWellFounded
  <1>2. \E x \in B : \A y \in B : ~(<<y, x>> \in R)
    <2>1. B \subseteq Nat /\ B # {}
      OBVIOUS
    <2> HIDE DEF B, R
    <2>. QED  BY <1>1, <2>1, WFMin
  <1>3. PICK x \in B : \A y \in B : ~(<<y, x>> \in R)
    BY <1>2
  <1>4. x \in Nat /\ x \notin T /\ x # 0
    BY <1>3
  <1>5. x - 1 \in Nat /\ (x - 1) + 1 = x
    BY <1>4
  <1>6. x - 1 \in T
    <2>1. <<x - 1, x>> \in R
      BY <1>4, <1>5 DEF OpToRel
    <2>. QED  BY <1>3, <1>5, <2>1
  <1>. QED
    BY <1>4, <1>5, <1>6

\* What one pass makes of the outputs g left by the passes before it.
AfterPass(g, p) ==
  [j \in Output |-> IF p = 0 THEN Zero
                    ELSE PartialSum(PassOperands(p), g[p-1][j], j, KERNEL_K)]

\* There is a function that satisfies the equation of OutputAfter up to pass n.
LEMMA OutputAfterExists ==
  \A n \in Nat : \E g : g = [p \in 0..n |-> AfterPass(g, p)]
  <1> DEFINE T == {n \in Nat : \E g : g = [p \in 0..n |-> AfterPass(g, p)]}
  <1>1. 0 \in T
    <2> DEFINE g == [p \in 0..0 |-> [j \in Output |-> Zero]]
    <2>1. \A p \in 0..0 : AfterPass(g, p) = [j \in Output |-> Zero]
      BY DEF AfterPass
    <2>2. g = [p \in 0..0 |-> AfterPass(g, p)]
      BY <2>1
    <2>. QED  BY <2>2
  <1>2. ASSUME NEW n \in Nat, n \in T PROVE n + 1 \in T
    <2>1. PICK g : g = [p \in 0..n |-> AfterPass(g, p)]
      BY <1>2
    <2> DEFINE h == [p \in 0..n+1 |-> IF p = n + 1 THEN AfterPass(g, p) ELSE g[p]]
    <2>2. \A p \in 0..n+1 : AfterPass(h, p) = AfterPass(g, p)
      <3> TAKE p \in 0..n+1
      <3>1. CASE p = 0
        BY <3>1 DEF AfterPass
      <3>2. CASE p # 0
        <4>1. p - 1 \in 0..n+1 /\ p - 1 # n + 1
          BY <3>2
        <4>2. h[p-1] = g[p-1]
          BY <4>1
        <4> HIDE DEF h
        <4>. QED  BY <4>2 DEF AfterPass
      <3>. QED  BY <3>1, <3>2
    <2>3. \A p \in 0..n+1 : h[p] = AfterPass(h, p)
      <3> TAKE p \in 0..n+1
      <3>1. CASE p = n + 1
        <4>1. h[p] = AfterPass(g, p)
          BY <3>1
        <4>. QED  BY <4>1, <2>2
      <3>2. CASE p # n + 1
        <4>1. p \in 0..n /\ h[p] = g[p]
          BY <3>2
        <4>2. g[p] = AfterPass(g, p)
          <5> HIDE DEF h
          <5>. QED  BY <4>1, <2>1
        <4>. QED  BY <4>1, <4>2, <2>2
      <3>. QED  BY <3>1, <3>2
    <2>4. h = [p \in 0..n+1 |-> h[p]]
      OBVIOUS
    <2>5. h = [p \in 0..n+1 |-> AfterPass(h, p)]
      <3> HIDE DEF h
      <3>. QED  BY <2>3, <2>4
    <2>6. \E g1 : g1 = [p \in 0..n+1 |-> AfterPass(g1, p)]
      <3> HIDE DEF h
      <3>. QED  BY <2>5
    <2>7. n + 1 \in Nat
      OBVIOUS
    <2>. QED  BY <2>6, <2>7
  <1>. QED
    <2> HIDE DEF T
    <2>1. Nat \subseteq T
      BY <1>1, <1>2, SetInduction
    <2>. QED  BY <2>1 DEF T

\* The equation of OutputAfter, which is recursive in the number of the pass.
LEMMA OutputAfterUnfolds ==
  ASSUME NEW p \in 0..PASSES, NEW j \in Output
  PROVE  OutputAfter[p][j] =
           IF p = 0 THEN Zero
           ELSE PartialSum(PassOperands(p), OutputAfter[p-1][j], j, KERNEL_K)
  <1>1. \E g : g = [q \in 0..PASSES |-> AfterPass(g, q)]
    BY OutputAfterExists, PassesAssumption
  <1>2. OutputAfter = CHOOSE g : g = [q \in 0..PASSES |-> AfterPass(g, q)]
    BY DEF OutputAfter, AfterPass
  <1>3. OutputAfter = [q \in 0..PASSES |-> AfterPass(OutputAfter, q)]
    BY <1>1, <1>2
  <1>4. OutputAfter[p] = AfterPass(OutputAfter, p)
    BY <1>3
  <1>. QED
    BY <1>4 DEF AfterPass

-----------------------------------------------------------------------------
(* The invariant: at each place of the program, how many operand words of  *)
(* this pass are in the scratchpad, and how many outputs this pass has     *)
(* replaced, the others still being those of the previous pass.            *)

CopiedUpTo(n) ==
  \A i \in 0..CopyWords-1 :
    i < n => mem[CopyAddress(i)] = Operand(pass, CopyAddress(i))

SummedUpTo(n) ==
  \A j \in Output :
    /\ j < n => mem[OUTPUT_BASE + j] = OutputAfter[pass][j]
    /\ j >= n /\ pass > 1 => mem[OUTPUT_BASE + j] = OutputAfter[pass-1][j]

Summing == {"FETCH_INPUTS", "FETCH_WEIGHTS", "WAIT_CAPTURE", "COMPUTE",
            "NEXT_KERNEL", "WRITE_OUTPUT"}

\* What a run of this pass adds to: the first one starts from 0.
Base == IF pass > 1 THEN PrevOutput ELSE Zero

ModeSet == ACCUMULATE \in control <=> pass > 1

\* The sum in the accumulator has the base of the mode.
RunSum == state \in Summing => accum = PartialSum(mem, Base, out_idx, TapsDone)

RunInv ==
  /\ SummedUpTo(TileNext) /\ RunSum
  /\ state \in {"READ_PREV_OUT", "WAIT_PREV_OUT"} => pass > 1

PassInv ==
  /\ pc = "init" => pass = 1
  /\ pc = "copy" => CopiedUpTo(cursor) /\ SummedUpTo(0)
  /\ pc \in {"set_accumulate", "start"} => CopiedUpTo(CopyWords) /\ SummedUpTo(0)
  /\ pc \in {"start", "wait"} => ModeSet
  /\ pc = "wait" => CopiedUpTo(CopyWords) /\ RunInv
  /\ pc \in {"clear", "read"} => SummedUpTo(NUM_OUTPUTS)
  /\ pc = "read" => pass = PASSES
  /\ pc = "read" /\ step = "answer" => rdata = mem[OUTPUT_BASE + cursor]

\* Every output is a sample of a channel of the tile.
LEMMA OutputPlace ==
  ASSUME NEW j \in Output
  PROVE  ChannelOf(j) \in 0..TILE_COUT-1 /\ SampleOf(j) \in 0..TILE_T-1
  BY GeometryFacts, SMT DEF Output, ChannelOf, SampleOf

\* The position of a word of a window among the input words.
LEMMA InputOffset ==
  ASSUME NEW c \in Channel, NEW t \in 0..INPUT_WINDOW-1
  PROVE  c * INPUT_WINDOW + t \in 0..InputWords-1
  <1>1. c + 1 \in Nat /\ TILE_CIN \in Nat /\ INPUT_WINDOW \in Nat /\ c + 1 <= TILE_CIN
    BY GeometryFacts DEF Channel
  <1>2. (c + 1) * INPUT_WINDOW <= InputWords /\ InputWords \in Nat
    BY <1>1, ProductMonotone DEF InputWords
  <1>3. c * INPUT_WINDOW \in Nat /\ (c + 1) * INPUT_WINDOW = c * INPUT_WINDOW + INPUT_WINDOW
    BY <1>1, SMT DEF Channel
  <1>. QED
    BY <1>1, <1>2, <1>3

\* The position of a word of a kernel among the weight words.
LEMMA WeightOffset ==
  ASSUME NEW m \in 0..TILE_COUT-1, NEW c \in Channel, NEW k \in Kernel
  PROVE  m * (TILE_CIN * KERNEL_K) + (c * KERNEL_K + k)
           \in 0..(TILE_COUT * (TILE_CIN * KERNEL_K) - 1)
  <1> DEFINE size == TILE_CIN * KERNEL_K
             off  == c * KERNEL_K + k
             all  == TILE_COUT * size
  <1>1. /\ m + 1 \in Nat /\ m + 1 <= TILE_COUT /\ TILE_COUT \in Nat
        /\ c + 1 \in Nat /\ c + 1 <= TILE_CIN /\ TILE_CIN \in Nat /\ KERNEL_K \in Nat
    BY GeometryFacts DEF Channel
  <1>2. (c + 1) * KERNEL_K <= size /\ size \in Nat
    BY <1>1, ProductMonotone
  <1>3. c * KERNEL_K \in Nat /\ (c + 1) * KERNEL_K = c * KERNEL_K + KERNEL_K
    BY <1>1, SMT DEF Channel
  <1>4. off \in 0..size-1
    <2> HIDE DEF size
    <2>. QED  BY <1>1, <1>2, <1>3 DEF Kernel
  <1>5. (m + 1) * size <= all /\ all \in Nat
    BY <1>1, <1>2, ProductMonotone
  <1> HIDE DEF size, off
  <1>6. m * size \in Nat /\ (m + 1) * size = m * size + size
    BY <1>1, <1>2, SMT
  <1> HIDE DEF all
  <1>7. m * size + off \in 0..all-1
    BY <1>2, <1>4, <1>5, <1>6
  <1>. QED
    BY <1>7 DEF size, off, all

\* Once the copy loop has run, the engine finds in every operand word what
\* this pass has stored there.
LEMMA OperandsCopied ==
  ASSUME CopiedUpTo(CopyWords), NEW j \in Output, NEW k \in Kernel
  PROVE  Operands(mem, j, k) = Operands(PassOperands(pass), j, k)
  <1> DEFINE size == TILE_COUT * (TILE_CIN * KERNEL_K)
  <1>1. InputWords \in Nat /\ size \in Nat /\ CopyWords = InputWords + size
    <2>1. TILE_CIN * KERNEL_K \in Nat /\ InputWords \in Nat
      BY GeometryFacts, SMT DEF InputWords
    <2>2. size \in Nat
      BY <2>1, GeometryFacts, SMT
    <2>. QED  BY <2>1, <2>2 DEF CopyWords
  <1>2. ASSUME NEW c \in Channel
        PROVE  LET a == InputWord(c, SampleOf(j) + k)
               IN  mem[a] = PassOperands(pass)[a]
    <2> DEFINE i == c * INPUT_WINDOW + (SampleOf(j) + k)
    <2>1. SampleOf(j) + k \in 0..INPUT_WINDOW-1
      BY OutputPlace, GeometryFacts DEF Kernel
    <2>2. i \in 0..InputWords-1
      BY <2>1, InputOffset
    <2>3. InputWord(c, SampleOf(j) + k) = INPUT_BASE + i
      <3>1. c * INPUT_WINDOW \in Nat
        BY GeometryFacts, SMT DEF Channel
      <3>. QED  BY <3>1, <2>1, GeometryFacts, LayoutAssumption DEF InputWord
    <2>4. InputWord(c, SampleOf(j) + k) \in Address
      BY <2>1, InputWordInMap
    <2> HIDE DEF i, size
    <2>5. i \in 0..CopyWords-1 /\ i < CopyWords /\ CopyAddress(i) = INPUT_BASE + i
      BY <1>1, <2>2 DEF CopyAddress
    <2>. QED  BY <2>3, <2>4, <2>5 DEF CopiedUpTo, PassOperands
  <1>3. ASSUME NEW c \in Channel
        PROVE  LET a == WeightWord(ChannelOf(j), c, k)
               IN  mem[a] = PassOperands(pass)[a]
    <2> DEFINE off == ChannelOf(j) * (TILE_CIN * KERNEL_K) + (c * KERNEL_K + k)
               i   == InputWords + off
    <2>1. off \in 0..size-1
      BY OutputPlace, WeightOffset
    <2>2. WeightWord(ChannelOf(j), c, k) = WEIGHT_BASE + off
      <3>1. c * KERNEL_K \in Nat /\ TILE_CIN * KERNEL_K \in Nat
        BY GeometryFacts, SMT DEF Channel
      <3>2. ChannelOf(j) * (TILE_CIN * KERNEL_K) \in Nat
        BY <3>1 DEF ChannelOf
      <3>. QED  BY <3>1, <3>2, LayoutAssumption DEF WeightWord, Kernel
    <2>3. WeightWord(ChannelOf(j), c, k) \in Address
      BY OutputPlace, WeightWordInMap
    <2> HIDE DEF off, size
    <2>4. i \in 0..CopyWords-1 /\ i < CopyWords /\ CopyAddress(i) = WEIGHT_BASE + off
      BY <1>1, <2>1, LayoutAssumption DEF CopyAddress
    <2> HIDE DEF i
    <2>. QED  BY <2>2, <2>3, <2>4 DEF CopiedUpTo, PassOperands
  <1>. QED
    BY <1>2, <1>3 DEF Operands

\* The sum over the scratchpad is the sum over the operands of this pass.
LEMMA SumIsOfThisPass ==
  ASSUME CopiedUpTo(CopyWords), NEW j \in Output, pass \in 1..PASSES,
         pass > 1 => mem[OUTPUT_BASE + j] = OutputAfter[pass-1][j]
  PROVE  PartialSum(mem, IF pass > 1 THEN mem[OUTPUT_BASE + j] ELSE Zero, j, KERNEL_K)
           = OutputAfter[pass][j]
  <1> DEFINE base == IF pass > 1 THEN mem[OUTPUT_BASE + j] ELSE Zero
  <1>1. base = OutputAfter[pass-1][j] /\ pass # 0 /\ pass \in 0..PASSES
    <2>1. CASE pass > 1
      BY <2>1, PassesAssumption
    <2>2. CASE ~(pass > 1)
      <3>1. pass - 1 = 0 /\ 0 \in 0..PASSES
        BY <2>2, PassesAssumption
      <3>2. OutputAfter[pass-1][j] = Zero
        BY <3>1, OutputAfterUnfolds
      <3>. QED  BY <2>2, <3>2, PassesAssumption
    <2>. QED  BY <2>1, <2>2
  <1>2. OutputAfter[pass][j]
          = PartialSum(PassOperands(pass), OutputAfter[pass-1][j], j, KERNEL_K)
    BY <1>1, OutputAfterUnfolds
  <1>3. \A b : PartialSum(mem, b, j, KERNEL_K)
                 = PartialSum(PassOperands(pass), b, j, KERNEL_K)
    <2>1. \A i \in 1..KERNEL_K : i - 1 \in Kernel
      BY GeometryFacts DEF Kernel
    <2>2. \A i \in 1..KERNEL_K :
            Operands(mem, j, i - 1) = Operands(PassOperands(pass), j, i - 1)
      BY <2>1, OperandsCopied
    <2>. QED  BY <2>2 DEF PartialSum
  <1>. QED
    BY <1>1, <1>2, <1>3

\* The words that the copy loop stores lie in the map, below the outputs.
LEMMA CopyBelowOutputs ==
  ASSUME NEW i \in 0..CopyWords-1
  PROVE  CopyAddress(i) \in Address /\ CopyAddress(i) < OUTPUT_BASE
  <1> DEFINE size == TILE_COUT * (TILE_CIN * KERNEL_K)
  <1>1. InputWords \in Nat /\ size \in Nat /\ CopyWords = InputWords + size
    <2>1. TILE_CIN * KERNEL_K \in Nat /\ InputWords \in Nat
      BY GeometryFacts, SMT DEF InputWords
    <2>2. size \in Nat
      BY <2>1, GeometryFacts, SMT
    <2>. QED  BY <2>1, <2>2 DEF CopyWords
  <1>2. /\ INPUT_BASE + InputWords <= WEIGHT_BASE /\ WEIGHT_BASE + size <= OUTPUT_BASE
        /\ OUTPUT_BASE + NUM_OUTPUTS <= NumWords
        /\ INPUT_BASE \in Nat /\ WEIGHT_BASE \in Nat /\ OUTPUT_BASE \in Nat
        /\ NumWords \in Nat
    BY LayoutAssumption DEF InputWords
  <1> HIDE DEF size
  <1>. QED
    BY <1>1, <1>2, GeometryFacts DEF CopyAddress, Address

-----------------------------------------------------------------------------
(* What one clock edge does to the scratchpad *)

\* The scratchpad changes only by a store of the CPU outside a run, or by the
\* engine in WRITE_OUTPUT; a load of the CPU outside a run returns its word.
LEMMA ScratchpadEdge ==
  ASSUME NEW reg, NEW ext, HwClock(reg, ext)
  PROVE  /\ running /\ state # "WRITE_OUTPUT" => mem' = mem
         /\ ext_mem_gnt /\ ~ext.we => mem' = mem
         /\ ext_mem_gnt /\ ext.req /\ ext.we => mem' = [mem EXCEPT ![ext.addr] = ext.wdata]
         /\ ext_mem_gnt /\ ext.req /\ ~ext.we => rdata' = mem[ext.addr]
  <1>1. PICK int : /\ Edge(int, ext)
                   /\ running /\ state # "WRITE_OUTPUT" => int.we = FALSE
    BY RequestTypes
       DEF HwClock, Clock, Idle, ReadPrevOut, WaitPrevOut, FetchInputs, FetchWeights,
           Fetch, WaitCapture, Compute, NextKernel, WriteOutput, NextOutput, Done,
           running
  <1>. QED
    BY <1>1 DEF Edge, Access, ext_mem_gnt, running

\* Nothing changes for the pass while scratchpad and pass stay.
LEMMA ContentsKept ==
  ASSUME mem' = mem, pass' = pass, NEW n
  PROVE  /\ CopiedUpTo(n) => CopiedUpTo(n)'
         /\ SummedUpTo(n) => SummedUpTo(n)'
  BY DEF CopiedUpTo, SummedUpTo

-----------------------------------------------------------------------------
(* The run that conv_accel_wait waits for *)

RunGoal == CopiedUpTo(CopyWords)' /\ RunInv' /\ ModeSet'

\* Between the outputs: nothing is summed, no output is replaced.
LEMMA BetweenOutputs ==
  ASSUME CopiedUpTo(CopyWords), RunInv, ModeSet, mem' = mem, control' = control,
         pass' = pass, TileNext' = TileNext,
         state' \in {"IDLE", "READ_PREV_OUT", "WAIT_PREV_OUT", "NEXT_OUTPUT", "DONE"},
         state' \in {"READ_PREV_OUT", "WAIT_PREV_OUT"} => pass > 1
  PROVE  RunGoal
  <1>1. PICK n : n = TileNext
    OBVIOUS
  <1>2. CopiedUpTo(CopyWords)' /\ SummedUpTo(n)'
    BY <1>1, ContentsKept DEF RunInv
  <1>3. RunSum'
    BY DEF RunSum, Summing
  <1>. QED
    BY <1>1, <1>2, <1>3 DEF RunGoal, RunInv, ModeSet

\* An output starts with no taps on the base of the mode.
LEMMA OutputStarts ==
  ASSUME CopiedUpTo(CopyWords), RunInv, ModeSet, mem' = mem, control' = control,
         pass' = pass, TileNext' = TileNext, kernel_idx' = 0,
         state' = "FETCH_INPUTS", accum' = FormalSum(Base', <<>>)
  PROVE  RunGoal
  <1>1. PICK n : n = TileNext
    OBVIOUS
  <1>2. CopiedUpTo(CopyWords)' /\ SummedUpTo(n)'
    BY <1>1, ContentsKept DEF RunInv
  <1>3. TapsDone' = 0
    BY DEF TapsDone
  <1>4. accum' = PartialSum(mem', Base', out_idx', TapsDone')
    BY <1>3, NoTaps
  <1>. QED
    BY <1>1, <1>2, <1>4 DEF RunGoal, RunInv, RunSum, ModeSet

\* An output goes on: its sum stays, or gains the tap that COMPUTE adds.
LEMMA OutputGoesOn ==
  ASSUME CopiedUpTo(CopyWords), RunInv, ModeSet, mem' = mem, control' = control,
         pass' = pass, out_idx' = out_idx, state \in Summing, state' \in Summing,
         accum' = PartialSum(mem, Base, out_idx, TapsDone')
  PROVE  RunGoal
  <1>1. PICK n : n = TileNext
    OBVIOUS
  <1>2. CopiedUpTo(CopyWords)' /\ SummedUpTo(n)'
    BY <1>1, ContentsKept DEF RunInv
  <1>3. TileNext' = n
    BY <1>1 DEF TileNext, Summing
  <1>4. Base' = Base
    BY DEF Base, PrevOutput
  <1>5. RunSum'
    BY <1>4 DEF RunSum
  <1>. QED
    BY <1>2, <1>3, <1>5 DEF RunGoal, RunInv, ModeSet, Summing

\* WRITE_OUTPUT: one more output is replaced by its sum after this pass.
LEMMA OutputReplaced ==
  ASSUME Inv, CopiedUpTo(CopyWords), RunInv, ModeSet, pass \in 1..PASSES,
         control' = control, pass' = pass, NEW ext, WriteOutput(ext)
  PROVE  RunGoal
  <1>1. PICK j \in Output : j = out_idx
    BY DEF Inv, TypeOK
  <1>2. /\ state = "WRITE_OUTPUT" /\ state' = "NEXT_OUTPUT" /\ out_idx' = j
        /\ TileNext = j /\ TileNext' = j + 1
    BY <1>1 DEF WriteOutput, Goto, TileNext
  <1>3. OUTPUT_BASE + j \in Address /\ output_addr = OUTPUT_BASE + j
        /\ PrevOutput = mem[OUTPUT_BASE + j]
    BY <1>1, OutputWordInMap, EngineAddresses DEF Inv, TypeOK, PrevOutput
  <1>4. mem' = [mem EXCEPT ![OUTPUT_BASE + j] = accum]
    BY <1>2, <1>3 DEF WriteOutput, Write, Edge, Access, ext_mem_gnt
  <1>5. SummedUpTo(j)
    BY <1>2 DEF RunInv
  <1>6. accum = OutputAfter[pass][j]
    <2>1. accum = PartialSum(mem, Base, j, KERNEL_K)
      BY <1>1, <1>2 DEF RunInv, RunSum, Summing, TapsDone
    <2>2. pass > 1 => mem[OUTPUT_BASE + j] = OutputAfter[pass-1][j]
      BY <1>5, GeometryFacts DEF SummedUpTo, Output
    <2>. QED  BY <2>1, <2>2, <1>3, SumIsOfThisPass DEF Base
  <1>7. \A i \in Output : mem'[OUTPUT_BASE + i] =
                            IF i = j THEN OutputAfter[pass][j] ELSE mem[OUTPUT_BASE + i]
    <2> TAKE i \in Output
    <2>1. OUTPUT_BASE + i \in Address
      BY OutputWordInMap
    <2>2. OUTPUT_BASE + i = OUTPUT_BASE + j <=> i = j
      BY LayoutAssumption, GeometryFacts DEF Output
    <2>3. mem = [a \in Address |-> mem[a]]
      BY DEF Inv, TypeOK
    <2>. QED  BY <1>3, <1>4, <1>6, <2>1, <2>2, <2>3
  <1>8. SummedUpTo(j + 1)'
    <2> SUFFICES ASSUME NEW i \in Output
                 PROVE  /\ i < j + 1 => mem'[OUTPUT_BASE + i] = OutputAfter[pass][i]
                        /\ i >= j + 1 /\ pass > 1
                             => mem'[OUTPUT_BASE + i] = OutputAfter[pass-1][i]
      BY DEF SummedUpTo
    <2>1. CASE i = j
      BY <2>1, <1>7, GeometryFacts DEF Output
    <2>2. CASE i # j
      <3>1. mem'[OUTPUT_BASE + i] = mem[OUTPUT_BASE + i]
        BY <2>2, <1>7
      <3>2. (i < j + 1 => i < j) /\ (i >= j + 1 => i >= j)
        BY <2>2, GeometryFacts DEF Output
      <3>. QED  BY <3>1, <3>2, <1>5 DEF SummedUpTo
    <2>. QED  BY <2>1, <2>2
  <1>9. CopiedUpTo(CopyWords)'
    <2> SUFFICES ASSUME NEW i \in 0..CopyWords-1, i < CopyWords
                 PROVE  mem'[CopyAddress(i)] = Operand(pass, CopyAddress(i))
      BY DEF CopiedUpTo
    <2>1. CopyAddress(i) # OUTPUT_BASE + j
      <3>1. CopyAddress(i) \in Address /\ CopyAddress(i) < OUTPUT_BASE
        BY CopyBelowOutputs
      <3>. QED  BY <3>1, LayoutAssumption, GeometryFacts DEF Address, Output
    <2>. QED  BY <2>1, <1>4 DEF CopiedUpTo
  <1>10. RunSum'
    BY <1>2 DEF RunSum, Summing
  <1>. QED
    BY <1>2, <1>8, <1>9, <1>10 DEF RunGoal, RunInv, ModeSet

\* One edge of the run, while the CPU polls.
LEMMA RunStep ==
  ASSUME Inv, CpuTypeOK, Handshake, PassInv, pc = "wait", pass' = pass,
         NEW reg, HwClock(reg, Quiet), reg.write = FALSE
  PROVE  RunGoal
  <1>1. /\ CopiedUpTo(CopyWords) /\ RunInv /\ ModeSet /\ control' = control
        /\ pass \in 1..PASSES /\ (accumulate_o <=> pass > 1) /\ start_o
    BY RegistersFollow DEF PassInv, ModeSet, accumulate_o, start_o, Handshake, CpuTypeOK
  <1>2. Clock(start_o, accumulate_o, Quiet)
    BY DEF HwClock
  <1>3. state # "WRITE_OUTPUT" => mem' = mem
    BY RequestTypes, ScratchpadEdge DEF running, ext_mem_gnt
  <1>4. CASE Idle(start_o, accumulate_o, Quiet)
    <2>1. /\ state' = IF pass > 1 THEN "READ_PREV_OUT" ELSE "FETCH_INPUTS"
          /\ kernel_idx' = 0 /\ out_idx' = 0 /\ accum' = FormalSum(Zero, <<>>)
          /\ mem' = mem /\ TileNext' = TileNext
      BY <1>1, <1>3, <1>4 DEF Idle, Goto, TileNext
    <2>2. CASE pass > 1
      BY <2>1, <2>2, <1>1, BetweenOutputs
    <2>3. CASE ~(pass > 1)
      BY <2>1, <2>3, <1>1, OutputStarts DEF Base
    <2>. QED  BY <2>2, <2>3
  <1>5. CASE ReadPrevOut(Quiet)
    <2>1. /\ state = "READ_PREV_OUT" /\ state' = "WAIT_PREV_OUT" /\ mem' = mem
          /\ TileNext' = TileNext
      BY <1>3, <1>5 DEF ReadPrevOut, Goto, TileNext
    <2>. QED  BY <2>1, <1>1, BetweenOutputs DEF RunInv
  <1>6. CASE WaitPrevOut(Quiet)
    <2>1. /\ state = "WAIT_PREV_OUT" /\ mem_valid /\ rdata = PrevOutput
          /\ kernel_idx = 0 /\ pass > 1
      BY <1>1, <1>6 DEF WaitPrevOut, Inv, PipelineInv, RunInv
    <2>2. /\ state' = "FETCH_INPUTS" /\ accum' = FormalSum(rdata, <<>>) /\ mem' = mem
          /\ UNCHANGED <<out_idx, kernel_idx>>
      BY <1>3, <1>6, <2>1 DEF WaitPrevOut, Goto
    <2>3. Base' = rdata /\ TileNext' = TileNext
      BY <2>1, <2>2, <1>1, OperandsStable DEF Base, TileNext
    <2>. QED  BY <2>1, <2>2, <2>3, <1>1, OutputStarts
  <1>7. CASE FetchInputs(Quiet) \/ FetchWeights(Quiet) \/ WaitCapture(Quiet)
    <2>1. /\ state \in {"FETCH_INPUTS", "FETCH_WEIGHTS", "WAIT_CAPTURE"}
          /\ state' \in {"FETCH_INPUTS", "FETCH_WEIGHTS", "WAIT_CAPTURE", "COMPUTE"}
          /\ UNCHANGED <<out_idx, kernel_idx, accum>>
      BY <1>7 DEF FetchInputs, FetchWeights, Fetch, WaitCapture, Goto
    <2>2. mem' = mem /\ TapsDone' = TapsDone
      BY <1>3, <2>1 DEF TapsDone
    <2>3. accum' = PartialSum(mem, Base, out_idx, TapsDone')
      BY <1>1, <2>1, <2>2 DEF RunInv, RunSum, Summing
    <2>. QED  BY <2>1, <2>2, <2>3, <1>1, OutputGoesOn DEF Summing
  <1>8. CASE Compute(Quiet)
    <2>1. /\ state = "COMPUTE" /\ state' = "NEXT_KERNEL" /\ out_idx' = out_idx
          /\ kernel_idx' = kernel_idx /\ accum' = AddDot(accum, in_pipe, wt_pipe)
      BY <1>8 DEF Compute, Goto
    <2>2. kernel_idx \in Nat /\ TapsDone = kernel_idx /\ TapsDone' = kernel_idx + 1
      BY <2>1 DEF Inv, TypeOK, Kernel, TapsDone
    <2>3. accum = PartialSum(mem, Base, out_idx, kernel_idx)
      BY <1>1, <2>1, <2>2 DEF RunInv, RunSum, Summing
    <2>4. accum' = PartialSum(mem, Base, out_idx, TapsDone')
      BY <2>1, <2>2, <2>3, PipesAreOperands, OneMoreTap
    <2>. QED  BY <2>1, <2>4, <1>1, <1>3, OutputGoesOn DEF Summing
  <1>9. CASE NextKernel(Quiet)
    <2>1. /\ state = "NEXT_KERNEL" /\ UNCHANGED <<out_idx, accum>>
          /\ \/ state' = "WRITE_OUTPUT" /\ kernel_idx = KERNEL_K - 1
             \/ state' = "FETCH_INPUTS" /\ kernel_idx' = kernel_idx + 1
      BY <1>9, CounterRanges DEF NextKernel, Goto, Inv, TypeOK
    <2>2. mem' = mem /\ TapsDone' = TapsDone
      BY <1>3, <2>1, GeometryFacts DEF TapsDone
    <2>3. accum' = PartialSum(mem, Base, out_idx, TapsDone')
      BY <1>1, <2>1, <2>2 DEF RunInv, RunSum, Summing
    <2>. QED  BY <2>1, <2>2, <2>3, <1>1, OutputGoesOn DEF Summing
  <1>10. CASE WriteOutput(Quiet)
    BY <1>1, <1>10, OutputReplaced
  <1>11. CASE NextOutput(accumulate_o, Quiet)
    <2>1. state = "NEXT_OUTPUT" /\ mem' = mem /\ TileNext = out_idx + 1
      BY <1>3, <1>11 DEF NextOutput, TileNext
    <2>2. CASE out_idx = NUM_OUTPUTS - 1
      <3>1. state' = "DONE" /\ TileNext' = TileNext
        BY <1>11, <2>1, <2>2 DEF NextOutput, Goto, TileNext
      <3>. QED  BY <2>1, <3>1, <1>1, BetweenOutputs
    <2>3. CASE out_idx # NUM_OUTPUTS - 1
      <3>1. /\ out_idx' = out_idx + 1 /\ kernel_idx' = 0
            /\ accum' = FormalSum(Zero, <<>>)
            /\ state' = IF pass > 1 THEN "READ_PREV_OUT" ELSE "FETCH_INPUTS"
        BY <1>1, <1>11, <2>3, CounterRanges DEF NextOutput, Goto, Inv, TypeOK
      <3>2. TileNext' = TileNext
        BY <2>1, <3>1 DEF TileNext
      <3>3. CASE pass > 1
        BY <3>1, <3>2, <3>3, <2>1, <1>1, BetweenOutputs
      <3>4. CASE ~(pass > 1)
        BY <3>1, <3>2, <3>4, <2>1, <1>1, OutputStarts DEF Base
      <3>. QED  BY <3>3, <3>4
    <2>. QED  BY <2>2, <2>3
  <1>12. CASE Done(start_o, Quiet)
    <2>1. state = "DONE" /\ state' = "DONE" /\ mem' = mem /\ TileNext' = TileNext
      BY <1>1, <1>3, <1>12 DEF Done, Goto, TileNext
    <2>. QED  BY <2>1, <1>1, BetweenOutputs
  <1>. QED
    BY <1>2, <1>4, <1>5, <1>6, <1>7, <1>8, <1>9, <1>10, <1>11, <1>12 DEF Clock

-----------------------------------------------------------------------------
(* One lemma per action of the program *)

Assumed == Inv /\ CpuTypeOK /\ Handshake /\ PassInv

\* conv_accel_init.
LEMMA InitAccelPass ==
  ASSUME Assumed, InitAccel
  PROVE  PassInv'
  <1>1. pc = "init" /\ pc' = "copy" /\ pass' = 1 /\ cursor' = 0
    BY DEF InitAccel, Assumed, PassInv, CpuTypeOK, Rmw
  <1>2. CopiedUpTo(cursor)'
    BY <1>1 DEF CopiedUpTo
  <1>3. SummedUpTo(0)'
    BY <1>1, GeometryFacts DEF SummedUpTo, Output
  <1>. QED
    BY <1>1, <1>2, <1>3 DEF PassInv

\* An edge at which the program is not in a run, stores nothing and stays
\* where it is.
LEMMA StayPass ==
  ASSUME Assumed, NEW reg, NEW ext, HwClock(reg, ext), ~ext.we, reg.write = FALSE,
         pc # "wait", UNCHANGED <<pc, pass, cursor>>
  PROVE  (pc = "read" /\ step' = "answer" => rdata' = mem[OUTPUT_BASE + cursor])
           => PassInv'
  <1>1. mem' = mem /\ control' = control
    BY ScratchpadEdge, RegistersFollow
       DEF Assumed, Handshake, CpuTypeOK, ext_mem_gnt, Rmw
  <1>2. PICK n : n = cursor
    OBVIOUS
  <1>3. \A m : /\ CopiedUpTo(m) => CopiedUpTo(m)'
               /\ SummedUpTo(m) => SummedUpTo(m)'
    BY <1>1, ContentsKept
  <1>. QED
    BY <1>1, <1>2, <1>3 DEF Assumed, PassInv, ModeSet

\* The loads of the read-modify-writes, and a cycle that accesses nothing.
LEMMA LoadPass ==
  ASSUME Assumed, LoadControl \/ ControlLoaded \/ (Pause /\ pc # "wait")
  PROVE  PassInv'
  <1>1. PICK reg : HwClock(reg, Quiet) /\ reg.write = FALSE
    BY DEF LoadControl, ControlLoaded, Pause, Csr, NoAccess
  <1>2. pc # "wait" /\ UNCHANGED <<pc, pass, cursor>>
    BY DEF LoadControl, ControlLoaded, Pause, Rmw, cpuVars
  <1>3. ~(pc = "read" /\ step' = "answer")
    BY DEF LoadControl, ControlLoaded, Pause, Rmw, cpuVars
  <1>4. ~Quiet.we
    BY RequestTypes
  <1>. QED
    BY <1>1, <1>2, <1>3, <1>4, StayPass

\* The stores of the read-modify-writes: the mode is set before the run
\* starts, START leaves it alone, and the clear ends the pass.
LEMMA StoreControlPass ==
  ASSUME Assumed, StoreControl
  PROVE  PassInv'
  <1>1. HwClock(Csr(TRUE, "CONTROL", Modified(val)), Quiet)
    BY DEF StoreControl
  <1>2. /\ pc \in Rmw /\ step' = "request" /\ val = control
        /\ state \in {"IDLE", "DONE"} /\ cursor' = 0 /\ pass \in 1..PASSES
    BY DEF StoreControl, Assumed, Handshake, CpuTypeOK, Rmw
  <1>3. control' = Modified(control)
    BY <1>1, <1>2, ControlWritten
  <1>4. mem' = mem
    BY <1>1, <1>2, ScratchpadEdge, RequestTypes DEF ext_mem_gnt
  <1>5. CASE pc = "set_accumulate"
    <2>1. pc' = "start" /\ pass' = pass
      BY <1>5 DEF StoreControl
    <2>2. ModeSet'
      <3>1. CASE pass > 1
        BY <3>1, <2>1, <1>3, <1>5 DEF ModeSet, Modified
      <3>2. CASE ~(pass > 1)
        <4>1. pass = 1
          BY <3>2, <1>2, PassesAssumption
        <4>. QED  BY <4>1, <3>2, <2>1, <1>3, <1>5 DEF ModeSet, Modified
      <3>. QED  BY <3>1, <3>2
    <2>3. CopiedUpTo(CopyWords)' /\ SummedUpTo(0)'
      BY <1>4, <1>5, <2>1, ContentsKept DEF Assumed, PassInv
    <2>. QED  BY <2>1, <2>2, <2>3 DEF PassInv
  <1>6. CASE pc = "start"
    <2>1. pc' = "wait" /\ pass' = pass
      BY <1>6 DEF StoreControl
    <2>2. ModeSet'
      BY <1>3, <1>6, <2>1
         DEF ModeSet, Modified, Assumed, PassInv, START, ACCUMULATE
    <2>3. CopiedUpTo(CopyWords)' /\ SummedUpTo(0)'
      BY <1>4, <1>6, <2>1, ContentsKept DEF Assumed, PassInv
    <2>4. state' = "IDLE" /\ TileNext' = 0
      BY <1>1, <1>6, EngineRests DEF Assumed, Handshake, TileNext
    <2>5. RunInv'
      BY <2>3, <2>4 DEF RunInv, RunSum, Summing
    <2>. QED  BY <2>1, <2>2, <2>3, <2>5 DEF PassInv
  <1>7. CASE pc = "clear"
    <2>1. SummedUpTo(NUM_OUTPUTS)
      BY <1>7 DEF Assumed, PassInv
    <2>2. CASE pass < PASSES
      <3>1. pc' = "copy" /\ pass' = pass + 1
        BY <1>7, <2>2 DEF StoreControl
      <3>2. CopiedUpTo(cursor)'
        BY <1>2 DEF CopiedUpTo
      <3>3. SummedUpTo(0)'
        <4>1. \A j \in Output : mem[OUTPUT_BASE + j] = OutputAfter[pass][j] /\ ~(j < 0)
          BY <2>1, GeometryFacts DEF SummedUpTo, Output
        <4>2. pass' - 1 = pass
          BY <1>2, <3>1
        <4>. QED  BY <1>4, <4>1, <4>2 DEF SummedUpTo
      <3>. QED  BY <3>1, <3>2, <3>3 DEF PassInv
    <2>3. CASE ~(pass < PASSES)
      <3>1. pc' = "read" /\ pass' = pass /\ pass = PASSES
        BY <1>2, <1>7, <2>3, PassesAssumption DEF StoreControl
      <3>2. SummedUpTo(NUM_OUTPUTS)'
        BY <1>4, <2>1, <3>1, ContentsKept
      <3>. QED  BY <1>2, <3>1, <3>2 DEF PassInv
    <2>. QED  BY <2>2, <2>3
  <1>. QED
    BY <1>2, <1>5, <1>6, <1>7 DEF Rmw

\* The polling loop: it is left in DONE, where every output is replaced.
LEMMA PollPass ==
  ASSUME Assumed, Poll \/ PollAnswered \/ (Pause /\ pc = "wait")
  PROVE  PassInv'
  <1>1. PICK reg : HwClock(reg, Quiet) /\ reg.write = FALSE
    BY DEF Poll, PollAnswered, Pause, Csr, NoAccess
  <1>2. pc = "wait" /\ pass' = pass /\ pc' \in {"wait", "clear"}
    BY DEF Poll, PollAnswered, Pause, cpuVars
  <1>3. RunGoal
    BY <1>1, <1>2, RunStep DEF Assumed
  <1>4. ASSUME pc' = "clear" PROVE SummedUpTo(NUM_OUTPUTS)'
    <2>1. step = "answer" /\ DONE \in reg_rdata
      BY <1>2, <1>4 DEF Poll, PollAnswered, Pause, cpuVars
    <2>2. state = "DONE" /\ START \in control
      BY <1>2, <2>1 DEF Assumed, Handshake
    <2>3. TileNext = NUM_OUTPUTS
      BY <2>2, GeometryFacts DEF Assumed, Inv, PipelineInv, TileNext
    <2>4. mem' = mem
      BY <1>1, <2>2, ScratchpadEdge, RequestTypes DEF ext_mem_gnt
    <2>5. SummedUpTo(NUM_OUTPUTS)
      BY <1>2, <2>3 DEF Assumed, PassInv, RunInv
    <2>. QED  BY <1>2, <2>4, <2>5, ContentsKept
  <1>. QED
    BY <1>2, <1>3, <1>4 DEF PassInv, RunGoal

\* The copy loop: one more operand word is in place, the outputs are not
\* touched.
LEMMA CopyPass ==
  ASSUME Assumed, CopyOperand
  PROVE  PassInv'
  <1>1. PICK n \in 0..CopyWords-1 : n = cursor
    BY DEF CopyOperand, Assumed, CpuTypeOK
  <1> DEFINE a   == CopyAddress(n)
             d   == Operand(pass, a)
  <1>2. /\ pc = "copy" /\ ext_mem_gnt /\ pass' = pass
        /\ HwClock(NoAccess, Write(a, d)) /\ CopiedUpTo(n) /\ SummedUpTo(0)
    BY <1>1 DEF CopyOperand, Assumed, Handshake, PassInv, ext_mem_gnt
  <1>3. mem' = [mem EXCEPT ![a] = d]
    BY <1>2, ScratchpadEdge, RequestTypes
  <1>4. a \in Address /\ a < OUTPUT_BASE
    BY CopyBelowOutputs
  <1>5. mem = [b \in Address |-> mem[b]]
    BY DEF Assumed, Inv, TypeOK
  <1>6. CopiedUpTo(n + 1)'
    <2> SUFFICES ASSUME NEW i \in 0..CopyWords-1, i < n + 1
                 PROVE  mem'[CopyAddress(i)] = Operand(pass, CopyAddress(i))
      BY <1>2 DEF CopiedUpTo
    <2>1. CASE CopyAddress(i) = a
      BY <2>1, <1>3, <1>4, <1>5
    <2>2. CASE CopyAddress(i) # a
      <3>1. i < n /\ CopyAddress(i) \in Address
        BY <2>2, <1>1, CopyBelowOutputs
      <3>. QED  BY <3>1, <2>2, <1>2, <1>3 DEF CopiedUpTo
    <2>. QED  BY <2>1, <2>2
  <1>7. SummedUpTo(0)'
    <2>1. \A j \in Output : mem'[OUTPUT_BASE + j] = mem[OUTPUT_BASE + j]
      <3> TAKE j \in Output
      <3>1. OUTPUT_BASE + j # a
        BY <1>4, LayoutAssumption, GeometryFacts DEF Address, Output
      <3>. QED  BY <3>1, <1>3
    <2>. QED  BY <1>2, <2>1 DEF SummedUpTo
  <1>8. \/ n = CopyWords - 1 /\ pc' = "set_accumulate"
        \/ cursor' = n + 1 /\ pc' = "copy"
    BY <1>1, <1>2 DEF CopyOperand
  <1>9. n = CopyWords - 1 => CopiedUpTo(CopyWords)'
    <2>1. n = CopyWords - 1 => n + 1 = CopyWords
      BY <1>1, LoopSizes
    <2>. QED  BY <1>6, <2>1
  <1>. QED
    BY <1>6, <1>7, <1>8, <1>9 DEF PassInv

\* The read loop: the word requested is an output, and arrives as it is.
LEMMA ReadPass ==
  ASSUME Assumed, ReadOutput \/ OutputRead
  PROVE  PassInv'
  <1>1. pc = "read" /\ SummedUpTo(NUM_OUTPUTS) /\ pass = PASSES /\ ext_mem_gnt
    BY DEF ReadOutput, OutputRead, Assumed, PassInv, Handshake, ext_mem_gnt
  <1>2. CASE ReadOutput
    <2>1. HwClock(NoAccess, Read(OUTPUT_BASE + cursor)) /\ NoAccess.write = FALSE
          /\ UNCHANGED <<pc, pass, cursor>>
      BY <1>2 DEF ReadOutput, NoAccess
    <2>2. rdata' = mem[OUTPUT_BASE + cursor] /\ ~Read(OUTPUT_BASE + cursor).we
      BY <1>1, <2>1, ScratchpadEdge, RequestTypes
    <2>. QED  BY <1>1, <2>1, <2>2, StayPass
  <1>3. CASE OutputRead
    <2>1. HwClock(NoAccess, Quiet) /\ step' = "request"
          /\ \/ pc' = "read" /\ pass' = pass
             \/ pc' = "copy" /\ pass' = 1 /\ cursor' = 0
      BY <1>3 DEF OutputRead
    <2>2. mem' = mem
      BY <1>1, <2>1, ScratchpadEdge, RequestTypes
    <2>3. CASE pc' = "read" /\ pass' = pass
      BY <2>1, <2>2, <2>3, <1>1, ContentsKept DEF PassInv
    <2>4. CASE pc' = "copy" /\ pass' = 1 /\ cursor' = 0
      <3>1. CopiedUpTo(cursor)'
        BY <2>4 DEF CopiedUpTo
      <3>2. SummedUpTo(0)'
        BY <2>4, GeometryFacts DEF SummedUpTo, Output
      <3>. QED  BY <2>4, <3>1, <3>2 DEF PassInv
    <2>. QED  BY <2>1, <2>3, <2>4
  <1>. QED
    BY <1>2, <1>3

\* The invariant holds throughout, across passes, output tiles and resets.
THEOREM PassInvariant == Spec => []PassInv
  <1>1. Init => PassInv
    BY DEF Init, PassInv
  <1>2. Assumed /\ [Next \/ Reset]_vars => PassInv'
    <2> SUFFICES ASSUME Assumed, [Next \/ Reset]_vars PROVE PassInv'
      OBVIOUS
    <2>1. CASE CpuStep
      BY <2>1, InitAccelPass, LoadPass, StoreControlPass, PollPass, CopyPass, ReadPass
         DEF CpuStep
    <2>2. CASE Pause
      BY <2>2, LoadPass, PollPass
    <2>3. CASE Reset
      BY <2>3 DEF Reset, PassInv
    <2>4. CASE UNCHANGED vars
      BY <2>4 DEF Assumed, vars, convVars, fsm, capture, regVars, cpuVars, PassInv,
         CopiedUpTo, SummedUpTo, ModeSet, RunInv, RunSum, Base, PrevOutput, TapsDone,
         TileNext
    <2>. QED
      BY <2>1, <2>2, <2>3, <2>4 DEF Next
  <1>3. Inv /\ CpuTypeOK /\ Handshake /\ PassInv => Assumed
    BY DEF Assumed
  <1>. QED
    BY <1>1, <1>2, <1>3, HandshakeKept, FirmwareIsLegal, EngineInvariant, PTL DEF Spec

\* The firmware's wait ends only when every output is the sum over the passes
\* made so far.
THEOREM WaitCorrect == Spec => []WaitSeesOwnRun
  <1>1. PassInv => WaitSeesOwnRun
    <2> SUFFICES ASSUME PassInv, pc = "clear", NEW j \in Output
                 PROVE  mem[OUTPUT_BASE + j] = OutputAfter[pass][j]
      BY DEF WaitSeesOwnRun
    <2>1. j < NUM_OUTPUTS
      BY GeometryFacts DEF Output
    <2>. QED  BY <2>1 DEF PassInv, SummedUpTo
  <1>. QED
    BY <1>1, PassInvariant, PTL

\* The words read back are the sums over all the passes.
THEOREM ReadCorrect == Spec => []ReadsFullSum
  <1>1. PassInv /\ CpuTypeOK => ReadsFullSum
    <2> SUFFICES ASSUME PassInv, CpuTypeOK, pc = "read", step = "answer"
                 PROVE  rdata = OutputAfter[PASSES][cursor]
      BY DEF ReadsFullSum
    <2>1. PICK j \in Output : j = cursor
      BY DEF CpuTypeOK
    <2>2. j < NUM_OUTPUTS
      BY GeometryFacts DEF Output
    <2>. QED  BY <2>1, <2>2 DEF PassInv, SummedUpTo
  <1>. QED
    BY <1>1, PassInvariant, HandshakeKept, PTL
=============================================================================
