# Verification of the 1-D convolution accelerator

TLA+ models of the convolution accelerator of this repository, of the registers,
the firmware and the testbench that drive it, of parts of the SoC around it and of
the Python scripts that generate data and layouts and vendor third-party code; TLC
configurations that check them on small instances; and TLAPS proofs that hold for
every instance. Paths below are
relative to the repository's `src/`; `rtl/` stands for `soc/rtl/`,
`conv1d/hw/` for `soc/rtl/user_domain/conv1d/hw/`, `sw/` for `soc/sw/`.

## 1. The system

A RISC-V SoC (Croc) with a small coprocessor. The coprocessor holds a 128-word
scratchpad. The firmware copies a tile of inputs and weights into it, sets
START, waits for DONE, and reads 24 outputs back; a convolution of any size is
a loop of such tiles, in which the input channels are processed four at a time
and later passes accumulate on the outputs of earlier ones. Beside the SoC there
are scripts: `datagen.py` computes the operands and the expected outputs and has
them written as C by `c_gen.py`, `def2stream.py` writes the chip's layout, and
`vendor.py` copies third-party code into the tree.

| Component | State | Operations | Talks to | Hard behaviours | What makes it correct |
|---|---|---|---|---|---|
| Convolution engine `conv1d/hw/conv1d.sv` (the copy in `accelerator/hw/` differs in the SRAM instance only) | FSM of 11 states, four counters, capture flags, 4+4 operand registers, accumulator, SRAM | one transition per FSM state and clock; arbitration of the SRAM port; reset | START, ACCUMULATE in; RUNNING, DONE out; OBI port of the scratchpad | the SRAM answers one cycle late, when the FSM has moved on; CPU and FSM share one port; narrow counters; reset in a run leaves half a tile | every product uses the operands of its own tap; no tap lost or repeated; outputs, and only they, replaced, each by its complete sum; every run ends |
| OBI shim `conv1d/hw/obi_sram_shim.sv` | response valid | grant, answer | CPU bus, engine | response must belong to the granted request | a stalled access changes nothing |
| Control registers `conv1d/hw/control-reg/`, bridge `rtl/register_interface/periph_to_reg.sv` | CONTROL, STATUS, the pending answer | bus read, bus write, hardware update | firmware, engine | STATUS is one cycle old, its read another one; software wins over hardware | software never takes an old DONE for a new one |
| Driver `sw/drivers/conv1d/conv_accel.c` | program counter, the loaded word | init, set_accumulate, start, wait | registers | read-modify-write of CONTROL in separate accesses; polling | START and ACCUMULATE stable in a run; wait returns after its own run |
| Firmware `sw/applications/conv1d/conv1d.c` | loop counters, arrays | conv1d_hw, conv1d_sw | driver, scratchpad | partial tiles in three directions, zero padding, sums that live in the scratchpad between passes | same result as conv1d_sw, nothing assigned twice |
| Testbench `accelerator/tb/conv1d_tb.cpp` | step, tile counters, `computed_outputs`, errors, scoreboard, watchdog | ten steps of a tile, comparison with the golden model, verdict | engine, registers, golden model | a device that is late, hangs or is wrong; partial tiles; one watchdog for every step | a working device is not failed, nothing passes uncompared, it always ends |
| SRAM `rtl/tech_cells_generic/tc_sram.sv`, on the chip `soc/ihp13/tc_sram_impl.sv` | words, address of the last read, output register; macro, registered half select | read, write, idle cycle | engine | half select kept over writes and idle cycles; the output register follows the last address | the chip's memory answers as the simulated one |
| Counter `rtl/user_domain/simple_cnt/`, driver `sw/drivers/cnt/` | count, CONTROL, STATUS, THRESHOLD | load, clear, count, poll | bus | load, clear and software clear of the flag in one cycle, over two buses | software reads back what it gave; the flag means what it says; a wait returns |
| OBI demultiplexer `rtl/obi/obi_demux.sv` | transactions in flight, target of the last grant | route request, route answer | every bus device | in-flight counter at its limit, change of target | no answer lost or out of order, no request starved |
| Vendoring script `accelerator/util/vendor.py` | lock file, target directory, patches, git index and commits | vendor, update, refresh patches, commit | git, upstream and patch repositories, the developer | failure or interruption at any step; upstream moves; leftovers of earlier runs | a finished import is the locked revision with all patches; commits can be reproduced |
| C data generator `common/c_gen.py` (two copies) | registered arrays and macros, header and source | register, write header, write source | golden model, other scripts | exceptions between the two files; binary files that change; arrays without elements | header and source agree; the C text is the array |
| Golden model `datagen.py` (two copies) | sums, golden outputs | one filter set and channel at a time | C data generator, `main.c`, testbench | lengths from two formulas, operands exchanged by numpy | the outputs are those of `conv1d_sw` |
| Layout stream `soc/klayout/def2stream.py` | layout, error count | clear, merge, copy, check, write | KLayout | files incomplete, repeated, with nested cells; an error count as exit status | no abstract is written; the status tells whether cells are missing |
| Multiplexer, crossbar, error subordinate of `rtl/obi/`; GPIO, timer, UART, SoC control | registers | bus accesses, hardware events | bus | none specific to this project | not modelled |
| CVE2 core, RISC-V debug, physical flow, register generator | | | | third party or build-time | not modelled |

The hazards that this inventory led to are listed, each at its line and with the
properties that would catch it, under "hazards" in `PROJECT.json`.

## 2. Modules

| Module | Models |
|---|---|
| `Conv1dLayout` | the tile geometry, the address map and symbolic arithmetic, shared by hardware and software |
| `Conv1dTile` | abstract specification of the engine: one step per output |
| `Conv1d` | the engine, one step per clock edge, with any environment |
| `Conv1dControlReg` | CONTROL, STATUS and the bus bridge, one edge as an operator |
| `ConvAccel` | driver and pass loop, composed with `Conv1d` and `Conv1dControlReg` on one clock |
| `ConvHw` | the tiling loops of `conv1d_hw` against `conv1d_sw`; a run is one step |
| `Conv1dTb` | the testbench's program, on `ConvHw`'s tile-level device with faults |
| `Sram`, `TcSramImpl` | the flat memory of the simulation, `tc_sram.sv`; the folded macro of the chip beside it, given the same requests |
| `SimpleCnt` | the counter, its registers and its driver, one clock |
| `ObiDemux` | the demultiplexer between any requester and any targets |
| `Vendor` | a run of `vendor.py` after the other, one step per effect on the disk or on git |
| `VendorDesc`, `VendorImport`, `VendorLog` | its parts without state between runs: reading the description, importing a mapping, qualifying the change list |
| `Datagen` | the golden model against `conv1d_sw` |
| `CGen`, `CGenFormat` | the C generator's lists and files; the text of one array |
| `DataFiles` | `Datagen` and an instance of `CGen`, whose names overlap, for one run and one proof module |
| `Def2Stream` | the layout script |
| `MCConv1d`, `MCConv1dFull`, `MCConvAccel`, `MCConvHw`, `MCConv1dTb`, `MCSoc`, `MCVendor`, `MCVendorParts`, `MCGenerators` | instances for TLC |
| `Conv1d_proofs` | theorems about `Conv1d` alone |
| `Conv1dRun_proofs` | that it implements `Conv1dTile`, that runs end, and runs of every length and result as in `MCConv1dFull` |
| `ConvAccel_proofs`, `ConvHw_proofs`, `Conv1dTb_proofs`, `Vendor_proofs` | theorems about the module of that name |
| `Soc_proofs` | theorems about `ObiDemux`, `TcSramImpl` and `SimpleCnt` |
| `Generators_proofs` | theorems about `Datagen`, `Def2Stream`, `CGenFormat` and `CGen` (by way of `DataFiles`) |

`ConvAccel` EXTENDS `Conv1d` and `Conv1dControlReg` and adds the CPU. The parts
share one clock: `HwClock(reg, ext)` is one rising edge, at which the engine
takes the transition of its state, the registers sample, and the CPU makes at
most one access (`reg` on the register port, `ext` on the scratchpad port).
`ConvHw` relies on the two levels below it: `Conv1dTile` says what a run does,
`ConvAccel` that the firmware sees exactly that. `Conv1dTb` EXTENDS `ConvHw`: the
testbench stores tiles as the firmware does and differs in what it reads back.

`MCSoc`, `MCVendorParts` and `MCGenerators` put independent modules in one run
(`MCVendorParts` EXTENDS its three, as `Vendor_proofs` does, so that run and theorems
are about the same definitions): a variable `part` says which of them the behaviour is of, and the others stay in an
initial state. The state spaces add up; none of the modules constrains another.

### Correspondence with the code

* **`Conv1d`**: one action per FSM state (`Idle` ... `Done`), each with what
  the clock edge does besides: `Capture` (the pipeline registers take `rdata`)
  and `Access` (multiplexer, SRAM, shim). Variables are the `_q` registers
  without the suffix. Counters keep their widths (`% 4`, `% 8`, `% 32`, a 4-bit
  `t_pos`, 7-bit addresses). `FETCH_INPUTS` and `FETCH_WEIGHTS` share `Fetch`.
  Reset clears the registers and leaves the SRAM. It also leaves `rdata`, which
  some SRAM models reset: after a reset `rdata` is not used before a new read.
* **`Conv1dTile`**: `phase` and `next` are functions of the engine's state
  (`TilePhase`, `TileNext`); `WRITE_OUTPUT` maps to `Commit`, the last
  `NEXT_OUTPUT` to `Finish`, every other edge of a run to a stutter.
* **`Conv1dControlReg`**: a register is the set of its bits that are 1. The
  bridge answers in the next cycle. Writes to STATUS by software are
  modelled; the driver makes none.
* **`ConvAccel`**: `pc` names the driver function, `step` the point in a bus
  access (`request`, `answer`, `store`). A load of CONTROL and the store that
  follows it are separate actions with any number of pauses around them.
  `Pause` is a cycle in which the CPU makes no access, except that a load
  blocks the in-order core until its answer. Reset may come at any edge.
* **`ConvHw`**: a phase of the loop body is a step (copy inputs, copy weights,
  run, read back); `in_data`, `filter` and `output_data` are indexed flat, as
  the macros `mem2d` and `mem3d` do.

* **`Conv1dTb`**: a load, a run or a read-back is one step; cycles are counted
  where the watchdog's limit can matter (step 6, waiting for DONE, and step 9,
  comparing). The device takes any number of cycles for a run, which `waited`
  counts: it is late when they are more than `WATCHDOG_TIMEOUT`. It may also stop, or
  leave one output wrong (`WrongOutput`); `fault` records what went wrong. `MAX_SIM_TIME` may end the loop anywhere,
  and the verdict is then that of the scoreboard as it stands. A store outside
  `computed_outputs` is recorded in `overrun`; nothing is claimed of what C++ does
  after it.
* **`Sram`**: `tc_sram.sv` as the engine has it: one port, a latency of one cycle, no
  initialisation. In a cycle without a read, `rdata_q` is loaded again from
  `sram[r_addr_q]` (lines 121, 140), so after a write to the word last read it
  changes to the new one. The standalone accelerator has an older copy of the file,
  which a reset initialises anew; that is not modelled.
* **`TcSramImpl`**: words are functions on bytes, so the interleaving of bits
  appears as two halves of a row, `bm64` as the set of enabled bytes of each half.
  Both memories take every request; the macro keeps its output until the next read. So
  the two differ after a write to the word last read, and `current` says when there
  was none. The engine and its port use the data in the cycle after the
  request only, where the two agree.
* **`SimpleCnt`**: a register is the set of its bits; the CPU makes the driver's
  calls in any order and at any distance in cycles, with `word` the word loaded by a
  read-modify-write. `reached` and `expected` are history variables.
* **`ObiDemux`**: `counter_q` has the extra overflow bit of `delta_counter`. The
  targets grant and answer in any cycles; the requester holds its request.
* **`Vendor`**: `pc` walks through `main`; each step that touches the disk or git is
  an action, `Fail` may strike at each, and a new run may start with any options
  after any end. File contents are reduced to the revision and the patches applied;
  the index and the commits are records of the staged paths. `Stash`, `RemoveLock`
  and `AddPatch` are the developer's.
  `RemoveTarget` is `rmtree` of the target.
* **`VendorDesc`**: a value is a string, an object or of a wrong type; paths keep
  their components, since `..` is what the checks are about, and `normpath` goes
  through them as `os.path.normpath` does (`Normal` is one turn of its loop).
* **`VendorImport`**: a tree maps paths to the upstream file and its patches, or to
  `Dir`. `copytree`, `copy`, `mkdir` and `apply_patch` return the set of the trees that
  they can leave: one tree, or none where the code raises, so that an entry
  (`ImportItem`) and a mapping (`ImportAll`) are what their calls compose to.
* **`VendorLog`**: lines of tokens, and `re.sub` from left to right with the pattern's
  consumed prefix. `\b` and `\w` are about characters: a digit, a letter, and the
  `g` of `gh-` belong to words (`Word`, `StartsWord`), so `#1gh-2` holds no reference.
  `Repo` is the text `user/name`, which begins and ends as a word does; names that hold
  `gh-` and a number themselves are left out. The replacement is `\1` and then
  the user's name: a digit there makes it another group (`WrongTemplate`).
* **`CGen`**: the two writers as functions of the lists, with sizes in bytes; the macros
  of a source file by line; an exception sets `raised` and ends the script. **`CGenFormat`**: a text
  is its tokens, of which lines and indentation are none. `generate_structure_comments`
  calls itself for the subarrays; here `array[l]` gives the text of a subarray of the
  inner `l` dimensions for every `index` that it may begin behind, from the innermost
  (`Vector`) outwards (`Subarrays`, the loop over `array[l-1]`). Lengths may be
  zero: an innermost dimension of length zero is written as an empty piece of text
  between its commas, and one of length zero at the top of several raises on `idx`
  (`format_matrix_raises`). **`Datagen`**: an output is the bag of
  its products, as in `ConvHw`; `numpy.correlate`'s exchange of operands and
  broadcasting are modelled. **`Def2Stream`**: a cell is what was drawn in it and
  the cells placed in it; the exit status is the number of errors modulo `StatusSpan`.

### Data

Values are symbolic. In the engine a computed word is a formal sum, a base and
the list of the dot products added to it; equal formal sums are equal in 32-bit
arithmetic, so a property that holds of them holds of the bits. Multiplier
width and wrapping are therefore not modelled (the hardware and `conv1d_sw` both
compute modulo 2^32). In `ConvHw` an output is the bag of the products in it,
because hardware and software add in different orders.

## 3. Runs

| Run | Instance | Shows |
|---|---|---|
| `conv1d_free` | 2 channels in, 2 out, 2 samples, 2 taps; any control bits, CPU requests to each region and reset in every cycle; at most `MaxRuns` = 2 runs | `TypeOK`, `PipelineInv`, `OperandsReady`, `AccumPartial`, `RunShrinks`, and that the engine implements `Conv1dTile` (`TileSpec`) |
| `conv1d_full` | the chip's geometry and address map (4, 2, 12, 5; 0, 64, 104), two runs in every combination of modes | `DocumentedLatency`: 1369 and 1417 cycles from start to done, as `results/README.md` says; `RunResult`: all 24 outputs are right and no other word has changed |
| `conv_accel` | 2, 2, 2, 2 and three passes; pauses and resets anywhere | `WaitSeesOwnRun`, `ReadsFullSum`, `NeverStalled`, `ControlStable`, `CpuTypeOK` |
| `conv_accel_live` | 2, 1, 2, 2 and two passes, no reset | `TilesComplete` |
| `conv_hw` | tiles of 2 x 2 x 3 with 2 taps, every problem of 2 to 8 samples, 1 to 5 input and 1 to 5 output channels | `SameAsSoftware`, `TilesCorrect` (`TypeOK` and `PassesAccumulate`), `AssignedOnce`, `Returns` |
| `conv1d_tb` | tiles of 2 x 2 x 2, every problem of up to 4 samples, 3 input and 3 output channels, a watchdog of 5 cycles, one fault | `VerdictRight` (`NoFalseMismatch`, `AllCompared`, `NoFalseAlarm`, `StoresInside`), `Ends` |
| `conv1d_tb_verdict` | the same | `MismatchReported` is violated, see below |
| `soc` | five targets and a counter of two bits; two rows of two words of two bytes; a counter of two bits | `SingleTarget`, `CountExact`, `Granted`; `MemoriesAgree`; `CntCorrect`, `ReadsBack`, `WaitReturns` |
| `vendor` | two repositories, two revisions of two files, two patches, upstream moves once, one failure | `FinishedAgrees`, `HeadReproducible`, `PatchesCommittedWhole`, `CommitLogComplete`, `LockedRevisionFetched` |
| `vendor_live` | one repository, two failures, no commits | `Recovers` |
| `vendor_parts` | some 340 000 descriptions and overrides, every mapping of up to three of 26 entries, every line of up to five tokens | `DescCorrect`, `ImportCorrect`, `LogCorrect` |
| `generators` | golden model: up to 2 channels and filter sets, 5 samples, 5 taps, stride 3, padding 2; C generator: two items; text: up to four dimensions of lengths 0 to 3; layout: six cells, up to three files, two exit statuses | `GoldenCorrect`, `GenCorrect`, `TextCorrect`, `StreamCorrect` |

Each property has a mutant: a plausible mistake in the code, kept beside the
definition that it would replace (`\* Mutant:` in the modules), which violates the
property in the run that checks it.

**Bounds.** Two channels, outputs, samples and taps are the smallest values at
which every counter both advances and wraps; the first, the last and the only
iteration of each loop occur, and so does the second output channel, at which
the sample position restarts. `conv1d_free` needs two runs because the second
one starts from the leftovers of the first (or of a reset in it). The full
geometry is checked with a fixed environment because the formal sums make a free
one too large; the theorems close that gap. Three passes are a first, a middle
and a last one. In `ConvHw` the problems reach three tiles in each direction, with
every remainder. Three tiles are enough since a tile depends on its position
only through `Start` and `Actual`.

`VerdictRight`, `DescCorrect`, `ImportCorrect`, `LogCorrect`, `GoldenCorrect`,
`GenCorrect`, `TextCorrect` and `StreamCorrect` are conjunctions of named parts, one
for each promise of the component, stated beside their definitions.

In `conv1d_tb` nine outputs are more than the watchdog allows to compare and six
are just as many as it allows; the shapes have partial tiles in every direction. In
`soc` the demultiplexer's counter reaches its overflow bit with requests of several
targets waiting; two rows and two bytes are the least with a neighbour each; a
counter of two bits has values below, at and beyond any threshold. Two revisions,
of which the second adds a file and makes a patch apply, give `vendor` an import
that fails, one that changes and one that shrinks the target; one failure at every
step, with any number of runs after it, leaves every kind of leftover, and
`vendor_live` lets a second failure strike the recovery. A third entry lets
`vendor_parts` put an entry between two that depend on each other; five tokens
hold two neighbouring references. In `generators` two items are a binary and a
matrix in either order, four dimensions have a subarray between two others, the
parameters of the golden model include kernels longer than the padded input,
strides that do not divide, and single outputs, which numpy broadcasts; `Wrap` (for
2^32) is larger than any count that occurs, and `StatusSpan` (2, for 256) is small
enough that two missing cells make the status 0. In `conv1d_tb` a run may take up
to the five cycles of the watchdog, and its several runs more than that together.
The guard `waited <= WATCHDOG_TIMEOUT` of `Wait` keeps that history variable finite and
excludes nothing, because the watchdog has expired there.

**Deadlock** is checked except in `conv1d_full`, where the model stops after
`MaxRuns` runs, in `conv_hw`, where the call returns, and in `conv1d_tb`,
`vendor_parts` and `generators`, whose programs end.

**Fairness.** The engine has none to assume: its steps are clock edges, and
`RunShrinks` bounds a run by a measure instead of by fairness. In `ConvAccel`,
`WF_vars(CpuStep)` says that the CPU keeps executing; the core has no other
work, no interrupts are enabled, and a step of it is possible in every cycle except
while an access is stalled (`NeverStalled`: it never is). In `ConvHw`,
`WF_vars(Next)` says that a sequential program continues, and so does
`WF_tbvars(Cycle)` in `Conv1dTb`: the simulation loop has no other way to go, and
faults and the time limit need not happen. In `SimpleCnt`, `WF_cntVars(Access)` says
that the CPU goes on with the call it is in; calls need not be made. In `ObiDemux`,
`WF_vars(Cycle(Target, Answering))` says that every target grants and answers
again and again, as memories and registers do within a cycle or two. In `Vendor`,
`LiveSpec` assumes that a started run goes on (`WF` of its steps), that the
developer tries again with `--update`, without committing or refreshing, and that
an empty lock file, which `vendor.py` refuses to read, is removed. The last two are
about a person and not about the code: `Recovers` says that this is enough. They are
`SF` because other runs and edits come in between. Failures are bounded.

### Where code and documentation differ

`conv1d_tb_verdict` shows one difference: a mismatch only increments `errors`, and
the verdict asks the scoreboard, which never learns of it, so that a device with
wrong outputs ends with "CHECKS PASSED" (`accelerator/tb/conv1d_tb.cpp:412, 484,
497`). Others were met while modelling; the models do what the code does and the
properties are stated so that they hold of it:

* `conv1d_tb.cpp:355` tests the time of an output but not its channel: with an odd
  number of filters the last tile is stored behind `computed_outputs`.
  `StoresInside` is therefore restricted to whole tiles of channels.
* `c_gen.py:156` writes only signed matrices; an unsigned one is declared in the
  header and then raises `KeyError`.
* `vendor.py:601` refuses an override whose value has an equals sign;
  `vendor.py:144` does not parse repository names with underscores or dots, whose
  references stay unqualified. `LogCorrect` speaks of the URLs that are parsed.
* `vendor.py:79` puts the user's name behind `\1` in the replacement. A name that
  begins with a digit, as GitHub's `01org` does, changes the reference: to another
  group, which `re` refuses with an exception, or to a character by its octal code.
  `LogCorrect` says that this is the only case, and nothing of what then comes out.
* `c_gen.py:181-188` puts a comma between two subarrays that are both empty. With two
  filter sets and sizes without outputs, `datagen.py` has an array of shape (2, 0)
  written, whose text `{ , }` is no initializer list; a shape whose first of several
  lengths is zero raises `UnboundLocalError` (line 194). `TextCorrect` claims a list of
  the elements where there are any.
* `def2stream.py` ends with the number of errors as its status: with 256 missing cells
  it reports success (`StatusIsTruthful` claims it of fewer).
* `conv1d_hw` takes neither the data's kernel length nor its stride and padding,
  although `conv1d.h:40` says "where output_len depends on convolution parameters".
* `datagen.py` writes data without outputs when the kernel is longer than the
  padded input by at most the stride; `conv1d_sw`'s unsigned length wraps there.
* STATUS of the counter is cleared by writing a one, not "by reading it"
  (`control_reg.hjson:65`).

## 4. Proofs

What is proved of the engine and the firmware holds for **every** geometry with 1 to 4 input channels, 1 or 2
output channels, 1 to 15 samples and 1 to 8 taps (what the widths of the
counters hold, `GeometryAssumption`), for every address map in which the three
regions follow each other in at most 128 words (`LayoutAssumption`), and for every number
of passes. The other assumptions are:

| Assumption | Says |
|---|---|
| `RequestAssumption`, `PowerUpAssumption` | the CPU's requests are well-formed; the SRAM has some contents |
| `FirmwareRequestAssumption` | the firmware's accesses are among those the engine's environment may make |
| `ZeroAssumption`, `NoneAssumption` | the symbol for the word 0 is none for an array element; "no verdict yet" is no verdict |
| `StreamAssumption` | there are finitely many cells, of which placements and library files speak; no library file places a via of the design; "nothing yet" is neither a layout nor a status |
| `GenAssumption` | sizes are numbers, source files are sequences of lines of three kinds |
| `ArgumentsAssumption` | there are channels and filters, and sizes fit a `uint32_t` |
| `FormatAssumption` | a matrix has at least one dimension, of any lengths, zero included, and as many elements as they say, signed numbers of its width; commas and comments are no numbers |
| `DescAssumption` | the fields of a mapping's entries that are paths are sequences of names or of a wrong type; overrides have a key, a value and a number of equals signs |
| `ImportAssumption` | the clone's files have a path and nothing below them; mappings are sequences of entries; a directory is no file |
| `LogAssumption` | lines are sequences of the tokens; a repository's name is none of the others; what a wrong replacement yields is told apart from a line |
| `TargetAssumption`, `RoomAssumption`, `RowsAssumption`, `ModulusAssumption`, `DataAssumption` | the sets that `ObiDemux`, `TcSramImpl`, `SimpleCnt` and `Vendor` are about are of the right kind |

TLC evaluates them all in the runs, and it has checked each inductive invariant on
the instance of its run.

**The engine** (`Conv1d_proofs`, `Conv1dRun_proofs`)

* `TypeCorrect`. `TypeOK` is inductive: each counter is compared with its last
  value before it is incremented, so `%` never takes effect.
* `EngineInvariant`, from it `OperandsCorrect`, `PipelineCorrect` and
  `AccumulatorCorrect`. `OperandsReady` speaks of COMPUTE only and is not inductive: it needs to
  be known what each earlier cycle has left in the pipeline. The strengthening is
  `PipelineInv`, which says for each FSM state which operand the SRAM is
  about to deliver, for which register, and which registers are complete, and
  `AccumPartial`, which says how many taps are in the accumulator. Each FSM
  action re-establishes the clause of the state it goes to (one lemma per
  action); address lemmas show that the 4-bit position and 7-bit addresses agree with
  the documented map, and that a store to an output changes no operand.
* `EngineImplementsTile`. Under `EngineInvariant`, `WRITE_OUTPUT` writes
  `PartialSum(..., KERNEL_K)` over 0 or the old value, hence is a `Commit`;
  each other action is mapped by a lemma of its own.
* `RunsEnd`. `CyclesLeft` is a natural number that every edge of a run decreases,
  whatever the control bits do.
* `RunCorrect`, `LatencyFormula`, `LatencyCorrect`, about `MCSpec`, the engine driven as
  the firmware drives it. `RunResult` speaks of the end of a run and
  `DocumentedLatency` counts its edges, so `RunInv` says in the middle of one
  that the outputs below `TileNext` are replaced and the others not, that the
  base of the sum is the one the mode asks for (`SumInv`), and that the edges spent
  and `CyclesLeft` add up to a constant (`CycleInv`). `CyclesLeft` then has to be exact:
  each edge costs 1, and `NEXT_OUTPUT` 3 when the run overwrites and skips the two
  states that read the old value. A run takes
  `1 + NUM_OUTPUTS * (KERNEL_K * (2 * TILE_CIN + 3) + 4)` cycles, two less
  per output when it overwrites; the documented 1417 and 1369 are the value at
  `ChipGeometry`. Because `MCSpec` implements `ConvSpec`, what is known of
  the engine holds in it.

**The firmware** (`ConvAccel_proofs`, `ConvHw_proofs`)

* `HandshakeKept`, from it `FirmwareNeverStalled` and `ControlHeldInRun`.
  `Handshake` relates the place of the program to START, to the engine's state
  and to the copies of both that are under way in STATUS and in the bridge. The crux:
  when START is set STATUS is 0, because the engine has left DONE at least
  two edges earlier, so a DONE that the poll reads is that of the run just started.
* `FirmwareIsLegal`. `ConvAccel` implements `ConvSpec`: the theorems about the
  engine hold under the firmware.
* `WaitCorrect` and `ReadCorrect`, from `PassInvariant`: how many operand words of this
  pass have been copied, and how many outputs it has replaced, the others being those of
  the pass before. `OutputAfter` is recursive in the pass. Its equation is proved
  first: that a function satisfying it exists for every number of passes follows by
  induction on a *set* of naturals (`SetInduction`, from the library's minimum
  principle `WFMin`, which takes no operator).
* `TilingCorrect`, `ResultCorrect` and `OutputsAssignedOnce`, for every problem and every
  tile. `TilesCorrect` says nothing of the operands in the scratchpad nor of what has been
  read back. `HwInv` adds which operands of the tile are copied (`CopyInv`), that the
  sums survive the copies of the next pass (`SumInv`), and that the outputs of the tiles
  before this one in the order of the loops are right and the others unwritten
  (`OutputInv`, `LoopInv`). The argument rests on three facts about the arithmetic:
  different channel, sample and tap have different words and different flat indices
  (`mem2d`, `mem3d`); a word that lies outside the input is 0 and contributes
  nothing; and products of different channels differ, so that the bags added pass by
  pass are the bag of their union.

**The testbench** (`Conv1dTb_proofs`)

* `VerdictCorrect`. While the device works, the testbench is the firmware: `TbInv` says
  that `HwInv` holds at each tile and `OutputInv` at the comparison (`TbData`; the lemmas of
  `ConvHw_proofs` are cited), which leaves no mismatch. It adds that the verdict follows
  the scoreboard (`TbVerdict`) and what the watchdog has counted (`TbWatchdog`): while
  a run is waited for, exactly the cycles waited in that run, so that it expires
  only on a device that is late; in the comparison, the outputs compared.

**The SoC** (`Soc_proofs`)

* `ChipMemoryAgrees`: for every number of rows, every set of bytes and values
  (`RowsAssumption`), the macro holds the words of the simulated memory and gives its
  answers. A write changes one half of one row, because the other half's mask is
  empty (`SameContents`). Of the answers it has to be known that, as long as the word
  last read is not written, each output register shows that word as it still is in
  the memory (`ShowsLastRead`), because the half select changes only with `rdata64`
  and `rdata_q` is loaded again with what it holds.
* `SingleTargetCorrect` and `CountCorrect`, for any targets and any width of the
  counter (`TargetAssumption`, `RoomAssumption`). Each needs the other: the target may
  change only when the counter says that nothing else is in flight, and the counter
  counts the answers of one target only.
* `CounterCorrect` and `CounterReadsBack`, for every width (`ModulusAssumption`). Two
  facts are added to make them inductive: the value that software relies on is the
  counter's, or is 0 while a clear is under way; and a clear bit in the word that a
  read-modify-write is about to write back repeats a clear, so that it does no harm.

**The scripts** (`Vendor_proofs`, `Generators_proofs`)

* `AcceptedImportable`, for all descriptions and overrides. What is accepted has passed
  the constructors' checks as it is after the overrides (`DescInv`); the work is in the
  paths. `normpath` is followed name by name: as long as the result has not escaped, by a
  leading `..` or a leading empty name, it holds the names that go down and have not been
  gone up again (`Within`), and once it has escaped it stays so (`EscapedStays`). A path
  whose normal form `check_path` takes has therefore never been above its directory.
* `ImportFaithful`, for every clone, exclusion and mapping. `ImportInv` says that the
  target is a tree with nothing below a file, that the first `idx` entries have
  arrived (`Arrived`) and nothing excluded has, and what the tree of an independent
  mapping holds (`HasAll`): its directories, its files, and of each file the origin and
  the patches, in whatever order the entries came. The hard part is `OrderIrrelevant`.
  Another independent entry extends that description (`DescribedNext`, by cases on the
  two kinds of entry and the calls of each), hence every order of a mapping gives a tree with
  the same description (`AllDescribed`); and a description leaves no choice of the tree
  (`Determined`). Attempting the proof showed that the property was false as it had been
  stated, for mappings to different destinations: `shutil.copy` puts a file *into* a
  destination that is a directory, so after an entry that makes `x` a directory, a single
  file for `x` lands at `x/c`, where the single file of another entry for `x/c`
  replaces it or is replaced, depending on the order. `Independent` now asks for what is needed, that no two
  single-file entries may write or patch the same file, and the mappings of the run
  have these entries among them.
* `ReferencesQualified`, for every line and URL whose user's name does not begin with
  a digit. `Qualified` goes through a line in pieces:
  a token, or a reference with its prefix. Each lemma about it is an induction on the pieces
  from the end of the line (`Backward` proves that the recursion has a value): none
  of them begins or completes an unqualified reference with the text behind it
  (`NoneLeft`, `UnqualifiedSeam`), each keeps the text (`PlainPiece`), and a line without
  unqualified references is left alone (`AlreadyQualified`).
* `FinishedCorrect`, `CommitsReproducible`, `RefreshesCommittedWhole`,
  `LogsComplete` and `LockedFetched` for every set of repositories, revisions, files and patches and any
  number of failures (`DataAssumption`). The invariant (`IInv`, `RunInvariant`)
  adds to the properties what each place of `main` knows: `LockInv`, that the lock file stays as
  it was read until it is rewritten and then names the clone's revision; `TargetInv`,
  that the target fills up with the clone and then with the patches applied so far;
  `StageInv`, that a run that commits began with nothing staged and with the
  committed lock file, and that its list of changes runs from the loaded revision
  to the cloned one.
* `GoldenModelCorrect`, for all sizes. `DatagenInv` says of the row in progress that it holds the
  products of the channels so far. With a kernel that fits, the strided positions of the
  correlation are exactly the outputs (`Convolved`), each the products of its window
  with the samples and without the padding (`DotIsProducts`); with one that does not,
  accepted sizes leave no outputs and the arrays still fit (`AddendFits`).
* `StreamIsCorrect`, for all cells, placements and files. `StreamInv` says what each
  place of the script has made of the layout: no abstract after the clearing, a via
  with its drawing wherever it is placed, and a tree that is closed. The
  last is by cardinality: a level of `down` that is not closed adds a cell, so after as
  many levels as there are cells nothing is left to add. (That `down` satisfies its
  equation is proved as for `OutputAfter`.) Each cell in the tree is placed by one of the
  level above, hence there are no orphans and every error is a missing cell; and a
  number whose low byte is 0 is 0, or at least as large as there are statuses.
* `FilesAgree`, for all arrays and sizes, of a source written when nothing has changed since its header. `GenInv` says that while nothing has changed,
  the header on disk is the one that would be written now. An entry has the same
  place in both files (`ItemOf`), and rounding a binary's bytes up to words is
  counting its words, so names, types and sizes agree.

* `TextReadsBack`, for arrays of every number of dimensions. `FormatInv` says that the
  texts are the computed ones; the argument is about these. `Part` describes a piece of
  text: how many tokens a reader finds in it, which elements they are, behind how many
  others, and that its comments match.
  Two such pieces, one behind the other, are one (`PartConcat`), since what a reader counts
  in the second is what was counted in the first and what it counts itself (`UptoConcat`).
  By induction over its loop, a dimension is a list if each of its subarrays is
  (`LinePart`, `SubarraysBlock`), with a comma between any two and none at the end, and by
  induction over the dimensions, from the inner one, the whole array is (`DimensionStep`,
  `MatrixBlock`). That the recursions have values is `ComputedExists`. The comments come
  from the inner dimension outwards and `Pairs` counts them from the outer one inwards;
  the two agree by what remains to be written below a level (`Counts`). How many tokens
  the text of an array without elements has depends on the level whose length is zero:
  there are the commas of the levels above it and nothing below (`Reads`,
  `MatrixReads`). That numbers read back with their sign is `Residue`.

**Only model-checked**: liveness (`TilesComplete`, `Returns`, `Ends`, `Granted`,
`WaitReturns`, `Recovers`), which the prover does not do.

## 5. Not modelled, and why

* Sub-word writes to registers and unmapped register offsets, which the
  driver never makes; `devmode`; byte enables of the scratchpad port, likewise.
* The bus fabric between CPU and accelerator other than the demultiplexer
  (`obi_mux`, `obi_xbar`, `obi_err_sbr`): an access is granted at the
  accelerator's ports. GPIO, timer, UART and SoC control, which the accelerator does
  not use. Software writes to the accelerator's STATUS, which the driver never makes.
* Of the testbench, the drivers and monitors of `tb_components.cpp`, clock and reset
  generation and the waits of steps 2 to 4. Of `tc_sram_impl.sv`, the sizes that
  wrap one macro. Of the counter, sub-word accesses.
* Of the scripts, the parsing of `datagen.py`'s arguments and negative strides;
  macros by value, comments and attributes in `c_gen.py`, which are copied as they
  are (its two copies differ in the C types of signed arrays only); messages and the
  layout of the log in `vendor.py`. git, KLayout, numpy and the file system are
  external.
* `vendor.py:470` deletes the target with `ignore_errors=True`. `Vendor` models the default
  mapping, where `copytree` raises if anything is left; with a mapping of several entries
  an import could finish over leftovers of a directory that cannot be deleted, which
  `VendorImport`, that begins with an empty target, does not show.
* What is refused without need: `DescCorrect` says that accepted descriptions can be
  imported, not that every harmless one is accepted. A path that begins with two dots
  without being `..` (`..f`) is refused (`vendor.py:254`).
* A header whose source could not be written, and a binary that changes between the
  header and the source, leave two files that disagree. The model has both steps;
  `GenCorrect` claims nothing of them.
* The CVE2 core and the debug module are third-party; the core appears as the
  program that it runs. The synthesis and layout flows are scripts for other tools,
  the registers are generated; neither has state of its own.

## 6. What could follow

1. The error subordinate and the multiplexer, composed with `ObiDemux`.
2. The monitors of `tb_components.cpp` below `Conv1dTb`.
3. GPIO, timer, UART and their C library.
