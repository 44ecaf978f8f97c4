# Formal models of schnitzel

schnitzel is a hardware/compiler co-design project: a Chisel generator for
clusters of RISC-V cores whose accelerators stream operands from a shared banked
memory, a Python compiler on xDSL (`snaxc`) that maps tensor programs to them, a
Verilator simulation and the C runtimes of the host and of the cluster's cores.

This directory holds TLA+ modules of its parts, the TLC configurations that check
them on small instances, and theorems that TLAPS checks for every instance. Every
definition is translated from the source; `PROJECT.json` names the lines ("map"),
the hazards each property is aimed at, and for every property a plausible bug of
the code that it detects ("mutants"; the mutated operators stand in the modules
beside the definitions they replace, marked `Mutant:`).

Paths below are relative to the repository: `scala/` is `src/main/scala/`.

    tlc -workers 2 -config MCICache.cfg MCICache.tla     # any run
    tlapm ICacheProofs.tla                               # any module of proofs

## 1. Inventory

### Hardware (scala/)

| Component | State | Operations | Talks to | Hard part | Correct when |
|---|---|---|---|---|---|
| Instruction cache (`icache/`) | FSM state, valid bits, tag and data SRAM, `prevChoice`, `cacheMiss`, arbiter's last winner | accept a fetch, look up, answer, request a line, refill | cores, wide AXI | one lookup is under way while the next request is arbitrated; one register routes all answers; SRAMs without reset | each accepted fetch is answered once, in order, with the word in memory; nobody starves |
| Address generator (`streamer/AffineAgu`) | `busy`, a counter per temporal dimension | start, step | streamer, DMA | unused dimensions, wrap at the width, first/last use of an element | it walks the nest once, in order |
| Streamer (`streamer/Streamer`) | per lane: queues of read and write addresses, write data and responses; queue of last-use flags; one-entry bypass; last winner of each lane's arbiter | take addresses, send requests, take responses, hand out and take vectors | generator, datapath, interconnect | lanes progress independently but form one vector; partial results bypass memory; back pressure from every side | vectors in nest order, done means memory holds the result, every job ends |
| Interconnect, banks (`interconnect/`, `memory/`) | an arbiter per bank, who is owed a response | grant, answer one cycle later | streamers, cores, DMA | conflicts on a bank | each request is served once, answers go back where they came from |
| Control interface (`csr/CsrInterface`) | shadow and value registers | write a register, start, stall | core, accelerator | the next job is written while the last one runs | a job keeps its registers until it is done |
| ALU accelerator (`accelerator/`, `datapath/Alu`) | three streamers and the interface | start, compute, done | all the above | three streamers end at different times; two modes share them | memory holds the result at done; no leftovers |
| Tensor core, PHS accelerator | streamers around an external or generated array | as above | as above | as above | as above |
| Synchronisation (`csr/CsrDemux`, `HWBarrier`, `CsrCombiner`, `top/GlobalBarrier`) | `managerValid`, `managerRespPending` | read 0x810, read 0x800, store 0x3000 | cores, manager | arrivals in any order, at any clock edge | both are barriers |
| DMA (`dma/`) | a streamer and a generator | copy between TCDM and AXI | control interface, AXI | two generators of different shape; AXI back pressure | the copy is complete at done |
| AXI network (`axi/`) | burst counters, data queue, arbiters, outstanding ids | bridge, multiplex, demultiplex | cache, cores, DMA, memory | five channels with independent handshakes | every transaction is answered once, to its master |
| Core subsystem (`cluster/CoreSubsystem`, `memory/MemDemux`, `MemWidthConverter`) | where the last request went | split loads and stores | core, TCDM, AXI | a response must find the request's way back | loads return the word at their address |
| Cores (`core/`) | third-party (Ibex, CVA6) | | | | environment of the models |

### Compiler (snaxc/)

| Component | State | Operations | Hard part | Correct when |
|---|---|---|---|---|
| Pipelining (`transforms/pipeline`) | the loop in the IR; at run time: phases, buffers | canonicalise, construct, duplicate buffers, unroll | stages of different iterations run at once on different cores | no race, no iteration lost, repeated or out of bounds |
| Dispatch and barriers (`dispatch_regions`, `insert_sync_barrier`) | the program of each core | branch on the hart id, insert syncs | every pair of dependent operations on different cores | all cores synchronise alike, no race |
| accfg (`accfg_dedup`, `accfg_config_overlap`, `inference/`, `accfg_insert_resets`) | inferred register contents | drop, move, reset setups | branches, loops, several accelerators | each launch sees the registers it would have seen |
| Layouts and schedules (`ir/tsl`, `ir/dart`, `transforms/dart`, `convert_dart_to_snax_stream`, `copy_to_dma`) | pure | tile, compose, canonicalise, schedule | strides and bounds of tiles, padding | the same elements in the same places |
| Allocation (`snax_allocate`, `reuse_memref_allocs`) | current addresses, lifetimes | allocate, free | aliases outlive the allocation's own uses | buffers alive together do not overlap |
| PHS (`phs/`, `transforms/phs`) | graph of a processing element | combine, encode, decode | sharing hardware between kernels | each setting of the switches computes its kernel |
| Memory spaces and casts, frontend, Hardfloat, tools | IR types | rewrites | | |

### Software and simulation

Device and host runtimes (`sw/`): start-up, `cluster_sync`/`global_sync`, output
over HTIF's `tohost`/`fromhost`, which all harts share. The simulator (`sim/`)
polls `tohost`, serves memory over DPI and loads ELF files.

### How the parts meet

A core writes the registers of an accelerator through `CsrDemux`; the control
interface commits them on start and stalls the core while a job runs. The
accelerator's streamers turn the registers into requests to the banks and the
datapath is moved only by the handshakes of its streamers. Cores meet at the
cluster barrier between the phases the compiler emits; the manager core (CVA6)
starts a cluster and waits for it by the global barrier. All traffic to main
memory goes over AXI: refills of the instruction cache, the DMA, and loads and
stores of the cores.

## 2. Modules

| Module | Models | Used by |
|---|---|---|
| `RRArbiter` | `chisel3.util.RRArbiter` (external) | `ICache`, `Streamer` |
| `InstrPort` | abstract: what an instruction memory promises | refined by `ICache` |
| `ICache` | `icache/ICache.scala`, `Types.scala` | `MCICache`, `ICacheProofs` |
| `SeqSums` | sums and products of sequences | `AffineAgu`, `Tsl`, `Dart` |
| `AffineAgu` | `streamer/AffineAgu.scala`: next state, addresses, first/last use; reference digits of the nest | `AguLoop`, `Streamer` |
| `AguLoop` | the generator on its own | `MCAguLoop`, `AguLoopProofs` |
| `Streamer` | `streamer/Streamer.scala`: one function from the registers and inputs of a cycle to the registers of the next | `StreamerSys`, `AluAccelerator` |
| `StreamerSys` | streamer, datapath, banks; jobs in sequence | `MCStreamer`, `StreamerProofs`, `AluProofs` |
| `CsrInterface` | `csr/CsrInterface.scala` | `AluAccelerator` |
| `AluAccelerator` | `accelerator/AluAccelerator.scala`, `datapath/Alu.scala`, with three streamers, the interface, the banks and a core | `MCAluAccelerator`, `AluProofs` |
| `ClusterCores` | the constant `Cores`, the cores of a cluster | `ClusterSync`, `Pipeline` |
| `Barrier` | abstract: a barrier of some parties | refined twice by `ClusterSync`, once by `Pipeline` |
| `ClusterSync` | `csr/CsrDemux`, `HWBarrier`, `CsrCombiner`, `top/GlobalBarrier`, with cores and manager | `PipelinedCluster` |
| `Pipeline` | `transforms/pipeline/*.py`, `dispatch_regions.py`: the program they emit, and its execution | `PipelinedCluster` |
| `PipelinedCluster` | the emitted program on the cores of a cluster: its syncs are accesses to the control register (`convert_snax_to_llvm.py:31`) | `MCCluster`, `PipelineProofs` |
| `AccfgIR` | `dialects/accfg.py` in `scf` control flow: programs, their verification, what running one does to registers | `Accfg` |
| `Accfg` | `convert_linalg_to_accfg`, `accfg_dedup`, `accfg_config_overlap`, `convert_accfg_to_csr`, `inference/`: one action per rewrite | `MCAccfg` |
| `BufferIR` | functions over memrefs, and their run by two cores | `Buffers` |
| `Buffers` | `set_memory_space`, `set_memory_layout` (its casts), `realize_memref_casts`, `reuse_memref_allocs`, `insert_sync_barrier`, `snax_allocate`, `dispatching_rules` | `MCBuffers` |
| `Tsl` | `ir/tsl`: strides, tiled strides, layouts | `Streams` |
| `Dart` | `ir/dart`: access patterns, templates, checks of the scheduler | `Streams` |
| `Accelerators` | `hw/`: streamers and templates of the tensor core, of PHS arrays and of the DMA | `Streams` |
| `Streams` | `dart_scheduler`, `set_memory_layout`, `convert_dart_to_snax_stream`, `convert_stream_to_accfg`, `copy_to_dma`, and the addresses the hardware makes of the registers | `MCStreams`, `StreamsProofs` |
| `PhsGraph` | `phs/encode`, `combine`, `decode`, `dialects/phs.py`: the graph of a processing element | `PhsArray` |
| `PhsArray` | `phs/template_spec`, `instantiate_array`, `transforms/phs`: the array and its ports | `PhsCompiler` |
| `PhsCompiler` | `tools/phsc_main.py`, `dispatch_linalg_phs`, `hw/phs_accelerator.py`: the program of `phsc` | `MCPhsCompiler` |
| `Numbers` | lemmas on sums, products and division, induction on numbers | `AffineAguProofs`, `PipelineProofs`, `StreamsProofs`, `AluProofs` |
| `AffineAguProofs` | lemmas on the operators of `AffineAgu`: sums, digits, the nest | `AguLoopProofs`, `StreamerProofs` |

### Correspondence to the code

*Hardware.* A step of a hardware module is one clock edge, and every register
takes its next value from the wires of the cycle that ends. Wires are operators,
named as in the source (`Ready`, `Hit`, `Done`, `AllRspValid`, ...); registers are
variables or, where a module is instantiated several times (generator, streamer,
control interface), fields of a record with a next-state function
(`AguNext`, `StreamerNext`, `CsrNext`), as a Chisel module is instantiated.
Chisel's last-connect rule is kept where it decides: `ArFire` in the cycle of a
miss, `ManagerEdge`'s synchronisation over a store, `Starts` of streamer B.
Registers without a reset value start anywhere (`lastGrant`, `tags`, `data`).
History variables (`inflight`, `got`, `moved`, `mem0`, `local`, `global`,
`stores`, `torn`) record what the properties speak about; no guard of the code's model
reads them, except the bounds named below and `MayStore`, which is the manager's program:
it never reads `managerValid`, but a manager that waits (`ManagerWaits`) has been told by
the cores that they left the last `global_sync`. `made` of `StreamerSys` is what the datapath
will make of its other operands in the job, any member of `Outputs` (in the run
a word of its own for each vector and lane).

*The environment* chooses nondeterministically what the code does not decide:
which core requests, which ports the banks grant (any set without a conflict;
the arbiters' fairness appears as fairness), when operands arrive, whether an
accelerator's port is ready, when the manager stores and takes a response.

*Compiler.* A pass over an IR is a sequence of rewrites: in `Accfg` each rewrite of
a pattern is an action and the order of visits is left open; `Buffers` follows the
greedy walker, where the first match is rewritten. What a program means is a
function of its own (`AccfgIR`: the registers each launch sees on every path;
`BufferIR`: what the cores leave in memory), so that program and result can be
compared. `Streams` and `PhsCompiler` are chains of passes; their values are exact
(matrices, bounds, byte addresses, graphs), names and types of elements are model
values, and a pass that raises an error ends in the state `failed`, as in the code.

`Pipeline` gives the emitted program as a sequence of phases
(`Preamble`, `Body`, `Postamble`) whose operations carry a stage and an
iteration; the buffers' copies are chosen by `Copy`. Its actions execute that
program on the cores: `Skip` is the branch of `dispatch-regions`, `Begin` and
`End` delimit a stage, the action `ClusterSync` is the barrier. In `PipelinedCluster` the two
modules run together: a core raises the access that is a sync when it has done the stages of
the phase (`MayIssue`), and the clock edge at which the hardware lets all cores leave
(`LocalSync` of the module `ClusterSync`) is the end of the phase (`Edge`).

## 3. Runs

| Run | Instance | What it shows |
|---|---|---|
| `icache` | 2 cores, 1 line, 2 tags, 2 words per line | `LinesCoherent`, `OneOwner`; refinement of `InstrPort` (`PortSpec`); `EveryFetchAccepted` |
| `agu` | all nests of 3 dimensions with bounds 0..3, innermost stride 0 or 1, addresses of 3 bits | addresses and digits are those of the nest, in order, and the generator stops after the last (`NestOrder`), first and last use of an element, `Finishes` |
| `streamer` | 2 lanes, each granted by its own bank, 2 banks, queues of 2, 3 bits of address, 2 jobs of a kind (loads, stores, updates with and without reuse; kinds on streamers of their own) | `ReadsInOrder`, `DoneMeansWritten`, `NoReadLost`, `BypassAssertion`, `JobsEnd`; those on stores and updates until a lane runs ahead of the others (`torn`) |
| `streamer_skew` | the stores of `streamer` | violates `ResultInMemory`: a lane runs ahead, see findings |
| `alu` | 1 lane, 16 words of 4 bits, 2 banks, two jobs back to back in normal mode or in readWrite mode | `ResultAtDone` (memory equals the iterations computed in order), `DoneMeansDrained`, `ProgramEnds` |
| `alu_mixed` | a reduction, then a normal job | violates `ResultAtDone`: see findings |
| `cluster` | 3 cores and a manager with 2 stores, 3 sets of prologues, then a pipeline of 4 stages over 2 x 3 tiles | both synchronisations refine `Barrier` (`LocalSpec`, `GlobalSpec`) and no program blocks (`ProgramsEnd`); `InBounds`, `NoRace`, `OutputRight`, `ProgramFinishes` of the pipeline |
| `accfg` | 9 programs with loops, branches, calls, two accelerators, in every order of rewrites | the IR stays valid (`Verified`), each launch sees the registers of the source (`LaunchesKept`), rewriting ends (`CompileEnds`) |
| `accfg_inference` | a loop that sets a register and sets it back | violates `InferenceSound`: see findings |
| `buffers` | 13 functions through all passes, every placement, every interleaving of two cores | `Verified`; the cores compute what the source computes (`DataRight`); no buffer is used after its end (`NoUseAfterEnd`) |
| `streams` | 28 products, convolutions and elementwise kernels on 2 tensor cores and 4 PHS arrays | schedules keep the work (`SameWork`) and never return to a partial result (`FinishedOnce`); every address the generators make is that of the element the schedule names (`AddressesRight`); both sides of a copy agree (`CopyRight`) |
| `phs` | 1798 programs of up to 3 kernels out of a dozen bodies in every order, on arrays of one and two dimensions that map, broadcast, transpose and reduce | a dispatched kernel is what the merged hardware computes (`DecodedRight`); an element at rest is the kernel whose switches it is given (`PropagationExact`) |

### Bounds, and why they are enough

- `icache`: one line with two tags makes every request conflict with the others,
  more lines add only independent copies of that situation. With two words per
  line a wrong offset is visible; two cores are needed to see a response stolen or
  a core starved. The theorems cover every size.
- `agu`: three dimensions give an innermost, a middle and an outermost one, each
  unused, of one trip, and of several.
- `streamer`: queues have the source's default of 2 places (`queueDepth`) and fill and drain within
  one job, jobs have up to six iterations; two jobs are the least that shows what one leaves to
  the next (`MaxJobs`). The banks grant any lanes that do not conflict (`Grants`), so a lane may be
  up to two vectors ahead of the other. In a store or an update a lane that is ahead may take a
  vector that is not accepted; `torn` records it, and the results of such a job are those of
  `streamer_skew`. Loads are never torn. `IsLastDepth` is 9 instead of 32 because it must not
  overflow (section 5).
- `alu`: three vectors keep every queue between empty and non-empty; the second
  job overwrites an operand of the first and reads its result, so any early start
  or late write shows in memory. Four bits overflow in every operation.
- `cluster`: the prologues put accelerator accesses before, between and after the
  barriers, and two global syncs in a row. Four stages give preamble and postamble three
  phases each, six iterations leave three phases in between; two of the stages share a core.
  `CHECK_DEADLOCK FALSE` only here: the program ends.
- `accfg`: what a rewrite does depends on the neighbours of a setup, so programs of
  up to four setups have them in nested loops, before, in and after a loop or a branch,
  around a call, and between setups of another accelerator. Loops run up to `MaxTrips` = 3
  times when programs are compared; the second iteration is where a stale state shows.
- `buffers`: tiles of two elements, loops of two trips, an L1 memory of eight
  elements, so that four buffers fit and five do not (`TooLarge`); every placement
  minimalloc may return is tried.
- `streams`: bounds are small multiples of the templates', so that every loop is
  of one trip and of several; arrays are square and not.
- `phs`: three kernels make the merged element have muxes in front of muxes; the
  bodies share operations in every position, and order matters.

### Fairness

- `ICache!FairSpec`: the clock does not stop, and the AXI slave takes an address
  it is offered and answers it. Fairness among cores is *not* assumed: it follows
  from the round-robin arbiter, and the mutant with a fixed priority starves.
- `AguLoop!Spec`: the consumer takes an address in the end.
- `StreamerSys!FairSpec`, `AluAccelerator!FairSpec`: each bank's round-robin
  arbiter serves a waiting port in the end (a lane, a port), the other operands
  keep arriving and the core goes on with its program.
- `PipelinedCluster!SysFairSpec`: no core stops in the middle of a phase or before its next
  access, its accelerator becomes ready in the end; the manager goes on and takes its responses.

### Findings

- `streamer_skew`: `writeData.ready` waits for room on all lanes (`Streamer.scala:142`), but each lane
  takes the vector as soon as it has room itself (line 113). Lanes whose banks are granted at
  different times get out of step: one takes a vector that is not accepted, and takes it again
  with its next address when it is. The store ends with wrong words in memory.
- `alu_mixed`: streamer B is started in readWrite mode (`AluAccelerator.scala:71`
  overrides line 68) and keeps operands that the next normal job takes.
- `accfg_inference`: the state of a loop's block argument is taken from before the
  loop (`trace_acc_state.py:52`), although the body may change it. A setup that
  restores a register in each iteration is dropped, and launches from the second
  iteration on see the wrong value. `LaunchesKept` holds for the programs of `accfg`,
  none of which sets a register back in a loop.

## 4. Theorems

All of them hold for every value of the constants that satisfies the module's
named assumptions; TLC evaluates those assumptions in every run.

**`ICacheProofs`** (`NumInpAssumption`, `MemAssumption`, `NoAddrAssumption`,
`FieldsAssumption`: at least one core, a memory that holds words, non-empty fields).
`TypeCorrect`; `Coherence` (`LinesCoherent`); `SingleOwner` (`OneOwner`);
`CacheImplementsPort` (`PortSpec`). Neither coherence nor ownership is inductive:
a refill writes `Mem[axi]` under the tag of `cacheMiss`, so one has to know that the
line on its way is the line that missed (`AxiOwner`), and a hit answers with a word
read one cycle earlier (`LookInv`: a lookup that hits holds the word of its line).
The invariant `IInv` is the conjunction of the four. For the refinement each clock
edge is a `Serve` of the port: a hit or a refill answers the owner, which `OneOwner`
identifies, and an acceptance in the same cycle comes after the answer.

**`AguLoopProofs`** (`NumDimsAssumption`, `AddrSpaceAssumption`, `ConfigsAssumption`: some
dimensions, bounds that fit the width). `CountsTheNest` (`NestOrder`),
`FetchesAtFirstUse` (`FetchedAtFirstUse`), `RetiresAtLastUse`
(`RetiredAtLastUse`), `TypeCorrect`. The invariant is `NestOrder` itself: the counters are
the digits of the number of addresses taken, in the mixed radix of the bounds. A step that
is not the last one counts up the innermost dimension that does not wrap and clears the
ones inside it, which is what adding one does to the digits (`IncrementCounts` of
`AffineAguProofs`). Sums and products over dimensions are recursive functions
(`SeqSums`); their equations, and that they stay within bounds, follow by induction in `Numbers`. The
library's induction theorems cannot be instantiated, so `Induction` is stated for the
set of the numbers that have a property and rests on `Least`: a set of numbers has a
least one.

**`StreamerProofs`** (besides those, `DepthAssumption`: queues of two or more;
`JobsAssumption`: configurations are `WellFormed`; `MaxJobsAssumption`). For any lanes,
depths, jobs, grants of the memory and pace of the datapath:
- `NothingReadIsLost` (`NoReadLost`) is not inductive: a read is sent when one place more
  than needed is free, because a response may be on its way. `RoomInv` says that a lane
  that waits for a response has room for it.
- `StreamerTyped` (`TypeOK`): no queue overflows, addresses are addresses. It needs that the
  counters stay within the bounds of the job, also while the next one starts.
- `ReaderReadsInOrder` (`ReadsInOrder`) for a streamer that reads (`OnlyReads`). The lanes
  are granted independently and share the generator and `isLastQueue`, so what one lane
  holds is counted from the numbers all share: `Taken` addresses have left the generator
  and `moved` vectors the streamer. In `ReadInv` the reads of each lane, whether they are
  answered, on the way or waiting, are consecutive elements of the nest from the first
  one that is not `Retired`, and `isLastQueue` holds the flags between `moved` and `Taken`.
  That no flag is lost is `FlagsFit`: the 32 places are enough for the iterations of the
  elements two queues hold, or for the whole job. Nothing in the code checks that.
  No lane runs ahead: a load is never `torn`.
- `ReaderWritesNothing` (`DoneMeansWritten`, for loads).

A streamer that stores, in the same module. The theorems read `Spec /\ [][LanesTogether]_vars => ...`:
in every step memory grants all the lanes that ask, or none. Nothing in the interconnect ensures that
(an arbiter per bank), and without it the code does write wrong words (`streamer_skew`); the theorems
are about the behaviours in which it does not happen. They conclude `~torn` too, so memory holds the result.
A streamer with one lane always satisfies the condition: `OneLaneWritesTheNest` has no hypothesis on the grants.
- `WriterWritesTheNest` (`DoneMeansWritten`) for stores without reuse (`OnlyWrites`).
  `WriteInv` counts the vectors `Generated`, `moved` and `Written`; the first difference is
  in `writeReqQ`, the second in `writeDataQ`, and a word of memory holds what the last of
  the `Written` vectors for it brought (`MemoryAfter`). Written lanes have addresses of their
  own (`Apart`): the bank grants them together only when they do.
- `UpdaterReadsInOrder` (`ReadsInOrder`) and `UpdaterWritesTheNest` (`DoneMeansWritten`) for
  readWrite jobs in which an address belongs to one lane and element (`InPlace`), whose flags
  fit, and which enable the same lanes (`OnlyUpdates`): in-place kernels and reductions over
  the innermost loop. In `UpdateInv` each element is `Started`, then `Retired`, then `Stored`;
  while it is started and not retired its partial result is in the bypass buffer
  (`BypassInv`), and a word of memory has all of its updates or none (`UpdateMemory`). A
  fetch never overtakes a store to the same word because elements are fetched once.
  The sum of the visits to a word (`Visits`) is counted with `FiniteSetTheorems`. A job that
  masks lanes leaves their arbiters' last winners apart, which is why the theorem asks for
  the same lanes; the run also mixes them, and passes.
- `BypassBufferIsReady` (`BypassAssertion`) for stores without reuse, loads and read-writes, under any grants.

**`AluProofs`** (any lanes, depths, banks, data widths, programs and grants). In normal mode
`ResultWhenDone` (`ResultAtDone`) and `DrainedWhenDone` (`DoneMeansDrained`). The module has three
instances of `StreamerProofs`, one for each streamer: `A` and `B` read from memory as it was at the start, `C` writes
to memory what the ALUs make of that (`Output`; in `StreamerProofs` the datapath makes anything, `made`).
`AluInvariant` says that in the composition each of the three stays in a state it could have
alone (`SystemInv`, `WorkInv`). Two things have to be known of all three together:
- A and B still read the words of the start although C's stores change memory meanwhile. C has
  stored only what the ALUs have taken, so a vector A has yet to fetch is one of a later
  iteration, and `Regular` says that no iteration reads what an earlier one wrote (`OldWordsA`, `OldWordsB`).
- When A and B offer their first vectors, C's generator is past its first address: the three start in
  the same cycle, and nothing A fetches is there before (`C!Generated = 0 => A!Taken = 0` in `WorkInv`).

C is done when all its vectors are stored, the last of which needed the last
of A and B: their queues are empty although `done` never looks at them (`AtDone`). `ResultAtDone` compares memory with
iterations run one after the other (`Golden`), which by `Induction` holds in each word what
the last iteration for it makes (`GoldenIsLatest`).

The theorems read `Spec /\ []Regular /\ [][StoresTogether]_vars => ...`. `Regular` speaks of the job that
runs: normal mode, well-formed nests with as many iterations for A, B and C, flags that fit
(`FlagsFit`), no reduction in C, and no word read after an earlier iteration wrote it. The last is
a condition on kernels: A and B read ahead of the ALUs, so an iteration would miss what the one
before it has not stored yet. An iteration may overwrite its own operands, as those of the second
job of `NormalPrograms` do, or earlier ones.
TLC confirms `Regular` in all states of that program. `StoresTogether` is the condition under which
`Streamer.scala` pairs data with addresses (section 5); one lane always satisfies it.

**`PipelineProofs`** (`PipelineAssumption`: at least two stages, each dispatched to a
core, loops that run, `NoTile` is no data). `TypeCorrect`; `RaceFree` (`NoRace`);
`StaysInBounds` (`InBounds`) for a loop that is `LongEnough`, at least one trip per stage
but one; `ComputesTheNest` (`OutputRight`) for a loop that is `LongEnough` and `Even`, with
bounds that are whole numbers of steps. Nothing in the passes checks either condition,
and TLC refutes the properties without them. The argument is the diagonal: in
one phase the stage plus the iteration of every operation is constant, in preamble,
body and postamble (`OnDiagonal`), and every stage and iteration on the diagonal is there
(`PlaceOf`). So neighbouring stages work on neighbouring iterations, and these have
different copies. `TypeOK`, which ties a running core to a stage of the current phase
that is dispatched to it, is inductive. `OutputRight` speaks of the end only; the
invariant `HistoryInv` says what every stage that has run in this phase or in the last
one left in its buffer, what a running stage has read, and which tiles are written.
It needs that a tile belongs to one iteration of the merged loop (`TileOnce`,
`TileFound`, from the lemmas of `Numbers`).

The second part of the module is the barriers and the composition. `PhasesAreRounds`: the `cluster_sync`s of the program, run
by its cores, are the rounds of one `Barrier` (`PhaseBarrier`). `LocalIsBarrier` (`LocalSpec`): `cluster_sync` of the
hardware is such a barrier, for any programs, matching or not (`SyncAssumption`: programs
are sequences of accesses, the manager is not a device core). `GlobalIsBarrier` (`GlobalSpec`): so
is `global_sync`, with the manager as a party, if the cores tell the manager when they left the last one
(`ManagerWaits`) or it synchronises once at most (`ManagerSyncs <= 1`), as the host programs of the
repository do. `SyncTypeCorrect` (`SyncTypeOK`). The invariant of `GlobalIsBarrier` is `RoundsInv`: the cores have left as many
rounds as the manager, and no store waits while a request stands. It is needed because the
synchronisation clears `managerValid` even in the cycle in which a store arrives.
Without the condition TLC refutes `GlobalSpec`: a hazard of the hardware, for `runtime.h:7` is a bare store.
`SystemRunsBoth`: `PipelinedCluster` is at the same time a run of `Pipeline` and one of `ClusterSync`, so all these
theorems hold of the two together; `ClusterComputesTheNest` says so for `NoRace`, `OutputRight` and `LocalSpec`.

**`StreamsProofs`** (`JobsAssumption`: an operation becomes a nest of loops that run, with one
column of each operand's matrix per loop; `OutputAssumption`: each loop that moves the output
is an index of it on its own). For any operation, accelerator, template and order of candidates,
through rotations, tilings, backtracking and the passes after it:
- `ScheduleDoesTheWork` (`SameWork`): each schedule on the stack of the search, and the one it
  chooses, does every iteration of the operation once, on the elements the operation names. A
  rotation is a bijection of the iterations that moves their digits with the columns
  (`RotatedBox`), a tiling one that splits a digit in two (`TiledBox`); both leave every `Index`
  as it is. The invariant `IInv` also holds that frames are well shaped, which the next rotation
  or tiling needs. That a nest of loops counts through all the values of its digits,
  and through each once, is arithmetic of `Numbers`.
- `OutputFinishedOnce` (`FinishedOnce`): a chosen schedule is done with a vector of the output before it
  takes the next. A streamer reads ahead of its writes, and nothing but the schedule orders the
  two. `IInv` adds `Separate`: iterations that name the same element of the output agree in every
  loop that moves it, which rotations and tilings preserve although a tile's column is a multiple
  of another's; and `Stationary`: the accepted schedule has the loops that move the output outside of the others. Steps with the same vector are
  then consecutive, and the vectors are one more than the changes from one to the next (`GroupsOnce`).
- `SpecInv`: the invariant itself, `[]IInv`.

Both assumptions speak of `Operation(j)`, the nest after `PatternBounds` and `CanonicalDims`, because the
provers cannot expand `SelectSeq`, with which canonical dimensions are chosen. `Operation` reads
its bounds off the shapes of the operands (`dart.py:129`), so it has as many as loops and none is zero for
operands that are not empty; the output maps of linalg's named operations and of the generics the frontend makes
are projections and sums of two loops for a convolution's *input*, never for its output. TLC evaluates both for
all jobs of the run.

Only model-checked:
- everything under fairness (`EveryFetchAccepted`, `Finishes`, `JobsEnd`, `ProgramEnds`, ...):
  liveness is out of the prover's reach;
- streamer jobs outside the hypotheses above: masks that differ between read-write jobs, and
  `ResultAtDone` and `DoneMeansDrained` in readWrite mode, where C's operands are fetched by C
  itself; mixed with normal mode they fail (run `alu_mixed`);
- `Accfg`, `Buffers` and the PHS modules, which recur over programs and graphs with
  RECURSIVE operators, which the prover does not support;
- `AddressesRight` and `CopyRight` of `Streams`: from the schedule on, the chain goes through
  sorted lists of strides, merged and squashed tiles and layouts of several operands. What
  such a chain computes is an induction over each of its lists.

## 5. Conditions and limits

What follows is outside the passing runs: conditions of the code nothing checks, and
cases the models show to go wrong. Where it says that TLC refutes a property, the module
or its MC module has the definition, the constant or the condition to change.

**Streamer.** `writeData.ready` waits for all lanes, but each lane takes the vector into
its queue as soon as that lane has room (`Streamer.scala:113`, `142`): lanes
whose banks are granted at different times pair a vector with two addresses (`streamer_skew`). Updates
are exposed to it as well when an element is reused four times or more with queues of two, and then
`ReadsInOrder` fails too without its condition `~torn`; updates without reuse never tear in the run. Lanes that share a bank
(their spatial stride is a multiple of the number of banks) tear on their own, without another port. The assertion at
`Streamer.scala:203` also looks at responses to writes and can fail while nothing is
lost. The generator does not wait for `isLastQueue` (line 90): an element reused more
often than it has places loses a flag. With two spatial dimensions the mask's order
differs from that of the addresses (line 49).

**Global barrier.** A manager that stores twice without hearing from the cluster in
between loses a synchronisation (`ManagerWaits`); the host programs of the repository store once.

**Pipelining.** Loops that are not `LongEnough` or not `Even` (section 4).

**accfg.**
- `HoistSetupCallsIntoConditionals` (`accfg_dedup.py:167`) may add a setup on a path
  that had none, although its docstring says it never does.
- Weaving keeps the state of before a call in some cases
  (`convert_linalg_to_accfg.py:148-151`, `191-196`, `258-259`) and looks up a missing
  key in others (line 246); inputs of the runs avoid both.
- Moving a setup in front of a loop takes the loop to run at least once.
- The lowering erases setups one by one and fails when a branch or loop still yields
  a state; `accfg.reset` has no lowering.

**Buffers.** With `--alloc-mode static` nothing orders a kernel and the copy of its
result (`dispatching_rules.py:23`): streaming regions are not dispatched to the compute
core, although the docstring says so, and only the barrier before a deallocation saves
the other modes. Two functions of `MCBuffers` are not among `MCSources`: `SharedPlain`
(an input that two kernels take as it is: its buffer outlives the first kernel, so no
barrier comes between that kernel and the copy of its result) and `SharedConstant` (a constant
cast to one layout twice, permuted twice by `realize_memref_casts.py:381`); TLC refutes
`DataRight` for each.

**Streams.** `AddressesRight` leaves out operands that are not `Packed`:
transposed schedules on PHS arrays of two dimensions, where the bytes inside the
innermost loop are taken as contiguous (`convert_dart_to_snax_stream.py:87-88`), and the
lanes of the tensor core's output, whose two strides line 130 leaves in the opposite
order of line 121. TLC refutes `InnermostOne` and `LanesRight` for these. `CopyRight`
leaves out copies without layout that are not a whole number of vectors
(`copy_to_dma.py:168` truncates). Several jobs end as `failed`, as the code does with an error:
bounds below the template's, dimensions of bound 1 that canonicalisation drops,
rotations that swap columns without bounds when the sizes differ, and inputs that
`convert_linalg_to_dart` drops. `schedule_idx` is read by no pass.

**PHS.** `DecodedRight` holds for a kernel under four conditions, and TLC refutes it without
any one of them:
- `NamesDecide`: operations are told apart by name, so kernels with different constants
  or comparison predicates share an option silently;
- `NoneRepeats`: an option that uses an operand twice (`x*x`) fixes both places, so the
  result for a later `x*y` depends on the order of the kernels;
- `Unpermuted`: results of an output map that permutes a square array are assembled in
  the order of the iterations;
- `SameAccess`: the array is wired from the first kernel's maps, while dispatch compares
  bodies only.

The widths of the switch ports belong to other switches when some have one option
(`phs_accelerator.py:41`); `PhsAccelerator.scala:201` then truncates a value, and TLC
refutes `SwitchesArrive`. A kernel with an unused carry is not dispatched although the
element computes it (`dispatch_linalg_phs.py:44-47`), and one with more operands than the
element reads switches as data and fails (`combine.py:20`).

### Not modelled

- Cores (Ibex, CVA6), the tensor core's array, hardfloat units: third-party or
  external generators; they appear as environment.
- AXI network, DMA engine, memory demultiplexer and width converter: next in the plan.
  The cache's refill, the banks and `CopyRight` abstract them to handshakes and addresses.
- HTIF, start-up code and the simulator's host side.
- Data widths and byte enables; two spatial dimensions and jobs of different direction on
  one streamer.
- Dynamic shapes, strides and offsets; parsing and printing of attributes; verification
  of types by xDSL.
- `accfg-insert-resets`, `dataflow.py`, `combine_arrays.py` and other passes no pipeline
  of the compiler runs; kernels with several outputs, enable masks, the register
  windows of the PHS cluster, rewrites of floats before encoding.
- One-to-one conversions, Hardfloat lowering, Verilog emission, configuration, golden
  runs and command-line tools: no state and no ordering of their own.

`PROJECT.json` lists every component with its status.

## 6. Plan

In order of importance; the modules above were steps 1 to 5.

1. Instruction cache with its abstract port, proofs. *(done)*
2. Address generator, streamer, streamer between datapath and banks. *(done)*
3. Control interface and ALU accelerator. *(done)*
4. Barriers: abstract barrier, hardware, proofs. *(done)*
5. Pipelining: emitted program on the cores, proofs. *(done)*
6. The DMA's two generators of different shape and its AXI
   bridge: `DecoupledIOToAXI`, `AxiToMem`, `AXIMux`/`AXIDemux`, `MemDemux`; the
   abstract specification is a memory port that answers each request once. Hazards: W
   after AW, data of an earlier request in the lane of a later one, `expectingR`, vectors
   dropped while AW stalls. *(left)*
7. accfg: programs as small trees, their execution before and after the passes. *(done)*
8. Layouts and schedules: from an operation to the addresses the hardware makes. *(done)*
9. Memory spaces, copies, barriers and allocation, run by two cores. *(done)*
10. PHS: merging and decoding of processing elements, the array, dispatch. *(done)*
11. Theorems: the generator's digits, the streamer in its three directions, `OutputRight`
    of the pipeline, the search for schedules, the ALU accelerator in normal mode. *(done)*
    Left: the ALU accelerator in readWrite mode; the memory port of step 6.
12. HTIF: harts, runtimes and simulator over `tohost`/`fromhost`. *(left)*
