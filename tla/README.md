# A TLA+ model of AXE

AXE is a deterministic reverse-engineering engine in Rust: it loads a binary,
disassembles and analyses it, and can go on to fuzz it, to solve its branches
(concolic execution), to unpack it under a debugger (Aurora), to trace it (ETW)
and to look for vulnerabilities. This directory holds TLA+ models of the parts
that are hard to test, the TLC runs that check them on small instances and the
TLAPS proofs for every instance. Source paths below are relative to `src/src/`.

## Inventory

| Part | State | Operations | Hard because |
|---|---|---|---|
| fuzz loop (`fuzzer/session`, `corpus`, `staging`, `crash`, `coverage`, `executor`, `mutators`, `targets`, `reachability`) | queue, staging and crash directories; corpus, signatures and coverage map in memory | open, seed, pick and mutate, stage, run, classify, dedup, add, discard | the target can take the process down; every file call can fail; a restart remembers nothing |
| concolic session (`concolic/session`, `validator`, `fuzzer_bridge`) | shared corpus and map behind two mutexes, backlog, ledger | pop, solve, validate, promote, record, finalise | several sessions check and act on a stale snapshot; locks dropped in the middle |
| concolic backlog (`concolic/scheduler`) | heap, item map, LRU list | push, pop, age, evict | three indices to be kept in step; starvation |
| concolic execution (`concolic/shadow_emulator`, `shadow_state`, `expr`, `predicate`, `lowering`, `smt2_emit`) | expressions held by registers and memory bytes | step an instruction, record a branch, lower, print | the model of the processor, the two solvers and the text must mean the same |
| slicer, solve ladder, backends (`concolic/slicer`, `ladder`, `backend`, `pure_rust`, `smt2_*`, `z3_backend`) | the query and its attempts | slice, fold, try a tier, finish | a wrong Unsat marks a branch for good; an external process that can die mid-answer; byte-edge arithmetic |
| Aurora session (`unpack/session`, `debug_loop`, `containment`, `process_control`, `snapshot_capture`) | target process, handles, kill switch, budget, watchdog threads | spawn, arm, attach, resume, loop, capture, emit, finalise | four actors besides the session; processes known by pid, pids reused |
| Aurora primitives (`unpack/oep_detector`, `write_log`, `guard_pages`, `breakpoints`, `region_buffer`, `memory_map`, `devirt/`) | page and breakpoint tables, write ring, trace writer | arm, hit, step, re-arm, sample, dump, score | re-arming between two debug events, ring overflow, memory that changes under the walk |
| dynamic trace (`dynamic_trace/`) | ETW session, channel, store, loss counters | start, collect, flush, stop, derive outcome; normalise, find behaviour, pack | events lost, counted on another thread, flush cadence and crashes; facts drawn from what is left |
| vulnerability discovery (`vuln/`) | graph, candidate findings, evidence, harnesses, packets; the store of earlier runs | build, query, score, attribute, confirm, write | evidence of one sink credited to another; a second run over the directory of the first |
| run ledger and atomic write (`run_status`, `atomic_write`) | `run_status.json`, `<target>.tmp` | mark, derive, write, rename | a kill between write and rename; the ledger of an earlier run |
| folder scan (`folder_scan`, `archive_extract`) | heap of files, contents seen, merged rows, Ctrl-C flag | list, extract, analyse, merge, write | archives in archives against three limits, copies, a stop in the middle; it is sequential |
| analysis pipeline (`pe::run_analysis`) | the tables of a run, the files written | the passes in order, caps, assembly, writes, the nested analysis of an unpacked image | some thirty passes behind switches; tables that must agree; files written one by one |
| loaders, listing, flow, values (`pe`, `elf`, `macho`, `strings`, `debug_symbols`, `disasm`, `cfg`, `structured`, `switches`, `jump_tables`, `ssa`, `vsa`, `dataflow`, `indirect_resolver`, `second_pass`) | none beyond a call | pure passes with caps | sizes and addresses of untrusted files; fixpoints cut off by limits; what a value may be after a jump |
| decompiler (`c_decompiler`) | none beyond a call | lift each instruction to a statement, put values in the place of registers, fields, types, loops, declarations | what a register stood for when it is put in; statements taken out; loops closed by a count of braces |
| portable profile (`portable`, `native_emulator`, `native_fuzzer`, `symbolic_solver`, `trace_ingest`) | emulator state | emulate, solve, fuzz, fill the capability matrix | two readings of one branch; claims about what did not run |
| reports (`llm_artifacts`, `symbol_graph`, `diff`, `cpp_classes/solver`) | none beyond a call | join tables, pack within budgets, compare two runs, merge claims | references between tables, ties, rows cut off |
| benchmark (`bin/axe-bench`) | checkouts, builds, scored cases | stage, build, probe, score, gate | a gate that passes on a case that did not run |

Interactions. The concolic engine and the fuzzer share the corpus directory and
the coverage map (`fuzzer_bridge`); both, and Aurora, the tracer and the
vulnerability search, report through the same ledger vocabulary (`run_status`).
The pipeline calls the passes in turn, nests an analysis of the image Aurora
unpacked, and hands its tables to the vulnerability search; the folder scan and
the benchmark run the pipeline once per sample and read the files it leaves;
`diff` reads two such directories. Aurora's host process meets its target
through the operating system alone (pids, handles, debug events).

## Modules

State machines:

| Module | Models | State and actions |
|---|---|---|
| `Coverage` | `fuzzer/coverage.rs` | operators: buckets, novelty against a map, merge |
| `RunStatus` | `run_status.rs`, `concolic/run_status.rs` | operators: a ledger as a function from artifact to status, the derived outcome |
| `FuzzSession` | `fuzzer/session.rs` and what it calls | the disk, the session's memory and a program counter inside `execute_and_record`; one action per file call or return, plus `IoError` and `Kill` |
| `ConcolicSession` | `concolic/session.rs`, `validator.rs`, `fuzzer_bridge.rs` | per session a program counter, item, model and snapshot; shared corpus, lock, map and files; `PromoteError` and `RunError` for failing calls |
| `ConcolicBacklog` | `concolic/scheduler.rs` | heap with stale entries, item map, LRU list; `Push`, and `Pop` as a loop over the heap |
| `Slicer` | `concolic/slicer.rs` | the fixpoint of `backward_slice`, one constraint a step |
| `SolveLadder` | `concolic/ladder.rs`, `smt2_backend.rs`, `backend.rs` | the cascade, one tier a step, over the answers of the backends; what Z3 prints (external) and what the parser reads |
| `AuroraSession` | `unpack/session.rs`, `debug_loop.rs`, `containment.rs`, `process_control.rs`, the handler of `bin/axe.rs` | sessions of one host, processes by pid, kill switch, Ctrl-C handler, watchdog threads, wall clock; the target and the operating system (external) take steps of their own |
| `AuroraTracing` | `unpack/` `breakpoints.rs`; `guard_pages.rs`, `write_log.rs`; `oep_detector.rs`, `entropy_curve.rs`, `disasm_snapshot.rs`; `memory_map.rs`, `snapshot_capture.rs`, `region_buffer.rs`, `snapshot.rs`; `devirt/trace.rs`, `themida3x.rs` | one section per primitive: breakpoints, guard pages, entry-point candidates, memory walk and dump, devirtualisation trace. A caller uses them in any order beside a running target; every call of the operating system may fail |
| `AtomicRegister` | what the callers of `atomic_write.rs` rely on | abstract: a value, what a power failure may leave of it, one write under way |
| `AtomicWrite` | `atomic_write.rs` | target, `.tmp` and what of them is on disk; one action per call of `write_atomic`/`finalize`/`abort`, its failures, `Kill`; the file system (external) journals and loses power |
| `DynTraceSession` | `dynamic_trace/session.rs`, `etw.rs`, `privilege.rs`, `store.rs`, `dyn_run_status.rs` | a program counter inside `run_session_windows`, counts of the events in the kernel, in the channel, taken, written and on disk, the drop counter, the ledger; the callback thread, the target, the clock, Ctrl-C and `Kill` take steps of their own, any call may fail |
| `FolderScan` | `folder_scan.rs`, `archive_extract.rs`, the handler of `bin/axe.rs` | heap, contents seen, places and merged rows; listing, popping, extracting, analysing, writing, Ctrl-C and failing calls |
| `AnalysisPipeline` | `pe.rs` `run_analysis` | a program counter over the passes, `rows` of each table by the passes that made them, the files on disk, the nested run; errors and `Kill` at every write |
| `VulnSession` | `vuln/session.rs`, `scoring`, `dynamic_evidence`, `fuzz_bridge`, `trace_join`, `concolic_query`, harness writers | the stage of the search; the lists a run builds (chains, evidence by position, confirmations by chain, findings); what is left of the store or of the artifact being written; the ledger in memory and the directory on disk, which outlives the run |

Pure code, as operators. The `MC` module of a family holds its inputs, one step
that computes the result, and the reference the result is compared with.

| Module | Models | Compared with | In |
|---|---|---|---|
| `Images` | `pe.rs` loading, `elf.rs`, `macho.rs`, `image.rs`, `strings.rs` | the bytes of the file | `MCImages` |
| `DebugSymbols` | `debug_symbols.rs` | what the parsers (external) yield | `MCImages` |
| `ProgramFlow` | `disasm.rs`, `indirect_resolver.rs`; `cfg.rs`, `structured.rs`; `jump_tables.rs`, `switches.rs` | the listing of an uncapped sweep and the set of candidates; paths and circles of the graph; what a processor does with the same code | `MCProgram` |
| `Dataflow` | `ssa.rs`, `vsa.rs`, `dataflow.rs`; `second_pass.rs` | an execution of the instructions; the open sites and their priorities | `MCProgram` |
| `Decompiler` | `c_decompiler.rs` | the processor on the same code, and a reader of the C who follows its braces and labels | `MCProgram` |
| `ShadowEmulator` | `concolic/` `expr.rs`, `lowering.rs`, `smt2_emit.rs`, `predicate.rs`; `shadow_emulator.rs`, `shadow_state.rs` | bit-vector evaluation; the processor | `MCExecution` |
| `PureFastSolver` | `concolic/pure_rust.rs` | bit-vector semantics | `MCExecution` |
| `Portable` | `native_emulator.rs`, `symbolic_solver.rs`, `native_fuzzer.rs`; `portable.rs`, `driver_triage.rs`, `firmware_unpacker.rs`, `trace_ingest.rs` | each other: the solver's model taken by the emulator; the matrix against what ran | `MCExecution` |
| `FuzzInputs` | `fuzzer/mutators.rs`; `targets.rs`, `reachability.rs` | all buffers and labels; weighted distances | `MCExecution` |
| `TraceAnalysis` | `dynamic_trace/` `normalize.rs`, `event.rs`; `behavior_facts.rs`, `llm_pack.rs`, `store.rs` | the raw records | `MCAnalyses` |
| `VulnGraph` | `vuln/` graph builder, summaries, taint, dominators, alias, templates | least fixpoints and paths | `MCAnalyses` |
| `Reports` | `llm_artifacts.rs`, `symbol_graph.rs`; `diff.rs`; `cpp_classes/solver.rs` | the tables they join; the two runs read; the merge in every order | `MCAnalyses` |
| `Bench` | `bin/axe-bench.rs` | the manifest, the machine's answers | `MCAnalyses` |

`Computation` holds the variables the families share. `MCAnalyses` joins its own families with those of
`MCImages` and `MCProgram` in one specification, `MCEngines` those of
`MCExecution` with the slicer, the solve ladder and the backlog. A behaviour takes
one input of one family, or is one of the slicer, of the ladder or of the backlog, so
they do not interact; where the code composes them in an order that matters, that
order is `AnalysisPipeline`'s or `ConcolicSession`'s. The other `MC` modules hold the
constants of their runs, and the `_proofs` modules the theorems of a module. Large
modules are divided into one section per source file.

`FuzzSession` and `ConcolicSession` extend `Coverage`; `ConcolicSession`,
`AuroraSession` and `DynTraceSession` extend `RunStatus`. In
`ConcolicSession` any pending item may be popped and any verdict may come back,
which covers what `ConcolicBacklog` and `SolveLadder` do in detail. `FuzzSession`
and `ConcolicSession` take `write_atomic` as one step that happens or fails:
`AtomicWrite` shows that it may be taken so, by implementing `AtomicRegister`
(`RefinesRegister`) for one writer per path, which `&mut self` and the corpus lock
guarantee inside a process.

Abstractions. Inputs, models, frames and panic texts are members of small sets;
an input is its own content hash; a coverage map has a few slots and hit counts
chosen from different buckets; scores are integers (hundredths where the code has
floats), and the multiplication of a novelty by 1.05 is a strict increase that
leaves zero alone; a constraint of the slicer is the set of its variables; a line
of Z3's output is a record that keeps the one layout detail the parser depends on;
a file is a length of a content, and the bytes of a binary are what the reader of
them finds at an offset; a byte of a string is printable, zero or other; an
instruction is a record of the fields the passes look at, with `iced_x86`, `object`,
`pdb` and `gimli` as external functions; a table of the pipeline is the set of
passes that produced its rows; time is the moment the budget or the duration is
over; the session counts traced events, `TraceAnalysis` tells them apart.
Definitions whose comment starts with "Mutant" are not part of the models: they
are the plausible bugs the properties are tried against, one for each property a
run checks.

## Runs

| Run | Shows | Bounds |
|---|---|---|
| `fuzz_session` | an input that took the process down is whole until it is staged again; the crash last reported of an input keeps its directory or its staging file, which only another staging may cut off; crash directories are real; memory is backed by disk | two inputs, one slot with two buckets, three executors, three executions, two kills, one failing call: enough for a crash family stored, the process killed, the family stored again by a session that has forgotten it |
| `concolic_session` | every credited bucket has a reproducer, no merge is lost, every run ends | two sessions with a branch each, two models, two slots, one failing call: two sessions can promote the same model or the same edge at once |
| `aurora_session` | where Aurora's handler is installed Ctrl-C reaches the current target, the pid in use is the target, every watched target and every session ends | two sessions, two pids, a budget of two events |
| `aurora_tracing` | code, debug registers, page rights and threads are as the target made them but for the failures the parts name, the log loses nothing but the oldest, candidates were executed, dumped regions are disjoint and a manifest has its blobs, a footer ends a trace and counts no step that is not there | two addresses of code and two bytes, three debug registers (two neighbours), one call of `ResumeThread` that fails, a log of two for three violations, one page (an action is about one), three samples of two regions, three pages of memory with one change, two sessions of one directory, a flush every three records and two failing writes or flushes: one may spoil the line of the next |
| `atomic_write` | the writer implements the register; an unfinished write leaves its `.tmp` | an empty, a one-byte and a two-byte content, any number of writes, failures, kills and power failures: a short write, a lost buffer and an undone rename all occur |
| `dyn_trace` | drops are declared and decide the outcome, a spawned target never runs untraced, a crash loses fewer events than a flush interval, recording ends | every target, policy and build, four events against a channel of two and a flush every two, one failing call: the channel overflows, the writer flushes twice, and the deadline, Ctrl-C and the exit of the target meet in every order |
| `folder_scan` | every file ends in one place, a content is analysed and its findings are counted once, archives stay within depth and bytes, the scan ends | archives three deep where two are allowed, a heap of four that the members of an archive overflow, ten bytes, two failing calls, Ctrl-C at every step |
| `analysis_pipeline` | tables written together agree with each other and with the counts, flagged caps and the unpack outcome are reported, a completed run has its files, an analysis is nested once | nine option sets (PE and not, with and without `--vuln-out`), every pass, file, error and kill point, one cap (flagged or silent) and one file cut short without an error in a run: these are told apart by what they are, not by how many |
| `vuln_session` | evidence raises its own sink only, a confirmation is not outvoted, lifetime candidates stay apart, a status names files of its own run | two runs over one directory, up to two rows of evidence between them, one failing call or kill |
| `analyses` | the passes over a program and the reports about it agree with their references | every input of each family's set, described in its `MC` module |
| `engines` | emulators, solvers and fuzz inputs agree with their references; slices are closed and minimal; only unreachable branches are marked and the outcome of a cascade is its best attempt; heap, map and LRU list of the backlog agree, an item with novelty gets out | every input of each family's set; every path of three constraints over three variables for the slicer; the default, the complete and the empty cascade, one byte and two assertions for the ladder, where Z3 may stop after any line; three keys (two share a pc), a cap of two, three kinds of items and four heap entries for the backlog: updates, evictions and stale entries all occur |
| `pure_unsat_is_proof` | expects a violation: `UnsatIsProof`, that the fast solver answers Unsat only when no byte satisfies the branch, fails for negative signed constants | the instance of `engines` |

A checked property is often a conjunction of named parts, each stated with its own
comment in the module; the conjunction is what `PROJECT.json` lists:

| Property | Parts |
|---|---|
| `DiskIsSound` | `TypeOK`, `ReproducersReal`, `MemoryBacked` |
| `IndicesAgree` | `BacklogTypeOK`, `LiveItemsQueued`, `LruMatchesItems` |
| `RightProcess`; `TargetsAndSessionsEnd` | `TypeOK`, `SessionPidIsTarget`, `CtrlCReachesTarget`; `WatchedTargetEnds`, `SessionReturns` |
| `TrapsAreClean` | `CodeIsTargets`, `Dr7MatchesSlots`, `NoLostProgress`, `LogIsNewest`, `RightsAreTargets` |
| `TracesAreWhole` | `CandidatesWereExecuted`, `DropsGoForward`, `BestFirst`, `RegionsAreDisjoint`, `ManifestHasBlobs`, `FooterMeansWhole` |
| `LossIsBounded` | `TypeOK`, `CrashLosesFew`, `LedgerCountsLines` |
| `WorkIsBounded` | `TypeOK`, `ContentAnalysedOnce`, `FindingsCountedOnce`, `WithinLimits`, `DepthLimited` |
| `RunIsConsistent`; `RunTellsTheTruth` | `TypeOK`, `FilesAgree`, `CountsAgree`, `VulnFindingsAreOuters`; `CapsReported`, `CompletedMeansWritten`, `NestedOnce` |
| `EvidenceIsHonest`; `DirectoryIsThisRun` | `VulnTypeOK`, `EvidenceRaisesOwnSink`, `ConfirmationSticks`, `EverySourceAnswered`; `StatusMatchesDisk`, `PointersResolve`, `LifetimeKeptApart` |
| `SliceIsExact` | `TypeOK`, `FixpointIsClosed`, `SliceMinimal` |

What `analyses` and `engines` say, family by family (a family's parts are the conjuncts of the
property named with it):

- Loaders (`ImagesAreFaithful`). Executable sections are covered by the ranges disassembled (`CodeIsCovered`), a file whose tables lie inside it loads without a panic (`WholeFileLoads`), a snapshot presents the memory it was taken from (`SnapshotIsFaithful`), strings are where they say and none is missed at an aligned place (`StringsAreWhereTheySay`, `StringsAreComplete`).
- Debug symbols (`ImagesAreFaithful`). Line rows name files of their own provider, every provider that is asked answers, a recovered function keeps its range, RSDS records and build ids are found (`LinesNameTheirFiles`, `ProvidersAnswer`, `FunctionsKeepTheirRange`, `RsdsRecordsAreFound`, `BuildIdIsFirst`).
- Listing and flow (`FlowIsWhatRuns`). The listing is whole or reported as capped, direct calls seed functions, an indirect call gets its strongest target; blocks are straight, loops have headers and are found, every circle is shown; tables and compare trees lead where the processor goes; immediate dominators are right. In the C of code whose loops are nested the reader goes where the processor goes.
- Values (`ValuesAreSound`). SSA uses name a definition that reaches them along the listing; value sets hold what a straight line computes, a budget that ends the fixpoint is told and a fixpoint is stable; strings loaded directly are reported, followed through moves and not carried over a register call's result; sites left open are told and the second-pass budget takes the best. The C of straight-line code that does not overwrite what an expression stands for leaves in memory and returns what the code does, and makes its calls when each value is read once (`ComposedMeansTheSame`); the arguments declared are the registers read first, types follow the recovered edges, and the functions densest in recovered calls are the ones decompiled (`ArgsAreRead`, `TypesFollowEdges`, `DensestAreTaken`).
- Symbolic execution (`SolversAgree`). The in-process solver and the script ask the same question, a lifted branch is the one taken, a predicate follows the processor, a compare of unknown operands is silent, every predicate is well typed; byte models satisfy the branch and the Unsat of a byte is a proof, `Sle` and `Sge` aside.
- Portable (`PortableClaimsHold`). The emulator ends, takes the branch its solver aimed at when no instruction has set flags since the compare, and agrees with its baseline; a capability whose row says that it did not run is reported as a gap (a dry run's says that it did) and candidates are listed once.
- Fuzzing (`FuzzInputsReachTargets`). Mutations stay inside their buffer, are labelled with what was done, and reach every input; distances are the shortest, the bonus agrees with the report, of two targets the stronger is kept.
- Trace (`TraceIsTold`). Ids count losses, times keep order, silence about outbound activity is earned by the events that were taken (a record without a schema and what is left in the channel at the deadline are lost uncounted), evidence suffices for the fact that cites it, cited events come first in the pack, edges span their events, the store keeps this run and agrees with the graph.
- Vulnerability graph (`ChainsAreJustified`). Summaries are the unions over calls; the hop count of a function is the number of calls on the shortest way, that of a sink one more; an unguarded sink is reached by straight-line code.
- Reports (`ReportsAgree`). The innermost symbol comes first, packets can be answered from their rows, containment is true, functions, imports, symbols and strings that rows name are joined to them; a class merge does not depend on the order of its sources, keeps every field and site and, where sources differ, the surest; a diff that reports nothing had two sides with the same fingerprints, imports, strings and capabilities, and what it reports turns the fingerprints of one side into those of the other.
- Benchmark (`BenchmarkIsHonest`). A passed gate has no case that failed it, evidence was observed, ready means checked out, a rebuilt input is the same.

Where the code does less than a doc or a first reading would have it, the property
states what the code does guarantee and the difference is listed below.

Deadlock checking is off where the system stops by itself: a bounded number of
executions, sessions or samples, a finished slice, query, cascade, scan or
analysis, a computed result, a host that exited.

Fairness. `ConcolicSession`: each session is a thread whose solver and executor
calls have timeouts, so a step that stays possible is taken. `ConcolicBacklog`:
the session keeps popping; pushes are not assumed.
`AuroraSession`: the session thread, the wall clock and the 50 ms watchdog
advance; nothing is assumed of the target, of Ctrl-C or of the end of the host.
`DynTraceSession`: the session thread (a receive returns within 100 ms, with an
event or without) and the clock; nothing is assumed of the callback thread, of
the target or of the user, so the events may keep coming. A target that exits
with code 259 is excepted: `process_is_alive` takes it for alive.
`FolderScan`, `AnalysisPipeline`, `VulnSession`: one thread each, whose file calls
return; nothing is assumed of Ctrl-C, of failures, of kills or of what is observed
between two runs.

## Proofs

| Theorem | For every |
|---|---|
| `FuzzSession_proofs`: `TypeCorrect`, `KillersAreRecoverable`, `CrashesAreNotLost`, `ReproducersAreReal`, `MemoryIsBacked`, `RestartsFindSoundDisk` | sets of inputs, slots, hits, frames, panic kinds and executors, and numbers of runs, kills and failures |
| `ConcolicSession_proofs`: `TypeCorrect`, `CreditedEdgesHaveReproducers`, `NoCoverageUpdateIsLost` | number of sessions, models, items and failures |
| `ConcolicEngines_proofs`, the slicer: `FixpointsAreClosed`, `SlicesAreMinimal`, `SlicesAreExact`, `SliceModelExtends` | path, variable set and cap |
| `ConcolicEngines_proofs`, the ladder: `MarksAreSound`, `OutcomeIsBest` | cascade, number of input bytes and set of assertions |
| `ConcolicEngines_proofs`, the backlog: `BacklogIndicesAgree` | set of keys, cap and bound of the heap |
| `ConcolicEngines_proofs`, the fast solver: `FastSolverIsSound` | constant, relation, orientation and negation of a comparison of an unwidened byte, number of input bytes |
| `OutputFiles_proofs`, the atomic writer: `TypeCorrect`, `UnfinishedLeavesTmp`, `ImplementsRegister` | set of contents and their sizes |
| `OutputFiles_proofs`, the search: `EvidenceStaysHonest`, `DirectoryStaysThisRun` | program, option, observation, bound of rows, failing write and kill |
| `DynTraceSession_proofs`: `TypeCorrect`, `DropsDeclared`, `NothingUntraced`, `CrashBound`, `LedgerAgrees`, `LossBound` | channel capacity, flush interval, number of events and of failing calls |
| `DynTraceSession_proofs`, the events: `CollectedIsTrue`, `SilenceIsOfTheTaken`, `TimesFollowClocks` | sequence of records with and without a schema, filter, moments at which the channel is full, number of events taken, epoch, tick and range of the clock |
| `AuroraSession_proofs`, the session: `SessionSeesItsTarget` | number of sessions, set of pids, event cap |
| `AuroraSession_proofs`, the tracing primitives: `TrapsStayClean`, `TracesStayWhole` | set of code addresses, bytes, slots, pages, rights, regions and levels, size of memory and log, number of sessions, samples, changes and steps |
| `AnalysisPipeline_proofs`: `RunsTellTheTruth`, `RunsAreConsistent` | combination of options (the run of TLC takes nine of 2048), failing call and kill |
| `Batch_proofs`, the folder scan: `FilesHaveOnePlace`, `ScanIsBounded` | folder, nesting of archives, sizes, findings, limits, number of failing calls |
| `Batch_proofs`, the benchmark: `GatesAreHonest` | manifest, machine, answers of git and of the compiler, rows and packets the analyser leaves |

Each follows the same line: a strengthening `IInv` that holds initially, is kept
by every action and implies the property. What the strengthenings add is why the
code works. In the fuzz loop the candidate is whole in the staging directory
from the end of `stage` until it is discarded, and a signature enters `seen`
only when both files of its directory exist; without the first fact a kill
during `execute` could lose the input, without the second a duplicate could be
thrown away. In the concolic session a session between `add` and `merge` has its
pair in `added` and its file in `queue`; the map only ever grows by such pairs.
In the slicer a pass that has not grown has met only constraints disjoint from,
or inside, the reachable variables. In the ladder an authoritative report comes
from a tier that proved its constraints unsatisfiable, by way of four lemmas on
the parser: whatever prefix of Z3's output is read, an `unsat` verdict in the
report was Z3's verdict. In the atomic writer every file the target path may
name, now or after a power failure, is whole and synced, which the order flush,
`sync_all`, rename provides; the refinement then maps each action to a step of
the register or a stutter. The register does not promise that an `Ok` survives
a power failure: the directory is never synced, and the code does not claim it.
In the tracer a stopped collector holds no event (this is what `collector.rs:120-121`
asks of `stop`, an assumption about the external ETW library), so the drop
counter no longer moves when the snapshot is taken; the file is behind the events
taken by at most `since_last_flush`, which stays below the interval.

`LadderTracks`: while a cascade runs no attempt has a model, `best_authoritative`
is the newest authoritative attempt and `last_report` the newest of all. The
attempt at this proof showed that an earlier `OutcomeIsBestAttempt` was a `CASE` with
overlapping arms, which said less than its comment; it now says what
`ladder.rs:88-90` says. `BacklogInv`: the LRU list is without repetitions and lists the
keys of the map, the map is no larger than the cap, and each live item has a heap entry
with its current score; a stale entry may be popped, and is then skipped, because the
current one stays. `AuroraInv`: a handle keeps its pid from being reused, so from the
spawn until the session returns the pid is the target's; the kill switch, once armed,
holds the pid of the session that runs. `TruthInv` ties what `analysis` says to the step the
frame has reached (caps and unpack outcome are copied when the step that builds
`analysis` is taken), `ConsistentInv` adds which passes have run by then (`BuiltUpTo`):
what a table was computed from is still so unless a later pass has written it, and for
the tables that are written together no later pass does, a fact about the list of
passes that is proved once from the list.

`FolderInv` rests on two observations about `folder_scan.rs`. A path is offered to the
heap with the same file every time it is offered (a directory or an archive does not
hold two files of one name), so the test on the path is a test on the file: what was
let in and the items that came of it can be matched one to one. And the bytes counted
when a file is let in are never given back, so the counter bounds the sum over what
waits, was opened or belongs to a sample. Sums over sets and the loop over
the files of a directory are recursions. The prover cannot take an operator as
the induction hypothesis, so the module first proves induction in a form without
one, for a set of numbers (`NatSetInduction`) and for a family of finite sets
(`SetInduction`), from the theorem that an injection of a finite set into itself is onto;
`SumFunction` and `OfferAll` are then unfolded along their rounds.
The assumption on the constants of `FolderScan` says that the tree and each archive are
such directories, that they and the findings are finite, and that the root is no
content of a file.

`SearchInv` says what the lists of a search are made of at each stage and what of them
is on disk. A row of evidence is one the run was given and kept, or the `Unavailable`
row of a source that gave none; so a finding that is raised has a row with its own sink,
and the strongest of its rows exists because places in a list are well-founded. What is
no longer in `todo` is on disk, and the ledger names an artifact only when its `todo`
has been emptied. The ids of chains are counters, so within a run they are distinct,
and the store replaces a row an earlier run left under the same id.

`TracingInv` is one invariant per primitive. A byte of code that no breakpoint holds is the
target's unless the flush of an install failed there or the target wrote under a breakpoint, and a
breakpoint holds the byte it took: this carries because a caller has at most one breakpoint at an
address. While a context is changed the thread is suspended once more than `ResumeThread` has failed,
and the context that was read is still the thread's;
the bits of two slots of DR7 do not overlap. The log is the end of what was seen, which
an append and a loss of the oldest keep. What a walk has captured lies before what
waits, which lies before the next address; so the regions are apart whatever the target
maps meanwhile, since a query describes only pages from the address it was asked for. A
blob of this run holds the region of its index, and a manifest of this run exists only
when the session is over. In a trace a step has the number of its line, and the lines outnumber
the steps counted by no more than the calls that failed, since only a failed flush leaves a line nobody counted. That the list
of candidates is sorted needs that a finite set with a total order can be listed
in it: the place of a member is the number of members before it, and two members have not
the same number.

`BenchInv` says that the result of the runner is that of a step on inputs of the right
shape; `IsScoreInput`, `IsStageInput` and `IsPrepareInput` (`Bench`) say what shape that is: a
case has the fields of `BenchmarkCase`, a world the answers of the machine and the rows
the analyser wrote, and no limit is zero where the code divides by it. `MCAnalyses`
assumes that its inputs are of that shape, so TLC checks it. From there on the proof is
arithmetic and counting. A gate is a set of reasons and a passed gate the empty one, so a
case with a missed label has left none of them out (`NoReasonNoMiss`); a mean that reaches its
bound though no case can be above it is reached by every case (`MeanIsAttained`), a
saturated ratio has numerator and denominator equal (`RatioIsPart`); the rows read back are
the rows written, best rank first (`EveryRankHasItsRow`, `ReadIsWritten`). The staging loop is a
function of the number of cases done, whose existence is proved by induction on that number
(`StagesExist`), and it keeps "ready means checked out" (`StageCaseKeeps`).

`FastSolverIsSound` states, for every query, the two operators (`ModelHolds`, `UnsatHolds`)
that the run `engines` checks on its queries as parts of `SolversAgree`. Negation is folded into the
relation first (`WantedHolds`); then each entry of the table is a byte the relation holds of, or
the relation holds of none (`FlipVarConstAnswers`, `FlipConstVarAnswers`), which rests on what a
checked step of a signed byte yields at the ends of its range (`StepsOfAByte`). The theorem
leaves out `Sle` and `Sge`, where an Unsat is no proof, and widened bytes, as the property does.

`CollectedIsTrue` states of every sequence of records what the run `analyses` checks of its own
(`CollectedTruly` of `TraceAnalysis`): the collected events stand, by a growing and onto
function, for the records that are heard and found room. `Collect` is a recursive function of the
number of records; its existence is proved by induction on that number (`StagesExist`), and
`RecordSeen` is the induction step, by the three cases of the callback. `SilenceIsOfTheTaken`
follows: with no drop as many events as heard records were kept, so the function is onto them all
(`NoDropAllTold`), and a send whose event was taken would be among the events the sentence counts.
What the code loses uncounted, a record without a schema and the events left at the deadline, is in
the statement: of these the silence says nothing.

The assumptions on constants are the named `ASSUME`s of
the modules; TLC evaluates them in the runs.

Only model-checked: everything under fairness (`AllRunsEnd`, `AgedItemsLeave`,
`TargetsAndSessionsEnd`, `RecordingEnds`,
`ScanEventuallyEnds`), which is out of the prover's
reach; the other families of `analyses` and `engines`, whose code is recursion over data
written with `RECURSIVE` operators, which cost the prover its SMT backend.
Every safety invariant a run checks outside these families has its theorem, and so have
`BenchmarkIsHonest`, the part of `SolversAgree` about the fast solver and the parts of `TraceIsTold`
about what is collected (`IdsCountLosses`, `TimesKeepOrder`, `SilenceIsEarned`), whose modules have
no recursive operator.

## Disagreements met while modelling

The modules state the following, each with the line it quotes, and TLC refutes them
when they are added to the configuration of their module's run. The first has a run
of its own, `pure_unsat_is_proof`:

- `UnsatIsProof` (`MCExecution`): `pure_rust.rs:289` converts the constants of `Sle` and `Sge` with `i8::try_from`, so a negative constant, wide as the code holds it, becomes an Unsat; `backend.rs:46` calls Unsat a proof.
- `ManyReadsKeepTheCall` (`MCProgram`): `c_decompiler.rs:2223` takes out the statement of any value that was read, however often; 2208-2212 says that one of several uses keeps it. A call then appears once for each reader, and not at all when only a dead copy reads it.
- `CtrlCEndsTarget` (`AuroraSession`): `unpack/session.rs:88` ignores a refused handler, and the command line has installed its own; `containment.rs:90-91` says Ctrl-C ends the target.
- `CompleteMeansRecorded` (`DynTraceSession`): events left in the channel at the deadline (`dynamic_trace/session.rs:199`) are neither recorded nor counted; `mod.rs:214-215`, `dyn_run_status.rs:164-165`.
- `CoverageHasReproducer`: `execute_and_record` merges the coverage before `corpus.add`; when `add` fails the edge stays credited and a later run of the input discards the only copy, the order `fuzzer_bridge.rs:4-10` names a flaw.
- `AddPromotesStaged`: `corpus.add` leaves the staged file behind.
- `FailedAddStaysStaged` (two failing calls): the corpus lock is dropped between staging and adding.
- `PromotionErrorShows`: the final `mark_complete` overwrites the partial mark of a promotion error.
- `CrashModelsKept`: a model that crashes the target is counted and dropped.
- `PopsHighest`, `OneEntryPerKey`: stale heap entries; `EvictsOldest`: the LRU list is rebuilt in hash order; `NothingStarves`: an item without novelty does not age.
- `CappedSliceIsSuperset`: a slice cut off by the cap is a subset.
- `StopsAtAuthoritative`, `FoldedUnsatBubblesUp`: the cascade goes on, and a later Unknown replaces the folded Unsat.
- `Z3ModelReachesReport`: the parser looks for the literal on the `define-fun` line, Z3 prints it on the next one, so every model is read as zero bytes.
- `UnsatCoreReachesReport`: `(get-model)` makes Z3 print an error on every Unsat, and the parser then discards the core.
- `WatchdogKillsOwnTarget`: a watchdog thread outlives its session and terminates whatever process has the pid by then.
- `NeverOutlivesAurora`: a refused attach leaves the suspended target; `NaturalExitIsNatural`: a kill is recorded as an exit; `LoopEndsForAReason`: one quiet wait ends the run; `TruncatedIsPartial`: a run cut off is reported Complete.
- `FailedStartEndsTarget`: `terminate_process_silently` is given the handle of the main thread, so a spawned target stays suspended when the collector does not start.

The following are stated the same way, next to a property of a run that leaves the case out and
says so; TLC refutes each when it takes the property's place:

- `ReportedCrashKept` (`FuzzSession`): `staging.rs` truncates (`File::create`) the only copy of a crash whose store failed when the same input is staged again, and a kill or an error before `sync_all` then loses it (`session.rs:201`); `NoLostCrash` excepts it.
- `EveryCountAgrees` (`AnalysisPipeline`): for ELF and Mach-O `analysis.json` has 0 for vtables, RTTI, call graph and API hashes (`pe.rs:3462-3472`) although their tables are written with rows, and no count of the second-pass targets; `CountsAgree`.
- `EveryCapReported`: caps of methods, summaries, decoded strings and others (as `decoder.rs:69-81`) have no flag anywhere; `CapsReported`. The cap on cross references has one (`caps_hit.xrefs`, `pe.rs:3355`).
- `CompletedMeansWhole`: `write_json` drops its `BufWriter` unflushed (`pe.rs:3773-3777`), so that a failing last write goes unnoticed; `CompletedMeansWritten`.
- `VulnRowsAreOuters`: with `--vuln-out` the outer run shares the store of the nested one and keeps its rows; `VulnFindingsAreOuters`.
- `CodeIsAlwaysTargets` (`AuroraTracing`): a failed flush leaves the INT3 (`breakpoints.rs:142-148`), and a restore after the target rewrote its code puts back the old byte; `CodeIsTargets`.
- `ThreadRunsAgain`: nobody retries a failed `ResumeThread` (`breakpoints.rs:387-389`, `410-421`), and the thread stays suspended; `NoLostProgress`.
- `RightsAreAlwaysTargets`: a protection the target changed while its page was armed is replaced by the older one; `RightsAreTargets`.
- `FooterCountsSteps`: after a failed flush a line is in the file that the caller counts as failed, after a failed write its rest spoils the next line (`devirt/trace.rs:136-142`); `FooterMeansWhole`.
- `SilenceIsAlwaysEarned` (`MCAnalyses`): a record whose schema is not found (`normalize.rs:172`) and the events left in the channel at the deadline (`dynamic_trace/session.rs:199`) are dropped uncounted, and the pack then says "none observed" of a target that sent; `SilenceIsEarned`.
- `HopsAreCalls`: `taint.rs:43` calls `hop_count` the number of `Calls` edges crossed, a sink's is one more (206-213); `TaintIsShortest`. `BitsAreAllTrue`: `call_summaries.rs:44-56` says that the bits are uniformly TRUE and a fixpoint is later work, the code starts with zeros and computes one; `SummariesAreUnions`.
- `ModifiedIsNotAdded`: the `retain` at `diff.rs:134-138` compares "a → b" with plain fingerprints and removes nothing, against 133. `EveryFunctionIsCounted`: functions that share a fingerprint are counted once, in the header each; `DiffTransforms`.
- `EveryNameSurvives`: `cpp_classes/solver.rs:168-173` keeps the first name and type of a field; `SurestFactsSurvive`.
- `PlannedIsNotExecuted` (`MCExecution`): the rows of a dry run make the capability "executed" (`portable.rs:254`, `270`, `477-499`) against `native_fuzzer.rs:48-52`; `GapsAreReported`.
- `StaleOperandsAreForgotten`: arithmetic sets flags and keeps the operands of the compare before it (`native_emulator.rs:207-225`), so that emulator and solver differ on the branch; `SolverAgreesWithEmulator`.

The models of the pure code and of the newer sessions keep the following as the code
has it; their properties are stated so as to leave these cases out, and say so.

Pipeline and folder scan
- `analysis.json` is the first file written (`pe.rs:2009`) and the one `diff.rs:245`, `369` take as the mark of a run, so a half-written run diffs as if everything had been removed; errors of the cards and of the summary are dropped.
- An archive that cannot be extracted is not reported by the folder scan.

Loaders and symbols
- A section that starts beyond the file panics (`pe.rs:2397`), as do `read_c_string_rva` (860) and a truncated ELF section (`pe.rs:232`); a snapshot address is cut to 32 bits (2542) against the comment at 2452-2493; ELF sections that are not loaded get address 0 (`elf.rs:110`, `strings.rs:205`); UTF-16 at odd offsets is missed (`strings.rs:249`).
- `debug_symbols.rs`: GUID and age of a PDB are never compared (417-421, 1326-1349); two PDBs use the same file and line ids (712-719); rows pushed before an error stay (765-769); caps are silent (782, 1056); a recovered function with the range of a data symbol stays unnamed (1287).

Listing, flow and values
- `disasm.rs`: an instruction cut off by the end of a range stays invalid when a later range holds it whole (59). `indirect_resolver.rs`: `call [reg+disp]` is resolved to the base register's value, not to the one loaded (84-96); "definite" ranks with high and is reported medium (108-150).
- `cfg.rs:43-58` makes no edge where an instruction falls into a block that starts at a jump target, so dominators are too large and a loop header need not dominate its loop (`structured.rs:168`); `ret` does not end a block; a loop whose jump back goes forward in address is not a natural loop (184); the goto test compares an instruction address with block starts, so most forward branches of longer blocks are gotos and confidence becomes high (124-151); a shared return block is any target of two edges; an empty second-pass selection refines every row (93).
- `jump_tables.rs:242`: a `jae` guard reads one entry too many; guard and limit look through different windows (`switches.rs:350`, `jump_tables.rs:237`); a recent constant ignores what overwrites it (`switches.rs:516`); the low end of the index shifts the table (220-230).
- `ssa.rs`: a block after an unconditional jump inherits definitions (125, 224), and a predecessor along a back edge gives no phi. `dataflow.rs:434`: a `mov` or `lea` of something unknown keeps the string, reported proven; calls clobber no register. `second_pass.rs:380-390`: of two equal rows the first is kept whatever its priority.
- `vsa.rs`: a successor with an empty state is never visited (295); a `mov` of something unknown keeps the old value (468), a join what one side knows (476-491); other operations copy the first register read (783); intervals wrap end by end (879-883).

Decompiler (`c_decompiler.rs`)
- A value is put in after an operand of it was overwritten, since only writes to its own register end it (2274-2314; 2183-2185 speaks of memory-aliased writes); statements that are not lifted, and `pop`, end nothing. At a label every statement that was read is taken out though the code behind the label may still read its register (2233, 2247).
- `call; add rax, ...; ret` writes the call twice; a store's left side keeps the register whose statement is taken out; `<<=` and `>>=` are not read as assignments; `neg`, `not` and `rol` stand for themselves; words in comments count as uses.
- The label of a do-while's top is not written though other gotos name it, and the closing brace of loops that overlap or share their top closes the wrong one (344-389).
- The first operand of `add` and `sub` counts as written and the base of a memory operand never as an argument; slots of one distance from `rsp` and `rbp` share a name.

Symbolic and portable execution
- `pure_rust.rs:277` masks a constant wider than the byte it is compared with, so the model of a widened byte need not satisfy the branch.
- Shadow emulator: two immediates on an untracked register (217-234), an untracked operand of a compare is zero (288-301), the last compare outlives arithmetic that sets flags (355), stores into the input region are not read back (418-423), any base register is the input's (404-414), writes to `al` and `ax` clear the upper bits, `bh`, `ch` and `dh` read the low byte (375), index and scale are dropped (638-680). `predicate.rs:116-131` does not know `jnc`. An eight-byte load is a free variable in process (`lowering.rs:207`) and a select in the text; the hex width of `smt2_emit.rs:160`. No session calls the shadow emulator yet.
- `portable.rs`: `emulate_portable_function` (642-960) is dead; `symbolic_solver.rs:107-141` reads `test` as `cmp` and signed as unsigned; a branch after arithmetic alone is never taken (`native_emulator.rs:404-428`).

Fuzzing
- `mutators.rs:308`: an input under eight bytes comes back unchanged, labelled a boundary value; a splice never keeps a whole input (277).
- `reachability.rs:8-13` says other edges weigh three and that the scheduler asks `bonus_for`: they weigh two (30-39) and nothing calls it; a target at the address of a site (`targets.rs:187`) is never a reached function.

Trace
- An insert into the store or a line of the NDJSON file that fails is ignored (`let _ =`, `dynamic_trace/session.rs:204-205`): `DynTraceSession` has the line fail, `TraceAnalysis` takes every insert to succeed. `normalize.rs:307-321` puts the key in the object and the value name in the arguments, so `detect_service_creation` (`behavior_facts.rs:327`) never fires; the exfiltration fact takes eight events with the writes first (234); a reopened `trace.sqlite` keeps a longer tail (`store.rs:40`, `143`); edges of store and graph differ in times and references; of equal maxima the pack takes the last and the table the first (`llm_pack.rs:357`, `414`); the DNS provider is not in the kernel session (`etw.rs:112`).

Vulnerability search
- Nodes for bounds checks and integer operations are never made, so two templates never fire; `chain_satisfies_taint` ignores the source (`query.rs:219`); a lock at a lower address in another function counts (388-393); the block of a sink counts as its guard; a sink that was only reached adds 0.05 against `dynamic_evidence.rs:93-95`; a `NotObserved` row before an `Unavailable` one of the same weight is dropped with it, as `max_by` takes the last (`confirmation.rs:117-133`; 102-104 says only when every record is `Unavailable`); the store keeps the rows of earlier runs; harness verification, ranges and reachability are called by no session.

Reports
- `diff.rs`: the joint by commas is ambiguous (325-329); the first subdirectory in directory order is taken (374); lists are cut at 200 and 30 without a word.
- `llm_artifacts.rs:2444`: a slot above and one below the frame share an id; `symbol_graph.rs:429-446`: the span of a symbol mixes files.
- `cpp_classes/solver.rs:140-150`: of equal scores the first source wins and the last gives name and size.

Aurora primitives (no session calls most of them yet)
- Two breakpoints on one address; arming an armed page (`guard_pages.rs:84`, `91`); `debug_loop.rs:281-290` drops the exception information; a log of capacity zero overcounts; a drop of entropy before the first execution is lost (`oep_detector.rs:78`); blobs are overwritten before their manifest; a 3.x trace with another cap reason may claim high confidence (`trace.rs:169`); `hooks/inject.rs:96-117` leaks a page and waits for ever.

Benchmark
- `axe-bench.rs`: a build without a second run goes back to the nominal path (1780-1792 against 1721-1726); cases that failed or were skipped are not counted by the gates (735); missed labels are compared by label (756-771); findings that cannot be read end the whole run (474-475); the probe writes all of stdin before its timeout counts and reads the pipes after the exit (1855-1875).

## Plan

Modelled so far: every session and the pipeline as state machines, the passes they
call as operators. Left, in this order:

1. Proofs: the parts of the families of `analyses` whose operators are not recursive (`Targets`, the jump tables, the class merge), once they are modules of their own without `RECURSIVE`.
2. The ledger file of the fuzzer and the tracer against those of earlier runs; the NDJSON writers of the fuzzer and of the concolic export.
3. Two processes that write one path: the fixed name of `.tmp` (`atomic_write.rs:120`).
4. The exception-handling decoders and the RTTI collectors in front of the class merge; type inference and the value graph.

Not modelled, with reasons. The report layouts and the intermediate representations
(`ir.rs`, `pseudo_ir.rs`) restate rows as text, and nothing reads it back. Tables of names (packer dispatch, behaviour, triage, API
catalogues) and rows copied field by field have no step that can go wrong between
two others. The harness registry and the hook list are registration tables. The
hypervisor and driver tracers, harness verification, `vuln/ranges.rs` and
`vuln/reachability.rs` are called by no session. The meaning of x86 bytes is
`iced_x86`'s, external here, as are the parsers of PDB, DWARF and object files. The
sizes of the pipes between the benchmark and its probe are left out. `PROJECT.json`
lists every part with its reason.
