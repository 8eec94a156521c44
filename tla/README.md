# Gatepack in TLA+

Gatepack turns a small digital specification (`design.yaml`) and a table of
parts (`parts.csv`) into a board-level netlist of single-gate packages. It is a
Python core (`gatepack/`: front end, synthesis through yosys, packing, emitters,
verification) that runs as a command line program, and an Electron application
(`app/`) whose main process owns the open project and runs the core, and whose
renderer edits the specification and shows the results.

This directory holds TLA+ models of the parts where steps interleave, fail or
arrive late, and of the algorithms whose results a board is built from; TLC
configurations that check them on small instances; and machine-checked proofs
of what matters most. `PROJECT.json` lists components, runs, the lines of source
behind every definition, hazards, findings and theorems.

## Inventory

State, operations and what is hard, part by part, with the modules that model it.

| part | state | operations | what is hard, and what makes it correct | modules |
|---|---|---|---|---|
| Specification document (`state/project.tsx`) | text, pending text and its 400 ms timer, stale marker, revision, read sequence | edit, timed write, read and its answer, listeners for project and file changes | no lock: three copies of one text agree only because every divergence leaves something in flight | `SpecDocument` |
| Session manager (`session.cts`) | open project, watcher and its debounce, dirty, git, scratch directories | open, close, new, save, save as, read, write, invoke, export, build state | every operation awaits; opens, saves and closes overlap; a failed open closes | `Session`, `SpecDocument`, `BuildOutputs` |
| Container (`project/`) | `.gpk`, exploded directory | bundle, explode, new | inverse operations; one stream is cut in two ways | `ProjectFile`, `Session` |
| Core processes (`core.cts`, `cancel.cts`) | tokens, child processes | spawn, cancel (SIGKILL), settle | cancel before, during and after; the killed core's own child survives | `RevisionedTask` |
| Revisioned tasks (`useRevisionedTask.ts`, session stores) | token, task state, Escape's registry, published evidence | run, re-run, cleanup, late answers, publish | a result must never be shown against another text; superseded work must end | `RevisionedTask`, `Workbench` |
| Front end (`frontend/`) | pure | check, expand, encode, emit Verilog | determinism and exclusivity of transitions; a reset that is released and asserted differently | `Expressions`, `Rtl` |
| Asynchronous synthesis (`synth/async_/`, `verify/hazard.py`) | the stage reached, files | admit, flow table, assignment, cover, emit, hazard checks, gate | no race, no hazard, and no netlist on disk that was not checked | `AsyncSynthesis` |
| Parts library (`parts.py`, `refs.py`, `pinmap.py`, `liberty/`) | tables | load, cite, check, select, Liberty | tables that are keyed differently describe one part | `Library` |
| Netlist names, designators (`netlist.py`, `emit/`) | previous designators | parse, resolve, name, number, net list | names that survive a re-synthesis; a slot decides pins | `Netlist`, `Emit` |
| Build (`build.py`, `async_pipeline.py`) | files of `.gatepack/out`, yosys process | synthesise, load, assemble, write | overlapping builds, kills, timeouts, old files; an export while a build runs | `BuildOutputs`, `Board` |
| Packer (`pack/packer.py`) | pure | group, solve, force, fill | cheapest cover with priced spares; every gate once; overrides met | `Packer` |
| Estimate, simulate | the mapped netlist they find | count, compare with the table | the count must be the build's; evaluation in any order of cells | `Board`, `Netlist` |
| Verification (`verify/`) | checks, shared scratch files | run, mutate, verdict | a check that did not run is not a pass; files rewritten in place; old netlists; the testbench's own timing | `Verification`, `Rtl` |
| Analyses (`analysis/`) | pure | fault classes, collapsing, SCOAP, depth | "redundant" is a proof by exhaustion; feedback loops | `Testability`, `Insight` |
| Provenance (`provenance/`) | `premap.json`, `mapped.json` | capture, coverage, match | files of two syntheses; aliases of nets; functions as signatures | `Provenance`, `Insight` |
| Strip and run requests (`shell/`) | nonces, stage states | request, consume, derive | a request that races a mount | (what they publish: `RevisionedTask`) |
| Command line and envelope (`cli.py`, `api.py`, `envelope.cts`) | exit code, JSON | report | one meaning per code on both sides | (commands: `Board`, `Insight`) |
| Editing, rendering, reports, scripts | text | | | none |

The parts meet in four places: IPC calls and events between renderer and main
(ordered queues one way, unordered answers back); the project's directory, which
renderer edits, the core, other programs and the watcher all touch; child
processes, which main can kill but not their children; and module-level stores
of the renderer, which outlive the views that write them. Inside the core the
stages meet in files of one output directory that nothing locks.

## Modules

### The application

**`SpecDocument`** The text and its copies. Variables are named after the refs
and states of `ProjectProvider` (`text`, `pending`, `stale`, `rev`, `readSeq`)
and the fields of `SessionManager` (`cur`, and counters of overlapping opens and
saves, since these await). `toMain` is the queue of `ipcRenderer.invoke` calls,
`replies` the answers, which the renderer's continuations take in any order,
`inbox` the events. One action per listener, timer, continuation and IPC
handler, each with all it does: `OnProjectChanged` drops the pending write *and*
issues the read. A text is the project it was loaded from and a version. `armed`
is the watcher's debounce; `strays` counts debounces that a second open replaced
without cancelling. Other programs write, remove or touch files at any time.

**`RevisionedTask`** The hook, its registry, what the views publish from it, the
main process's `CancelRegistry` and the child processes. A run reads the disk at
some moment between its start and its end. Its document is an environment that
may change arbitrarily. The state keeps the token of the run that set it, and
`startedAt` and `readBy` record history for the properties.

**`Workbench`** Composes the two: `RevisionedTask` is instantiated with the text,
files and project of `SpecDocument`. It shows what neither shows alone: whether a
result computed from the file is ever taken for one of the text on screen.

**`ProjectFile`** The two forms of a project as operators over lines: the YAML
subset's stream of documents, the serialiser's own cutting of it, `bundle`,
`explode` and what refuses a stream. **`Session`** puts them to use: the main
process's open, new, save, save as, write and close over archives, folders and
scratch directories. A call is a record of how far it is and what its core has
read, file by file; a core process reads and writes whatever is there at the time,
so a removal or a write in between shows. `dirty`, the watcher and the git status
are fields of the project record the call holds on to.

### From specification to netlist

**`Expressions`**, **`Rtl`** `compile_design`'s checks (structure, expressions,
determinism and completeness of guards), the three encodings, and the emitted
registers: reset synchroniser, input synchronisers, one-hot or encoded state.
Then either the world drives the pins (reset at any time, any input before an
edge), or the generated testbench does, one statement at a time, against its
reference model. The action `Assert` clears every register with no edge; `Edge`
takes all registers' old values at once. **`DesignMachine`** is what a
synchronous `design.yaml` promises; `Rtl` is shown to implement it.

**`AsyncSynthesis`** The pipeline stage by stage: admission, admissibility of
the flow table, the assignment (any that z3 may return for the first width with a
solution), the hazard-free cover (any smallest one, with required cubes), the
emitted gates with the invented names the emitter uses, the two ternary checks
and the functional check of stage 5, and the gate that lets a netlist reach the
disk. Then the netlist is put to work: each feedback wire takes the value the
gates drive it to, one wire at a time, in any order. **`FlowMachine`** is what a
flow table promises in fundamental mode; the circuit is shown to implement it.

**`Verification`** A `gatepack verify` in a directory it shares with
`estimate` and with other runs. A netlist is the version of the design it was
made from; a fault of a cell model is which checks can see it. Each check, each
step of the mutation suite (plant, ask, restore) and the verdict are actions; a
tool may be missing or crash, and the run may be killed between any two steps.

### From netlist to board

**`Library`** Rows of `parts.csv`, citation tables, pin maps and their checks,
what is eligible for a supply voltage, the one row that represents a cell, and the
validated Liberty cells. **`Netlist`** Parsing of `write_json` (port names win over
net names, aliases), `resolve_parts`, stable names derived from cones, and
evaluation to a fixpoint. **`Emit`** designators, their comparison with the
previous ones, the bill's lines and the KiCad nets with physical pins.
**`Packer`** The packer as operators: the table of the coin-change solver (`Column`, `Table`),
the choice of the number of slots (`BestSlots`), filling by slicing (`PackGroup`),
overrides (`CollectForced`, `BestPart`) and `resolve_parts`; one build chooses its
inputs and either packs or is refused. Costs are integers.

**`Board`** One project over several commands: `lib check`, `estimate`, `build`,
`simulate`, in any order, each build and estimate with a synthesis that numbers
the instances afresh (`Renumberings`), and overrides written in the names of an
earlier build. **`BuildOutputs`** One output directory, any number of builds, their
yosys processes, kills and one export. A file is the version of the design it was
made from. `newer` is the comparison of modification times in `sourcesNewerThan`.
`company` is history: the builds that were at work when one started, or came later,
and those that these had met. What they wrote may have reached it; what is older
than all of them may not.

**`Testability`**, **`Provenance`**, **`Insight`** The analyses (faults,
collapsing, SCOAP, depth) and provenance (capture, coverage, match) as operators
over a netlist, and the commands `analyse` and `provenance` over a build directory
whose three files a synthesis writes one after the other. A synthesis may stop
between two of them; the design may be edited.

**`SpecDocument_proofs`, `RevisionedTask_proofs`, `Workbench_proofs`,
`BuildOutputs_proofs`, `Verification_proofs`, `Session_proofs`, `Packer_proofs`** The
proofs, with lemmas on queues, sums, sorting and flattening in **`DataLemmas`**. `MC*` modules give values to the constants
that a configuration cannot; `RevisionedTask`, `Workbench` and `BuildOutputs` need none.

Operators marked *variant* or *mutant* are faulty versions of the definition that
follows them. They are not used by the specification: substituted for it, each
makes a property fail, which is how we know that the property can fail. The
`TypeOK` of a module documents its variables: it is a theorem of `SpecDocument`,
`RevisionedTask`, `BuildOutputs`, `Verification`, `Session` and `Packer`, and of the others TLC
holds it to be invariant under the module's configuration when it is added to it.

## Runs

| run | shows | bound |
|---|---|---|
| `document` | the text on screen and the file differ only while something in flight will reconcile them; writes keep typing order; when all is quiet the editor shows the file; the stale marker goes away | one project, three events (edits, commands, outside changes) |
| `task` | superseded runs are cancelled and die; Escape's registry is exact; a result is shown only against the revision it was started at; published evidence is real | two runs, three revisions, two switches or Escapes |
| `workbench` | a result computed from another text than the one on screen is always about to be flagged; the document changes only in ways `RevisionedTask` allows for (`ImplementsTask`) | one project, one event, one run |
| `outputs` | a build packs a netlist compiled beside it, its own if it was alone, and never one that an earlier run left; files agree unless a build was cut short or had company; builds end | two builds, two edits, one export |
| `packer` | every gate in one package; free gates at the least cost among all purchases; overrides met at the least cost | netlists of up to four gates of three cells and of six of one, three tables, eight override lists, three prices of a spare |
| `async` | a netlist that reaches the disk runs the flow table (`FlowMachine`) whatever the order of its feedback wires; no output or next-state bit has a static hazard at an input change | two states over two inputs with four ways up and four down, rings of three and four, a path with a state in passing, refused designs; codes of up to three bits |
| `verify` | "passed" is about the netlist of this design, and comes from checks that tell a fault; the cell models are restored | two runs, one edit, one estimate, a suite of two mutations |
| `rtl` | the emitted registers run the design (`DesignMachine`) under any reset and input; the testbench agrees with one-hot registers behind a synchronised reset | tables of two states over one input with every shape of row, refused ones included, some of three states or two inputs; three encodings, with and without synchronisers |
| `session` | nothing of a project is lost between its two forms; clean means saved, and what is saved of a working copy is it again when opened; scratch directories are owned; the git status is the open project's | two calls beside the first open, one write, two archives, a folder, two examples |
| `board` | the divergence table marks exactly the rows in which the gates differ from the specification; the pin-numbered board settles and computes the netlist; shared dies are cited; a renumbered synthesis changes nothing a user keeps, with one exception; the estimate counts the board | six designs of up to three cells, nine libraries, three renumberings |
| `insight` | "redundant" faults of gates without feedback are seen by no output and no flop, except before a reset; the tests of the faults that are listed find the others, except those known to be lost; SCOAP and depth say what they claim; links name the right cells | some fifty netlists of up to five cells, one edit, one interrupted synthesis |
| `insight_latch` | expected to fail, see below | the same, and a latch of two gates |

Three events are what the longest race of `SpecDocument` takes (two opens of which
the second replaces the watcher that a change in between had armed); two suffice
for every other pair (an edit against an outside change, a save against an edit),
each with all the steps it sets off. One project can be closed and reopened, so
that liveness meets switches too, and `DivergenceIsOwed` is proved for every number
of projects and events; with two interchangeable projects and three events TLC finds
1.2 million states and the invariants hold as well. `Workbench` with two events has
12.8 million states and keeps `MismatchIsOwed`. Two builds are enough to overlap,
and a third would only repeat the roles of the first two. The override lists include
all ways to be refused, and the tables a size that is cheaper than a smaller one and
one that is cheap but for its spares.

Critical races and static hazards need two state bits and two inputs at least; the
tables of `async` have both, and the rings a third state, so that a code has states
the table does not use and a transition passes through others. Every assignment
and every cover of least size is taken, since z3 may return any. A mutated model can be left
behind, an old netlist found and an edit missed with one other run and one edit; the
second mutation of `verify` is the one that finds what the first left. A testbench
goes wrong at a transition, a self-loop or a reset in the middle of either, all of
which two states and one input have; three states are for overlapping guards and
unused codes. In `session` the calls overlap in pairs and a third process is the
program that writes; the archive that is open was written by hand (another order of
documents, comments between them), and the edits add lines the two parsers read
differently. The boards of `board` have two gates that share a package, one that could
and may not, a flop, and cells without pin map, part or citation. The netlists of
`insight` are combinations of three gates over two inputs, with every kind of fan-out
and reconvergence these allow, machines of one flop, and single ones with what is
rare: a tie, twins, a lost attribute, a net of two names, an output that is read, a
loop, redundant logic before a gate, a gate nobody reads, gates before a reset.

### Fairness

Weak fairness of the renderer's timers and continuations, of main's handlers and
of the awaits of opens and saves (`Fairness`): the event loops run what is due,
and git and the core's `project` commands return. In `RevisionedTask` React renders
and effects run, and a process that was sent SIGKILL closes; others may run for ever. In
`BuildOutputs` only the core is fair, and yosys may hang: the timeout in
`_synthesize` is what ends a build. Users and other programs owe nothing. The modules
of the core assume no fairness: their commands are functions, or may be killed.
Deadlock is not checked because the user may stop.

## Where code and comments disagree

`insight_latch`: in a netlist with a feedback loop, as every asynchronous design has,
the fault simulation visits the loop once with the net that closes it low. A fault
on logic that holds a state is then never detected, and since all input vectors
were tried it is called redundant, that is, "no test can exist".

Fourteen more properties, in configurations that are not in the list of runs, are
expected to fail for the same kind of reason. TLC refutes the property each of them names.

| configuration | module | property | what the code does |
|---|---|---|---|
| `SpecDocumentTypedText` | `MCSpecDocument` | `TypedTextIsKept` | an answer to a read replaces what was typed while it was in flight |
| the same, with the property in its place | `MCSpecDocument` | `OnlyASwitchDropsEdits` | a save drops an edit of the same project that was still to be written |
| `SpecDocumentWrongProject` | `MCSpecDocument` | `WritesStayInTheirProject` | a write handled after a switch goes into the other project's file |
| `RevisionedTaskRunning` | `RevisionedTask` | `RunningMeansInFlight` | after a cancelled run the running flag stays up |
| `WorkbenchLive` | `Workbench` | `LiveResultMatchesSource` | a run in the 400 ms before a write reads the old file and is shown as live |
| `BuildOutputsFresh` | `BuildOutputs` | `NotNewerMeansCurrent` | an edit made while a build runs is not seen as newer than it |
| the same, with the property in its place | `BuildOutputs` | `ExportIsOfOneBuild` | a build writes between two copies of an export, which then hands over files of two builds (`session.cts:599`) |
| `PackerOptions` | `MCPacker` | `EveryPackagingOptionIsUsed` | the shipped table spells one function in two ways, so package sizes do not compete |
| `AsyncSynthesisState` | `MCAsyncSynthesis` | `NoStateHazard` | stage 5 does not cover a hazard on one state bit while another changes (`cover.py:234` calls it the safety net for any hazard) |
| `RtlFlush` | `MCRtl` | `BenchAgrees` | three clock edges after reset are one too few or too many for encoded registers, or without the reset synchroniser, so the testbench fails a correct netlist (`simulation.py:484`) |
| `RtlExhaustive` | `MCRtl` | `SkippedNeverFires` | a (state, input) pair that the generator skips as unreachable by one input value can fire (`simulation.py:286`) |
| `Board`, in the place of `RenumberingChangesNothing` | `MCBoard` | `RenumberingNeverShows` | a gate that reads another on two pins is never ready in the topological order; it and what waits for it are named in the order of their instances (`netlist.py:366`) |
| `InsightRedundant`, in the place of `RedundantHasNoTest` | `MCInsight` | `RedundantIsUnseen` | a fault in the gates before a reset, which every flop sees, is called redundant (`faults.py:416`) |
| `SessionReopens` | `MCSession` | `SavedReopens` | a truth table with rows of different lengths is bundled, and the .gpk made of it is refused (`project/__init__.py:154`) |

Reading the code for the models turned up more, none of which a run states:

* A net's name in provenance is the last of its aliases, so an entry may be exact
  and name no cell (`capture.py`); `LinksAreTrue` excepts it. `match_netlists` is
  called by tests only, and nothing writes the `post_abc.json` that the build
  directory's readers know of.
* Collapsing loses faults in two ways. The fault of a net that is an output, or a
  flop's D, and feeds one gate is taken for that of the gate's input; and the fault of
  an output is dropped for faults of the gate's inputs though no vector finds those
  (`faults.py:227`), which takes redundant logic before the gate. `Lost` is these
  faults, and `CollapsedFaultsStandForAll` excepts no other: TLC finds a violation
  when either kind is left out of `Lost`.
* The analysis looks at outputs and D inputs. What gates compute for a clock, set or
  reset is not looked at: faults there come out as redundant, unless the collapsing has
  put them on the pin itself, as it does with a single inverter before a reset, where
  they are called untestable. `RedundantIsDead` excepts faults from which gates lead to
  such a pin.
* A synthesis that stops half way leaves a new `premap.json` with an old
  `mapped.json`; a design that changes from synchronous to asynchronous leaves an old
  `premap.json`; and a full analysis of an old `mapped.json` after an edit assigns
  inputs that it does not have.
* A missing citation does not fail `lib check --json` (`refs.py`); a bill's line
  takes `unverified` from its first package; `check_pinmaps` keeps the last row of a suffix; a net called VCC or GND
  merges with the rail; part numbers may double their family (`74LVC74LVC161`,
  `libraries/74aup.csv:17`), for a suffix that begins with `74` does not begin with it.
* The stable names of clocked designs depend on instance numbers. So do those of gates
  left waiting (`LeftWaiting`), without flops: a cell whose two input pins read one
  net waits for its driver twice and is freed once, so it ends among the leftovers, and
  with it all that reads it. Names, overrides and designators follow the numbering there.
* `gates_per_pkg` of 0 is accepted (`parts.py:144`), and so is a negative price of a
  spare; the estimate counts packages without overrides and at the default price
  (`estimate.py:343`).
* `run_verify` does not repeat the voltage check of `build`; the mutation suite
  ignores the cap on its size (`synchronous.py:146`); a guard that reaches `state ==`
  through a named expression raises an exception nobody catches.
* `closeProject` broadcasts nothing; `reset.async_assert: false` is ignored;
  `bundle` drops side files and `write_text` is not atomic.

## Proofs

`SpecDocument_proofs` proves, for any set of projects and any bound on events,
from the module's named assumptions (`NoProject` is no project, `NoText` is no text):

* `TypeCorrect`: `Spec => []TypeOK`;
* `DivergenceAlwaysOwed`: `Spec => []DivergenceIsOwed`;
* `WritesAlwaysInOrder`: `Spec => []WritesInTypingOrder`.

`DivergenceIsOwed` is not inductive. An answer on its way may hold any text, so
when it is applied nothing need be in flight any more. `IInv` adds two facts:
`SeqBound`, no read is newer than `readSeq`, so a fresh read makes every other one
late; and `AnswerIsFresh`, while a file is open and nothing else is due, the answer
to the latest read holds what the file holds. The second holds because whatever
changes the file (a write, another program, a switch) leaves a write, a debounce
or an event behind. The proof sorts the steps into those that change nothing of
this, those that leave work behind and the answers to reads, and treats each kind
once. For the order of writes `OrderInv` adds `WritesAreAuthored`: no write, sent or
pending, is newer than what was typed last, so the next text typed is newer than all.

`RevisionedTask_proofs` proves the invariants of `RevisionedTask` for any projects,
sources, runs and revisions, from its assumptions (nulls are not numbers, bounds
are):

* `TypeCorrect`: `Spec => []TypeOK`;
* `SupersededAlwaysCancelled`, `InflightAlwaysUnsettled`,
  `LiveResultAlwaysOfThisRevision` and `EvidenceAlwaysReal`: the four safety
  invariants of the run `task`.

Its `IInv` strengthens each by what it rests on. `CancelFollowsInvoke`: in the
queue to main, the cancel of a call that was given up comes after the call, so it
never finds it unregistered and is lost. `CallsAreOnce`: a call is sent, registered
or answered, and never two of these; without it an answer could settle a token that
is still at work. `StateIsOfTheRun`: a run is stamped with the revision last
rendered, which is no later than the one it was started at, so a stamp that
equals the current revision leaves no room for an edit in between.
`SuccessIsDone`: a success, on its way, shown or published, is of a process that
read the source and closed. Types need one fact more (`TypeInv`): a process was
started in a project.

`Workbench_proofs` proves that `Workbench` implements `RevisionedTask`
(`WorkbenchImplementsTask`): every step of the document is one that
`RevisionedTask` allows its environment, and the others are its own. The bound
`MaxRevision`, which only the model has, is a hypothesis. With the theorems above, what is
proved of a task in any document holds beside `SpecDocument`.

It also proves `MismatchAlwaysOwed`: `WorkbenchSpec => []MismatchIsOwed`, for any
number of edits, runs and revisions. A result on screen can be of another text in two
ways. The file has moved on: then `DivergenceIsOwed` says what is on its way. Or the
run itself read another text than the one of its revision. `WorkbenchInv` follows such
a run from the moment it reads: `ReadingIsOwed`, while a run of this revision has read
something else than the file holds, work is due, or a read that will raise the
revision. That it will rests on `OnlyTheFirstReadIsQuiet`: every read but the one
made on mount raises the revision. `RunsAreOfThePast`: no run has a revision that is
still to come, and what is shown is of one that began no earlier than its stamp.
`TokensAreFresh`: nothing was read for a run that has not begun. The bound
`MaxRevision` is not needed here: the revision may grow without end. Steps of the task are taken from the lemmas of
`RevisionedTask_proofs`, instantiated here; steps of the document from those of
`SpecDocument_proofs`.

`BuildOutputs_proofs` proves `TypeCorrect`, `PackedAlwaysOfTheCompany` and
`OutputsAlwaysAgree` for any number of builds and edits, from the assumptions that the
bounds are numbers and an absent file is none. `company` is a history of starts, so the
invariant has to say what it is worth later: `Acquainted`, two processes at work at
once, a yosys without its core among them, have met each other and the same others.
`Near` are the designs of a build and its company; they only grow, and who is at work
beside a build has no design that is not near it. So what a yosys is about to read, has
read, or leaves for its core is near that core's build (`NearFiles`), whoever wrote it,
and so is what is packed. And what a build has written so far is its own while it
writes, if it is alone (`OwnOutputs`). That the files are of one build says nothing of
an export made meanwhile: `ExportIsOfOneBuild` fails, with one build already.

`Verification_proofs` proves `TypeCorrect`, `ModelAlwaysRestored`,
`PassedAlwaysEarned` and `PassedAlwaysSensitive`: the three properties of the run
`verify`, for any suite of mutations, any targets and any number of runs, edits,
estimates and kills, from the assumptions that the bounds are numbers, an absent file
is none, and the suite is a sequence of the mutations there are. The argument follows
one run. While it is alone no estimate is at work beside it (`NobodyBeside`), so what a
synchronous one compiled is what equivalence compares with (`GeneratedIsOwn`), and
once that passed, the mapped netlist is that of its source (`ProvedIsMapped`). While a
mutation is planted the run remembers the good model (`OriginalIsGood`). Each check it
has recorded says what the tools found, as long as they did not crash
(`ChecksAreInOrder`, `OutcomesAreTrue`, `SuiteIsTrue`); and a verdict of "passed" is a list without a check that failed or did not run.

`Session_proofs` proves, for any archives, folders, examples, calls and writes:

* `TypeCorrect`: `Spec => []TypeOK`;
* `ScratchAlwaysOwned` and `GitAlwaysOwn`: `ScratchIsOwned` and `GitIsOwn`, always;
* `TextsAlwaysRoundTrip`: `TextsRoundTrip`, always;
* `CleanAlwaysSaved` and `NothingEverLost`: `CleanIsSaved` and `NothingLost`, always,
  both from the one before.

All assume that paths, calls and `None` are told apart and that examples are
directories. `TextsAssumption` says what a text is: lines, each with its key and a
value made of `Words`, of which the form needs some (`WordsAssumption`); a table is
rows of words. It also says that a .gpk the program did not write quotes no number,
for `explode` copies the string `"01"` into truth_table.csv, where the next reading
makes it 1: such a project changes when it is saved, though nobody edited it. What
the program writes has been through `int()` already.
`OriginalsAssumption` says what `Originals` means: a .gpk, a folder and an example
begin as a state of their own project, and a design that is written is a text.
`EmptiedAssumption`, that a .gpk with nothing in it is no project, has no constant in
it: TLC decides it. The run `session` evaluates all of them.

Its first invariant, `OwnerInv`, is about who has what. `Lifetimes`: a project and a
scratch directory belong to a call that waits for git or has ended, so that a call
that begins meets nothing of its own, and only what was open, by a call that has ended, is removed.
`Arguments`: what a save was told, the project and the path, stays true while it
runs. `WatchIsOwn`: git was asked about the project that is open. The second, `SavedInv`,
is about when the two forms agree. `ReadsAreCurrent`: what a save has read of an
undisturbed project is still what is in its files. `SettledIsSynced`: while `dirty` is
down, or a save that has written is about to clear it, the .gpk is that of the working
copy. The step that matters is the one that writes the archive: what it writes was
read from the files as they still are, and a save to the same path on behalf of
another project would have made this one `amended`.

The third, `KeptInv`, is about what they hold, whether or not they agree. A project
whose directory nobody removes (`Alive`) is a state of one that was saved under its
name (`ProjectsKept`): its tables never change, and its design only to one its user
wrote (`FilesStand`), since a folder that has a design is not scaffolded again
(`FoldersKept`). A save that is not `torn` reads such a project, and its path has
been given all that the project may hold (`SavesKept`); its reads, which a user's
write may come between, mix designs but never tables (`ReadsKept`). So what it writes
is whole (`ReadsAreWhole`), and so is what is opened from it later (`ArchivesKept`,
`WritesKept`). `NothingLost` alone is not inductive: it says nothing of a project
that is made but not open yet, nor of one that is closed and that a save still reads.

The fourth, `TextsInv`, is about texts. The part that has nothing to do with sessions
is `TextsComeApart`: a project that can be loaded, put into a stream and cut out of it
again, is what it was or one of the two `Unrepresentable` texts. The stream is cut in
two ways, of its comments first (`ParseDocuments`) or as it stands (`SplitDocuments`),
by one recursive function: what it does to a stream with a chunk behind it is what it
did without, with one piece more (`PiecesChunk`), as long as nothing in the chunk cuts,
and a design that `_Parser` accepts holds nothing that does (`DesignLines`). So both
cuttings find the same documents in the same order (`StreamIsCut`, `StreamIsRead`),
one of each kind at most (`KindsFound`), although a design may hold `kind:` lines of
its own: the first one is the header's. What is left is a design that parses alone and
no longer behind the header (`TwiceCounted`). `TextsInv` then says that nothing but
texts reaches the files, the reads and the archives: a file removed in between is an
empty text, a read table is one that `int()` leaves alone, and what is exploded of such
a .gpk is made of its own lines (`ExplodeTypes`).

Every action is first reduced to one of thirteen kinds (`StepKinds`); TLC confirmed
that, and the four invariants, on the run before they were proved.

`Packer_proofs` proves `TypeCorrect` and the three properties of the run `packer`, for
any parts tables, netlists, overrides and prices:

* `CellsArePackedOnce`: `Spec => []EveryCellOnce`;
* `FreeCellsCostLeast`: `Spec => []FreeCellsAtLeastCost`;
* `OverridesAreMet`: `Spec => []OverridesMet`.

It assumes that a row holds a gate at least and costs a number, as `pack/packer.py`
needs to choose at all, that prices are not negative, that a netlist is finite, and that
an override is a list of names. The invariant is simple, since a build packs in one
step: its inputs stay, and its packages are `PackAll` of inputs that `Verdict` did not
refuse. The work is in what `PackAll` computes:

1. `StablePlaces` and `Ranks`: sorting renames positions and loses nothing.
2. The solver's table. `ColumnIsGood`, by induction over the number of slots: an entry
   that is filled is a purchase of exactly so many slots, and none of as many slots is
   cheaper. `SolveIsLeast`: the least total over the entries that cover the gates is the least
   over all purchases that do, also those with more slots than the table goes to: a
   cheaper purchase would have a package that could be left out.
3. Filling. `FilledPackages` and `GroupIsPacked`: cutting the sorted names in pieces
   of the sizes that were bought puts each gate in one package and leaves none empty,
   and costs what the solver said.
4. Putting together. `Packing` says of a list of packages what `EveryCellOnce` says of
   all. `GatheredPacked` and `KeyPacked` keep it when the lists of several keys, or the
   forced and the free ones, are appended and sorted; `AllPacked` is the whole. `PartCosts`:
   free cells cost within the whole what their own list costs.

The lemmas of `DataLemmas` are about no code: sums over a set, stable sorting,
flattening, and induction. The library states induction with an operator as a
parameter, which the installed provers cannot instantiate. `NatInduct`,
`NatStrongInduct`, `SetInduct` and `SeqInduct` state it with the set of values that
have the property instead, and are proved from the least element of a set of numbers.

Only model-checked: liveness (`EditorSettles`, `StaleMarkerClears`,
`SupersededProcessesEnd`, `BuildsEnd`), which TLAPS cannot prove under fairness;
the properties of
`AsyncSynthesis`, `Board` and `Insight`, which fold over netlists and tables: what
cone signatures and covers compute is checked against enumeration or a set of
constraints. The refinements of `DesignMachine` and `FlowMachine` are checked for the
designs of their configurations. `Rtl` reaches
`Expressions`, whose trees are evaluated by RECURSIVE operators, and is
outside the prover's reach for that reason.

## Not modelled

Modelled parts leave out: texts, envelopes' wording and progress lines; a watcher
that cannot be installed (the code goes on without one); closing the application;
a library row with no gates in a package and a negative price of a spare, both of
which the loader and the command line accept; the bound on the support of a cone, and the
1024 passes after which SCOAP gives up, which no netlist of the runs needs; macros and
the hand-built sby files; power figures and the lint of CPLD candidates.
z3, yosys, Icarus and sby are external: z3 returns any solution of least size, yosys
any numbering of an equivalent netlist, and the checkers are sound when they run.

The renderer's text edits, its selection and drawings, the application's small
services, and scripts, tests and data are not modelled; `PROJECT.json` gives the
reasons: their difficulty is in text or layout, or they are not part of the
running program. The largest files of the core that remain are of this kind: `cli.py`'s
arguments and envelopes, the licence and tool-chain scripts, and the text of the
emitted Verilog.

## Plan

Done: the application (`SpecDocument`, `RevisionedTask`, `Workbench`, `Session`), the
path to a netlist (`Expressions`, `Rtl`, `AsyncSynthesis`, `Verification`), the path
to a board (`Library`, `Netlist`, `Emit`, `Packer`, `Board`, `BuildOutputs`) and its
analyses (`Testability`, `Provenance`, `Insight`). Left, most important first:

1. Proofs about `Board` and `Insight` as far as their commands go: which files a
   command finds and what its answer is of, with the algorithms as they are.
2. An abstract project store that `SpecDocument` and `Session` both implement, so
   that what is shown of the text holds beside the two forms on disk.
3. `Strip`: run requests, stage states, the schematic's rebuild beside the packing
   view's.
4. Macros, and the Johnson code, in `Rtl`.
