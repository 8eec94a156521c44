---------------------------- MODULE Verification ----------------------------
(***************************************************************************)
(* `gatepack verify` in the build directory of a project, which it shares  *)
(* with `gatepack estimate` and with other runs of itself.                 *)
(*                                                                         *)
(* A run writes the behavioural Verilog and the cell models, lets yosys    *)
(* map the design, and asks every check it has a tool for.  Its mutation   *)
(* suite rewrites the cell models in place, asks equivalence and           *)
(* simulation again, and puts them back.  The verdict is computed from the *)
(* checks alone, so what it is worth depends on the files they read.       *)
(*                                                                         *)
(* A netlist is abstracted to the version of design.yaml it was made from, *)
(* no two versions are equivalent, and a fault in a cell model to which of *)
(* the two checks it shows up in.                                          *)
(***************************************************************************)
EXTENDS Naturals, Sequences, FiniteSets

CONSTANTS
  Absent,   \* a file that does not exist
  Suite,    \* the mutations, in order: a sequence over DOMAIN Targets
  MaxRuns,  \* bound: runs of verify
  MaxEdits  \* bound: edits of design.yaml

ASSUME AbsentAssumption == Absent \notin Nat
ASSUME BoundsAssumption == MaxRuns \in Nat /\ MaxEdits \in Nat

Version == 0 .. MaxEdits

Status == {"passed", "bounded pass", "failed", "not run", "not applicable"}
Verdict == {"failed", "not run", "inconclusive", "passed"}

\* The cells each mutation corrupts.
Targets ==
  [nand_to_and |-> {"NAND2"},
   flop_d_invert |-> {"DFF", "DFF_R", "DFF_SR", "DFF_S"},
   reset_polarity_flip |-> {"DFF_R", "DFF_SR"},
   reset_never_asserts |-> {"DFF_R"},
   reset_becomes_synchronous |-> {"DFF_R"},
   reset_value_flips |-> {"DFF_R"},
   set_never_asserts |-> {"DFF_SR"},
   set_becomes_synchronous |-> {"DFF_SR"},
   set_value_flips |-> {"DFF_SR"}]

Models == {"good"} \cup DOMAIN Targets

\* MUTATIONS lists each of them once; neither is relied upon.
ASSUME SuiteAssumption == Suite \in Seq(DOMAIN Targets)

\* Where the checks can see a fault: nowhere, in the state only, at an output.
Sight == {{}, {"equivalence"}, {"simulation"}, {"equivalence", "simulation"}}

VARIABLES
  timing,     \* the timing model of the design
  tools,      \* the tools that are installed (sby is looked for when needed)
  overCap,    \* the design has more vectors than the exhaustive cap
  uses,       \* the cells of its netlists
  sight,      \* sight[m]: the checks that can tell the mutation m
  design,     \* the version of design.yaml
  generated,  \* generated.v
  mapped,     \* mapped.v
  cells,      \* cells_sim.v
  run,        \* the run of verify
  runs,       \* how many there were
  estimate,   \* a run of estimate
  shared,     \* history: an estimate was at work beside the run
  flaky       \* history: a tool of the run crashed or was timed out

givens == <<timing, tools, overCap, uses, sight>>
files == <<generated, mapped, cells>>
history == <<shared, flaky>>
vars == <<givens, design, files, run, runs, estimate, history>>

NewRun == [at |-> "new", src |-> Absent, only |-> FALSE, checks |-> <<>>,
           netlist |-> Absent, original |-> "good", m |-> 0, equivalence |-> "not run",
           outcomes |-> <<>>, vacuous |-> FALSE, overall |-> "none"]

Planted == {"planted for equivalence", "planted for simulation"}
Over == {"new", "done", "refused", "killed"}
Alive == run.at \notin Over
EstimateAlive == estimate.at = "mapping"
Alone == ~shared

Init ==
  /\ timing \in {"synchronous", "asynchronous"}
  /\ tools \in SUBSET {"yosys", "iverilog"}
  /\ overCap \in BOOLEAN
  /\ uses \in {{}, {"NAND2"}, {"DFF_R"}, {"NAND2", "DFF_R"}}
  /\ sight \in [{Suite[i] : i \in DOMAIN Suite} -> Sight]
  /\ timing = "asynchronous" => uses = {} /\ ~overCap
  /\ \A m \in DOMAIN sight : Targets[m] \cap uses = {} => sight[m] = {}
  /\ design = 0
  /\ generated = Absent /\ mapped = Absent /\ cells = "good"
  /\ run = NewRun /\ runs = 0
  /\ estimate = [at |-> "new", src |-> Absent]
  /\ shared = FALSE /\ flaky = FALSE

-----------------------------------------------------------------------------
(* What the tools say *)

\* Variant: both sides read the mapped netlist.
ProvesItself ==
  cells # "good" => "equivalence" \notin sight[cells]

\* yosys: golden side generated.v, gate side mapped.v with cells_sim.v.
Proves ==
  mapped = generated /\ (cells # "good" => "equivalence" \notin sight[cells])

\* _equivalence; a run that crashes or times out returns non-zero.
EquivalenceStatus(crashes) ==
  CASE "yosys" \notin tools -> "not run"
    [] "yosys" \in tools /\ (crashes \/ mapped = Absent \/ ~Proves) -> "failed"
    [] OTHER -> "passed"

\* Icarus: mapped.v with cells_sim.v against the design that was compiled.
Simulates ==
  mapped = run.src /\ (cells # "good" => "simulation" \notin sight[cells])

\* iverilog that does not compile is a failure, a vvp that says nothing is not.
SimulationOutcome(crashes) ==
  CASE mapped = Absent -> {"failed"}
    [] mapped # Absent /\ crashes -> {"failed", "not run"}
    [] OTHER -> {IF Simulates THEN "passed" ELSE "failed"}

\* _simulation; decide comes first.
SimulationStatuses(crashes) ==
  CASE overCap -> {"not applicable"}
    [] ~overCap /\ "iverilog" \notin tools -> {"not run"}
    [] OTHER -> SimulationOutcome(crashes)

\* used_cells of a mapped.v that was there; with none every mutation applies.
Applicable(m) ==
  run.netlist # Absent => Targets[m] \cap uses # {}

\* The §11 property of a design: what there is to find out about it.  A cover is
\* a situation the property is about, one of them cannot occur if it is vacuous.
Covers == {1, 2}
Truths ==
  [kind : {"invariant"}, assertion : {"proved", "bounded", "violated"},
   covers : {Covers}, reached : SUBSET Covers]
  \cup [kind : {"invariant"}, assertion : {"proved"}, covers : {{}}, reached : {{}}]
  \cup [kind : {"liveness"}, assertion : {"none"}, covers : {{1}}, reached : SUBSET {1}]

\* parse_sby: a return code that is neither 0 nor 2 fails all that the task asks.
Erred(task, errors) == task \in errors

AssertResult(truth, errors) == IF Erred("prove", errors) THEN "violated" ELSE truth.assertion
CoverReached(truth, errors, c) == ~Erred("cover", errors) /\ c \in truth.reached

VacuityGuard(truth, errors) == \A c \in truth.covers : CoverReached(truth, errors, c)

\* _combine_property
PropertyStatus(truth, errors) ==
  LET assertion == AssertResult(truth, errors)
  IN CASE truth.kind = "liveness" ->
            IF CoverReached(truth, errors, 1) THEN "bounded pass" ELSE "failed"
       [] truth.kind = "invariant" /\ assertion = "violated" -> "failed"
       [] truth.kind = "invariant" /\ assertion = "bounded" -> "bounded pass"
       [] truth.kind = "invariant" /\ assertion = "proved" /\ truth.covers = {} -> "not run"
       [] OTHER -> IF VacuityGuard(truth, errors) THEN "passed" ELSE "failed"

-----------------------------------------------------------------------------
(* The verdict *)

Check(name, kind, status) == [name |-> name, kind |-> kind, status |-> status]

IsDetected(o) == o.equivalence = "failed" /\ o.simulation = "failed"
IsEquivalenceOnly(o) == o.equivalence = "failed" /\ o.simulation = "passed"

AppliedOutcomes(outcomes) == {o \in {outcomes[i] : i \in DOMAIN outcomes} : o.applicable}

\* Variant: the suite passes when nothing went undetected.
AnyOutcomes(outcomes) == TRUE

SimulationWasExercised(outcomes) ==
  \/ AppliedOutcomes(outcomes) = {}
  \/ \E o \in AppliedOutcomes(outcomes) : IsDetected(o)

Undetected(outcomes) ==
  {o \in AppliedOutcomes(outcomes) : ~IsDetected(o) /\ ~IsEquivalenceOnly(o)}

MutationStatus(outcomes) ==
  IF Undetected(outcomes) = {} /\ SimulationWasExercised(outcomes) THEN "passed" ELSE "failed"

StatusIn(checks, statuses, kinds) ==
  \E i \in DOMAIN checks : checks[i].status \in statuses /\ checks[i].kind \in kinds

AnyKind == {"equivalence", "simulation", "mutation", "property", "hazard"}

HasBehaviouralEvidence(checks) ==
  StatusIn(checks, {"passed", "bounded pass"}, {"equivalence", "simulation", "property"})

\* _manifest.  What a failed mutation outcome adds is in the mutation check.
Overall(checks) ==
  CASE StatusIn(checks, {"failed"}, AnyKind) -> "failed"
    [] ~StatusIn(checks, {"failed"}, AnyKind) /\ StatusIn(checks, {"not run"}, AnyKind) -> "not run"
    [] ~StatusIn(checks, {"failed", "not run"}, AnyKind) /\ ~HasBehaviouralEvidence(checks) -> "inconclusive"
    [] OTHER -> "passed"

-----------------------------------------------------------------------------
(* A run *)

Begins ==
  /\ ~Alive
  /\ runs < MaxRuns
  /\ runs' = runs + 1
  /\ shared' = EstimateAlive
  /\ flaky' = FALSE
  /\ UNCHANGED <<givens, design, mapped, estimate>>

\* run_verify of a synchronous design: write generated.v and the cell models.
Start ==
  /\ Begins
  /\ timing = "synchronous"
  /\ generated' = design
  /\ cells' = "good"
  /\ run' = [NewRun EXCEPT !.at = "synthesis", !.src = design]

\* --properties-only writes no models and runs no other check.
StartPropertiesOnly ==
  /\ Begins
  /\ timing = "synchronous"
  /\ generated' = design
  /\ run' = [NewRun EXCEPT !.at = "properties", !.src = design, !.only = TRUE]
  /\ UNCHANGED cells

\* The design does not compile, the library does not load; an asynchronous
\* design with --properties-only.
Refuse ==
  /\ Begins
  /\ run' = [NewRun EXCEPT !.at = "refused"]
  /\ UNCHANGED <<generated, cells>>

\* What stages 3 to 5 leave of an asynchronous design.
HazardChecks(functional, ternary, glitch) ==
  <<Check("equivalence", "equivalence", "not applicable"),
    Check("functional", "simulation", functional),
    Check("ternary", "hazard", ternary),
    Check("glitch", "hazard", glitch)>>

\* _run_async_verify up to the end of stage 5.
StartAsync ==
  /\ Begins
  /\ timing = "asynchronous"
  /\ \E functional \in {"passed", "failed", "not applicable"},
        ternary \in {"passed", "failed"}, glitch \in {"passed", "failed", "not run"} :
       run' = [NewRun EXCEPT !.at = "artefacts", !.src = design,
                   !.checks = HazardChecks(functional, ternary, glitch)]
  /\ UNCHANGED <<generated, cells>>

\* hazard_passed: every check of stage 5.
HazardPassed(checks) == \A i \in 2 .. Len(checks) : checks[i].status = "passed"

WriteArtefacts ==
  /\ run.at = "artefacts"
  /\ mapped' = IF HazardPassed(run.checks) THEN run.src ELSE mapped
  /\ run' = [run EXCEPT !.at = "manifest"]
  /\ UNCHANGED <<givens, design, generated, cells, runs, estimate, history>>

\* The return code of the mapping run is not looked at.
Synthesize ==
  /\ run.at = "synthesis"
  /\ \E crashes \in BOOLEAN :
       /\ mapped' = IF "yosys" \in tools /\ ~crashes THEN generated ELSE mapped
       /\ flaky' = (flaky \/ crashes)
  /\ run' = [run EXCEPT !.at = "equivalence"]
  /\ UNCHANGED <<givens, design, generated, cells, runs, estimate, shared>>

\* The run records a check and goes on to the step `at`.
Records(check, at) ==
  run' = [run EXCEPT !.at = at, !.checks = Append(@, check)]

CheckEquivalence ==
  /\ run.at = "equivalence"
  /\ \E crashes \in BOOLEAN :
       /\ Records(Check("equivalence", "equivalence", EquivalenceStatus(crashes)), "simulation")
       /\ flaky' = (flaky \/ crashes)
  /\ UNCHANGED <<givens, design, files, runs, estimate, shared>>

CheckSimulation ==
  /\ run.at = "simulation"
  /\ \E crashes \in BOOLEAN : \E status \in SimulationStatuses(crashes) :
       /\ Records(Check("exhaustive simulation", "simulation", status), "suite")
       /\ flaky' = (flaky \/ crashes)
  /\ UNCHANGED <<givens, design, files, runs, estimate, shared>>

SkipSuite ==
  /\ run.at = "suite"
  /\ tools # {"yosys", "iverilog"}
  /\ Records(Check("mutation", "mutation", "not run"), "infra")
  /\ UNCHANGED <<givens, design, files, runs, estimate, history>>

\* _mutation reads mapped.v if it is there.
StartSuite ==
  /\ run.at = "suite"
  /\ tools = {"yosys", "iverilog"}
  /\ run' = [run EXCEPT !.at = "mutating", !.netlist = mapped, !.m = 1]
  /\ UNCHANGED <<givens, design, files, runs, estimate, history>>

Mutation == Suite[run.m]
Mutating == run.at = "mutating" /\ run.m \in DOMAIN Suite

SkipMutation ==
  /\ Mutating
  /\ ~Applicable(Mutation)
  /\ run' = [run EXCEPT !.m = @ + 1, !.outcomes = Append(@, [applicable |-> FALSE,
                                 equivalence |-> "not run", simulation |-> "not run"])]
  /\ UNCHANGED <<givens, design, files, runs, estimate, history>>

\* original = sim_path.read_text(); sim_path.write_text(mutated_sim)
Plants(at) ==
  /\ cells' = Mutation
  /\ run' = [run EXCEPT !.at = at, !.original = cells]
  /\ UNCHANGED <<givens, design, generated, mapped, runs, estimate, history>>

PlantForEquivalence ==
  /\ Mutating
  /\ Applicable(Mutation)
  /\ Plants("planted for equivalence")

\* Variant: a run that fails returns before the model is put back.
RestoresOnSuccess(status) == IF status = "passed" THEN run.original ELSE cells

\* finally: sim_path.write_text(original)
Restored(status) == run.original

MutatedEquivalence ==
  /\ run.at = "planted for equivalence"
  /\ \E crashes \in BOOLEAN :
       /\ run' = [run EXCEPT !.at = "equivalence asked", !.original = "good",
                                              !.equivalence = EquivalenceStatus(crashes)]
       /\ cells' = Restored(EquivalenceStatus(crashes))
       /\ flaky' = (flaky \/ crashes)
  /\ UNCHANGED <<givens, design, generated, mapped, runs, estimate, shared>>

PlantForSimulation ==
  /\ run.at = "equivalence asked"
  /\ Plants("planted for simulation")

\* run_simulation builds the whole testbench: here the cap is not asked.
MutatedSimulation ==
  /\ run.at = "planted for simulation"
  /\ \E crashes \in BOOLEAN : \E status \in SimulationOutcome(crashes) :
       /\ run' = [run EXCEPT !.at = "mutating", !.m = @ + 1, !.original = "good", !.equivalence = "not run",
                      !.outcomes = Append(@, [applicable |-> TRUE,
                        equivalence |-> run.equivalence, simulation |-> status])]
       /\ cells' = Restored(status)
       /\ flaky' = (flaky \/ crashes)
  /\ UNCHANGED <<givens, design, generated, mapped, runs, estimate, shared>>

EndSuite ==
  /\ run.at = "mutating"
  /\ run.m \notin DOMAIN Suite
  /\ run' = [run EXCEPT !.at = "infra", !.netlist = Absent, !.m = 0, !.outcomes = <<>>,
       !.checks = Append(@, Check("mutation", "mutation", MutationStatus(run.outcomes)))]
  /\ UNCHANGED <<givens, design, files, runs, estimate, history>>

\* _infra_checks: every flop has a reset; the supervisor is up to it.
CheckInfrastructure ==
  /\ run.at = "infra"
  /\ \E status \in {"passed", "failed"} :
       Records(Check("supervisor parameters", "property", status), "properties")
  /\ UNCHANGED <<givens, design, files, runs, estimate, history>>

\* run_properties of a design without properties
SkipProperties ==
  /\ run.at = "properties"
  /\ run' = [run EXCEPT !.at = "manifest"]
  /\ UNCHANGED <<givens, design, files, runs, estimate, history>>

SbyMissing ==
  /\ run.at = "properties"
  /\ Records(Check("property", "property", "not run"), "manifest")
  /\ UNCHANGED <<givens, design, files, runs, estimate, history>>

RunProperties ==
  /\ run.at = "properties"
  /\ \E truth \in Truths, errors \in SUBSET {"prove", "cover"} :
       /\ run' = [run EXCEPT !.at = "manifest", !.vacuous = ~(truth.covers # {} /\ truth.covers \subseteq truth.reached),
                      !.checks = Append(@, Check("property", "property",
                                                 PropertyStatus(truth, errors)))]
       /\ flaky' = (flaky \/ errors # {})
  /\ UNCHANGED <<givens, design, files, runs, estimate, shared>>

WriteManifest ==
  /\ run.at = "manifest"
  /\ run' = [NewRun EXCEPT !.at = "done", !.overall = Overall(run.checks)]
  /\ UNCHANGED <<givens, design, files, runs, estimate, history>>

-----------------------------------------------------------------------------
(* The others in the directory *)

\* cancel: SIGKILL, no finally runs.
Kill ==
  /\ Alive
  /\ run' = [NewRun EXCEPT !.at = "killed"]
  /\ UNCHANGED <<givens, design, files, runs, estimate, history>>

Edit ==
  /\ design < MaxEdits
  /\ design' = design + 1
  /\ UNCHANGED <<givens, files, run, runs, estimate, history>>

\* run_estimate writes the same files as run_verify, and maps the design.
EstimateStarts ==
  /\ estimate.at = "new"
  /\ timing = "synchronous"
  /\ estimate' = [at |-> "mapping", src |-> design]
  /\ generated' = design
  /\ cells' = "good"
  /\ shared' = (shared \/ Alive)
  /\ UNCHANGED <<givens, design, mapped, run, runs, flaky>>

EstimateMaps ==
  /\ EstimateAlive
  /\ estimate' = [estimate EXCEPT !.at = "done"]
  /\ mapped' \in {mapped} \cup (IF "yosys" \in tools THEN {generated} ELSE {})
  /\ UNCHANGED <<givens, design, generated, cells, run, runs, history>>

-----------------------------------------------------------------------------
RunStep ==
  \/ Start \/ StartPropertiesOnly \/ Refuse \/ StartAsync
  \/ WriteArtefacts \/ Synthesize \/ CheckEquivalence \/ CheckSimulation
  \/ SkipSuite \/ StartSuite \/ SkipMutation
  \/ PlantForEquivalence \/ MutatedEquivalence
  \/ PlantForSimulation \/ MutatedSimulation \/ EndSuite
  \/ CheckInfrastructure \/ SkipProperties \/ SbyMissing \/ RunProperties
  \/ WriteManifest \/ Kill

Next ==
  \/ RunStep
  \/ Edit \/ EstimateStarts \/ EstimateMaps

Spec == Init /\ [][Next]_vars

-----------------------------------------------------------------------------
(* Properties *)

CheckName ==
  {"equivalence", "exhaustive simulation", "functional", "ternary", "glitch", "mutation",
   "supervisor parameters", "property"}
CheckRecord == [name : CheckName, kind : AnyKind, status : Status]
Outcome == [applicable : BOOLEAN, equivalence : Status, simulation : Status]
Stage ==
  Over \cup Planted \cup
  {"synthesis", "equivalence", "simulation", "suite", "mutating", "equivalence asked",
   "infra", "properties", "artefacts", "manifest"}
Run ==
  [at : Stage, src : Version \cup {Absent}, only : BOOLEAN, checks : Seq(CheckRecord),
   netlist : Version \cup {Absent}, original : Models, m : Nat, equivalence : Status,
   outcomes : Seq(Outcome), vacuous : BOOLEAN, overall : Verdict \cup {"none"}]

\* Types of the state.
TypeOK ==
  /\ timing \in {"synchronous", "asynchronous"}
  /\ tools \subseteq {"yosys", "iverilog"} /\ overCap \in BOOLEAN
  /\ sight \in [{Suite[i] : i \in DOMAIN Suite} -> Sight]
  /\ design \in Version
  /\ generated \in Version \cup {Absent} /\ mapped \in Version \cup {Absent}
  /\ cells \in Models
  /\ run \in Run
  /\ estimate \in [at : {"new", "mapping", "done"}, src : Version \cup {Absent}]
  /\ runs \in 0 .. MaxRuns /\ shared \in BOOLEAN /\ flaky \in BOOLEAN

Reports == run.at = "manifest" /\ run'.at = "done"
ReportsPass == Reports /\ run'.overall = "passed"

\* A run that had the directory to itself and says "passed" leaves the netlist of
\* the design it compiled behind, whatever an earlier run or a killed one left
\* there and whether or not its own mapping run succeeded: the netlist it read
\* was checked against this design (run_verify, _manifest).
PassedIsEarned ==
  [][ReportsPass /\ Alone /\ ~run.only => mapped = run.src]_vars

\* If no tool crashed meanwhile, "passed" also means that equivalence tells every
\* fault of the suite that the netlist could have, and simulation at least one:
\* the checks behind it are not vacuous (run_mutation_suite).
PassedIsSensitive ==
  [][ReportsPass /\ Alone /\ ~flaky /\ ~run.only /\ timing = "synchronous" =>
         LET relevant == {m \in DOMAIN sight : Targets[m] \cap uses # {}}
         IN /\ \A m \in relevant : "equivalence" \in sight[m]
            /\ relevant # {} => \E m \in relevant : "simulation" \in sight[m]]_vars

\* A run that is alone reads the mutated cell models only while it asks about the
\* mutation, and leaves the generated ones behind, whichever way its tools ended
\* (run_equivalence and run_simulation of _mutation).
ModelRestored ==
  Alone /\ Alive /\ timing = "synchronous" /\ ~run.only =>
    cells = IF run.at \in Planted THEN Mutation ELSE "good"

=============================================================================
