------------------------- MODULE Verification_proofs -------------------------
(* What a run of verify that has its directory to itself is worth, for any   *)
(* suite of mutations, any number of runs, kills and edits, and whatever its *)
(* tools do.                                                                 *)
EXTENDS Verification, TLAPS

(* The inductive invariant *)

\* A run that reads what it wrote: synchronous, and nobody beside it.
Undisturbed == Alone /\ Alive /\ timing = "synchronous" /\ ~run.only

\* The steps a run takes, in order: which it has behind it.
Unmapped == {"synthesis", "equivalence"}
BeforeSuite == Unmapped \cup {"simulation", "suite"}
InSuite == {"mutating", "equivalence asked"} \cup Planted
AfterSuite == {"infra", "properties", "manifest"}

Said(i, status) == i \in DOMAIN run.checks /\ run.checks[i].status = status
Proved == Said(1, "passed")

\* A run that is alone is beside no estimate, and stays so until one starts.
NobodyBeside == Alone /\ Alive => ~EstimateAlive

\* What it compiled is what equivalence compares with.
GeneratedIsOwn == Alone /\ Alive /\ timing = "synchronous" => generated = run.src /\ run.src \in Version

\* While a mutation is planted, the run remembers the model as it was written.
OriginalIsGood == Undisturbed /\ run.at \in Planted => run.original = "good"

\* Equivalence passes only on the netlist of this design, which then stays.
ProvedIsMapped ==
  Undisturbed /\ run.at \notin Unmapped /\ Proved => mapped = run.src

\* The checks so far, by the step the run is at.
ChecksAreInOrder ==
  /\ Undisturbed /\ run.at \in Unmapped => run.checks = <<>>
  /\ Undisturbed /\ run.at \notin Unmapped =>
       /\ 1 \in DOMAIN run.checks
       /\ run.checks[1].kind = "equivalence"
       /\ run.checks[1].status \in {"passed", "failed", "not run"}
  /\ Undisturbed /\ run.at = "simulation" => Len(run.checks) = 1
  /\ Undisturbed /\ run.at \in {"suite"} \cup InSuite => Len(run.checks) = 2
  /\ Undisturbed /\ run.at \in AfterSuite =>
       /\ 3 \in DOMAIN run.checks
       /\ run.checks[3].kind = "mutation"
       /\ run.checks[3].status \in {"passed", "failed", "not run"}

\* Only an asynchronous design has artefacts to write.
ArtefactsAreAsync == run.at = "artefacts" => timing = "asynchronous"

\* An asynchronous run has its four checks from the start, and its netlist on
\* disk if the three of stage 5 passed.
AsyncChecks ==
  Alive /\ timing = "asynchronous" =>
    /\ run.at \in {"artefacts", "manifest"}
    /\ Len(run.checks) = 4
    /\ run.checks[1].status = "not applicable"
    /\ run.checks[2].kind = "simulation"
    /\ \A i \in {3, 4} : run.checks[i].kind = "hazard" /\ run.checks[i].status # "not applicable"
    /\ \A i \in 1 .. 4 : run.checks[i].status # "bounded pass"
    /\ Alone /\ run.at = "manifest" /\ HazardPassed(run.checks) => mapped = run.src

\* The suite has the tools it needs, and is at its m-th mutation.
SuiteIsAt ==
  /\ run.at \in BeforeSuite => run.outcomes = <<>>
  /\ run.at \in InSuite =>
       /\ tools = {"yosys", "iverilog"}
       /\ run.m \in 1 .. Len(Suite) + 1
       /\ Len(run.outcomes) = run.m - 1
       /\ run.at # "mutating" => run.m \in DOMAIN Suite /\ Applicable(Mutation)

\* A check that fails on a mutated model of a netlist that is right tells the
\* mutation.
Trustworthy == Undisturbed /\ Proved /\ ~flaky

OutcomeIsTrue(i) ==
  LET o == run.outcomes[i]
      m == Suite[i]
  IN /\ o.applicable <=> Targets[m] \cap uses # {}
     /\ o.applicable /\ o.equivalence = "failed" => "equivalence" \in sight[m]
     /\ o.applicable /\ o.simulation = "failed" => "simulation" \in sight[m]

OutcomesAreTrue ==
  Trustworthy /\ run.at \in InSuite =>
    /\ run.netlist # Absent
    /\ \A i \in DOMAIN run.outcomes : OutcomeIsTrue(i)
    /\ run.at \in {"equivalence asked", "planted for simulation"} /\ run.equivalence = "failed" =>
         "equivalence" \in sight[Mutation]

\* The checks tell the mutations that the netlist could have.
Relevant == {m \in DOMAIN sight : Targets[m] \cap uses # {}}
Sensitive ==
  /\ \A m \in Relevant : "equivalence" \in sight[m]
  /\ Relevant # {} => \E m \in Relevant : "simulation" \in sight[m]

SuiteIsTrue ==
  Trustworthy /\ run.at \in AfterSuite /\ Said(3, "passed") => Sensitive

IInv ==
  /\ TypeOK
  /\ NobodyBeside /\ GeneratedIsOwn
  /\ ModelRestored /\ OriginalIsGood
  /\ ChecksAreInOrder /\ ArtefactsAreAsync /\ AsyncChecks
  /\ ProvedIsMapped
  /\ SuiteIsAt /\ OutcomesAreTrue /\ SuiteIsTrue

-----------------------------------------------------------------------------
(* Types *)

\* What a check adds to the checks of a run, and a mutation to its outcomes.
LEMMA AppendedIsTyped ==
  /\ \A checks \in Seq(CheckRecord), c \in CheckRecord : Append(checks, c) \in Seq(CheckRecord)
  /\ \A outcomes \in Seq(Outcome), o \in Outcome : Append(outcomes, o) \in Seq(Outcome)
  OBVIOUS

\* Four checks in a tuple are a sequence of checks.
LEMMA FourAreASequence ==
  ASSUME NEW S, NEW a \in S, NEW b \in S, NEW c \in S, NEW d \in S
  PROVE  <<a, b, c, d>> \in Seq(S)
  OBVIOUS

\* The statuses the tools' answers are turned into.
LEMMA StatusIsTyped ==
  /\ \A crashes : EquivalenceStatus(crashes) \in {"passed", "failed", "not run"}
  /\ \A crashes : SimulationOutcome(crashes) \subseteq {"passed", "failed", "not run"}
  /\ \A crashes : SimulationStatuses(crashes) \subseteq
                    {"passed", "failed", "not run", "not applicable"}
  /\ \A outcomes : MutationStatus(outcomes) \in {"passed", "failed"}
  /\ \A truth, errors : truth \in Truths => PropertyStatus(truth, errors) \in {"passed", "bounded pass", "failed", "not run"}
<1>1. \A crashes : EquivalenceStatus(crashes) \in {"passed", "failed", "not run"}
  BY DEF EquivalenceStatus
<1>2. \A crashes : SimulationOutcome(crashes) \subseteq {"passed", "failed", "not run"}
  BY DEF SimulationOutcome
<1>3. \A crashes : SimulationStatuses(crashes) \subseteq
                    {"passed", "failed", "not run", "not applicable"}
  BY <1>2 DEF SimulationStatuses
<1>4. \A outcomes : MutationStatus(outcomes) \in {"passed", "failed"}
  BY DEF MutationStatus
<1>5. \A truth, errors : truth \in Truths => PropertyStatus(truth, errors) \in {"passed", "bounded pass", "failed", "not run"}
  BY DEF PropertyStatus
<1> QED
  BY <1>1, <1>2, <1>3, <1>4, <1>5

\* The record of a run that has not begun.
LEMMA NewRunIsTyped == NewRun \in Run
  BY DEF NewRun, Run, Stage, Over, Models, Status

\* What a sequence is, with the provers' own words for it.
LEMMA SequenceIs ==
  ASSUME NEW S, NEW s \in Seq(S)
  PROVE  DOMAIN s = 1 .. Len(s) /\ Len(s) \in Nat
  OBVIOUS

\* The suite of mutations has a length and positions.
LEMMA SuiteIsASequence == DOMAIN Suite = 1 .. Len(Suite) /\ Len(Suite) \in Nat
  BY SuiteAssumption, SequenceIs

\* A mutation of the suite has targets, and is a model the cells may have.
LEMMA MutationIsTyped ==
  \A i \in DOMAIN Suite : Suite[i] \in DOMAIN Targets /\ Suite[i] \in Models
  BY SuiteAssumption DEF Models

\* The fields of a check that is made.
LEMMA CheckFields ==
  \A name, kind, status :
    Check(name, kind, status).kind = kind /\ Check(name, kind, status).status = status
  BY DEF Check

\* A check is a record of a known name and kind, and any status.
LEMMA CheckIsTyped ==
  \A name \in CheckName, kind \in AnyKind, status \in Status :
    Check(name, kind, status) \in CheckRecord
  BY DEF Check, CheckRecord

\* A step of a run leaves a record of a run.
LEMMA RunStepTyped ==
  ASSUME TypeOK, RunStep
  PROVE  run' \in Run
<1>1. /\ run \in Run /\ design \in Version /\ cells \in Models
      /\ mapped \in Version \cup {Absent}
  BY DEF TypeOK
<1>2. \A c \in CheckRecord : Append(run.checks, c) \in Seq(CheckRecord)
  BY <1>1, AppendedIsTyped DEF Run
<1>3. \A o \in Outcome : Append(run.outcomes, o) \in Seq(Outcome)
  BY <1>1, AppendedIsTyped DEF Run
<1>4. ASSUME NEW at \in Stage, NEW check \in CheckRecord, Records(check, at)
      PROVE  run' \in Run
  BY <1>1, <1>2, <1>4 DEF Records, Run
<1>5. CASE Start \/ StartPropertiesOnly \/ Refuse
  <2>1. CASE Start
    BY <1>1, <2>1, NewRunIsTyped DEF Start, Run, Stage
  <2>2. CASE StartPropertiesOnly
    BY <1>1, <2>2, NewRunIsTyped DEF StartPropertiesOnly, Run, Stage
  <2>3. CASE Refuse
    BY <2>3, NewRunIsTyped DEF Refuse, Run, Stage, Over
  <2> QED
    BY <1>5, <2>1, <2>2, <2>3
<1>6. CASE StartAsync
  <2>1. PICK functional \in {"passed", "failed", "not applicable"},
             ternary \in {"passed", "failed"}, glitch \in {"passed", "failed", "not run"} :
       run' = [NewRun EXCEPT !.at = "artefacts", !.src = design,
                             !.checks = HazardChecks(functional, ternary, glitch)]
    BY <1>6 DEF StartAsync
  <2>2. HazardChecks(functional, ternary, glitch) \in Seq(CheckRecord)
    <3>1. /\ Check("equivalence", "equivalence", "not applicable") \in CheckRecord
          /\ Check("functional", "simulation", functional) \in CheckRecord
          /\ Check("ternary", "hazard", ternary) \in CheckRecord
          /\ Check("glitch", "hazard", glitch) \in CheckRecord
      BY CheckIsTyped DEF CheckName, AnyKind, Status
    <3> QED
      BY <3>1, FourAreASequence DEF HazardChecks
  <2> QED
    BY <1>1, <2>1, <2>2, NewRunIsTyped DEF Run, Stage
<1>7. CASE WriteArtefacts \/ Synthesize \/ SkipProperties
  BY <1>1, <1>7 DEF WriteArtefacts, Synthesize, SkipProperties, Run, Stage
<1>8. CASE CheckEquivalence
  <2>1. PICK crashes \in BOOLEAN :
          Records(Check("equivalence", "equivalence", EquivalenceStatus(crashes)), "simulation")
    BY <1>8 DEF CheckEquivalence
  <2> QED
    BY <1>4, <2>1, StatusIsTyped, CheckIsTyped DEF CheckName, Stage, Status, AnyKind
<1>9. CASE CheckSimulation
  <2>1. PICK crashes \in BOOLEAN : \E status \in SimulationStatuses(crashes) :
          Records(Check("exhaustive simulation", "simulation", status), "suite")
    BY <1>9 DEF CheckSimulation
  <2> PICK status \in SimulationStatuses(crashes) :
          Records(Check("exhaustive simulation", "simulation", status), "suite")
    BY <2>1
  <2>2. status \in Status
    BY StatusIsTyped DEF Status
  <2> QED
    BY <1>4, <2>2, CheckIsTyped DEF CheckName, Stage, AnyKind
<1>10. CASE SkipSuite \/ CheckInfrastructure \/ SbyMissing
  <2>1. \A status \in Status :
          /\ Check("mutation", "mutation", status) \in CheckRecord
          /\ Check("supervisor parameters", "property", status) \in CheckRecord
          /\ Check("property", "property", status) \in CheckRecord
    BY CheckIsTyped DEF CheckName, AnyKind
  <2>2. PICK status \in Status :
          \/ Records(Check("mutation", "mutation", status), "infra")
          \/ Records(Check("supervisor parameters", "property", status), "properties")
          \/ Records(Check("property", "property", status), "manifest")
    BY <1>10 DEF SkipSuite, CheckInfrastructure, SbyMissing, Status
  <2> QED
    BY <1>4, <2>1, <2>2 DEF Stage
<1>11. CASE StartSuite
  BY <1>1, <1>11 DEF StartSuite, Run, Stage
<1>12. CASE SkipMutation
  <2>1. [applicable |-> FALSE, equivalence |-> "not run", simulation |-> "not run"] \in Outcome
    BY DEF Outcome, Status
  <2>2. Append(run.outcomes,
               [applicable |-> FALSE, equivalence |-> "not run", simulation |-> "not run"])
          \in Seq(Outcome)
    BY <1>3, <2>1
  <2>3. \A os \in Seq(Outcome), m \in Nat : [run EXCEPT !.m = m, !.outcomes = os] \in Run
    BY <1>1 DEF Run
  <2>4. run.m + 1 \in Nat
    BY <1>1 DEF Run
  <2> QED
    BY <1>12, <2>2, <2>3, <2>4 DEF SkipMutation
<1>13. CASE PlantForEquivalence \/ PlantForSimulation
  BY <1>1, <1>13 DEF PlantForEquivalence, PlantForSimulation, Plants, Run, Stage, Planted
<1>14. CASE MutatedEquivalence
  <2>1. PICK crashes \in BOOLEAN :
          run' = [run EXCEPT !.at = "equivalence asked", !.original = "good",
                             !.equivalence = EquivalenceStatus(crashes)]
    BY <1>14 DEF MutatedEquivalence
  <2> QED
    BY <1>1, <2>1, StatusIsTyped DEF Run, Stage, Status, Models
<1>15. CASE MutatedSimulation
  <2> PICK crashes \in BOOLEAN : \E status \in SimulationOutcome(crashes) :
          run' = [run EXCEPT !.at = "mutating", !.m = @ + 1, !.original = "good", !.equivalence = "not run",
                      !.outcomes = Append(@, [applicable |-> TRUE,
                        equivalence |-> run.equivalence, simulation |-> status])]
    BY <1>15 DEF MutatedSimulation
  <2>1. PICK status \in SimulationOutcome(crashes) :
          run' = [run EXCEPT !.at = "mutating", !.m = @ + 1, !.original = "good", !.equivalence = "not run",
                      !.outcomes = Append(@, [applicable |-> TRUE,
                        equivalence |-> run.equivalence, simulation |-> status])]
    OBVIOUS
  <2>2. [applicable |-> TRUE, equivalence |-> run.equivalence, simulation |-> status] \in Outcome
    BY <1>1, StatusIsTyped DEF Outcome, Status, Run
  <2>3. Append(run.outcomes, [applicable |-> TRUE, equivalence |-> run.equivalence,
                              simulation |-> status]) \in Seq(Outcome)
    BY <1>3, <2>2
  <2>4. \A os \in Seq(Outcome), m \in Nat :
          [run EXCEPT !.at = "mutating", !.m = m, !.original = "good",
                      !.equivalence = "not run", !.outcomes = os] \in Run
    BY <1>1 DEF Run, Stage, Status, Models
  <2>5. run.m + 1 \in Nat
    BY <1>1 DEF Run
  <2> QED
    BY <2>1, <2>3, <2>4, <2>5
<1>16. CASE EndSuite
  <2>1. Check("mutation", "mutation", MutationStatus(run.outcomes)) \in CheckRecord
    BY StatusIsTyped, CheckIsTyped DEF CheckName, AnyKind, Status
  <2>2. Append(run.checks, Check("mutation", "mutation", MutationStatus(run.outcomes)))
          \in Seq(CheckRecord)
    BY <1>2, <2>1
  <2>3. \A cs \in Seq(CheckRecord) :
          [run EXCEPT !.at = "infra", !.netlist = Absent, !.m = 0, !.outcomes = <<>>,
                      !.checks = cs] \in Run
    <3>1. <<>> \in Seq(Outcome)
      OBVIOUS
    <3> QED
      BY <1>1, <3>1 DEF Run, Stage
  <2> QED
    BY <1>16, <2>2, <2>3 DEF EndSuite
<1>17. CASE RunProperties
  <2>1. PICK truth \in Truths, errors \in SUBSET {"prove", "cover"} :
          run' = [run EXCEPT !.at = "manifest",
                      !.vacuous = ~(truth.covers # {} /\ truth.covers \subseteq truth.reached),
                      !.checks = Append(@, Check("property", "property",
                                                 PropertyStatus(truth, errors)))]
    BY <1>17 DEF RunProperties
  <2>2. Check("property", "property", PropertyStatus(truth, errors)) \in CheckRecord
    BY StatusIsTyped, CheckIsTyped DEF CheckName, AnyKind, Status
  <2> QED
    BY <1>1, <1>2, <2>1, <2>2 DEF Run, Stage
<1>18. CASE WriteManifest
  <2>1. Overall(run.checks) \in Verdict
    BY DEF Overall, Verdict
  <2> QED
    BY <1>18, <2>1, NewRunIsTyped DEF WriteManifest, Run, Stage, Over
<1>19. CASE Kill
  BY <1>19, NewRunIsTyped DEF Kill, Run, Stage, Over
<1> QED
  BY <1>5, <1>6, <1>7, <1>8, <1>9, <1>10, <1>11, <1>12, <1>13, <1>14, <1>15, <1>16, <1>17,
     <1>18, <1>19 DEF RunStep

\* The variables begin with their types.
LEMMA TypeInit == Init => TypeOK
<1> SUFFICES ASSUME Init PROVE TypeOK
  OBVIOUS
<1>1. /\ design \in Version /\ cells \in Models /\ runs \in 0 .. MaxRuns
      /\ estimate \in [at : {"new", "mapping", "done"}, src : Version \cup {Absent}]
  BY BoundsAssumption DEF Init, Version, Models
<1> QED
  BY <1>1, NewRunIsTyped DEF Init, TypeOK

\* What a run reads and writes has the types it should have.
LEMMA TypeStep ==
  ASSUME TypeOK, SuiteIsAt, [Next]_vars
  PROVE  TypeOK'
<1> USE DEF givens, files, history
<1>1. /\ timing \in {"synchronous", "asynchronous"}
      /\ tools \subseteq {"yosys", "iverilog"} /\ overCap \in BOOLEAN
      /\ sight \in [{Suite[i] : i \in DOMAIN Suite} -> Sight]
      /\ design \in Version
      /\ generated \in Version \cup {Absent} /\ mapped \in Version \cup {Absent}
      /\ cells \in Models
      /\ run \in Run
      /\ estimate \in [at : {"new", "mapping", "done"}, src : Version \cup {Absent}]
      /\ runs \in 0 .. MaxRuns /\ shared \in BOOLEAN /\ flaky \in BOOLEAN
  BY DEF TypeOK
<1>2. run.src \in Version \cup {Absent} /\ run.original \in Models
  BY <1>1 DEF Run
<1>3. CASE RunStep
  <2> DEFINE RestTyped ==
        /\ UNCHANGED <<givens, design, estimate>>
        /\ generated' \in Version \cup {Absent} /\ mapped' \in Version \cup {Absent}
        /\ cells' \in Models
        /\ runs' \in 0 .. MaxRuns /\ shared' \in BOOLEAN /\ flaky' \in BOOLEAN
  <2>1. RestTyped
    <3>1. CASE Start \/ StartPropertiesOnly \/ Refuse \/ StartAsync
      <4>1. Begins
        BY <3>1 DEF Start, StartPropertiesOnly, Refuse, StartAsync
      <4>2. runs' \in 0 .. MaxRuns
        BY <1>1, <4>1, BoundsAssumption DEF Begins
      <4>3. shared' \in BOOLEAN
        BY <4>1 DEF Begins, EstimateAlive
      <4> QED
        BY <1>1, <3>1, <4>1, <4>2, <4>3 DEF Start, StartPropertiesOnly, Refuse, StartAsync, Begins, Models
    <3>2. CASE WriteArtefacts \/ Synthesize \/ CheckEquivalence \/ CheckSimulation
      BY <1>1, <1>2, <3>2
      DEF WriteArtefacts, Synthesize, CheckEquivalence, CheckSimulation
    <3>3. CASE \/ SkipSuite \/ StartSuite \/ SkipMutation \/ EndSuite \/ CheckInfrastructure
               \/ SkipProperties \/ SbyMissing \/ RunProperties \/ WriteManifest \/ Kill
      BY <1>1, <3>3
      DEF SkipSuite, StartSuite, SkipMutation, EndSuite, CheckInfrastructure, SkipProperties,
          SbyMissing, RunProperties, WriteManifest, Kill
    <3>4. CASE MutatedEquivalence \/ MutatedSimulation
      BY <1>1, <1>2, <3>4 DEF MutatedEquivalence, MutatedSimulation, Restored
    <3>5. CASE PlantForEquivalence
      BY <1>1, <3>5, MutationIsTyped
      DEF PlantForEquivalence, Mutating, Plants, Mutation
    <3>6. CASE PlantForSimulation
      <4>1. Mutation \in Models
        BY <3>6, MutationIsTyped
        DEF SuiteIsAt, PlantForSimulation, Mutation, Alive, Over, InSuite
      <4> QED
        BY <1>1, <3>6, <4>1 DEF PlantForSimulation, Plants
    <3> QED
      BY <1>3, <3>1, <3>2, <3>3, <3>4, <3>5, <3>6 DEF RunStep
  <2>2. run' \in Run
    BY <1>3, RunStepTyped
  <2> QED
    BY <1>1, <2>1, <2>2 DEF TypeOK
<1>4. CASE Edit
  BY <1>1, <1>4, BoundsAssumption DEF Edit, TypeOK, Version
<1>5. CASE EstimateStarts
  BY <1>1, <1>5 DEF EstimateStarts, TypeOK, Models, givens, Alive, Over
<1>6. CASE EstimateMaps
  BY <1>1, <1>6 DEF EstimateMaps, TypeOK
<1>7. CASE UNCHANGED vars
  BY <1>1, <1>7 DEF vars, TypeOK
<1> QED
  BY <1>3, <1>4, <1>5, <1>6, <1>7 DEF Next

-----------------------------------------------------------------------------
(* Who does what *)

Begin == Start \/ StartPropertiesOnly \/ Refuse \/ StartAsync
End == WriteManifest \/ Kill
Outside == Edit \/ EstimateStarts \/ EstimateMaps \/ UNCHANGED vars
Work ==
  \/ WriteArtefacts \/ Synthesize \/ CheckEquivalence \/ CheckSimulation
  \/ SkipSuite \/ StartSuite \/ SkipMutation
  \/ PlantForEquivalence \/ MutatedEquivalence
  \/ PlantForSimulation \/ MutatedSimulation \/ EndSuite
  \/ CheckInfrastructure \/ SkipProperties \/ SbyMissing \/ RunProperties

\* The steps of the specification: a run begins, works or ends, or others act.
LEMMA Steps == [Next]_vars <=> Begin \/ Work \/ End \/ Outside
  BY DEF Next, RunStep, Begin, Work, End, Outside

\* A check that is recorded comes after the ones before it.
LEMMA AppendedIsLast ==
  ASSUME NEW S, NEW s \in Seq(S), NEW e
  PROVE  /\ Len(Append(s, e)) = Len(s) + 1
         /\ DOMAIN Append(s, e) = 1 .. Len(s) + 1 /\ DOMAIN s = 1 .. Len(s)
         /\ \A i \in DOMAIN s : i \in DOMAIN Append(s, e) /\ Append(s, e)[i] = s[i]
         /\ Append(s, e)[Len(s) + 1] = e
  OBVIOUS

\* Recording a check changes where the run is and its list of checks alone.
LEMMA RecordsOnlyThat ==
  ASSUME run \in Run, NEW check, NEW at, Records(check, at)
  PROVE  /\ run'.at = at /\ run'.checks = Append(run.checks, check)
         /\ UNCHANGED <<run.src, run.only, run.netlist, run.original, run.m,
                        run.equivalence, run.outcomes>>
  BY DEF Records, Run

\* A run at work goes on with what it began with, and writes a netlist only
\* when it maps the design or has made it itself.
LEMMA WorkIsOfOneRun ==
  ASSUME run \in Run, Work
  PROVE  /\ Alive /\ Alive'
         /\ UNCHANGED <<timing, tools, overCap, uses, sight, design, generated, runs, estimate, shared>>
         /\ UNCHANGED <<run.src, run.only>>
         /\ flaky => flaky'
         /\ run.at \notin {"artefacts", "synthesis"} => mapped' = mapped
<1> USE DEF Alive, Over, files, givens, history
<1>1. CASE WriteArtefacts
  BY <1>1 DEF WriteArtefacts, Run
<1>2. CASE Synthesize
  BY <1>2 DEF Synthesize, Run
<1>3. CASE CheckEquivalence
  BY <1>3 DEF CheckEquivalence, Records, Run
<1>4. CASE CheckSimulation
  BY <1>4 DEF CheckSimulation, Records, Run
<1>5. CASE SkipSuite
  BY <1>5 DEF SkipSuite, Records, Run
<1>6. CASE StartSuite
  BY <1>6 DEF StartSuite, Run
<1>7. CASE SkipMutation
  BY <1>7 DEF SkipMutation, Mutating, Run
<1>8. CASE PlantForEquivalence
  BY <1>8 DEF PlantForEquivalence, Plants, Mutating, Planted, Run
<1>9. CASE MutatedEquivalence
  BY <1>9 DEF MutatedEquivalence, Run
<1>10. CASE PlantForSimulation
  BY <1>10 DEF PlantForSimulation, Plants, Planted, Run
<1>11. CASE MutatedSimulation
  BY <1>11 DEF MutatedSimulation, Run
<1>12. CASE EndSuite
  BY <1>12 DEF EndSuite, Run
<1>13. CASE CheckInfrastructure
  BY <1>13 DEF CheckInfrastructure, Records, Run
<1>14. CASE SkipProperties
  BY <1>14 DEF SkipProperties, Run
<1>15. CASE SbyMissing
  BY <1>15 DEF SbyMissing, Records, Run
<1>16. CASE RunProperties
  BY <1>16 DEF RunProperties, Run
<1> QED
  BY <1>1, <1>2, <1>3, <1>4, <1>5, <1>6, <1>7, <1>8, <1>9, <1>10, <1>11, <1>12, <1>13, <1>14, <1>15, <1>16
  DEF Work

\* What happens outside the run leaves a run that stays alone as it is.
LEMMA OutsideKeepsOut ==
  ASSUME NobodyBeside, Outside
  PROVE  /\ UNCHANGED <<timing, tools, overCap, uses, sight, run, runs, flaky>>
         /\ Alone' /\ Alive' => Alone /\ Alive /\ UNCHANGED <<generated, mapped, cells>>
<1> USE DEF Alone, Alive, Over, files, givens, history
<1>1. CASE Edit \/ UNCHANGED vars
  BY <1>1 DEF Edit, vars
<1>2. CASE EstimateStarts
  BY <1>2 DEF EstimateStarts
<1>3. CASE EstimateMaps
  BY <1>3 DEF EstimateMaps, NobodyBeside
<1> QED
  BY <1>1, <1>2, <1>3 DEF Outside

\* A run that is not known to share the directory has nobody beside it.
LEMMA NobodyBesideStep ==
  ASSUME TypeOK, NobodyBeside, [Next]_vars
  PROVE  NobodyBeside'
<1> USE DEF NobodyBeside, Alone, Alive, EstimateAlive, Over
<1>1. run \in Run
  BY DEF TypeOK
<1>2. CASE Begin
  BY <1>2 DEF Begin, Start, StartPropertiesOnly, Refuse, StartAsync, Begins
<1>3. CASE Work
  BY <1>1, <1>3, WorkIsOfOneRun
<1>4. CASE End
  BY <1>4 DEF End, WriteManifest, Kill, NewRun
<1>5. CASE Edit \/ UNCHANGED vars
  BY <1>5 DEF Edit, vars, history
<1>6. CASE EstimateStarts \/ EstimateMaps
  BY <1>6 DEF EstimateStarts, EstimateMaps, history, TypeOK
<1> QED
  BY <1>2, <1>3, <1>4, <1>5, <1>6, Steps DEF Outside

-----------------------------------------------------------------------------
(* The parts of the invariant *)

\* A run that begins is at none of these steps yet; one that is over at none.
LEMMA Beginnings ==
  ASSUME Begin
  PROVE  /\ run'.at \in {"synthesis", "properties", "refused", "artefacts"}
         /\ run'.at \in {"synthesis", "properties"} => timing = "synchronous"
         /\ run'.at = "artefacts" => timing = "asynchronous"
         /\ run'.at = "properties" => run'.only
         /\ run'.at = "synthesis" => generated' = design /\ cells' = "good"
         /\ run'.at = "synthesis" => run'.checks = <<>> /\ run'.outcomes = <<>>
         /\ run'.at # "refused" => run'.src = design
         /\ run'.at = "properties" => generated' = design
         /\ UNCHANGED givens
<1>1. CASE Start
  BY <1>1 DEF Start, Begins, NewRun
<1>2. CASE StartPropertiesOnly
  BY <1>2 DEF StartPropertiesOnly, Begins, NewRun
<1>3. CASE Refuse
  BY <1>3 DEF Refuse, Begins, NewRun
<1>4. CASE StartAsync
  BY <1>4 DEF StartAsync, Begins, NewRun
<1> QED
  BY <1>1, <1>2, <1>3, <1>4 DEF Begin

\* A run that ends is no longer alive, and changes nothing that is given.
LEMMA Endings ==
  ASSUME End
  PROVE  ~Alive' /\ run'.at # "artefacts" /\ UNCHANGED <<timing, tools>>
  BY DEF End, WriteManifest, Kill, NewRun, Alive, Over, givens

\* The suite goes through its mutations in order, one outcome for each.
LEMMA SuiteIsAtStep ==
  ASSUME TypeOK, SuiteIsAt, NobodyBeside, [Next]_vars
  PROVE  SuiteIsAt'
<1> USE DEF SuiteIsAt, Alive, Over, Unmapped, BeforeSuite, InSuite, Planted, Mutation
<1>1. run \in Run /\ run.outcomes \in Seq(Outcome) /\ run.m \in Nat
  BY DEF TypeOK, Run
<1>6. \A o : Len(Append(run.outcomes, o)) = Len(run.outcomes) + 1
  BY <1>1, AppendedIsLast
<1>7. DOMAIN Suite = 1 .. Len(Suite) /\ Len(Suite) \in Nat
  BY SuiteIsASequence
<1>2. CASE Begin
  BY <1>2, Beginnings
<1>3. CASE End
  BY <1>3, Endings
<1>4. CASE Outside
  BY <1>4, OutsideKeepsOut DEF Applicable
<1>5. CASE Work
  <2>1. UNCHANGED <<tools, uses>>
    BY <1>1, <1>5, WorkIsOfOneRun
  <2>2. CASE \/ WriteArtefacts \/ Synthesize \/ EndSuite \/ SkipProperties \/ RunProperties
    BY <1>1, <2>2 DEF WriteArtefacts, Synthesize, EndSuite, SkipProperties, RunProperties, Run
  <2>8. CASE \/ CheckEquivalence \/ CheckSimulation \/ SkipSuite
             \/ CheckInfrastructure \/ SbyMissing
    BY <1>1, <2>8
    DEF CheckEquivalence, CheckSimulation, SkipSuite, CheckInfrastructure, SbyMissing, Records, Run
  <2>3. CASE StartSuite
    BY <1>1, <2>3, SuiteAssumption DEF StartSuite, Run, givens
  <2>4. CASE SkipMutation
    <3>1. /\ \E o : run'.outcomes = Append(run.outcomes, o)
          /\ run'.m = run.m + 1 /\ run'.at = "mutating" /\ run.m \in DOMAIN Suite
      BY <1>1, <2>4 DEF SkipMutation, Mutating, Run
    <3>2. Len(run'.outcomes) = Len(run.outcomes) + 1
      BY <1>6, <3>1
    <3>3. tools = {"yosys", "iverilog"} /\ Len(run.outcomes) = run.m - 1
      BY <2>4 DEF SkipMutation, Mutating
    <3> HIDE DEF SuiteIsAt
    <3>5. Len(run'.outcomes) = run'.m - 1
      BY <1>1, <3>1, <3>2, <3>3
    <3>6. run'.m \in 1 .. Len(Suite) + 1
      BY <1>1, <3>1, <1>7
    <3>7. tools' = {"yosys", "iverilog"}
      BY <2>1, <3>3
    <3> QED
      BY <3>1, <3>5, <3>6, <3>7 DEF SuiteIsAt
  <2>5. CASE PlantForEquivalence \/ PlantForSimulation
    BY <1>1, <2>1, <2>5, SuiteAssumption
    DEF PlantForEquivalence, PlantForSimulation, Plants, Mutating, Run, Applicable
  <2>6. CASE MutatedEquivalence
    BY <1>1, <2>1, <2>6 DEF MutatedEquivalence, Run, Applicable
  <2>7. CASE MutatedSimulation
    <3> PICK status :
          run' = [run EXCEPT !.at = "mutating", !.m = @ + 1, !.original = "good",
                      !.equivalence = "not run",
                      !.outcomes = Append(@, [applicable |-> TRUE,
                        equivalence |-> run.equivalence, simulation |-> status])]
      BY <2>7 DEF MutatedSimulation
    <3>1. /\ \E o : run'.outcomes = Append(run.outcomes, o)
          /\ run'.m = run.m + 1 /\ run'.at = "mutating"
      BY <1>1 DEF Run
    <3>4. run.m \in DOMAIN Suite
      BY <2>7 DEF MutatedSimulation
    <3>2. Len(run'.outcomes) = Len(run.outcomes) + 1
      BY <1>6, <3>1
    <3>3. tools = {"yosys", "iverilog"} /\ Len(run.outcomes) = run.m - 1
      BY <2>7 DEF MutatedSimulation
    <3> HIDE DEF SuiteIsAt
    <3>5. Len(run'.outcomes) = run'.m - 1
      BY <1>1, <3>1, <3>2, <3>3
    <3>6. run'.m \in 1 .. Len(Suite) + 1
      BY <1>1, <3>1, <3>4, <1>7
    <3>7. tools' = {"yosys", "iverilog"}
      BY <2>1, <3>3
    <3> QED
      BY <3>1, <3>5, <3>6, <3>7 DEF SuiteIsAt
  <2> QED
    BY <1>5, <2>2, <2>3, <2>4, <2>5, <2>6, <2>7, <2>8 DEF Work
<1> QED
  BY <1>2, <1>3, <1>4, <1>5, Steps

\* Nobody writes generated.v under a run that is alone.
LEMMA GeneratedIsOwnStep ==
  ASSUME TypeOK, NobodyBeside, GeneratedIsOwn, [Next]_vars
  PROVE  GeneratedIsOwn'
<1> USE DEF GeneratedIsOwn
<1>1. run \in Run /\ design \in Version
  BY DEF TypeOK
<1>2. CASE Begin
  BY <1>1, <1>2, Beginnings DEF Alive, Over, givens
<1>3. CASE End
  BY <1>3, Endings
<1>4. CASE Outside
  BY <1>4, OutsideKeepsOut
<1>5. CASE Work
  BY <1>1, <1>5, WorkIsOfOneRun DEF Alone, Version
<1> QED
  BY <1>2, <1>3, <1>4, <1>5, Steps

\* A model that is planted is put back: it was read before it was overwritten, and
\* it was the good one.
LEMMA CellsStep ==
  ASSUME TypeOK, SuiteIsAt, NobodyBeside, ModelRestored, OriginalIsGood, [Next]_vars
  PROVE  ModelRestored' /\ OriginalIsGood'
<1> USE DEF ModelRestored, OriginalIsGood, Undisturbed, Planted, Mutation, Alone
<1>1. run \in Run
  BY DEF TypeOK
<1>2. CASE Begin
  BY <1>1, <1>2, Beginnings DEF Alive, Over, givens
<1>3. CASE End
  BY <1>3, Endings
<1>4. CASE Outside
  BY <1>4, OutsideKeepsOut
<1>5. CASE Work
  <2>1. Alive /\ Alive' /\ UNCHANGED <<timing, run.only, shared>>
    BY <1>1, <1>5, WorkIsOfOneRun
  <2>2. CASE \/ WriteArtefacts \/ Synthesize \/ CheckEquivalence \/ CheckSimulation \/ SkipSuite
             \/ StartSuite \/ EndSuite \/ CheckInfrastructure \/ SkipProperties \/ SbyMissing
             \/ RunProperties
    BY <1>1, <2>1, <2>2
    DEF WriteArtefacts, Synthesize, CheckEquivalence, CheckSimulation, SkipSuite, StartSuite,
        EndSuite, CheckInfrastructure, SkipProperties, SbyMissing, RunProperties, Records, Run,
        files
  <2>3. CASE SkipMutation
    BY <1>1, <2>1, <2>3 DEF SkipMutation, Mutating, Run, files
  <2>4. CASE PlantForEquivalence \/ PlantForSimulation
    <3>1. Plants("planted for equivalence") \/ Plants("planted for simulation")
      BY <2>4 DEF PlantForEquivalence, PlantForSimulation
    <3>2. run.at \in {"mutating", "equivalence asked"}
      BY <2>4 DEF PlantForEquivalence, PlantForSimulation, Mutating
    <3>3. run'.original = cells /\ run'.at \in Planted /\ run'.m = run.m /\ cells' = Mutation
      BY <1>1, <3>1 DEF Plants, Run
    <3> QED
      BY <2>1, <3>2, <3>3
  <2>5. CASE MutatedEquivalence \/ MutatedSimulation
    BY <1>1, <2>1, <2>5 DEF MutatedEquivalence, MutatedSimulation, Restored, Run
  <2> QED
    BY <1>5, <2>2, <2>3, <2>4, <2>5 DEF Work
<1> QED
  BY <1>2, <1>3, <1>4, <1>5, Steps

\* The checks of a run at work only grow, by one at a time and at the end.
Grows(check) ==
  /\ run'.checks = Append(run.checks, check)
  /\ Len(run'.checks) = Len(run.checks) + 1
  /\ \A i \in DOMAIN run.checks : i \in DOMAIN run'.checks /\ run'.checks[i] = run.checks[i]
  /\ Len(run.checks) + 1 \in DOMAIN run'.checks
  /\ run'.checks[Len(run.checks) + 1] = check

\* A check that is appended is one more, behind the others.
LEMMA AppendingGrows ==
  ASSUME run \in Run, NEW check, run'.checks = Append(run.checks, check)
  PROVE  Grows(check)
<1>1. run.checks \in Seq(CheckRecord)
  BY DEF Run
<1>2. Len(run.checks) \in Nat
  BY <1>1, SequenceIs
<1> QED
  BY <1>1, <1>2, AppendedIsLast DEF Grows

\* A run does not take back a check.
LEMMA ChecksGrow ==
  ASSUME run \in Run, Work
  PROVE  \A i \in DOMAIN run.checks : i \in DOMAIN run'.checks /\ run'.checks[i] = run.checks[i]
<1>1. CASE \/ WriteArtefacts \/ Synthesize \/ StartSuite \/ SkipMutation \/ SkipProperties
           \/ PlantForEquivalence \/ PlantForSimulation \/ MutatedEquivalence \/ MutatedSimulation
  <2>1. run'.checks = run.checks
    BY <1>1
    DEF WriteArtefacts, Synthesize, StartSuite, SkipMutation, SkipProperties, Run,
        PlantForEquivalence, PlantForSimulation, Plants, MutatedEquivalence, MutatedSimulation
  <2> QED
    BY <2>1
<1>2. CASE \/ CheckEquivalence \/ CheckSimulation \/ SkipSuite \/ CheckInfrastructure \/ SbyMissing
           \/ EndSuite \/ RunProperties
  <2>1. \E check : run'.checks = Append(run.checks, check)
    <3>1. CASE \/ CheckEquivalence \/ CheckSimulation \/ SkipSuite
               \/ CheckInfrastructure \/ SbyMissing
      <4>1. \E check, at : Records(check, at)
        BY <3>1 DEF CheckEquivalence, CheckSimulation, SkipSuite, CheckInfrastructure, SbyMissing
      <4> QED
        BY <4>1 DEF Records, Run
    <3>2. CASE EndSuite
      BY <3>2 DEF EndSuite, Run
    <3>3. CASE RunProperties
      BY <3>3 DEF RunProperties, Run
    <3> QED
      BY <1>2, <3>1, <3>2, <3>3
  <2> QED
    BY <2>1, AppendingGrows DEF Grows
<1> QED
  BY <1>1, <1>2 DEF Work

\* The checks are those of the steps the run has behind it.
LEMMA ChecksStep ==
  ASSUME TypeOK, NobodyBeside, ChecksAreInOrder, ArtefactsAreAsync, [Next]_vars
  PROVE  ChecksAreInOrder' /\ ArtefactsAreAsync'
<1> USE DEF ArtefactsAreAsync
<1>1. run \in Run /\ timing \in {"synchronous", "asynchronous"}
  BY DEF TypeOK
<1>2. CASE Begin
  BY <1>1, <1>2, Beginnings
  DEF ChecksAreInOrder, Undisturbed, Alive, Over, Unmapped, InSuite, Planted, AfterSuite, givens
<1>3. CASE End
  BY <1>3, Endings DEF ChecksAreInOrder, Undisturbed
<1>4. CASE Outside
  BY <1>4, OutsideKeepsOut DEF ChecksAreInOrder, Undisturbed
<1>5. CASE Work
  <2>1. /\ Alive /\ Alive' /\ UNCHANGED <<timing, run.only, shared>>
    BY <1>1, <1>5, WorkIsOfOneRun
  <2>2. \A i \in DOMAIN run.checks : i \in DOMAIN run'.checks /\ run'.checks[i] = run.checks[i]
    BY <1>1, <1>5, ChecksGrow
  <2>3. Len(run.checks) \in Nat /\ DOMAIN run.checks = 1 .. Len(run.checks)
    BY <1>1, SequenceIs DEF Run
  <2>4. ArtefactsAreAsync'
    BY <1>1, <1>5, <2>1
    DEF Work, WriteArtefacts, Synthesize, StartSuite, SkipMutation, SkipProperties, Run,
        PlantForEquivalence, PlantForSimulation, Plants, MutatedEquivalence, MutatedSimulation,
        CheckEquivalence, CheckSimulation, SkipSuite, CheckInfrastructure, SbyMissing, Records,
        EndSuite, RunProperties
  <2> SUFFICES ASSUME Undisturbed' PROVE ChecksAreInOrder'
    BY <2>4 DEF ChecksAreInOrder
  <2>5. Undisturbed
    BY <2>1 DEF Undisturbed, Alone
  <2>6. CASE WriteArtefacts
    BY <2>5, <2>6 DEF WriteArtefacts, Undisturbed,
        ChecksAreInOrder, Unmapped, InSuite, Planted, AfterSuite
  <2>7. CASE Synthesize \/ StartSuite \/ SkipMutation \/ SkipProperties
    <3>1. run'.checks = run.checks
      BY <1>1, <2>7 DEF Synthesize, StartSuite, SkipMutation, SkipProperties, Run
    <3> QED
      BY <1>1, <2>5, <2>7, <3>1
      DEF Synthesize, StartSuite, SkipMutation, Mutating, SkipProperties, Run,
        ChecksAreInOrder, Unmapped, InSuite, Planted, AfterSuite
  <2>8. CASE PlantForEquivalence \/ PlantForSimulation \/ MutatedEquivalence \/ MutatedSimulation
    <3>1. run'.checks = run.checks
      BY <1>1, <2>8
      DEF PlantForEquivalence, PlantForSimulation, Plants, MutatedEquivalence, MutatedSimulation, Run
    <3> QED
      BY <1>1, <2>5, <2>8, <3>1
      DEF PlantForEquivalence, PlantForSimulation, Plants, Mutating, MutatedEquivalence,
          MutatedSimulation, Run,
        ChecksAreInOrder, Unmapped, InSuite, Planted, AfterSuite
  <2>9. CASE CheckEquivalence
    <3>1. PICK crashes \in BOOLEAN :
            Records(Check("equivalence", "equivalence", EquivalenceStatus(crashes)), "simulation")
      BY <2>9 DEF CheckEquivalence
    <3>2. run'.at = "simulation" /\ Grows(Check("equivalence", "equivalence", EquivalenceStatus(crashes)))
      BY <1>1, <3>1, RecordsOnlyThat, AppendingGrows
    <3>3. Len(run.checks) = 0
      BY <2>5, <2>9 DEF CheckEquivalence,
        ChecksAreInOrder, Unmapped, InSuite, Planted, AfterSuite
    <3>4. /\ 1 \in DOMAIN run'.checks /\ Len(run'.checks) = 1
          /\ run'.checks[1] = Check("equivalence", "equivalence", EquivalenceStatus(crashes))
      BY <3>2, <3>3 DEF Grows
    <3>5. run'.checks[1].kind = "equivalence" /\ run'.checks[1].status = EquivalenceStatus(crashes)
      BY <3>4, CheckFields
    <3> QED
      BY <3>2, <3>4, <3>5, StatusIsTyped
      DEF ChecksAreInOrder, Unmapped, InSuite, Planted, AfterSuite
  <2>10. CASE CheckSimulation
    <3>1. PICK status : Records(Check("exhaustive simulation", "simulation", status), "suite")
      BY <2>10 DEF CheckSimulation
    <3>2. run'.at = "suite" /\ Grows(Check("exhaustive simulation", "simulation", status))
      BY <1>1, <3>1, RecordsOnlyThat, AppendingGrows
    <3>3. run.at = "simulation" /\ Len(run.checks) = 1
      BY <2>5, <2>10 DEF CheckSimulation,
        ChecksAreInOrder, Unmapped, InSuite, Planted, AfterSuite
    <3>4. Len(run'.checks) = 2
      <4>1. Len(run.checks) + 1 = 2
        BY <3>3
      <4>2. Len(run'.checks) = Len(run.checks) + 1
        BY <3>2 DEF Grows
      <4> QED
        BY <4>1, <4>2
    <3> QED
      BY <2>2, <2>5, <3>2, <3>3, <3>4
      DEF ChecksAreInOrder, Unmapped, InSuite, Planted, AfterSuite
  <2>11. CASE SkipSuite \/ EndSuite
    <3>1. PICK status :
            /\ status \in {"passed", "failed", "not run"}
            /\ run'.checks = Append(run.checks, Check("mutation", "mutation", status))
      <4>1. CASE SkipSuite
        BY <1>1, <4>1 DEF SkipSuite, Records, Run
      <4>2. CASE EndSuite
        <5>1. run'.checks = Append(run.checks,
                                   Check("mutation", "mutation", MutationStatus(run.outcomes)))
          BY <1>1, <4>2 DEF EndSuite, Run
        <5> QED
          BY <5>1, StatusIsTyped
      <4> QED
        BY <2>11, <4>1, <4>2
    <3>2. run'.at = "infra" /\ Grows(Check("mutation", "mutation", status))
      BY <1>1, <2>11, <3>1, AppendingGrows DEF SkipSuite, EndSuite, Records, Run
    <3>3. run.at \in {"suite", "mutating"} /\ Len(run.checks) = 2
      BY <2>5, <2>11 DEF SkipSuite, EndSuite,
        ChecksAreInOrder, Unmapped, InSuite, Planted, AfterSuite
    <3>4. 3 \in DOMAIN run'.checks /\ run'.checks[3] = Check("mutation", "mutation", status)
      <4>1. Len(run.checks) + 1 = 3
        BY <3>3
      <4>2. /\ Len(run.checks) + 1 \in DOMAIN run'.checks
             /\ run'.checks[Len(run.checks) + 1] = Check("mutation", "mutation", status)
        BY <3>2 DEF Grows
      <4> QED
        BY <4>1, <4>2
    <3>5. run'.checks[3].kind = "mutation" /\ run'.checks[3].status = status
      BY <3>4, CheckFields
    <3> QED
      BY <2>2, <2>5, <3>1, <3>2, <3>3, <3>4, <3>5
      DEF ChecksAreInOrder, Unmapped, InSuite, Planted, AfterSuite
  <2>12. CASE CheckInfrastructure \/ SbyMissing \/ RunProperties
    <3>1. run.at \in AfterSuite /\ run'.at \in AfterSuite
      BY <1>1, <2>12 DEF CheckInfrastructure, SbyMissing, RunProperties, Records, Run,
        ChecksAreInOrder, Unmapped, InSuite, Planted, AfterSuite
    <3> QED
      BY <2>2, <2>5, <3>1
      DEF ChecksAreInOrder, Unmapped, InSuite, Planted, AfterSuite
  <2> QED
    BY <1>5, <2>6, <2>7, <2>8, <2>9, <2>10, <2>11, <2>12 DEF Work
<1> QED
  BY <1>2, <1>3, <1>4, <1>5, Steps

\* The four checks of an asynchronous run, one by one.
FourChecks(functional, ternary, glitch, checks) ==
  /\ Len(checks) = 4
  /\ checks[1].status = "not applicable"
  /\ checks[2].kind = "simulation" /\ checks[2].status = functional
  /\ checks[3].kind = "hazard" /\ checks[3].status = ternary
  /\ checks[4].kind = "hazard" /\ checks[4].status = glitch

\* The checks of an asynchronous run are four, of known names and kinds.
LEMMA HazardChecksAre ==
  \A functional, ternary, glitch :
    FourChecks(functional, ternary, glitch, HazardChecks(functional, ternary, glitch))
  BY DEF FourChecks, HazardChecks, Check

\* An asynchronous run only writes what its checks have passed.
LEMMA AsyncChecksStep ==
  ASSUME TypeOK, NobodyBeside, AsyncChecks, [Next]_vars
  PROVE  AsyncChecks'
<1>1. run \in Run /\ timing \in {"synchronous", "asynchronous"}
  BY DEF TypeOK
<1>2. CASE StartAsync
  <2>1. \E functional, ternary, glitch :
          /\ functional # "bounded pass"
          /\ ternary \notin {"bounded pass", "not applicable"}
          /\ glitch \notin {"bounded pass", "not applicable"}
          /\ run'.at = "artefacts" /\ run'.checks = HazardChecks(functional, ternary, glitch)
    <3> PICK functional \in {"passed", "failed", "not applicable"},
             ternary \in {"passed", "failed"}, glitch \in {"passed", "failed", "not run"} :
          run' = [NewRun EXCEPT !.at = "artefacts", !.src = design,
                                !.checks = HazardChecks(functional, ternary, glitch)]
      BY <1>2 DEF StartAsync
    <3>1. run'.at = "artefacts" /\ run'.checks = HazardChecks(functional, ternary, glitch)
      BY DEF NewRun
    <3> QED
      BY <3>1
  <2>2. PICK functional, ternary, glitch :
          /\ functional # "bounded pass"
          /\ ternary \notin {"bounded pass", "not applicable"}
          /\ glitch \notin {"bounded pass", "not applicable"}
          /\ run'.at = "artefacts" /\ run'.checks = HazardChecks(functional, ternary, glitch)
    BY <2>1
  <2>3. FourChecks(functional, ternary, glitch, run'.checks)
    BY <2>2, HazardChecksAre
  <2>4. 1 .. 4 = {1, 2, 3, 4}
    OBVIOUS
  <2> QED
    BY <2>2, <2>3, <2>4 DEF AsyncChecks, FourChecks
<1>3. CASE Begin /\ ~StartAsync
  BY <1>3, <1>1 DEF AsyncChecks, Alive, Over, Begin, Start, StartPropertiesOnly, Refuse, Begins, NewRun,
     givens
<1>4. CASE End
  BY <1>4, Endings DEF AsyncChecks
<1>5. CASE Outside
  BY <1>5, OutsideKeepsOut DEF AsyncChecks, HazardPassed, Alive, Alone
<1>6. CASE WriteArtefacts
  BY <1>1, <1>6 DEF WriteArtefacts, AsyncChecks, Run, Alive, Over, HazardPassed, Alone, givens, history
<1>7. CASE Work /\ ~WriteArtefacts
  <2>1. run.at \notin {"artefacts", "manifest"}
    BY <1>7
    DEF Work, Synthesize, CheckEquivalence, CheckSimulation, SkipSuite, StartSuite, SkipMutation,
        PlantForEquivalence, MutatedEquivalence, PlantForSimulation, MutatedSimulation, EndSuite,
        CheckInfrastructure, SkipProperties, SbyMissing, RunProperties, Mutating
  <2>2. Alive /\ timing' = timing
    BY <1>1, <1>7, WorkIsOfOneRun
  <2> QED
    BY <2>1, <2>2 DEF AsyncChecks
<1> QED
  BY <1>2, <1>3, <1>4, <1>5, <1>6, <1>7, Steps

\* Equivalence compares mapped.v with what this run compiled, and nobody writes
\* either afterwards.
LEMMA ProvedStep ==
  ASSUME TypeOK, NobodyBeside, GeneratedIsOwn, ChecksAreInOrder, ArtefactsAreAsync,
         ProvedIsMapped, [Next]_vars
  PROVE  ProvedIsMapped'
<1>1. run \in Run /\ timing \in {"synchronous", "asynchronous"}
  BY DEF TypeOK
<1>2. CASE Begin
  <2>1. Undisturbed' => run'.at \in Unmapped
    BY <1>1, <1>2, Beginnings DEF Undisturbed, Alive, Over, Unmapped, givens
  <2> QED
    BY <2>1 DEF ProvedIsMapped
<1>3. CASE End
  BY <1>3, Endings DEF ProvedIsMapped, Undisturbed
<1>4. CASE Outside
  BY <1>4, OutsideKeepsOut DEF ProvedIsMapped, Undisturbed, Proved, Said
<1>5. CASE Work
  <2> SUFFICES ASSUME Undisturbed', run'.at \notin Unmapped, Proved'
               PROVE  mapped' = run'.src
    BY DEF ProvedIsMapped
  <2>1. /\ Alive /\ UNCHANGED <<timing, run.only, run.src, shared, generated>>
        /\ run.at \notin {"artefacts", "synthesis"} => mapped' = mapped
    BY <1>1, <1>5, WorkIsOfOneRun
  <2>2. Undisturbed
    BY <2>1 DEF Undisturbed, Alone
  <2>3. run.at # "artefacts"
    BY <2>2 DEF Undisturbed, ArtefactsAreAsync
  <2>4. CASE Synthesize
    BY <1>1, <2>4 DEF Synthesize, Run, Unmapped
  <2>5. CASE CheckEquivalence
    <3>1. PICK crashes :
            Records(Check("equivalence", "equivalence", EquivalenceStatus(crashes)), "simulation")
      BY <2>5 DEF CheckEquivalence
    <3>2. Grows(Check("equivalence", "equivalence", EquivalenceStatus(crashes)))
      BY <1>1, <3>1, RecordsOnlyThat, AppendingGrows
    <3>3. Len(run.checks) = 0 /\ run.at = "equivalence"
      BY <2>2, <2>5 DEF CheckEquivalence, ChecksAreInOrder, Unmapped
    <3>4. run'.checks[1] = Check("equivalence", "equivalence", EquivalenceStatus(crashes))
      BY <3>2, <3>3 DEF Grows
    <3>5. EquivalenceStatus(crashes) = "passed"
      BY <3>4, CheckFields DEF Proved, Said
    <3>6. Proves
      BY <3>5 DEF EquivalenceStatus
    <3> QED
      BY <2>1, <2>2, <3>3, <3>6 DEF Proves, GeneratedIsOwn, Undisturbed
  <2>6. CASE ~Synthesize /\ ~CheckEquivalence
    <3>1. run.at \notin Unmapped
      BY <1>5, <2>3, <2>6
      DEF Work, WriteArtefacts, CheckSimulation, SkipSuite, StartSuite, SkipMutation, Planted,
          PlantForEquivalence, MutatedEquivalence, PlantForSimulation, MutatedSimulation, EndSuite,
          CheckInfrastructure, SkipProperties, SbyMissing, RunProperties, Mutating, Unmapped
    <3>2. Proved
      BY <1>1, <1>5, <2>2, <3>1, ChecksGrow DEF Proved, Said, ChecksAreInOrder
    <3> QED
      BY <2>1, <2>2, <2>3, <3>1, <3>2 DEF ProvedIsMapped, Unmapped
  <2> QED
    BY <2>4, <2>5, <2>6
<1> QED
  BY <1>2, <1>3, <1>4, <1>5, Steps

\* The tools disagree about a mutated model of a netlist that is right only where
\* they can tell the mutation.
LEMMA FailureIsSight ==
  ASSUME mapped = run.src, generated = run.src, run.src \in Version, cells = Mutation,
         "yosys" \in tools
  PROVE  /\ EquivalenceStatus(FALSE) = "failed" => "equivalence" \in sight[Mutation]
         /\ "failed" \in SimulationOutcome(FALSE) => "simulation" \in sight[Mutation]
<1>1. mapped # Absent
  BY AbsentAssumption DEF Version
<1> QED
  BY <1>1 DEF EquivalenceStatus, SimulationOutcome, Proves, Simulates

\* While it asks about mutations, a run that can be trusted has the files that its
\* own equivalence check passed.
LEMMA TrustworthyFiles ==
  ASSUME TypeOK, ModelRestored, GeneratedIsOwn, ProvedIsMapped, Trustworthy, run.at \notin Unmapped
  PROVE  /\ mapped = run.src /\ generated = run.src /\ run.src \in Version /\ mapped # Absent
         /\ run.at \in Planted => cells = Mutation
  BY AbsentAssumption
  DEF Trustworthy, Undisturbed, ProvedIsMapped, GeneratedIsOwn, ModelRestored, Version

\* A run that can be trusted after a step could be before it.
LEMMA TrustIsKept ==
  ASSUME TypeOK, ChecksAreInOrder, Work, Trustworthy', run.at \notin Unmapped
  PROVE  Trustworthy /\ UNCHANGED <<timing, tools, uses, sight, run.src, generated>>
<1>1. run \in Run
  BY DEF TypeOK
<1>2. /\ Alive
      /\ flaky => flaky'
      /\ UNCHANGED <<timing, tools, uses, sight, run.src, run.only, shared, generated>>
  BY <1>1, WorkIsOfOneRun
<1>3. Undisturbed
  BY <1>2 DEF Trustworthy, Undisturbed, Alone
<1>4. Proved
  BY <1>1, <1>3, ChecksGrow DEF Trustworthy, Proved, Said, ChecksAreInOrder
<1> QED
  BY <1>2, <1>3, <1>4 DEF Trustworthy

\* One more outcome, true if the others are.
LEMMA OutcomeAppended ==
  ASSUME run \in Run, NEW o, run'.outcomes = Append(run.outcomes, o),
         UNCHANGED <<uses, sight>>, Len(run.outcomes) = run.m - 1,
         \A i \in DOMAIN run.outcomes : OutcomeIsTrue(i),
         o.applicable <=> Targets[Mutation] \cap uses # {},
         o.applicable /\ o.equivalence = "failed" => "equivalence" \in sight[Mutation],
         o.applicable /\ o.simulation = "failed" => "simulation" \in sight[Mutation]
  PROVE  \A i \in DOMAIN run'.outcomes : OutcomeIsTrue(i)'
<1>1. run.outcomes \in Seq(Outcome) /\ run.m \in Nat
  BY DEF Run
<1>2. /\ DOMAIN run'.outcomes = 1 .. Len(run.outcomes) + 1
      /\ DOMAIN run.outcomes = 1 .. Len(run.outcomes) /\ Len(run.outcomes) \in Nat
      /\ \A i \in DOMAIN run.outcomes : run'.outcomes[i] = run.outcomes[i]
      /\ run'.outcomes[Len(run.outcomes) + 1] = o
  <2>1. DOMAIN run.outcomes = 1 .. Len(run.outcomes) /\ Len(run.outcomes) \in Nat
    BY <1>1, SequenceIs
  <2> QED
    BY <1>1, <2>1, AppendedIsLast
<1> SUFFICES ASSUME NEW i \in DOMAIN run'.outcomes PROVE OutcomeIsTrue(i)'
  OBVIOUS
<1>3. CASE i \in DOMAIN run.outcomes
  BY <1>2, <1>3 DEF OutcomeIsTrue
<1>4. CASE i \notin DOMAIN run.outcomes
  <2>1. i = run.m
    BY <1>1, <1>2, <1>4
  <2>2. run'.outcomes[i] = o
    BY <1>1, <1>2, <2>1
  <2> QED
    BY <2>1, <2>2 DEF OutcomeIsTrue, Mutation
<1> QED
  BY <1>3, <1>4

\* Each outcome of the suite is what the mutated models deserve.
LEMMA OutcomesStep ==
  ASSUME IInv, [Next]_vars
  PROVE  OutcomesAreTrue'
<1>1. run \in Run
  BY DEF IInv, TypeOK
<1> USE DEF Over, Unmapped, InSuite, Planted
<1>2. CASE Begin
  BY <1>2, Beginnings DEF OutcomesAreTrue
<1>3. CASE End
  BY <1>3, Endings DEF OutcomesAreTrue, Trustworthy, Undisturbed
<1>4. CASE Outside
  BY <1>4, OutsideKeepsOut
  DEF IInv, OutcomesAreTrue, OutcomeIsTrue, Trustworthy, Undisturbed, Proved, Said, Mutation
<1>5. CASE Work
  <2> SUFFICES ASSUME Trustworthy', run'.at \in InSuite
               PROVE  /\ run'.netlist # Absent
                      /\ \A i \in DOMAIN run'.outcomes : OutcomeIsTrue(i)'
                      /\ /\ run'.at \in {"equivalence asked", "planted for simulation"}
                         /\ run'.equivalence = "failed"
                         => ("equivalence" \in sight[Mutation])'
    BY DEF OutcomesAreTrue
  <2>1. run.at \in {"suite"} \cup InSuite
    BY <1>1, <1>5
    DEF Work, WriteArtefacts, Synthesize, CheckEquivalence, CheckSimulation, SkipSuite, StartSuite,
        SkipMutation, PlantForEquivalence, MutatedEquivalence, PlantForSimulation,
        MutatedSimulation, EndSuite, CheckInfrastructure, SkipProperties, SbyMissing,
        RunProperties, Mutating, Records, Run
  <2>2. Trustworthy /\ UNCHANGED <<timing, tools, uses, sight, run.src, generated>>
    BY <1>5, <2>1, TrustIsKept DEF IInv
  <2>3. /\ mapped = run.src /\ generated = run.src /\ run.src \in Version /\ mapped # Absent
        /\ run.at \in Planted => cells = Mutation
    BY <2>1, <2>2, TrustworthyFiles DEF IInv
  <2>4. run.at \in InSuite =>
          /\ run.netlist # Absent
          /\ \A i \in DOMAIN run.outcomes : OutcomeIsTrue(i)
          /\ run.at \in {"equivalence asked", "planted for simulation"} /\ run.equivalence = "failed" =>
               "equivalence" \in sight[Mutation]
    BY <2>2 DEF IInv, OutcomesAreTrue
  <2>5. run.at \in InSuite =>
          /\ tools = {"yosys", "iverilog"} /\ Len(run.outcomes) = run.m - 1
          /\ run.at # "mutating" => Applicable(Mutation)
    BY DEF IInv, SuiteIsAt
  <2>6. UNCHANGED run.outcomes => \A i \in DOMAIN run.outcomes : OutcomeIsTrue(i) => OutcomeIsTrue(i)'
    BY <2>2 DEF OutcomeIsTrue
  <2>7. CASE StartSuite
    <3>1. run.outcomes = <<>>
      BY <2>7 DEF StartSuite, IInv, SuiteIsAt, BeforeSuite
    <3>2. run'.outcomes = <<>> /\ run'.netlist = mapped /\ run'.at = "mutating"
      BY <1>1, <2>7, <3>1 DEF StartSuite, Run
    <3>3. DOMAIN run'.outcomes = {}
      BY <3>2
    <3> QED
      BY <2>3, <3>2, <3>3
  <2>8. CASE SkipMutation
    <3>1. /\ run'.at = "mutating" /\ run'.netlist = run.netlist /\ run.at = "mutating"
          /\ run'.outcomes = Append(run.outcomes, [applicable |-> FALSE, equivalence |-> "not run",
                                                   simulation |-> "not run"])
      BY <1>1, <2>8 DEF SkipMutation, Mutating, Run
    <3>2. Targets[Mutation] \cap uses = {}
      BY <2>8 DEF SkipMutation, Applicable
    <3>3. \A i \in DOMAIN run'.outcomes : OutcomeIsTrue(i)'
      BY <1>1, <2>2, <2>4, <2>5, <3>1, <3>2, OutcomeAppended
    <3> QED
      BY <2>4, <3>1, <3>3
  <2>9. CASE PlantForEquivalence \/ PlantForSimulation
    <3>1. /\ UNCHANGED <<run.outcomes, run.netlist, run.m, run.equivalence>>
          /\ \/ run'.at = "planted for equivalence" /\ run.at = "mutating"
             \/ run'.at = "planted for simulation" /\ run.at = "equivalence asked"
      BY <1>1, <2>9 DEF PlantForEquivalence, PlantForSimulation, Plants, Mutating, Run
    <3> QED
      BY <2>2, <2>4, <2>6, <3>1 DEF Mutation
  <2>10. CASE MutatedEquivalence
    <3>1. PICK crashes \in BOOLEAN :
           /\ run' = [run EXCEPT !.at = "equivalence asked", !.original = "good",
                                 !.equivalence = EquivalenceStatus(crashes)]
           /\ flaky' = (flaky \/ crashes)
      BY <2>10 DEF MutatedEquivalence
    <3>2. crashes = FALSE
      BY <3>1 DEF Trustworthy
    <3>3. /\ UNCHANGED <<run.outcomes, run.netlist, run.m>>
          /\ run'.equivalence = EquivalenceStatus(FALSE)
      BY <1>1, <3>1, <3>2 DEF Run
    <3>4. run.at = "planted for equivalence"
      BY <2>10 DEF MutatedEquivalence
    <3>5. run'.equivalence = "failed" => "equivalence" \in sight[Mutation]
      BY <2>3, <2>5, <3>3, <3>4, FailureIsSight
    <3> QED
      BY <2>2, <2>4, <2>6, <3>3, <3>4, <3>5 DEF Mutation
  <2>11. CASE MutatedSimulation
    <3>1. PICK crashes \in BOOLEAN :
           /\ \E status \in SimulationOutcome(crashes) :
                run' = [run EXCEPT !.at = "mutating", !.m = @ + 1, !.original = "good",
                                   !.equivalence = "not run",
                      !.outcomes = Append(@, [applicable |-> TRUE,
                        equivalence |-> run.equivalence, simulation |-> status])]
           /\ flaky' = (flaky \/ crashes)
      BY <2>11 DEF MutatedSimulation
    <3>2. crashes = FALSE
      BY <3>1 DEF Trustworthy
    <3>3. PICK status \in SimulationOutcome(FALSE) :
                run' = [run EXCEPT !.at = "mutating", !.m = @ + 1, !.original = "good",
                                   !.equivalence = "not run",
                      !.outcomes = Append(@, [applicable |-> TRUE,
                        equivalence |-> run.equivalence, simulation |-> status])]
      BY <3>1, <3>2
    <3>4. /\ run'.at = "mutating" /\ run'.netlist = run.netlist
          /\ run'.outcomes = Append(run.outcomes, [applicable |-> TRUE,
                        equivalence |-> run.equivalence, simulation |-> status])
      BY <1>1, <3>3 DEF Run
    <3>5. run.at = "planted for simulation"
      BY <2>11 DEF MutatedSimulation
    <3>6. status = "failed" => "simulation" \in sight[Mutation]
      BY <2>3, <2>5, <3>3, <3>5, FailureIsSight
    <3>7. Targets[Mutation] \cap uses # {}
      BY <2>4, <2>5, <3>5 DEF Applicable
    <3>8. \A i \in DOMAIN run'.outcomes : OutcomeIsTrue(i)'
      BY <1>1, <2>2, <2>4, <2>5, <3>4, <3>5, <3>6, <3>7, OutcomeAppended
    <3> QED
      BY <2>4, <3>4, <3>5, <3>8
  <2>12. CASE run.at \in {"suite"} \cup InSuite /\ run'.at \notin InSuite
    BY <2>12
  <2>13. SkipSuite \/ EndSuite => run'.at = "infra"
    BY <1>1 DEF SkipSuite, EndSuite, Records, Run
  <2> QED
    BY <1>5, <2>1, <2>7, <2>8, <2>9, <2>10, <2>11, <2>12, <2>13
    DEF Work, WriteArtefacts, Synthesize, CheckEquivalence, CheckSimulation,
        CheckInfrastructure, SkipProperties, SbyMissing, RunProperties
<1> QED
  BY <1>2, <1>3, <1>4, <1>5, Steps

\* A suite that passes is about every mutation the netlist could have: each has
\* its outcome, and no outcome is "undetected".
LEMMA PassedSuiteIsSensitive ==
  ASSUME TypeOK, SuiteIsAt, Trustworthy, OutcomesAreTrue, run.at = "mutating",
         run.m \notin DOMAIN Suite, MutationStatus(run.outcomes) = "passed"
  PROVE  Sensitive
<1> DEFINE outcomes == run.outcomes
<1>1. outcomes \in Seq(Outcome) /\ run.m \in Nat /\ DOMAIN sight = {Suite[i] : i \in DOMAIN Suite}
  BY DEF TypeOK, Run
<1>2. DOMAIN outcomes = DOMAIN Suite
  <2>1. DOMAIN outcomes = 1 .. Len(outcomes)
    BY <1>1, SequenceIs
  <2>2. run.m \in 1 .. Len(Suite) + 1 /\ Len(outcomes) = run.m - 1
    BY DEF SuiteIsAt, InSuite
  <2>3. run.m = Len(Suite) + 1
    BY <2>2, SuiteIsASequence
  <2> QED
    BY <2>1, <2>2, <2>3, SuiteIsASequence
<1>3. \A i \in DOMAIN outcomes : OutcomeIsTrue(i)
  BY DEF OutcomesAreTrue, InSuite
<1>4. Undetected(outcomes) = {} /\ SimulationWasExercised(outcomes)
  BY DEF MutationStatus
<1>5. ASSUME NEW m \in Relevant
      PROVE  \E i \in DOMAIN outcomes : m = Suite[i] /\ outcomes[i] \in AppliedOutcomes(outcomes)
  BY <1>1, <1>2, <1>3, <1>5 DEF Relevant, OutcomeIsTrue, AppliedOutcomes
<1>6. ASSUME NEW m \in Relevant
      PROVE  "equivalence" \in sight[m]
  <2>1. PICK i \in DOMAIN outcomes : m = Suite[i] /\ outcomes[i] \in AppliedOutcomes(outcomes)
    BY <1>5, <1>6
  <2>2. outcomes[i].equivalence = "failed" /\ outcomes[i].applicable
    BY <1>4, <2>1 DEF Undetected, IsDetected, IsEquivalenceOnly, AppliedOutcomes
  <2> QED
    BY <1>3, <2>1, <2>2 DEF OutcomeIsTrue
<1>7. ASSUME Relevant # {}
      PROVE  \E m \in Relevant : "simulation" \in sight[m]
  <2>1. PICK o \in AppliedOutcomes(outcomes) : IsDetected(o)
    BY <1>4, <1>5, <1>7 DEF SimulationWasExercised
  <2>2. PICK i \in DOMAIN outcomes : outcomes[i] = o
    BY <2>1 DEF AppliedOutcomes
  <2>3. /\ Suite[i] \in DOMAIN sight /\ Targets[Suite[i]] \cap uses # {}
        /\ "simulation" \in sight[Suite[i]]
    BY <1>1, <1>2, <1>3, <2>1, <2>2 DEF AppliedOutcomes, IsDetected, OutcomeIsTrue
  <2> QED
    BY <2>3 DEF Relevant
<1> QED
  BY <1>6, <1>7 DEF Sensitive

\* The check that sums up the suite passes only when every outcome is a catch.
LEMMA SuiteIsTrueStep ==
  ASSUME IInv, [Next]_vars
  PROVE  SuiteIsTrue'
<1>1. run \in Run
  BY DEF IInv, TypeOK
<1>2. CASE Begin
  BY <1>2, Beginnings
  DEF SuiteIsTrue, Trustworthy, Undisturbed, AfterSuite
<1>3. CASE End
  BY <1>3, Endings DEF SuiteIsTrue, Trustworthy, Undisturbed
<1>4. CASE Outside
  BY <1>4, OutsideKeepsOut
  DEF IInv, SuiteIsTrue, Trustworthy, Undisturbed, Proved, Said, Sensitive, Relevant
<1>5. CASE Work
  <2> SUFFICES ASSUME Trustworthy', run'.at \in AfterSuite, Said(3, "passed")'
               PROVE  Sensitive'
    BY DEF SuiteIsTrue
  <2>1. /\ Alive /\ UNCHANGED <<timing, run.only, shared>>
    BY <1>1, <1>5, WorkIsOfOneRun
  <2>2. Undisturbed
    BY <2>1 DEF Trustworthy, Undisturbed, Alone
  <2>3. \/ run.at \in AfterSuite
        \/ SkipSuite
        \/ EndSuite
    BY <1>1, <1>5, <2>2
    DEF Work, WriteArtefacts, Synthesize, CheckEquivalence, CheckSimulation, StartSuite, Undisturbed,
        SkipMutation, PlantForEquivalence, MutatedEquivalence, PlantForSimulation,
        MutatedSimulation, CheckInfrastructure, SkipProperties, SbyMissing, IInv,
        ArtefactsAreAsync, RunProperties, Mutating, Plants, Records, Run, AfterSuite
  <2>4. run.at \notin Unmapped
    BY <2>3 DEF SkipSuite, EndSuite, AfterSuite, Unmapped
  <2>5. Trustworthy /\ UNCHANGED <<timing, tools, uses, sight, run.src, generated>>
    BY <1>5, <2>4, TrustIsKept DEF IInv
  <2>6. Sensitive <=> Sensitive'
    BY <2>5 DEF Sensitive, Relevant
  <2>7. CASE run.at \in AfterSuite
    <3>1. Said(3, "passed")
      BY <1>1, <1>5, <2>2, <2>7, ChecksGrow DEF Said, IInv, ChecksAreInOrder
    <3> QED
      BY <2>5, <2>6, <2>7, <3>1 DEF IInv, SuiteIsTrue
  <2>8. CASE SkipSuite \/ EndSuite
    <3>4. Len(run.checks) = 2
      BY <2>2, <2>8 DEF SkipSuite, EndSuite, IInv, ChecksAreInOrder, InSuite
    <3>1. Len(run.checks) + 1 = 3
      BY <3>4
    <3>2. CASE SkipSuite
      <4>1. run'.checks = Append(run.checks, Check("mutation", "mutation", "not run"))
        BY <1>1, <3>2 DEF SkipSuite, Records, Run
      <4>2. Grows(Check("mutation", "mutation", "not run"))
        BY <1>1, <4>1, AppendingGrows
      <4>3. run'.checks[3] = Check("mutation", "mutation", "not run")
        BY <3>1, <4>2 DEF Grows
      <4>4. run'.checks[3].status = "not run"
        <5>1. Check("mutation", "mutation", "not run").status = "not run"
          BY CheckFields
        <5> QED
          BY <4>3, <5>1
      <4> QED
        BY <4>4 DEF Said
    <3>3. CASE EndSuite
      <4>1. run'.checks = Append(run.checks,
                                 Check("mutation", "mutation", MutationStatus(run.outcomes)))
        BY <1>1, <3>3 DEF EndSuite, Run
      <4>2. Grows(Check("mutation", "mutation", MutationStatus(run.outcomes)))
        BY <1>1, <4>1, AppendingGrows
      <4>5. run'.checks[Len(run.checks) + 1] =
              Check("mutation", "mutation", MutationStatus(run.outcomes))
        BY <4>2 DEF Grows
      <4>3. run'.checks[3] = Check("mutation", "mutation", MutationStatus(run.outcomes))
        BY <3>1, <4>5
      <4>4. MutationStatus(run.outcomes) = "passed"
        BY <4>3, CheckFields DEF Said
      <4> QED
        BY <2>5, <2>6, <3>3, <4>4, PassedSuiteIsSensitive DEF EndSuite, IInv
    <3> QED
      BY <2>8, <3>2, <3>3
  <2> QED
    BY <2>3, <2>7, <2>8
<1> QED
  BY <1>2, <1>3, <1>4, <1>5, Steps

-----------------------------------------------------------------------------
(* The theorems *)

\* The invariant holds before the first run.
LEMMA InitInv == Init => IInv
<1> SUFFICES ASSUME Init PROVE IInv
  OBVIOUS
<1>1. ~Alive /\ run.at = "new" /\ ~shared
  BY DEF Init, NewRun, Alive, Over
<1> QED
  BY <1>1, TypeInit
  DEF IInv, NobodyBeside, GeneratedIsOwn, ModelRestored, OriginalIsGood, ChecksAreInOrder, Undisturbed,
      ArtefactsAreAsync, AsyncChecks, ProvedIsMapped, SuiteIsAt, OutcomesAreTrue, SuiteIsTrue,
      Trustworthy, BeforeSuite, Unmapped, InSuite, Planted, AfterSuite

\* Every step keeps the inductive invariant.
LEMMA InvStep ==
  ASSUME IInv, [Next]_vars
  PROVE  IInv'
<1> USE DEF IInv
<1>1. TypeOK' /\ NobodyBeside' /\ GeneratedIsOwn'
  BY TypeStep, NobodyBesideStep, GeneratedIsOwnStep
<1>2. ModelRestored' /\ OriginalIsGood'
  BY CellsStep
<1>3. ChecksAreInOrder' /\ ArtefactsAreAsync' /\ AsyncChecks' /\ ProvedIsMapped'
  BY ChecksStep, AsyncChecksStep, ProvedStep
<1>4. SuiteIsAt' /\ OutcomesAreTrue' /\ SuiteIsTrue'
  BY SuiteIsAtStep, OutcomesStep, SuiteIsTrueStep
<1> QED
  BY <1>1, <1>2, <1>3, <1>4

\* The invariant holds of every run of verify, with any suite of mutations.
LEMMA Invariance == Spec => []IInv
<1>1. IInv /\ [Next]_vars => IInv'
  BY InvStep
<1> QED
  BY InitInv, <1>1, PTL DEF Spec

\* Every variable of Verification keeps its type.
THEOREM TypeCorrect == Spec => []TypeOK
<1>1. IInv => TypeOK
  BY DEF IInv
<1> QED
  BY <1>1, Invariance, PTL

\* Whichever way its tools end, a run that is alone reads the mutated cell models
\* only while it asks about the mutation (run_equivalence and run_simulation of
\* _mutation).
THEOREM ModelAlwaysRestored == Spec => []ModelRestored
<1>1. IInv => ModelRestored
  BY DEF IInv
<1> QED
  BY <1>1, Invariance, PTL

\* What an overall "passed" says of the single checks.
LEMMA PassedChecks ==
  ASSUME NEW checks, Overall(checks) = "passed",
         \A i \in DOMAIN checks : checks[i].kind \in AnyKind
  PROVE  /\ \A i \in DOMAIN checks : checks[i].status \notin {"failed", "not run"}
         /\ HasBehaviouralEvidence(checks)
  BY DEF Overall, StatusIn

\* A step that reports a pass has a list of checks that amount to one.
LEMMA ReportStep ==
  ASSUME TypeOK, [Next]_vars, ReportsPass
  PROVE  /\ Overall(run.checks) = "passed"
         /\ \A i \in DOMAIN run.checks : /\ run.checks[i].kind \in AnyKind
                                         /\ run.checks[i].status \in Status
<1>1. run \in Run
  BY DEF TypeOK
<1>2. run.at = "manifest" /\ run'.at = "done" /\ run'.overall = "passed"
  BY DEF ReportsPass, Reports
<1>3. ~Begin
  BY <1>2
  DEF Begin, Start, StartPropertiesOnly, Refuse, StartAsync, Begins, Alive, Over
<1>4. ~Work
  BY <1>1, <1>2, WorkIsOfOneRun DEF Alive, Over
<1>5. ~Outside
  BY <1>2 DEF Outside, Edit, EstimateStarts, EstimateMaps, vars
<1>6. ~Kill
  BY <1>2 DEF Kill, NewRun
<1>7. WriteManifest
  BY <1>3, <1>4, <1>5, <1>6, Steps DEF End
<1>8. Overall(run.checks) = "passed"
  BY <1>2, <1>7 DEF WriteManifest, NewRun
<1>9. \A i \in DOMAIN run.checks : run.checks[i] \in CheckRecord
  BY <1>1 DEF Run
<1> QED
  BY <1>8, <1>9 DEF CheckRecord

\* "passed", of a run that was alone, is about the netlist of the design that the
\* run compiled (run_verify, _manifest).
THEOREM PassedAlwaysEarned == Spec => PassedIsEarned
<1>1. ASSUME IInv, [Next]_vars, ReportsPass, Alone, ~run.only
      PROVE  mapped = run.src
  <2>1. /\ run.at = "manifest" /\ Alive /\ run \in Run
        /\ timing \in {"synchronous", "asynchronous"}
    BY <1>1 DEF IInv, TypeOK, ReportsPass, Reports, Alive, Over
  <2>2. /\ \A i \in DOMAIN run.checks : run.checks[i].status \in Status
        /\ \A i \in DOMAIN run.checks : run.checks[i].status \notin {"failed", "not run"}
        /\ HasBehaviouralEvidence(run.checks)
    BY <1>1, ReportStep, PassedChecks DEF IInv
  <2>3. CASE timing = "synchronous"
    <3>1. Undisturbed
      BY <1>1, <2>1, <2>3 DEF Undisturbed
    <3>2. Proved
      BY <2>1, <2>2, <3>1, <1>1 DEF IInv, ChecksAreInOrder, Proved, Said, Unmapped
    <3> QED
      BY <1>1, <2>1, <3>1, <3>2 DEF IInv, ProvedIsMapped, Unmapped
  <2>4. CASE timing = "asynchronous"
    <3>1. /\ Len(run.checks) = 4
          /\ run.checks[1].status = "not applicable"
          /\ run.checks[2].kind = "simulation"
          /\ \A i \in {3, 4} : run.checks[i].kind = "hazard" /\ run.checks[i].status # "not applicable"
          /\ \A i \in 1 .. 4 : run.checks[i].status # "bounded pass"
          /\ HazardPassed(run.checks) => mapped = run.src
      BY <1>1, <2>1, <2>4 DEF IInv, AsyncChecks
    <3>2. DOMAIN run.checks = {1, 2, 3, 4} /\ 1 .. 4 = {1, 2, 3, 4} /\ 2 .. 4 = {2, 3, 4}
      <4>1. run.checks \in Seq(CheckRecord)
        BY <2>1 DEF Run
      <4>2. DOMAIN run.checks = 1 .. 4
        BY <3>1, <4>1, SequenceIs
      <4>3. 1 .. 4 = {1, 2, 3, 4} /\ 2 .. 4 = {2, 3, 4}
        OBVIOUS
      <4> QED
        BY <4>2, <4>3
    <3>3. run.checks[3].status = "passed" /\ run.checks[4].status = "passed"
      BY <2>2, <3>1, <3>2 DEF Status
    <3>4. run.checks[2].status = "passed"
      BY <2>2, <3>1, <3>2 DEF HasBehaviouralEvidence, StatusIn
    <3>5. HazardPassed(run.checks)
      BY <3>1, <3>2, <3>3, <3>4 DEF HazardPassed
    <3> QED
      BY <3>1, <3>5
  <2> QED
    BY <2>1, <2>3, <2>4
<1>2. IInv /\ [Next]_vars => [ReportsPass /\ Alone /\ ~run.only => mapped = run.src]_vars
  BY <1>1
<1> QED
  BY <1>2, Invariance, PTL DEF Spec, PassedIsEarned

\* "passed", of a run that was alone and whose tools did not crash, comes from
\* checks that tell the mutations (run_mutation_suite).
THEOREM PassedAlwaysSensitive == Spec => PassedIsSensitive
<1> DEFINE Told == LET relevant == {m \in DOMAIN sight : Targets[m] \cap uses # {}}
                   IN /\ \A m \in relevant : "equivalence" \in sight[m]
                      /\ relevant # {} => \E m \in relevant : "simulation" \in sight[m]
<1>1. ASSUME IInv, [Next]_vars, ReportsPass, Alone, ~flaky, ~run.only, timing = "synchronous"
      PROVE  Told
  <2>1. run.at = "manifest" /\ Undisturbed
    BY <1>1 DEF ReportsPass, Reports, Undisturbed, Alive, Over
  <2>2. \A i \in DOMAIN run.checks : run.checks[i].status \notin {"failed", "not run"}
    BY <1>1, ReportStep, PassedChecks DEF IInv
  <2>3. Proved /\ Said(3, "passed")
    BY <1>1, <2>1, <2>2 DEF IInv, ChecksAreInOrder, Proved, Said, Unmapped, AfterSuite
  <2>4. Sensitive
    BY <1>1, <2>1, <2>3 DEF IInv, SuiteIsTrue, Trustworthy, AfterSuite
  <2> QED
    BY <2>4 DEF Sensitive, Relevant
<1>2. IInv /\ [Next]_vars =>
        [ReportsPass /\ Alone /\ ~flaky /\ ~run.only /\ timing = "synchronous" => Told]_vars
  BY <1>1
<1> QED
  BY <1>2, Invariance, PTL DEF Spec, PassedIsSensitive
=============================================================================
