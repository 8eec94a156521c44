------------------------- MODULE BuildOutputs_proofs -------------------------
(* What the output directory keeps, for any number of builds and edits.     *)
EXTENDS BuildOutputs, TLAPS

-----------------------------------------------------------------------------
(* The inductive invariant. *)

\* The types, with what a build that runs and an export that copies have ahead.
Ahead ==
  /\ \A b \in Builds :
       /\ build[b].at = "pipeline" => build[b].src \in Nat
       /\ build[b].at \in {"new", "synthesis", "pipeline"} => build[b].n = 0
       /\ build[b].at = "writing" => build[b].n < 5
  /\ export.at = "none" => export.copied = <<>>
  /\ export.at = "copying" => Len(export.copied) < 3

TypeInv == TypeOK /\ Ahead

\* Who has met another has started.  Builds that are at work at once have met,
\* and have met the same.
Acquainted ==
  /\ \A b \in Builds : \A c \in company[b] : build[c].at # "new"
  /\ \A b \in Builds : build[b].at = "new" => company[b] = {} /\ yosys[b].at = "none"
  /\ \A b, c \in Builds : b # c /\ AtWork(b) /\ AtWork(c) =>
       c \in company[b] /\ company[c] \subseteq company[b] \cup {b}

\* The designs that may have reached a build.
Near(b) == {build[c].src : c \in {b} \cup company[b]}

\* What a build is about to read, what its yosys has read, and what it will load
\* are of designs near it.
NearFiles ==
  \A b \in Builds :
    /\ YosysAlive(b) => generated \in Near(b)
    /\ yosys[b].at = "mapping" => yosys[b].src \in Near(b)
    /\ build[b].at = "synthesis" /\ yosys[b].at = "exited" => mapped \in Near(b)

\* While a build writes, the outputs may be torn, and those it has written are
\* its own if it is alone.
OwnOutputs ==
  \A b \in Builds : build[b].at = "writing" =>
    /\ torn
    /\ Alone(b) => \A i \in DOMAIN Written :
                       i <= build[b].n => outputs[Written[i]] = build[b].netlist

IInv ==
  /\ TypeInv
  /\ Acquainted
  /\ NearFiles
  /\ OwnOutputs
  /\ PackedIsOfTheCompany
  /\ OutputsAgree

-----------------------------------------------------------------------------
(* Types. *)

\* The files' names.
LEMMA Names ==
  /\ Len(Written) = 5 /\ DOMAIN Written = 1 .. 5
  /\ Len(Handed) = 3 /\ DOMAIN Handed = 1 .. 3
  /\ \A i \in 1 .. 5 : Written[i] \in Outputs
  /\ \A i \in 1 .. 3 : Handed[i] \in Outputs
  /\ \A f \in Outputs : \E i \in 1 .. 5 : f = Written[i]
  /\ \A i, j \in 1 .. 5 : Written[i] = Written[j] => i = j
  /\ "bom" \in Outputs
BY DEF Written, Handed, Outputs

\* Nothing is there at first.
LEMMA InitTypes ==
  ASSUME Init
  PROVE  TypeInv
<1>1. export \in Export
  BY DEF Init, Export
<1>2. build \in [Builds -> CoreProcess] /\ yosys \in [Builds -> YosysProcess]
  BY DEF Init, CoreProcess, YosysProcess, Version
<1>3. Ahead
  BY DEF Init, Ahead
<1>4. PICK earlier \in {Absent, 0} :
        /\ generated = earlier /\ mapped = earlier /\ newer = (earlier # Absent)
        /\ outputs = [f \in Outputs |-> earlier]
  BY DEF Init
<1>5. /\ generated \in Version /\ mapped \in Version /\ newer \in BOOLEAN
      /\ outputs \in [Outputs -> Version]
  BY <1>4 DEF Version
<1>6. design \in Nat /\ company \in [Builds -> SUBSET Builds] /\ torn \in BOOLEAN
  BY DEF Init
<1>7. TypeOK
  BY <1>1, <1>2, <1>5, <1>6 DEF TypeOK
<1> QED
  BY <1>3, <1>7 DEF TypeInv

\* The steps of a core keep the types.
LEMMA CoreTypes ==
  ASSUME TypeInv, NEW b \in Builds, CoreStep(b)
  PROVE  TypeInv'
<1>1. /\ build \in [Builds -> CoreProcess] /\ yosys \in [Builds -> YosysProcess]
      /\ design \in Nat /\ design \in Version /\ mapped \in Version /\ export \in Export
      /\ outputs \in [Outputs -> Version] /\ generated \in Version /\ newer \in BOOLEAN
      /\ company \in [Builds -> SUBSET Builds] /\ torn \in BOOLEAN
      /\ build[b].src \in Version /\ build[b].netlist \in Version /\ build[b].n \in 0 .. 5
  BY DEF TypeInv, TypeOK, Version, CoreProcess
<1>2. Ahead
  BY DEF TypeInv
<1>3. CASE StartsSynthesis(b) \/ StartsPipeline(b) \/ Refuses(b)
  <2>1. company' \in [Builds -> SUBSET Builds]
    BY <1>1, <1>3 DEF StartsSynthesis, StartsPipeline, Refuses, Starts, Joins
  <2>2. build' \in [Builds -> CoreProcess]
    BY <1>1, <1>3 DEF StartsSynthesis, StartsPipeline, Refuses, CoreProcess
  <2>3. yosys' \in [Builds -> YosysProcess]
    BY <1>1, <1>3 DEF StartsSynthesis, StartsPipeline, Refuses, YosysProcess
  <2>4. /\ design' \in Nat /\ generated' \in Version /\ mapped' \in Version
        /\ newer' \in BOOLEAN /\ outputs' \in [Outputs -> Version] /\ export' \in Export
        /\ torn' \in BOOLEAN
    BY <1>1, <1>3 DEF StartsSynthesis, StartsPipeline, Refuses, files
  <2>5. /\ build[b].at = "new" /\ build'[b].n = build[b].n /\ build'[b].src = design
        /\ build'[b].at \notin {"writing", "new"}
        /\ \A c \in Builds \ {b} : build'[c] = build[c]
    BY <1>1, <1>3 DEF StartsSynthesis, StartsPipeline, Refuses, Starts, CoreProcess
  <2>6. Ahead'
    <3>1. export' = export
      BY <1>3 DEF StartsSynthesis, StartsPipeline, Refuses
    <3>2. build[b].n = 0
      BY <1>2, <2>5 DEF Ahead
    <3> QED
      BY <1>1, <1>2, <2>5, <3>1, <3>2 DEF Ahead
  <2> QED
    BY <2>1, <2>2, <2>3, <2>4, <2>6 DEF TypeInv, TypeOK
<1>4. CASE LoadsNetlist(b) \/ PassesHazards(b)
  <2>1. build' \in [Builds -> CoreProcess]
    BY <1>1, <1>4 DEF LoadsNetlist, PassesHazards, CoreProcess
  <2>2. /\ design' \in Nat /\ generated' \in Version /\ mapped' \in Version
        /\ newer' \in BOOLEAN /\ outputs' \in [Outputs -> Version] /\ export' \in Export
        /\ torn' \in BOOLEAN /\ company' \in [Builds -> SUBSET Builds]
        /\ yosys' \in [Builds -> YosysProcess]
    BY <1>1, <1>4 DEF LoadsNetlist, PassesHazards, WritesMapped, files
  <2>3. Ahead'
    BY <1>1, <1>2, <1>4 DEF LoadsNetlist, PassesHazards, Ahead, CoreProcess
  <2> QED
    BY <2>1, <2>2, <2>3 DEF TypeInv, TypeOK
<1>5. CASE Fails(b) \/ FailsAssembled(b) \/ TimesOut(b)
  <2>1. build' \in [Builds -> CoreProcess]
    <3>1. build' = [build EXCEPT ![b].at = "failed"]
      BY <1>5 DEF Fails, FailsAssembled, TimesOut
    <3> QED
      BY <1>1, <3>1 DEF CoreProcess
  <2>2. yosys' \in [Builds -> YosysProcess]
    BY <1>1, <1>5 DEF Fails, FailsAssembled, TimesOut, YosysProcess
  <2>3. /\ design' \in Nat /\ generated' \in Version /\ mapped' \in Version
        /\ newer' \in BOOLEAN /\ outputs' \in [Outputs -> Version] /\ export' \in Export
        /\ torn' \in BOOLEAN /\ company' \in [Builds -> SUBSET Builds]
    BY <1>1, <1>5 DEF Fails, FailsAssembled, TimesOut, WritesMapped, files, history
  <2>4. Ahead'
    BY <1>1, <1>2, <1>5 DEF Fails, FailsAssembled, TimesOut, Ahead, CoreProcess
  <2> QED
    BY <2>1, <2>2, <2>3, <2>4 DEF TypeInv, TypeOK
<1>6. CASE WritesOutput(b)
  <2>1. build[b].n + 1 \in 0 .. 5
    BY <1>1, <1>2, <1>6 DEF WritesOutput, Ahead
  <2>2. build' \in [Builds -> CoreProcess]
    <3>1. PICK at \in {"done", "writing"} :
            build' = [build EXCEPT ![b].n = build[b].n + 1, ![b].at = at]
      BY <1>6 DEF WritesOutput
    <3>2. [build[b] EXCEPT !.n = build[b].n + 1, !.at = at] \in CoreProcess
      <4>1. build[b] \in CoreProcess
        BY <1>1
      <4>2. CASE at = "done"
        BY <2>1, <4>1, <4>2 DEF CoreProcess
      <4>3. CASE at = "writing"
        BY <2>1, <4>1, <4>3 DEF CoreProcess
      <4> QED
        BY <4>2, <4>3
    <3>3. build' = [build EXCEPT ![b] = [build[b] EXCEPT !.n = build[b].n + 1, !.at = at]]
      BY <1>1, <3>1
    <3> QED
      BY <1>1, <3>2, <3>3
  <2>3. /\ design' \in Nat /\ generated' \in Version /\ mapped' \in Version
        /\ newer' \in BOOLEAN /\ outputs' \in [Outputs -> Version] /\ export' \in Export
        /\ torn' \in BOOLEAN /\ company' \in [Builds -> SUBSET Builds]
        /\ yosys' \in [Builds -> YosysProcess]
    BY <1>1, <1>6 DEF WritesOutput, Content
  <2>4. Ahead'
    BY <1>1, <1>2, <1>6, <2>1, Names DEF WritesOutput, Ahead, CoreProcess
  <2> QED
    BY <2>2, <2>3, <2>4 DEF TypeInv, TypeOK
<1> QED
  BY <1>3, <1>4, <1>5, <1>6 DEF CoreStep

\* So do the steps of yosys, of the user and of the application.
LEMMA OtherTypes ==
  ASSUME TypeInv, [Next]_vars, \A b \in Builds : ~CoreStep(b)
  PROVE  TypeInv'
<1>1. ASSUME NEW b \in Builds, YosysStep(b)
      PROVE  TypeInv'
  <2>1. yosys \in [Builds -> YosysProcess] /\ generated \in Version /\ mapped \in Version
    BY DEF TypeInv, TypeOK
  <2>2. yosys[b].src \in Version
    BY <2>1 DEF YosysProcess
  <2>3. yosys' \in [Builds -> YosysProcess]
    BY <1>1, <2>1 DEF YosysStep, YosysReads, YosysMaps, YosysFails, YosysProcess
  <2>4. mapped' \in Version /\ (newer' = newer \/ newer' = FALSE)
    BY <1>1, <2>1, <2>2 DEF YosysStep, YosysReads, YosysMaps, YosysFails, WritesMapped, files
  <2>5. UNCHANGED <<design, generated, outputs, build, export, company, torn>>
    BY <1>1 DEF YosysStep, YosysReads, YosysMaps, YosysFails, files, history
  <2> QED
    BY <2>3, <2>4, <2>5 DEF TypeInv, TypeOK, Ahead
<1>2. ASSUME NEW b \in Builds, Kill(b)
      PROVE  TypeInv'
  <2>1. build \in [Builds -> CoreProcess]
    BY DEF TypeInv, TypeOK
  <2>2. build' \in [Builds -> CoreProcess]
    BY <1>2, <2>1 DEF Kill, CoreProcess
  <2>3. \A c \in Builds : build'[c].at \in {"pipeline", "writing"} => build'[c] = build[c]
    BY <1>2, <2>1 DEF Kill, CoreProcess
  <2> QED
    BY <1>2, <2>2, <2>3 DEF Kill, files, history, TypeInv, TypeOK, Ahead
<1>3. CASE Edits
  BY <1>3 DEF Edits, TypeInv, TypeOK, Ahead, history
<1>4. CASE StartsExport \/ CopyFails
  <2>1. export \in Export
    BY DEF TypeInv, TypeOK
  <2>2. export' \in Export
    BY <1>4, <2>1 DEF StartsExport, CopyFails, Export
  <2>3. /\ export'.at \in {"copying", "refused"} /\ export'.copied = export.copied
        /\ export'.at = "copying" => export.at = "none"
    BY <1>4, <2>1 DEF StartsExport, CopyFails, Export
  <2> QED
    BY <1>4, <2>2, <2>3 DEF StartsExport, CopyFails, TypeInv, TypeOK, Ahead, files, history
<1>5. CASE Copies
  <2>1. export \in Export /\ outputs \in [Outputs -> Version]
    BY DEF TypeInv, TypeOK
  <2>2. export.copied \in Seq(Version) /\ Len(export.copied) + 1 \in 1 .. 3
    BY <1>5, <2>1 DEF Copies, Export, TypeInv, Ahead
  <2>3. outputs[Handed[Len(export.copied) + 1]] \in Version
    BY <2>1, <2>2, Names
  <2> DEFINE n == Len(export.copied) + 1
             next == Append(export.copied, outputs[Handed[n]])
  <2>4. next \in Seq(Version) /\ Len(next) = n
    BY <2>2, <2>3
  <2>5. export' = [export EXCEPT !.copied = next, !.at = IF n = 3 THEN "done" ELSE "copying"]
    BY <1>5, Names DEF Copies
  <2> HIDE DEF next
  <2>6. export' \in Export
    BY <2>1, <2>4, <2>5 DEF Export
  <2>7. export'.at # "none" /\ (export'.at = "copying" => Len(export'.copied) < 3)
    BY <2>1, <2>2, <2>4, <2>5 DEF Export
  <2> QED
    BY <1>5, <2>6, <2>7 DEF Copies, TypeInv, TypeOK, Ahead, files, history
<1>6. CASE UNCHANGED vars
  BY <1>6 DEF vars, files, history, TypeInv, TypeOK, Ahead
<1> QED
  BY <1>1, <1>2, <1>3, <1>4, <1>5, <1>6 DEF Next

\* Every step does.
LEMMA TypesKept ==
  ASSUME TypeInv, [Next]_vars
  PROVE  TypeInv'
BY CoreTypes, OtherTypes

-----------------------------------------------------------------------------
(* Who is at work, and who has met whom. *)

Begins(b) == StartsSynthesis(b) \/ StartsPipeline(b) \/ Refuses(b)

\* A step of the core or a kill changes the build that it is a step of.
LEMMA OthersStay ==
  ASSUME TypeInv, [Next]_vars
  PROVE  \A b \in Builds : CoreStep(b) \/ Kill(b) \/ build'[b] = build[b]
<1>1. build \in [Builds -> CoreProcess]
  BY DEF TypeInv, TypeOK
<1>2. ASSUME NEW c \in Builds, CoreStep(c) \/ Kill(c), NEW b \in Builds \ {c}
      PROVE  build'[b] = build[b]
  BY <1>1, <1>2 DEF CoreStep, StartsSynthesis, StartsPipeline, Refuses, LoadsNetlist,
     PassesHazards, Fails, FailsAssembled, TimesOut, WritesOutput, Kill
<1>3. ASSUME NEW c \in Builds, YosysStep(c)
      PROVE  build' = build
  BY <1>3 DEF YosysStep, YosysReads, YosysMaps, YosysFails
<1>4. CASE Edits \/ StartsExport \/ Copies \/ CopyFails \/ UNCHANGED vars
  BY <1>4 DEF Edits, StartsExport, Copies, CopyFails, vars
<1> QED
  BY <1>2, <1>3, <1>4 DEF Next

\* What a build compiled is settled when it begins, and no build is new again.
LEMMA SourcesStay ==
  ASSUME TypeInv, [Next]_vars, NEW b \in Builds
  PROVE  /\ build[b].at # "new" => build'[b].at # "new" /\ build'[b].src = build[b].src
         /\ Begins(b) => build'[b].at # "new" /\ build'[b].src = design
         /\ build'[b].at # "new" => build[b].at # "new" \/ Begins(b)
<1>1. build \in [Builds -> CoreProcess]
  BY DEF TypeInv, TypeOK
<1>2. CASE Begins(b)
  BY <1>1, <1>2 DEF Begins, StartsSynthesis, StartsPipeline, Refuses, Starts, CoreProcess
<1>3. CASE LoadsNetlist(b) \/ PassesHazards(b) \/ WritesOutput(b)
  <2>1. /\ build[b].at \in {"synthesis", "pipeline", "writing"}
        /\ build'[b].at # "new" /\ build'[b].src = build[b].src
    <3>1. CASE LoadsNetlist(b) \/ PassesHazards(b)
      BY <1>1, <3>1 DEF LoadsNetlist, PassesHazards, CoreProcess
    <3>2. CASE WritesOutput(b)
      BY <1>1, <3>2 DEF WritesOutput, CoreProcess
    <3> QED
      BY <1>3, <3>1, <3>2
  <2>2. ~Begins(b)
    BY <2>1 DEF Begins, StartsSynthesis, StartsPipeline, Refuses, Starts
  <2> QED
    BY <2>1, <2>2
<1>4. CASE Fails(b) \/ FailsAssembled(b) \/ TimesOut(b) \/ Kill(b)
  BY <1>1, <1>4 DEF Begins, StartsSynthesis, StartsPipeline, Refuses, Starts, Alive, Fails,
     FailsAssembled, TimesOut, Kill, CoreProcess
<1>5. CASE build'[b] = build[b]
  <2>1. ~Begins(b)
    BY <1>1, <1>5 DEF Begins, StartsSynthesis, StartsPipeline, Refuses, Starts, CoreProcess
  <2> QED
    BY <1>5, <2>1
<1> QED
  BY <1>2, <1>3, <1>4, <1>5, OthersStay DEF CoreStep, Begins

\* Only a build that begins meets others, or comes to work.
LEMMA Meetings ==
  ASSUME TypeInv, [Next]_vars
  PROVE  /\ company' = company \/ \E d \in Builds : Begins(d)
         /\ \A b \in Builds : AtWork(b)' => AtWork(b) \/ Begins(b)
         /\ \A b \in Builds : yosys'[b].at # "none" => yosys[b].at # "none" \/ Begins(b)
<1>1. build \in [Builds -> CoreProcess] /\ yosys \in [Builds -> YosysProcess]
  BY DEF TypeInv, TypeOK
<1> USE DEF AtWork, Alive, YosysAlive
<1>2. ASSUME NEW c \in Builds, Begins(c)
      PROVE  \A b \in Builds \ {c} : build'[b] = build[b] /\ yosys'[b] = yosys[b]
  BY <1>1, <1>2 DEF Begins, StartsSynthesis, StartsPipeline, Refuses
<1>3. ASSUME NEW c \in Builds, LoadsNetlist(c) \/ PassesHazards(c) \/ WritesOutput(c)
      PROVE  /\ company' = company /\ yosys' = yosys
             /\ \A b \in Builds : AtWork(b)' => AtWork(b)
  BY <1>1, <1>3 DEF LoadsNetlist, PassesHazards, WritesOutput, CoreProcess
<1>4. ASSUME NEW c \in Builds, Fails(c) \/ FailsAssembled(c) \/ TimesOut(c) \/ Kill(c)
      PROVE  /\ company' = company
             /\ \A b \in Builds : AtWork(b)' => AtWork(b)
             /\ \A b \in Builds : yosys'[b].at # "none" => yosys[b].at # "none"
  BY <1>1, <1>4 DEF Fails, FailsAssembled, TimesOut, Kill, history, CoreProcess, YosysProcess
<1>5. ASSUME NEW c \in Builds, YosysStep(c)
      PROVE  /\ company' = company
             /\ \A b \in Builds : AtWork(b)' => AtWork(b)
             /\ \A b \in Builds : yosys'[b].at # "none" => yosys[b].at # "none"
  BY <1>1, <1>5 DEF YosysStep, YosysReads, YosysMaps, YosysFails, history, YosysProcess
<1>6. CASE Edits \/ StartsExport \/ Copies \/ CopyFails \/ UNCHANGED vars
  BY <1>6 DEF Edits, StartsExport, Copies, CopyFails, vars, history
<1> QED
  BY <1>2, <1>3, <1>4, <1>5, <1>6 DEF Next, CoreStep, Begins

\* Meetings are not forgotten.
LEMMA CompanyGrows ==
  ASSUME TypeInv, Acquainted, [Next]_vars, NEW b \in Builds
  PROVE  company[b] \subseteq company'[b]
<1>1. company \in [Builds -> SUBSET Builds]
  BY DEF TypeInv, TypeOK
<1>2. ASSUME NEW d \in Builds, Begins(d)
      PROVE  company[b] \subseteq company'[b]
  <2>1. Joins(d) /\ company[d] = {}
    BY <1>2 DEF Begins, StartsSynthesis, StartsPipeline, Refuses, Starts, Acquainted
  <2> QED
    BY <1>1, <2>1 DEF Joins
<1> QED
  BY <1>2, Meetings

\* A build that begins meets those at work, and what they have met.
LEMMA AcquaintedKept ==
  ASSUME TypeInv, Acquainted, [Next]_vars
  PROVE  Acquainted'
<1>1. /\ build \in [Builds -> CoreProcess] /\ yosys \in [Builds -> YosysProcess]
      /\ company \in [Builds -> SUBSET Builds]
  BY DEF TypeInv, TypeOK
<1>2. \A b \in Builds : AtWork(b) => build[b].at # "new"
  BY DEF Acquainted, AtWork, Alive, YosysAlive
<1>3. ASSUME NEW d \in Builds, Begins(d)
      PROVE  /\ build[d].at = "new" /\ company[d] = {} /\ ~AtWork(d)
             /\ \A b \in Builds \ {d} : company'[b] =
                  IF AtWork(b) THEN company[b] \cup {d} ELSE company[b]
             /\ company'[d] = {c \in Builds \ {d} : AtWork(c)}
                                \cup UNION {company[e] : e \in {c \in Builds \ {d} : AtWork(c)}}
  <2>1. Starts(d)
    BY <1>3 DEF Begins, StartsSynthesis, StartsPipeline, Refuses
  <2> QED
    BY <1>1, <1>2, <2>1 DEF Starts, Joins, Acquainted
<1>4. ASSUME NEW b \in Builds, NEW c \in company'[b]
      PROVE  build'[c].at # "new"
  <2>1. CASE c \in company[b]
    BY <1>1, <2>1, SourcesStay DEF Acquainted
  <2>2. ASSUME NEW d \in Builds, Begins(d), c \notin company[b]
        PROVE  build'[c].at # "new"
    <3>1. CASE c = d
      BY <2>2, <3>1, SourcesStay
    <3>2. CASE c # d
      <4>1. b = d
        BY <1>3, <1>4, <2>2, <3>2
      <4>2. c \in Builds /\ build[c].at # "new"
        BY <1>1, <1>2, <1>3, <1>4, <2>2, <4>1 DEF Acquainted
      <4> QED
        BY <4>2, SourcesStay
    <3> QED
      BY <3>1, <3>2
  <2> QED
    BY <1>4, <2>1, <2>2, Meetings
<1>5. ASSUME NEW b \in Builds, build'[b].at = "new"
      PROVE  company'[b] = {} /\ yosys'[b].at = "none"
  <2>1. build[b].at = "new" /\ ~Begins(b)
    BY <1>5, SourcesStay
  <2>2. company[b] = {} /\ yosys[b].at = "none" /\ ~AtWork(b)
    BY <1>2, <2>1 DEF Acquainted
  <2>3. yosys'[b].at = "none"
    BY <2>1, <2>2, Meetings
  <2>4. ASSUME NEW d \in Builds, Begins(d)
        PROVE  company'[b] = {}
    BY <1>3, <2>1, <2>2, <2>4
  <2> QED
    BY <2>2, <2>3, <2>4, Meetings
<1>6. ASSUME NEW b \in Builds, NEW c \in Builds, b # c, AtWork(b)', AtWork(c)'
      PROVE  c \in company'[b] /\ company'[c] \subseteq company'[b] \cup {b}
  <2>1. CASE company' = company /\ AtWork(b) /\ AtWork(c)
    BY <1>6, <2>1 DEF Acquainted
  <2>2. ASSUME NEW d \in Builds, Begins(d), d # b, d # c, AtWork(b), AtWork(c)
        PROVE  c \in company'[b] /\ company'[c] \subseteq company'[b] \cup {b}
    <3>1. company'[b] = company[b] \cup {d} /\ company'[c] = company[c] \cup {d}
      BY <1>3, <2>2
    <3>2. c \in company[b] /\ company[c] \subseteq company[b] \cup {b}
      BY <1>6, <2>2 DEF Acquainted
    <3> QED
      BY <3>1, <3>2
  <2>3. CASE Begins(b) /\ AtWork(c)
    <3>1. company'[c] = company[c] \cup {b}
      BY <1>3, <1>6, <2>3
    <3>2. c \in company'[b] /\ company[c] \subseteq company'[b]
      BY <1>3, <1>6, <2>3
    <3> QED
      BY <3>1, <3>2
  <2>4. CASE AtWork(b) /\ Begins(c)
    <3>1. company'[b] = company[b] \cup {c}
      BY <1>3, <1>6, <2>4
    <3>2. \A d \in Builds : AtWork(d) =>
            d \in company[b] \cup {b} /\ company[d] \subseteq company[b] \cup {b}
      BY <2>4 DEF Acquainted
    <3>3. company'[c] \subseteq company[b] \cup {b}
      BY <1>3, <2>4, <3>2
    <3> QED
      BY <3>1, <3>3
  <2>5. ASSUME Begins(b), Begins(c)
        PROVE  FALSE
    BY <1>6, <2>5, BoundsAssumption DEF Begins, StartsSynthesis, StartsPipeline, Refuses, Starts,
       Builds
  <2>6. CASE AtWork(b) /\ AtWork(c)
    <3>1. ~Begins(b) /\ ~Begins(c)
      BY <1>3, <2>6
    <3> QED
      BY <2>1, <2>2, <2>6, <3>1, Meetings
  <2> QED
    BY <1>6, <2>3, <2>4, <2>5, <2>6, Meetings
<1> QED
  BY <1>4, <1>5, <1>6 DEF Acquainted

-----------------------------------------------------------------------------
(* What a build packs. *)

\* What may have reached a build still may, and builds at work are near the same.
LEMMA NearStays ==
  ASSUME TypeInv, Acquainted, [Next]_vars, NEW b \in Builds, build[b].at # "new"
  PROVE  Near(b) \subseteq Near(b)'
<1>1. company \in [Builds -> SUBSET Builds]
  BY DEF TypeInv, TypeOK
<1>2. \A c \in {b} \cup company[b] : build'[c].src = build[c].src
  BY <1>1, SourcesStay DEF Acquainted
<1> QED
  BY <1>2, CompanyGrows DEF Near

LEMMA NearTheSame ==
  ASSUME Acquainted, NEW b \in Builds, NEW c \in Builds, AtWork(b), AtWork(c)
  PROVE  Near(c) \subseteq Near(b)
BY DEF Acquainted, Near

\* generated.v is written by a build that begins, mapped.json by a yosys or a
\* pipeline at work.
LEMMA FilesFrom ==
  ASSUME TypeInv, NearFiles, [Next]_vars
  PROVE  /\ generated' = generated \/ \E c \in Builds : Begins(c) /\ generated' = build'[c].src
         /\ mapped' = mapped \/ \E c \in Builds : AtWork(c) /\ mapped' \in Near(c)
<1>1. build \in [Builds -> CoreProcess] /\ yosys \in [Builds -> YosysProcess]
  BY DEF TypeInv, TypeOK
<1>2. ASSUME NEW c \in Builds, Begins(c)
      PROVE  mapped' = mapped /\ (generated' = generated \/ generated' = build'[c].src)
  <2>1. build'[c].src = design
    BY <1>2, SourcesStay
  <2> QED
    BY <1>2, <2>1 DEF Begins, StartsSynthesis, StartsPipeline, Refuses, files
<1>3. ASSUME NEW c \in Builds, PassesHazards(c) \/ FailsAssembled(c)
      PROVE  generated' = generated /\ AtWork(c) /\ mapped' \in Near(c)
  BY <1>3 DEF PassesHazards, FailsAssembled, WritesMapped, AtWork, Alive, Near
<1>4. ASSUME NEW c \in Builds,
             LoadsNetlist(c) \/ Fails(c) \/ TimesOut(c) \/ WritesOutput(c) \/ Kill(c)
      PROVE  UNCHANGED <<generated, mapped>>
  BY <1>4 DEF LoadsNetlist, Fails, TimesOut, WritesOutput, Kill, files
<1>5. ASSUME NEW c \in Builds, YosysStep(c)
      PROVE  generated' = generated /\ (mapped' = mapped \/ (AtWork(c) /\ mapped' \in Near(c)))
  BY <1>5 DEF YosysStep, YosysReads, YosysMaps, YosysFails, WritesMapped, files, NearFiles, AtWork,
     YosysAlive
<1>6. CASE Edits \/ StartsExport \/ Copies \/ CopyFails \/ UNCHANGED vars
  BY <1>6 DEF Edits, StartsExport, Copies, CopyFails, vars, files
<1> QED
  BY <1>2, <1>3, <1>4, <1>5, <1>6 DEF Next, CoreStep, Begins

\* The files under a build are of designs near it as long as it reads them.
LEMMA NearFilesKept ==
  ASSUME TypeInv, Acquainted, NearFiles, [Next]_vars
  PROVE  NearFiles'
<1>1. /\ build \in [Builds -> CoreProcess] /\ yosys \in [Builds -> YosysProcess]
      /\ company \in [Builds -> SUBSET Builds]
  BY DEF TypeInv, TypeOK
<1> SUFFICES ASSUME NEW b \in Builds
             PROVE  /\ YosysAlive(b)' => generated' \in Near(b)'
                    /\ yosys'[b].at = "mapping" => yosys'[b].src \in Near(b)'
                    /\ build'[b].at = "synthesis" /\ yosys'[b].at = "exited" => mapped' \in Near(b)'
  BY DEF NearFiles
<1>2. CASE Begins(b)
  <2>1. build[b].at = "new" /\ yosys[b].at = "none"
    BY <1>2 DEF Begins, StartsSynthesis, StartsPipeline, Refuses, Starts, Acquainted
  <2>2. yosys'[b].at \notin {"mapping", "exited"}
    BY <1>1, <1>2, <2>1 DEF Begins, StartsSynthesis, StartsPipeline, Refuses, YosysProcess
  <2>3. YosysAlive(b)' => generated' = design
    BY <1>1, <1>2, <2>1 DEF Begins, StartsSynthesis, StartsPipeline, Refuses, YosysAlive,
       YosysProcess
  <2>4. build'[b].src = design
    BY <1>2, SourcesStay
  <2> QED
    BY <2>2, <2>3, <2>4 DEF Near
<1>3. ASSUME ~Begins(b), AtWork(b)
      PROVE  /\ Near(b) \subseteq Near(b)'
             /\ generated' = generated \/ generated' \in Near(b)'
             /\ mapped' = mapped \/ mapped' \in Near(b)'
  <2>1. build[b].at # "new"
    BY <1>3 DEF Acquainted, AtWork, Alive, YosysAlive
  <2>2. Near(b) \subseteq Near(b)'
    BY <2>1, NearStays
  <2>3. ASSUME NEW c \in Builds, Begins(c)
        PROVE  build'[c].src \in Near(b)'
    <3>1. c # b /\ Joins(c)
      BY <1>3, <2>3 DEF Begins, StartsSynthesis, StartsPipeline, Refuses, Starts
    <3>2. c \in company'[b]
      BY <1>1, <1>3, <3>1 DEF Joins
    <3> QED
      BY <3>2 DEF Near
  <2>4. ASSUME NEW c \in Builds, AtWork(c)
        PROVE  Near(c) \subseteq Near(b)'
    BY <1>3, <2>2, <2>4, NearTheSame
  <2> QED
    BY <2>2, <2>3, <2>4, FilesFrom
<1>4. CASE ~Begins(b) /\ ~AtWork(b)
  <2>1. ~AtWork(b)' /\ yosys'[b].at # "mapping" /\ build'[b].at # "synthesis" /\ ~YosysAlive(b)'
    BY <1>4, Meetings DEF AtWork, Alive, YosysAlive
  <2> QED
    BY <2>1
<1>5. CASE YosysStep(b) /\ ~Begins(b)
  <2>1. AtWork(b) /\ YosysAlive(b)
    BY <1>5 DEF YosysStep, YosysReads, YosysMaps, YosysFails, AtWork, YosysAlive
  <2>2. CASE YosysReads(b)
    BY <1>1, <1>3, <1>5, <2>1, <2>2 DEF YosysReads, YosysAlive, NearFiles, YosysProcess, files
  <2>3. CASE YosysMaps(b)
    BY <1>1, <1>3, <1>5, <2>1, <2>3 DEF YosysMaps, WritesMapped, YosysAlive, NearFiles,
       YosysProcess
  <2>4. CASE YosysFails(b)
    BY <1>1, <2>4 DEF YosysFails, YosysAlive, YosysProcess
  <2> QED
    BY <1>5, <2>2, <2>3, <2>4 DEF YosysStep
<1>6. CASE ~Begins(b) /\ AtWork(b) /\ yosys'[b] = yosys[b]
  <2>1. build'[b].at = "synthesis" => build[b].at = "synthesis"
    <3>1. CASE build'[b] = build[b]
      BY <3>1
    <3>2. CASE CoreStep(b) \/ Kill(b)
      <4>1. build'[b].at \in {"writing", "failed", "done", "killed"}
        <5>1. CASE LoadsNetlist(b) \/ PassesHazards(b)
          BY <1>1, <5>1 DEF LoadsNetlist, PassesHazards, CoreProcess
        <5>3. CASE WritesOutput(b)
          BY <1>1, <5>3 DEF WritesOutput, CoreProcess
        <5>2. CASE Fails(b) \/ FailsAssembled(b) \/ TimesOut(b) \/ Kill(b)
          BY <1>1, <5>2 DEF Fails, FailsAssembled, TimesOut, Kill, CoreProcess
        <5> QED
          BY <1>6, <3>2, <5>1, <5>2, <5>3 DEF CoreStep, Begins
      <4> QED
        BY <4>1
    <3> QED
      BY <3>1, <3>2, OthersStay
  <2> QED
    BY <1>3, <1>6, <2>1 DEF NearFiles, YosysAlive
<1>7. ~YosysStep(b) /\ ~Begins(b) => yosys'[b] = yosys[b] \/ TimesOut(b)
  <2>1. ASSUME NEW c \in Builds, CoreStep(c) \/ YosysStep(c) \/ Kill(c), c # b
        PROVE  yosys'[b] = yosys[b]
    BY <1>1, <2>1 DEF CoreStep, YosysStep, StartsSynthesis, StartsPipeline, Refuses, LoadsNetlist,
       PassesHazards, Fails, FailsAssembled, TimesOut, WritesOutput, YosysReads, YosysMaps,
       YosysFails, Kill
  <2>2. CASE CoreStep(b) \/ Kill(b)
    BY <1>1, <2>2 DEF CoreStep, Begins, LoadsNetlist, PassesHazards, Fails, FailsAssembled,
       WritesOutput, Kill
  <2>3. CASE Edits \/ StartsExport \/ Copies \/ CopyFails \/ UNCHANGED vars
    BY <2>3 DEF Edits, StartsExport, Copies, CopyFails, vars
  <2> QED
    BY <2>1, <2>2, <2>3 DEF Next
<1>8. CASE TimesOut(b)
  BY <1>1, <1>8 DEF TimesOut, YosysAlive, YosysProcess, CoreProcess
<1> QED
  BY <1>2, <1>4, <1>5, <1>6, <1>7, <1>8

\* So is the netlist it loads.
LEMMA PackedKept ==
  ASSUME TypeInv, Acquainted, NearFiles, PackedIsOfTheCompany, [Next]_vars
  PROVE  PackedIsOfTheCompany'
<1>1. build \in [Builds -> CoreProcess]
  BY DEF TypeInv, TypeOK
<1> SUFFICES ASSUME NEW b \in Builds, build'[b].at \in {"writing", "done"}
             PROVE  build'[b].netlist \in Near(b)'
  BY DEF PackedIsOfTheCompany, Near
<1>2. CASE LoadsNetlist(b)
  <2>1. build[b].at = "synthesis" /\ mapped \in Near(b) /\ build'[b].netlist = mapped
    BY <1>1, <1>2 DEF LoadsNetlist, Synthesised, NearFiles
  <2> QED
    BY <2>1, NearStays
<1>3. CASE PassesHazards(b)
  <2>1. build[b].at # "new" /\ build'[b].netlist = build[b].src /\ build[b].src \in Near(b)
    BY <1>1, <1>3 DEF PassesHazards, Near
  <2> QED
    BY <2>1, NearStays
<1>4. CASE WritesOutput(b) \/ build'[b] = build[b]
  <2>1. build[b].at \in {"writing", "done"} /\ build'[b].netlist = build[b].netlist
    BY <1>1, <1>4 DEF WritesOutput, CoreProcess
  <2>2. build[b].netlist \in Near(b)
    BY <2>1 DEF PackedIsOfTheCompany, Near
  <2> QED
    BY <2>1, <2>2, NearStays
<1>5. CASE Begins(b) \/ Fails(b) \/ FailsAssembled(b) \/ TimesOut(b) \/ Kill(b)
  BY <1>1, <1>5 DEF Begins, StartsSynthesis, StartsPipeline, Refuses, Fails, FailsAssembled,
     TimesOut, Kill, CoreProcess
<1> QED
  BY <1>2, <1>3, <1>4, <1>5, OthersStay DEF CoreStep, Begins

-----------------------------------------------------------------------------
(* What a build writes. *)

\* Only a core that begins to write, or writes, touches the outputs.
LEMMA OutputsStay ==
  ASSUME TypeInv, [Next]_vars
  PROVE  \/ UNCHANGED <<outputs, torn>>
         \/ \E b \in Builds : LoadsNetlist(b) \/ PassesHazards(b) \/ WritesOutput(b)
<1>1. ASSUME NEW b \in Builds, CoreStep(b) \/ YosysStep(b) \/ Kill(b)
      PROVE  \/ UNCHANGED <<outputs, torn>>
             \/ LoadsNetlist(b) \/ PassesHazards(b) \/ WritesOutput(b)
  BY <1>1 DEF CoreStep, YosysStep, StartsSynthesis, StartsPipeline, Refuses, Fails,
     FailsAssembled, TimesOut, YosysReads, YosysMaps, YosysFails, Kill, files, history
<1>2. CASE Edits \/ StartsExport \/ Copies \/ CopyFails \/ UNCHANGED vars
  BY <1>2 DEF Edits, StartsExport, Copies, CopyFails, vars, files, history
<1> QED
  BY <1>1, <1>2 DEF Next

\* What a build alone has written stays; the outputs are torn while any writes.
LEMMA OwnOutputsKept ==
  ASSUME TypeInv, Acquainted, OwnOutputs, [Next]_vars
  PROVE  OwnOutputs'
<1>1. /\ build \in [Builds -> CoreProcess] /\ company \in [Builds -> SUBSET Builds]
      /\ outputs \in [Outputs -> Version]
  BY DEF TypeInv, TypeOK
<1> SUFFICES ASSUME NEW b \in Builds, build'[b].at = "writing"
             PROVE  /\ torn'
                    /\ Alone(b)' => \A i \in DOMAIN Written :
                         i <= build'[b].n => outputs'[Written[i]] = build'[b].netlist
  BY DEF OwnOutputs
<1>5. Alone(b)' => Alone(b)
  BY CompanyGrows DEF Alone
<1>2. CASE LoadsNetlist(b) \/ PassesHazards(b)
  <2>1. torn' /\ build'[b].n = 0
    BY <1>1, <1>2 DEF LoadsNetlist, PassesHazards, TypeInv, Ahead, CoreProcess
  <2> QED
    BY <2>1, Names
<1>3. CASE WritesOutput(b)
  <2>1. build[b].at = "writing" /\ build[b].n \in 0 .. 4
    BY <1>1, <1>3 DEF WritesOutput, TypeInv, Ahead, CoreProcess
  <2>2. /\ build'[b].n = build[b].n + 1 /\ build'[b].netlist = build[b].netlist
        /\ build[b].n + 1 # 5 /\ torn' = torn
        /\ outputs' = [outputs EXCEPT ![Written[build[b].n + 1]] = build[b].netlist]
    <3>1. /\ build'[b].n = build[b].n + 1 /\ build'[b].netlist = build[b].netlist
          /\ build'[b].at = IF build[b].n + 1 = 5 THEN "done" ELSE "writing"
      BY <1>1, <1>3, Names DEF WritesOutput, CoreProcess
    <3>2. build[b].n + 1 # 5
      BY <3>1
    <3>3. /\ torn' = torn
          /\ outputs' = [outputs EXCEPT ![Written[build[b].n + 1]] = build[b].netlist]
      BY <1>3, <3>2, Names DEF WritesOutput, Content
    <3> QED
      BY <3>1, <3>2, <3>3
  <2>3. torn
    BY <2>1 DEF OwnOutputs
  <2>4. ASSUME Alone(b)', NEW i \in 1 .. 5, i <= build'[b].n
        PROVE  outputs'[Written[i]] = build'[b].netlist
    <3>1. CASE i = build[b].n + 1
      BY <1>1, <2>1, <2>2, <3>1, Names
    <3>2. CASE i <= build[b].n
      BY <1>1, <1>5, <2>1, <2>2, <2>4, <3>2, Names DEF OwnOutputs
    <3> QED
      BY <2>1, <2>2, <2>4, <3>1, <3>2
  <2> QED
    BY <2>2, <2>3, <2>4, Names
<1>4. ASSUME ~LoadsNetlist(b), ~PassesHazards(b), ~WritesOutput(b)
      PROVE  build'[b] = build[b]
  <2>1. ~CoreStep(b) /\ ~Kill(b)
    BY <1>1, <1>4 DEF CoreStep, StartsSynthesis, StartsPipeline, Refuses, Fails, FailsAssembled,
       TimesOut, Kill, CoreProcess
  <2> QED
    BY <2>1, OthersStay
<1>6. ASSUME build'[b] = build[b], NEW c \in Builds, c # b,
             LoadsNetlist(c) \/ PassesHazards(c) \/ WritesOutput(c)
      PROVE  torn' /\ ~Alone(b)'
  <2>1. AtWork(b) /\ AtWork(c) /\ torn /\ company' = company
    BY <1>6 DEF OwnOutputs, AtWork, Alive, LoadsNetlist, PassesHazards, WritesOutput
  <2>2. c \in company[b] /\ b \in company[c]
    BY <1>6, <2>1 DEF Acquainted
  <2> QED
    BY <1>6, <2>1, <2>2 DEF Alone, LoadsNetlist, PassesHazards, WritesOutput
<1>7. CASE build'[b] = build[b] /\ UNCHANGED <<outputs, torn>>
  BY <1>5, <1>7 DEF OwnOutputs
<1> QED
  BY <1>2, <1>3, <1>4, <1>6, <1>7, OutputsStay

\* Only the last file of a build that was alone makes them whole.
LEMMA OutputsAgreeKept ==
  ASSUME TypeInv, OwnOutputs, OutputsAgree, [Next]_vars
  PROVE  OutputsAgree'
<1>1. build \in [Builds -> CoreProcess] /\ outputs \in [Outputs -> Version]
  BY DEF TypeInv, TypeOK
<1> SUFFICES ASSUME ~torn'
             PROVE  \A f, g \in Outputs : outputs'[f] = outputs'[g]
  BY DEF OutputsAgree
<1>2. ASSUME NEW b \in Builds, WritesOutput(b)
      PROVE  \A f \in Outputs : outputs'[f] = build[b].netlist
  <2>1. build[b].at = "writing" /\ torn
    BY <1>2 DEF WritesOutput, OwnOutputs
  <2>2. build[b].n = 4 /\ Alone(b)
    BY <1>1, <1>2, <2>1, Names DEF WritesOutput, CoreProcess
  <2>3. \A i \in 1 .. 4 : outputs[Written[i]] = build[b].netlist
    BY <2>1, <2>2, Names DEF OwnOutputs
  <2>4. outputs' = [outputs EXCEPT ![Written[5]] = build[b].netlist]
    BY <1>2, <2>2 DEF WritesOutput, Content
  <2>5. \A i \in 1 .. 5 : outputs'[Written[i]] = build[b].netlist
    <3>1. ASSUME NEW i \in 1 .. 4
          PROVE  outputs'[Written[i]] = outputs[Written[i]]
      BY <1>1, <2>4, Names
    <3>2. outputs'[Written[5]] = build[b].netlist
      BY <1>1, <2>4, Names
    <3> QED
      BY <2>3, <3>1, <3>2
  <2> QED
    BY <2>5, Names
<1>3. \A b \in Builds : ~LoadsNetlist(b) /\ ~PassesHazards(b)
  BY DEF LoadsNetlist, PassesHazards
<1> QED
  BY <1>2, <1>3, OutputsStay DEF OutputsAgree

-----------------------------------------------------------------------------
(* The theorems. *)

\* The invariant holds in every reachable state.
LEMMA Inductive ==
  Spec => []IInv
<1>1. Init => IInv
  <2> SUFFICES ASSUME Init PROVE IInv
    OBVIOUS
  <2>1. TypeInv
    BY InitTypes
  <2>2. Acquainted /\ NearFiles /\ OwnOutputs /\ PackedIsOfTheCompany
    BY DEF Init, Acquainted, NearFiles, OwnOutputs, PackedIsOfTheCompany, AtWork, Alive,
       YosysAlive
  <2>3. OutputsAgree
    BY DEF Init, OutputsAgree
  <2> QED
    BY <2>1, <2>2, <2>3 DEF IInv
<1>2. IInv /\ [Next]_vars => IInv'
  BY TypesKept, AcquaintedKept, NearFilesKept, PackedKept, OwnOutputsKept, OutputsAgreeKept
  DEF IInv
<1> QED
  BY <1>1, <1>2, PTL DEF Spec

\* Every variable keeps its type.
THEOREM TypeCorrect == Spec => []TypeOK
<1>1. IInv => TypeOK
  BY DEF IInv, TypeInv
<1> QED
  BY <1>1, Inductive, PTL

\* A build packs the netlist of a design compiled beside it (run_build,
\* _synthesize), its own if it was alone, for any number of builds and edits.
THEOREM PackedAlwaysOfTheCompany == Spec => []PackedIsOfTheCompany
<1>1. IInv => PackedIsOfTheCompany
  BY DEF IInv
<1> QED
  BY <1>1, Inductive, PTL

\* The files write_build leaves agree, unless one was cut short or had company.
THEOREM OutputsAlwaysAgree == Spec => []OutputsAgree
<1>1. IInv => OutputsAgree
  BY DEF IInv
<1> QED
  BY <1>1, Inductive, PTL

=============================================================================
