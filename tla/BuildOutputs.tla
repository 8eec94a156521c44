---------------------------- MODULE BuildOutputs ----------------------------
(***************************************************************************)
(* The output directory (.gatepack/out) of a project: the core processes   *)
(* that run `gatepack build` in it, the yosys processes they start, and    *)
(* the application, which kills builds and exports their files.            *)
(*                                                                         *)
(* Nothing locks the directory.  Two builds may run at once (the packing   *)
(* view's and the schematic's "rebuild", or one from a terminal), and a    *)
(* yosys outlives the core that started it when only the core is killed.   *)
(*                                                                         *)
(* A file is abstracted to the version of design.yaml it was made from.    *)
(***************************************************************************)
EXTENDS Naturals, Sequences

CONSTANTS
  Absent,     \* a file that does not exist, a version that is not known
  MaxBuilds,  \* bound: builds
  MaxEdits    \* bound: the last version of design.yaml

ASSUME AbsentAssumption == Absent \notin Nat
ASSUME BoundsAssumption == MaxBuilds \in Nat /\ MaxEdits \in Nat

Builds == 1 .. MaxBuilds
Version == Nat \cup {Absent}

\* write_build writes these, in this order.
Written == <<"bom", "netlist", "unpacked", "report", "refdes">>
Outputs == {Written[i] : i \in DOMAIN Written}

\* EXPORT_ARTEFACTS, copied in this order.
Handed == <<"bom", "netlist", "report">>
Exported == {Handed[i] : i \in DOMAIN Handed}

VARIABLES
  design,     \* the version of design.yaml
  generated,  \* generated.v
  mapped,     \* mapped.json (and mapped.v)
  newer,      \* design.yaml was written after mapped.json
  outputs,    \* outputs[f]: the file f of Outputs
  build,      \* build[b]: a core process running run_build
  yosys,      \* yosys[b]: its yosys
  export,     \* exportOutputs
  company,    \* history: company[b], the builds whose files may have reached b
  torn        \* history: the outputs may not be of one build

files == <<generated, mapped, newer, outputs>>
history == <<company, torn>>
vars == <<design, files, build, yosys, export, history>>

Alive(b) == build[b].at \in {"synthesis", "pipeline", "writing"}
YosysAlive(b) == yosys[b].at \in {"started", "mapping"}
AtWork(b) == Alive(b) \/ YosysAlive(b)
Alone(b) == company[b] = {}

\* The directory is new, or holds what was built of an earlier version.
Init ==
  /\ design = 1
  /\ \E earlier \in {Absent, 0} :
       /\ generated = earlier
       /\ mapped = earlier
       /\ newer = (earlier # Absent)
       /\ outputs = [f \in Outputs |-> earlier]
  /\ build = [b \in Builds |-> [at |-> "new", src |-> Absent, netlist |-> Absent, n |-> 0]]
  /\ yosys = [b \in Builds |-> [at |-> "none", src |-> Absent]]
  /\ export = [at |-> "none", copied |-> <<>>]
  /\ company = [b \in Builds |-> {}]
  /\ torn = FALSE

-----------------------------------------------------------------------------
(* gatepack build *)

\* b starts: it shares the directory with whatever is at work already, and with
\* what that has met.
Joins(b) ==
  LET others == {c \in Builds \ {b} : AtWork(c)}
  IN company' = [c \in Builds |->
       IF c = b THEN others \cup UNION {company[d] : d \in others}
       ELSE IF c \in others THEN company[c] \cup {b} ELSE company[c]]

Starts(b) ==
  /\ build[b].at = "new"
  /\ \A c \in Builds : c < b => build[c].at # "new"
  /\ Joins(b)

\* run_build of a synchronous design: compile it, write generated.v, run yosys.
StartsSynthesis(b) ==
  /\ Starts(b)
  /\ build' = [build EXCEPT ![b].at = "synthesis", ![b].src = design]
  /\ generated' = design
  /\ yosys' = [yosys EXCEPT ![b].at = "started"]
  /\ UNCHANGED <<design, mapped, newer, outputs, export, torn>>

\* _run_async_build: stages 1 to 5 work on the design in memory.
StartsPipeline(b) ==
  /\ Starts(b)
  /\ build' = [build EXCEPT ![b].at = "pipeline", ![b].src = design]
  /\ UNCHANGED <<design, files, yosys, export, torn>>

\* The design does not compile, or a part is not fit for its supply voltage.
Refuses(b) ==
  /\ Starts(b)
  /\ build' = [build EXCEPT ![b].at = "failed", ![b].src = design]
  /\ UNCHANGED <<design, files, yosys, export, torn>>

\* write_json mapped.json
WritesMapped(v) ==
  /\ mapped' = v
  /\ newer' = FALSE

YosysReads(b) ==
  /\ yosys[b].at = "started"
  /\ yosys' = [yosys EXCEPT ![b] = [at |-> "mapping", src |-> generated]]
  /\ UNCHANGED <<design, files, build, export, history>>

YosysMaps(b) ==
  /\ yosys[b].at = "mapping"
  /\ yosys' = [yosys EXCEPT ![b].at = "exited"]
  /\ WritesMapped(yosys[b].src)
  /\ UNCHANGED <<design, generated, outputs, build, export, history>>

YosysFails(b) ==
  /\ YosysAlive(b)
  /\ yosys' = [yosys EXCEPT ![b].at = "failed"]
  /\ UNCHANGED <<design, files, build, export, history>>

\* Variant: go on whatever yosys returned (as verify/run.py does).
YosysReturned(b) == yosys[b].at \in {"exited", "failed"}

\* _synthesize goes on only if yosys returned 0 and there is a netlist.
Synthesised(b) == yosys[b].at = "exited" /\ mapped # Absent

\* load_mapped_json, then assemble, all in memory.
LoadsNetlist(b) ==
  /\ build[b].at = "synthesis"
  /\ Synthesised(b)
  /\ build' = [build EXCEPT ![b].at = "writing", ![b].netlist = mapped]
  /\ torn' = TRUE
  /\ UNCHANGED <<design, files, yosys, export, company>>

\* Stage 5 passed: write_artefacts, then assemble.
PassesHazards(b) ==
  /\ build[b].at = "pipeline"
  /\ WritesMapped(build[b].src)
  /\ build' = [build EXCEPT ![b].at = "writing", ![b].netlist = build[b].src]
  /\ torn' = TRUE
  /\ UNCHANGED <<design, generated, outputs, yosys, export, company>>

\* yosys failed; stage 5 did not pass; the packing cannot be forced as the
\* design says; gates_per_pkg is unverified; the disk is full.
Fails(b) ==
  /\ Alive(b)
  /\ ~YosysAlive(b)
  /\ build' = [build EXCEPT ![b].at = "failed"]
  /\ UNCHANGED <<design, files, yosys, export, history>>

\* ... the last two of them after mapped.json was written.
FailsAssembled(b) ==
  /\ build[b].at = "pipeline"
  /\ WritesMapped(build[b].src)
  /\ build' = [build EXCEPT ![b].at = "failed"]
  /\ UNCHANGED <<design, generated, outputs, yosys, export, history>>

\* Variant: yosys is awaited however long it takes.
NeverExpires == FALSE

Expires == TRUE

\* subprocess.run(..., timeout=600) kills yosys, and the build fails.
TimesOut(b) ==
  /\ Expires
  /\ build[b].at = "synthesis"
  /\ YosysAlive(b)
  /\ yosys' = [yosys EXCEPT ![b].at = "failed"]
  /\ build' = [build EXCEPT ![b].at = "failed"]
  /\ UNCHANGED <<design, files, export, history>>

\* Variant: the report is written only once.
WrittenUnlessThere(b, f) ==
  IF f = "report" /\ outputs[f] # Absent THEN outputs[f] ELSE build[b].netlist

Content(b, f) == build[b].netlist

\* write_build, a file at a time.  With the last one the build is done, and
\* the directory is its own again if no other was at work beside it.
WritesOutput(b) ==
  LET n == build[b].n + 1
      last == n = Len(Written)
  IN /\ build[b].at = "writing"
     /\ outputs' = [outputs EXCEPT ![Written[n]] = Content(b, Written[n])]
     /\ build' = [build EXCEPT ![b].n = n, ![b].at = IF last THEN "done" ELSE "writing"]
     /\ torn' = IF last /\ Alone(b) THEN FALSE ELSE torn
     /\ UNCHANGED <<design, generated, mapped, newer, yosys, export, company>>

-----------------------------------------------------------------------------
(* The user and the application *)

Edits ==
  /\ design < MaxEdits
  /\ design' = design + 1
  /\ newer' = (mapped # Absent)
  /\ UNCHANGED <<generated, mapped, outputs, build, yosys, export, history>>

\* SIGKILL, from CancelRegistry.cancel: the core dies, its yosys does not.
Kill(b) ==
  /\ Alive(b)
  /\ build' = [build EXCEPT ![b].at = "killed"]
  /\ UNCHANGED <<design, files, yosys, export, history>>

\* exportOutputs checks that all is there, and that nothing is in the way ...
StartsExport ==
  /\ export.at = "none"
  /\ \/ /\ \A f \in Exported : outputs[f] # Absent
        /\ export' = [export EXCEPT !.at = "copying"]
     \/ export' = [export EXCEPT !.at = "refused"]
  /\ UNCHANGED <<design, files, build, yosys, history>>

\* ... and copies the files one at a time, while builds go on.
Copies ==
  /\ export.at = "copying"
  /\ LET n == Len(export.copied) + 1
     IN export' = [export EXCEPT !.copied = Append(@, outputs[Handed[n]]),
                                 !.at = IF n = Len(Handed) THEN "done" ELSE "copying"]
  /\ UNCHANGED <<design, files, build, yosys, history>>

CopyFails ==
  /\ export.at = "copying"
  /\ export' = [export EXCEPT !.at = "refused"]
  /\ UNCHANGED <<design, files, build, yosys, history>>

-----------------------------------------------------------------------------
CoreStep(b) ==
  \/ StartsSynthesis(b)
  \/ StartsPipeline(b)
  \/ Refuses(b)
  \/ LoadsNetlist(b)
  \/ PassesHazards(b)
  \/ Fails(b)
  \/ FailsAssembled(b)
  \/ TimesOut(b)
  \/ WritesOutput(b)

YosysStep(b) == YosysReads(b) \/ YosysMaps(b) \/ YosysFails(b)

Next ==
  \/ \E b \in Builds : CoreStep(b) \/ YosysStep(b) \/ Kill(b)
  \/ Edits
  \/ StartsExport
  \/ Copies
  \/ CopyFails

Spec == Init /\ [][Next]_vars

\* The core and its timeouts make progress; yosys may hang.
FairSpec == Spec /\ \A b \in Builds : WF_vars(Alive(b) /\ CoreStep(b))

-----------------------------------------------------------------------------
(* Properties *)

CoreProcess ==
  [at : {"new", "synthesis", "pipeline", "writing", "done", "failed", "killed"},
   src : Version, netlist : Version, n : 0 .. 5]
YosysProcess ==
  [at : {"none", "started", "mapping", "exited", "failed"}, src : Version]
Export == [at : {"none", "copying", "refused", "done"}, copied : Seq(Version)]

\* Every variable holds a value of its kind.
TypeOK ==
  /\ design \in Nat /\ generated \in Version /\ mapped \in Version
  /\ newer \in BOOLEAN /\ outputs \in [Outputs -> Version]
  /\ build \in [Builds -> CoreProcess]
  /\ yosys \in [Builds -> YosysProcess]
  /\ export \in Export
  /\ company \in [Builds -> SUBSET Builds] /\ torn \in BOOLEAN

\* A build packs the netlist of a design that was compiled beside it, never one
\* that an earlier build left in the directory: of its own design if it was
\* alone, else of its own or of one of those it met or that these had met.  So
\* it is whatever failed, was killed, timed out or was edited, and whichever
\* yosys outlived its core (_synthesize, load_mapped_json).
PackedIsOfTheCompany ==
  \A b \in Builds : build[b].at \in {"writing", "done"} =>
    \E c \in {b} \cup company[b] : build[b].netlist = build[c].src

\* The five files always agree with one another, unless a build is writing
\* them or the last one to write was cut short or not alone.
OutputsAgree ==
  ~torn => \A f, g \in Outputs : outputs[f] = outputs[g]

\* A build ends, even when yosys hangs.
BuildsEnd == \A b \in Builds : Alive(b) ~> ~Alive(b)

\* What api.ts says of sourcesNewerThanBuild: "Whether a source file is newer
\* than mapped.json - i.e. the build on disk predates the current spec".  If it
\* is false, the build on disk is of the current spec.
NotNewerMeansCurrent == mapped # Absent /\ ~newer => mapped = design

\* An export hands over files of one build.  Nothing sees to that: a build may
\* write between two copies.
ExportIsOfOneBuild ==
  export.at = "done" => \A i, j \in DOMAIN export.copied : export.copied[i] = export.copied[j]
=============================================================================
