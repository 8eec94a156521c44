------------------------------ MODULE Session ------------------------------
(***************************************************************************)
(* The session of the main process (app/main/session.cts): opening,        *)
(* closing, writing and saving a project, over the files it works on.      *)
(*                                                                         *)
(* A .gpk is exploded into a scratch directory and bundled back by core    *)
(* processes; an example is copied into one.  The process is one thread,   *)
(* and what it awaits - a core, git, a removal - interleaves with whatever *)
(* the user does next.  A call keeps hold of the project it was made for.  *)
(***************************************************************************)
EXTENDS ProjectFile, FiniteSets

CONSTANTS
  None,         \* no project, no call
  Archives,     \* paths of .gpk files
  Folders,      \* paths of project directories
  LastProject,  \* the .gpk that was open when the application last ended
  Examples,     \* the bundled examples: name |-> directory
  Showcase,     \* the one of them that is the showcase
  Template, Seed, \* what `project new` writes: a design and a library
  Words,        \* what texts are made of: names, keys, cells
  Edits(_),     \* the texts a user may write into the design of a project
  Texts(_), Dirs(_), \* what may be at a path to begin with
  Originals(_), \* the directories a project, by its name, may have begun as
  MaxCalls,     \* bound: opens, news and saves
  MaxWrites     \* bound: writes of design.yaml

\* The calls, from the one that opened the last project at the start.
Calls == 0 .. MaxCalls
\* A scratch directory goes by the call that made it.
Roots == Folders \cup Calls

IsDirectory(d) == d = [design |-> d.design, table |-> d.table, library |-> d.library]

\* Calls are numbers, directories have paths, and None is neither.
ASSUME CallsAssumption == MaxCalls \in Nat
ASSUME PathsAssumption ==
  /\ None \notin Archives \cup Folders \cup Calls
  /\ Folders \cap Calls = {}
  /\ LastProject \in Archives
ASSUME ExamplesAssumption == \A e \in DOMAIN Examples : IsDirectory(Examples[e])

\* A text is lines, and a comment has no key.
Values == Seq(Seq(Words))
Lines ==
  {l \in [is : {"separator", "noted separator", "directive", "comment", "entry", "stray"},
          key : Words, value : Values] : l.is = "comment" => l.key = ""}
HasTexts(dir) == dir.design \in Seq(Lines) /\ dir.table \in Values /\ dir.library \in Values

\* The words of the .gpk form itself.
ASSUME WordsAssumption ==
  {"", "gatepack", "1", "kind", "design", "truth_table", "columns", "rows",
   "library", "source", "parts.csv", "sha256", "parts"} \subseteq Words

\* What there is to begin with, and what is written, are texts and tables; and a
\* .gpk from elsewhere quotes no number, which int() would change.
ASSUME TextsAssumption ==
  /\ \A p \in Archives : \A text \in Texts(p) :
       /\ text \in Seq(Lines)
       /\ \A i \in DOMAIN text : \A j \in DOMAIN text[i].value : "01" \notin ToSet(text[i].value[j])
  /\ \A f \in Folders : \A dir \in Dirs(f) : HasTexts(dir)
  /\ \A e \in DOMAIN Examples : HasTexts(Examples[e])
  /\ Template \in Seq(Lines) /\ Seed \in Values
  /\ \A n \in Archives \cup Folders \cup DOMAIN Examples : Edits(n) \subseteq Seq(Lines)

\* dir is a state of a project that began as one of those named: a table and a
\* library of one of them, and a design that came with one or was written into
\* it by a user.
HasTablesOf(dir, names) ==
  \E n \in names : \E o \in Originals(n) :
    TruthTableCsv(dir.table) = TruthTableCsv(o.table) /\ dir.library = o.library
HasDesignOf(dir, names) ==
  \E n \in names : dir.design \in Edits(n) \cup {o.design : o \in Originals(n)}
IsStateOf(dir, names) == HasTablesOf(dir, names) /\ HasDesignOf(dir, names)

\* A folder is a state of its project, or will be once `project new' has run.
IsFolderOf(dir, f) ==
  /\ IsDirectory(dir)
  /\ IsStateOf(IF Scaffolds(dir) THEN NewProject(dir, Template, Seed) ELSE dir, {f})

\* The directories and the .gpk there are to begin with are what the projects begin
\* as, and a design that is written is one.
ASSUME OriginalsAssumption ==
  /\ \A p \in Archives : \A text \in Texts(p) :
       Explodable(text) => IsStateOf(Explode(text), {p})
  /\ \A f \in Folders : \A dir \in Dirs(f) : IsFolderOf(dir, f)
  /\ \A e \in DOMAIN Examples : IsStateOf(Examples[e], {e})
  /\ Template # NoFile /\ \A f \in Folders : NoFile \notin Edits(f)

Nowhere == [design |-> NoFile, table |-> NoFile, library |-> NoFile]
Absent == <<>>
\* A .gpk opened for writing, with nothing written yet: no project at all.
Emptied == <<Comment("")>>
ASSUME EmptiedAssumption == ~Explodable(Emptied)

VARIABLES
  archive,   \* archive[p]: the text of the .gpk p, or Absent
  files,     \* files[r]: the directory r
  scratch,   \* the scratch directories there are
  removing,  \* those being removed
  open,      \* this.project: the call that opened it, or None
  project,   \* project[c]: the ProjectState made by call c
  call,      \* call[c]: how far it is, and what its core has read
  changed,   \* the watcher saw a change, its debounce has not run
  watchGit,  \* the repository the watcher's git is reading, or None
  writes,    \* writes so far
  amended,   \* history: projects whose archive or design changed under a save
  torn,      \* history: archives saved from a directory that was being removed
  given,     \* history: <<p, q>>, project p was saved as q, directly or not
  orphans,   \* history: projects an overlapping open put out of reach
  crossed    \* history: projects opened while the watcher's git was reading

disk == <<archive, files, scratch, removing>>
history == <<amended, torn, given, orphans, crossed>>
vars == <<disk, open, project, call, changed, watchGit, writes, history>>

NoProject == [form |-> "none", path |-> None, dirty |-> FALSE, git |-> None, name |-> None]
\* A call ends with an envelope, of success or failure; nothing is left of it.
Idle == [does |-> "nothing", at |-> "idle", of |-> None, to |-> None, read |-> Nowhere]
Ended == [Idle EXCEPT !.at = "ended"]

State(form, path, name) ==
  [form |-> form, path |-> path, dirty |-> FALSE, git |-> None, name |-> name]

\* openInitialProject has ended: it found LastProject, exploded and opened it.
Init ==
  /\ archive \in [Archives -> UNION {Texts(p) : p \in Archives}]
  /\ \A p \in Archives : archive[p] \in Texts(p)
  /\ Explodable(archive[LastProject])
  /\ \E dirs \in [Folders -> UNION {Dirs(f) : f \in Folders}] :
       /\ \A f \in Folders : dirs[f] \in Dirs(f)
       /\ files = [r \in Roots |-> IF r \in Folders THEN dirs[r]
                                  ELSE IF r = 0 THEN Explode(archive[LastProject]) ELSE Nowhere]
  /\ scratch = {0} /\ removing = {}
  /\ open = 0
  /\ project = [c \in Calls |->
                  IF c = 0
                  THEN [State("archive", LastProject, LastProject) EXCEPT !.git = LastProject]
                  ELSE NoProject]
  /\ call = [c \in Calls |->
               IF c = 0 THEN Ended ELSE Idle]
  /\ changed = FALSE /\ watchGit = None /\ writes = 0
  /\ amended = {} /\ torn = {} /\ given = {} /\ orphans = {} /\ crossed = {}

Root(c) == IF project[c].form = "directory" THEN project[c].path ELSE c
IsShowcase(c) == project[c].form = "example" /\ project[c].name = Showcase

RootBase(p, c) == IF p.form = "directory" THEN p.path ELSE c \* mutant: always the root
\* Where readGitFor asks: beside the .gpk, else in the root.
GitBase(p, c) == IF p.form = "example" THEN c ELSE p.path

Fresh(c) == call[c].at = "idle" /\ \A d \in Calls : d < c => call[d].at # "idle"
Bundling(c) == call[c].at \in {"design", "table", "library", "emptied"}
Saving(c) == Bundling(c) \/ call[c].at = "bundled"

-----------------------------------------------------------------------------
(* close *)

\* closeProject: the working copy of a .gpk and the showcase's are removed,
\* without waiting for the removal or for a save that is reading it.
CloseKeepsShowcase ==   \* mutant: only a .gpk has a temporary directory
  LET temporary == open # None /\ project[open].form = "archive"
      readers == {c \in Calls : Bundling(c) /\ call[c].of = open}
  IN /\ removing' = removing \cup (IF temporary THEN {open} ELSE {})
     /\ torn' = torn \cup (IF temporary THEN {call[c].to : c \in readers} ELSE {})
     /\ changed' = FALSE

CloseProject ==
  LET temporary == open # None /\ (project[open].form = "archive" \/ IsShowcase(open))
      readers == {c \in Calls : Bundling(c) /\ call[c].of = open}
  IN /\ removing' = removing \cup (IF temporary THEN {open} ELSE {})
     /\ torn' = torn \cup (IF temporary THEN {call[c].to : c \in readers} ELSE {})
     /\ changed' = FALSE

Close ==
  /\ open # None
  /\ CloseProject
  /\ open' = None
  /\ UNCHANGED <<archive, files, scratch, project, call, watchGit, writes,
                 amended, given, orphans, crossed>>

\* A recursive removal takes the files one by one, then the directory.
RemoveFile(r) ==
  /\ r \in removing /\ r \in scratch
  /\ IF files[r] = Nowhere
     THEN /\ scratch' = scratch \ {r} /\ removing' = removing \ {r}
          /\ UNCHANGED files
     ELSE /\ \E f \in {"design", "table", "library"} :
               /\ files[r][f] # NoFile
               /\ files' = [files EXCEPT ![r][f] = NoFile]
          /\ UNCHANGED <<scratch, removing>>
  /\ UNCHANGED <<archive, open, project, call, changed, watchGit, writes, history>>

-----------------------------------------------------------------------------
(* open *)

\* openProjectPath of a directory: it must hold a design.
OpensFolder(c, f, dirs) ==
  /\ CloseProject
  /\ open' = None
  /\ IF dirs[f].design = NoFile
     THEN call' = [call EXCEPT ![c] = Ended]
          /\ UNCHANGED project
     ELSE call' = [call EXCEPT ![c] = [Idle EXCEPT !.does = "open", !.at = "git"]]
          /\ project' = [project EXCEPT ![c] = State("directory", f, f)]

OpenFolder(c, f) ==
  /\ Fresh(c)
  /\ OpensFolder(c, f, files)
  /\ UNCHANGED <<archive, files, scratch, watchGit, writes, amended, given, orphans, crossed>>

\* A .gpk that is not there is refused before anything is closed.
OpenArchive(c, p) ==
  /\ Fresh(c) /\ archive[p] # Absent
  /\ CloseProject
  /\ open' = None
  /\ call' = [call EXCEPT ![c] = [Idle EXCEPT !.does = "open", !.at = "exploding", !.to = p]]
  /\ UNCHANGED <<archive, files, scratch, project, watchGit, writes,
                 amended, given, orphans, crossed>>

\* The core has exploded it, or has refused to and the directory is removed.
ExplodeEnds(c) ==
  LET p == call[c].to IN
  /\ call[c].at = "exploding"
  /\ IF Explodable(archive[p])
     THEN /\ files' = [files EXCEPT ![c] = Explode(archive[p])]
          /\ scratch' = scratch \cup {c}
          /\ project' = [project EXCEPT ![c] = State("archive", p, p)]
          /\ call' = [call EXCEPT ![c].at = "git"]
     ELSE /\ call' = [call EXCEPT ![c] = Ended]
          /\ UNCHANGED <<files, scratch, project>>
  /\ UNCHANGED <<archive, removing, open, changed, watchGit, writes, history>>

\* openBundledExample: copied first, then the open project is closed.
OpenExample(c, e) ==
  /\ Fresh(c)
  /\ CloseProject
  /\ open' = None
  /\ files' = [files EXCEPT ![c] = Examples[e]]
  /\ scratch' = scratch \cup {c}
  /\ project' = [project EXCEPT ![c] = State("example", None, e)]
  /\ call' = [call EXCEPT ![c] = [Idle EXCEPT !.does = "open", !.at = "git"]]
  /\ UNCHANGED <<archive, watchGit, writes, amended, given, orphans, crossed>>

\* newProject: the core writes the files, or refuses; then the folder is opened.
NewFolder(c, f) ==
  /\ Fresh(c)
  /\ call' = [call EXCEPT ![c] = [Idle EXCEPT !.does = "new", !.at = "scaffolding", !.to = f]]
  /\ UNCHANGED <<disk, open, project, changed, watchGit, writes, history>>

ScaffoldEnds(c) ==
  LET f == call[c].to IN
  /\ call[c].at = "scaffolding"
  /\ IF Scaffolds(files[f])
     THEN /\ files' = [files EXCEPT ![f] = NewProject(@, Template, Seed)]
          /\ OpensFolder(c, f, files')
     ELSE /\ call' = [call EXCEPT ![c] = Ended]
          /\ UNCHANGED <<files, removing, open, project, torn, changed>>
  /\ UNCHANGED <<archive, scratch, watchGit, writes, amended, given, orphans, crossed>>

\* git has answered: the project is the open one, whatever has been opened
\* in between.
Opened(c) ==
  /\ call[c].does \in {"open", "new"} /\ call[c].at = "git"
  /\ project' = [project EXCEPT ![c].git = GitBase(project[c], c)]
  /\ open' = c
  /\ call' = [call EXCEPT ![c] = Ended]
  /\ orphans' = orphans \cup (IF open = None THEN {} ELSE {open})
  /\ crossed' = crossed \cup (IF watchGit = None THEN {} ELSE {c})
  /\ UNCHANGED <<disk, changed, watchGit, writes, amended, torn, given>>

-----------------------------------------------------------------------------
(* write *)

\* writeSpec: of the open project, whatever is being saved.
WriteSpec(text) ==
  /\ open # None /\ writes < MaxWrites
  /\ files' = [files EXCEPT ![Root(open)].design = text]
  /\ project' = [project EXCEPT ![open].dirty = TRUE]
  /\ changed' = TRUE
  /\ writes' = writes + 1
  /\ amended' = amended \cup {d \in {open} : \E c \in Calls : Saving(c) /\ call[c].of = d}
  /\ UNCHANGED <<archive, scratch, removing, open, call, watchGit, torn, given, orphans, crossed>>

\* The watcher's debounce: git is asked for the open project, and what it
\* answers goes to the project open by then.
Debounce ==
  /\ changed /\ watchGit = None
  /\ changed' = FALSE
  /\ watchGit' = IF open = None THEN None ELSE GitBase(project[open], open)
  /\ UNCHANGED <<disk, open, project, call, writes, history>>

WatchGitEnds ==
  /\ watchGit # None
  /\ project' = IF open = None THEN project ELSE [project EXCEPT ![open].git = watchGit]
  /\ watchGit' = None
  /\ UNCHANGED <<disk, open, call, changed, writes, history>>

-----------------------------------------------------------------------------
(* save *)

\* saveProject: the showcase is refused, a directory has nothing to bundle.
SaveProject(c) ==
  /\ Fresh(c) /\ open # None /\ ~IsShowcase(open)
  /\ LET saves == [Idle EXCEPT !.does = "save", !.of = open] IN
     IF project[open].form = "archive"
     THEN /\ call' = [call EXCEPT ![c] = [saves EXCEPT !.at = "design", !.to = project[open].path]]
          /\ UNCHANGED project
     ELSE /\ call' = [call EXCEPT ![c] = [saves EXCEPT !.at = "git"]]
          /\ project' = [project EXCEPT ![open].dirty = FALSE]
  /\ UNCHANGED <<disk, open, changed, watchGit, writes, history>>

SaveProjectAs(c, p) ==
  /\ Fresh(c) /\ open # None
  /\ call' = [call EXCEPT ![c] = [Idle EXCEPT !.does = "saveAs", !.at = "design",
                                              !.of = open, !.to = p]]
  /\ LET from == project[open].name IN
     given' = given \cup {<<from, p>>} \cup {<<g[1], p>> : g \in {h \in given : h[2] = from}}
  /\ torn' = torn \cup (IF project[open].path \in torn THEN {p} ELSE {})
  /\ UNCHANGED <<disk, open, project, changed, watchGit, writes, amended, orphans, crossed>>

Source(c) == files[Root(call[c].of)]

Proceeds(c, at, read) ==
  /\ call' = [call EXCEPT ![c].at = at, ![c].read = read]
  /\ UNCHANGED <<disk, open, project, changed, watchGit, writes, history>>

\* `project bundle` loads the project twice, the second time for what it writes;
\* the first matters only when it fails.  A core that fails leaves the .gpk as
\* it was.
ChecksNothing(c) ==   \* mutant: the core's exit code is not looked at
  /\ call[c].at = "design"
  /\ \/ Loadable(Source(c)) /\ Proceeds(c, "table", [Nowhere EXCEPT !.design = Source(c).design])
     \/ Proceeds(c, "bundled", Nowhere)

ReadsDesign(c) ==
  /\ call[c].at = "design"
  /\ \/ /\ Loadable(Source(c))
        /\ Proceeds(c, "table", [Nowhere EXCEPT !.design = Source(c).design])
     \/ /\ call' = [call EXCEPT ![c] = Ended]
        /\ UNCHANGED <<disk, open, project, changed, watchGit, writes, history>>

ReadsTable(c) ==
  /\ call[c].at = "table"
  /\ Proceeds(c, "library", [call[c].read EXCEPT !.table = Source(c).table])

\* The projects opened from p, other than the one that is being saved.
OthersAt(p, c) == {d \in Calls : project[d].form = "archive" /\ project[d].path = p /\ d # c}

\* The last file is read, the text made and the .gpk opened for writing.
ReadsLibrary(c) ==
  LET p == call[c].to IN
  /\ call[c].at = "library"
  /\ call' = [call EXCEPT ![c].at = "emptied", ![c].read.library = Source(c).library]
  /\ archive' = [archive EXCEPT ![p] = Emptied]
  /\ amended' = amended \cup OthersAt(p, call[c].of)
  /\ UNCHANGED <<files, scratch, removing, open, project, changed, watchGit, writes,
                 torn, given, orphans, crossed>>

WritesArchive(c) ==
  LET p == call[c].to IN
  /\ call[c].at = "emptied"
  /\ archive' = [archive EXCEPT ![p] = Bundle(call[c].read)]
  /\ call' = [call EXCEPT ![c].at = "bundled", ![c].read = Nowhere]
  /\ amended' = amended \cup OthersAt(p, call[c].of)
  /\ UNCHANGED <<files, scratch, removing, open, project, changed, watchGit, writes,
                 torn, given, orphans, crossed>>

\* Back in the main process: a save clears dirty, and asks git.
SaveEnds(c) ==
  /\ call[c].at = "bundled"
  /\ IF call[c].does = "save"
     THEN /\ project' = [project EXCEPT ![call[c].of].dirty = FALSE]
          /\ call' = [call EXCEPT ![c].at = "git"]
     ELSE /\ call' = [call EXCEPT ![c] = Ended]
          /\ UNCHANGED project
  /\ UNCHANGED <<disk, open, changed, watchGit, writes, history>>

Saved(c) ==
  LET of == call[c].of IN
  /\ call[c].does = "save" /\ call[c].at = "git"
  /\ project' = [project EXCEPT ![of].git = GitBase(project[of], of)]
  /\ call' = [call EXCEPT ![c] = Ended]
  /\ UNCHANGED <<disk, open, changed, watchGit, writes, history>>

-----------------------------------------------------------------------------

OpensSomething(c) ==
  \/ \E f \in Folders : OpenFolder(c, f) \/ NewFolder(c, f)
  \/ \E p \in Archives : OpenArchive(c, p)
  \/ \E e \in DOMAIN Examples : OpenExample(c, e)
  \/ ExplodeEnds(c) \/ ScaffoldEnds(c) \/ Opened(c)

SavesSomething(c) ==
  \/ SaveProject(c)
  \/ \E p \in Archives : SaveProjectAs(c, p)
  \/ ReadsDesign(c) \/ ReadsTable(c) \/ ReadsLibrary(c)
  \/ WritesArchive(c) \/ SaveEnds(c) \/ Saved(c)

Next ==
  \/ \E c \in Calls : OpensSomething(c) \/ SavesSomething(c)
  \/ Close
  \/ \E r \in Calls : RemoveFile(r)
  \/ open # None /\ \E text \in Edits(project[open].name) : WriteSpec(text)
  \/ Debounce \/ WatchGitEnds

Spec == Init /\ [][Next]_vars

-----------------------------------------------------------------------------
(* Properties *)

\* What the variables hold between two steps of the process.
TypeOK ==
  /\ scratch \subseteq Calls /\ removing \subseteq scratch
  /\ open \in Calls \cup {None}
  /\ open # None => project[open].form # "none" /\ call[open] = Ended
  /\ \A c \in Calls : call[c].of # None => project[call[c].of].form # "none"

\* A stream the .gpk form cannot express though `bundle` makes it: a table with
\* a row of another length, a design with a key of the header's.
Unrepresentable(text) ==
  LET docs == ParseDocuments(text)
      keys(d, k) == Cardinality({i \in DOMAIN d : d[i].key = k})
  IN \E i \in DOMAIN docs :
        \/ keys(docs[i], "gatepack") > 1 \/ keys(docs[i], "kind") > 1
        \/ Has(docs[i], "columns") /\ ~BuildsTable(docs[i])

\* The projects p may hold a state of: its own, and those saved there.
Sources(p) == {p} \cup {g[1] : g \in {h \in given : h[2] = p}}

\* Nothing of a project is lost between its two forms.  The working copy that
\* is open, and the .gpk a save has just written, hold a whole state of the
\* project they belong to or of one that was saved there: no document lost, no
\* line of the design, nothing of another project.  The exceptions are a save
\* whose source was removed under it and what the form cannot express.
\* (openProjectPath, explode, saveProject, bundle, closeProject)
NothingLost ==
  /\ open # None /\ project[open].path \notin torn =>
       IsStateOf(files[Root(open)], Sources(project[open].name))
  /\ \A c \in Calls :
       call[c].at = "bundled" /\ archive[call[c].to] # Emptied /\ call[c].to \notin torn =>
         LET text == archive[call[c].to]
         IN IF Explodable(text)
            THEN IsStateOf(Explode(text), Sources(call[c].to))
            ELSE Unrepresentable(text)

\* The open .gpk differs from its working copy only while it is dirty or being
\* saved.  The exceptions are a write under a save, which the save then clears,
\* and another project saved to the same path.  (saveProject, writeSpec)
CleanIsSaved ==
  (open # None /\ open \notin amended /\ project[open].form = "archive" /\ ~project[open].dirty)
    => LET text == archive[project[open].path] IN
       \/ \E c \in Calls : Saving(c) /\ call[c].to = project[open].path
       \/ Unrepresentable(text)
       \/ Explodable(text) /\ Explode(text) = files[open]

\* `project explode` makes dir of the text, or the text is one that cannot be
\* expressed.
ComesApart(text, dir) ==
  IF Explodable(text) THEN Explode(text) = dir ELSE Unrepresentable(text)

\* What `project explode` makes of a .gpk that was bundled is what it was bundled
\* of: the open working copy, and what a save has read, however writes came
\* between its reads.  (bundle, explode_to_dir)
TextsRoundTrip ==
  /\ open # None /\ project[open].form = "archive" /\ Loadable(files[open]) =>
       ComesApart(Bundle(files[open]), files[open])
  /\ \A c \in Calls : call[c].at = "emptied" =>
       ComesApart(Bundle(call[c].read), LoadExploded(call[c].read))

\* A scratch directory is being opened, open, being removed, or an example's
\* other than the showcase's, unless opens overlapped.  (closeProject)
ScratchIsOwned ==
  \A c \in scratch :
    \/ call[c].at = "git" \/ open = c \/ c \in removing
    \/ c \in orphans
    \/ project[c].form = "example" /\ ~IsShowcase(c)

\* The git status shown is that of the repository the user's files are in,
\* unless the watcher's git was reading when the project was opened.
\* (readGitFor, startWatching)
GitIsOwn ==
  open # None /\ open \notin crossed /\ project[open].git # None =>
    project[open].git = (IF project[open].form = "example" THEN open ELSE project[open].path)

\* Whatever a save has written can be opened again.
SavedReopens ==
  \A p \in Archives : archive[p] \notin {Absent, Emptied} => Explodable(archive[p])
=============================================================================
