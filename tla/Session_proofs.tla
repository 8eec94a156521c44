--------------------------- MODULE Session_proofs ---------------------------
(* Proofs about Session: which directory a call may touch, what is shown of *)
(* git, and when a .gpk is that of its working copy, for any projects, any  *)
(* examples and any number of calls and writes.                             *)
EXTENDS Session, DataLemmas

(***************************************************************************)
(* The inductive invariant                                                 *)
(***************************************************************************)

Forms == {"none", "archive", "directory", "example"}
Paths == Archives \cup Folders \cup {None}
ProjectState == [form : Forms, path : Paths, dirty : BOOLEAN,
                 git : Paths \cup Calls, name : Paths \cup DOMAIN Examples]

IsCall(r) ==
  /\ r = [does |-> r.does, at |-> r.at, of |-> r.of, to |-> r.to, read |-> r.read]
  /\ IsDirectory(r.read)

CallShapes == call = [c \in Calls |-> call[c]] /\ \A c \in Calls : IsCall(call[c])

\* Every variable holds a value of its kind; of a text nothing is said.
Shapes ==
  /\ project \in [Calls -> ProjectState]
  /\ CallShapes
  /\ files = [r \in Roots |-> files[r]] /\ \A c \in Calls : IsDirectory(files[c])
  /\ archive = [p \in Archives |-> archive[p]]
  /\ scratch \subseteq Calls /\ removing \subseteq Calls
  /\ open \in Calls \cup {None}
  /\ watchGit \in Paths \cup Calls

\* A call that waits for git before its project is the open one.
Opening(c) == call[c].does \in {"open", "new"} /\ call[c].at = "git"
\* A project that is, or is about to be, open.
Held(c) == open = c \/ Opening(c)

\* Only a call that opens something makes a project and a directory for it, and
\* it does so late; only what was opened is closed, and only that is removed.
Lives(c) ==
  /\ project[c].form # "none" \/ c \in scratch => call[c] = Ended \/ Opening(c)
  /\ Opening(c) => project[c].form # "none"
  /\ c \in scratch => project[c].form \in {"archive", "example"}
  /\ Held(c) /\ project[c].form \in {"archive", "example"} => c \in scratch
  /\ c \in removing => call[c] = Ended /\ c \in scratch
  /\ project[c].form = "archive" => project[c].path \in Archives
  /\ project[c].form = "directory" => project[c].path \in Folders
OpenLives ==
  open # None => call[open] = Ended /\ project[open].form # "none" /\ open \notin removing
Lifetimes == OpenLives /\ \A c \in Calls : Lives(c)

\* What a call has been told, as long as it needs it.
Arguments ==
  \A c \in Calls :
    /\ call[c].at = "exploding" => call[c].to \in Archives /\ call[c].does = "open" /\ call[c].of = None
    /\ call[c].at = "scaffolding" => call[c].to \in Folders /\ call[c].does = "new" /\ call[c].of = None
    /\ call[c].of # None =>
         call[c].of \in Calls /\ call[call[c].of] = Ended /\ project[call[c].of].form # "none"
    /\ Saving(c) => call[c].of # None /\ call[c].to \in Archives
    /\ call[c].does = "save" => call[c].of # None
    /\ Saving(c) /\ call[c].does = "save" =>
         /\ project[call[c].of].form = "archive"
         /\ call[c].to = project[call[c].of].path

\* What the watcher's git was asked is about the project that is open.
WatchIsOwn ==
  watchGit # None /\ open # None /\ open \notin crossed =>
    watchGit = GitBase(project[open], open)

\* dirty is down, or a save that has written the .gpk is about to clear it.
Settles(d) ==
  \/ ~project[d].dirty
  \/ \E c \in Calls : call[c].at = "bundled" /\ call[c].does = "save" /\ call[c].of = d

Synced(d) ==
  LET text == archive[project[d].path]
  IN Unrepresentable(text) \/ (Explodable(text) /\ Explode(text) = files[d])

BeingWritten(d) ==
  \E c \in Calls : /\ call[c].at = "emptied"
                   /\ call[c].of = d /\ call[c].to = project[d].path

Undisturbed(d) == Held(d) /\ project[d].form = "archive" /\ d \notin amended

\* The .gpk is that of the working copy while dirty is down, but for the time
\* it takes to write it.
SettledIsSynced ==
  \A d \in Calls : Undisturbed(d) /\ Settles(d) => Synced(d) \/ BeingWritten(d)

\* What a save has read so far is what is in the working copy.
ReadsAreCurrent ==
  \A c, d \in Calls : Undisturbed(d) /\ call[c].of = d =>
    /\ call[c].at \in {"table", "library", "emptied"} =>
         Loadable(files[d]) /\ call[c].read.design = files[d].design
    /\ call[c].at \in {"library", "emptied"} => call[c].read.table = files[d].table
    /\ call[c].at = "emptied" => call[c].read.library = files[d].library

\* Who has which directory, and what is known of git.
OwnerInv ==
  Shapes /\ Lifetimes /\ Arguments /\ ScratchIsOwned /\ WatchIsOwn /\ GitIsOwn
SavedInv == SettledIsSynced /\ ReadsAreCurrent

(***************************************************************************)
(* What the actions do to the calls                                        *)
(***************************************************************************)

CallOf(does, at, of, to, read) ==
  [does |-> does, at |-> at, of |-> of, to |-> to, read |-> read]

\* Call c is now r, and the others are as they were.
Becomes(c, r) ==
  /\ call' = [d \in Calls |-> call'[d]]
  /\ call'[c] = r /\ IsCall(r)
  /\ \A d \in Calls : d # c => call'[d] = call[d]

\* The fields of a call.
LEMMA CallFields ==
  ASSUME NEW does, NEW at, NEW of, NEW to, NEW read
  PROVE  /\ CallOf(does, at, of, to, read).does = does
         /\ CallOf(does, at, of, to, read).at = at
         /\ CallOf(does, at, of, to, read).of = of
         /\ CallOf(does, at, of, to, read).to = to
         /\ CallOf(does, at, of, to, read).read = read
         /\ IsDirectory(read) => IsCall(CallOf(does, at, of, to, read))
  BY DEF CallOf, IsCall

\* The calls there are to begin with, and to end with.
LEMMA NamedCalls ==
  /\ IsDirectory(Nowhere)
  /\ Idle = CallOf("nothing", "idle", None, None, Nowhere)
  /\ Ended = CallOf("nothing", "ended", None, None, Nowhere)
  /\ IsCall(Ended) /\ Ended.at = "ended" /\ Ended.does = "nothing" /\ Ended.of = None
<1>1. IsDirectory(Nowhere)
  BY DEF IsDirectory, Nowhere
<1>2. Idle = CallOf("nothing", "idle", None, None, Nowhere)
  BY DEF Idle, CallOf
<1>3. Ended = CallOf("nothing", "ended", None, None, Nowhere)
  BY <1>2 DEF Ended, CallOf
<1> QED
  BY <1>1, <1>2, <1>3, CallFields

\* A call is given a new value.
LEMMA CallBecomes ==
  ASSUME Shapes, NEW c \in Calls, NEW r, IsCall(r), call' = [call EXCEPT ![c] = r]
  PROVE  Becomes(c, r)
<1>1. call = [d \in Calls |-> call[d]]
  BY DEF Shapes, CallShapes
<1>2. call' = [d \in Calls |-> IF d = c THEN r ELSE call[d]]
  BY <1>1
<1> QED
  BY <1>2 DEF Becomes

\* A call gets on, keeping what it has read or reading more.
LEMMA CallProceeds ==
  ASSUME Shapes, NEW c \in Calls, NEW at
  PROVE  /\ call' = [call EXCEPT ![c].at = at] =>
              Becomes(c, CallOf(call[c].does, at, call[c].of, call[c].to, call[c].read))
         /\ \A read : IsDirectory(read) /\ call' = [call EXCEPT ![c].at = at, ![c].read = read] =>
              Becomes(c, CallOf(call[c].does, at, call[c].of, call[c].to, read))
         /\ \A v : call' = [call EXCEPT ![c].at = at, ![c].read.library = v] =>
              Becomes(c, CallOf(call[c].does, at, call[c].of, call[c].to,
                                [call[c].read EXCEPT !.library = v]))
<1>1. /\ call = [d \in Calls |-> call[d]]
      /\ call[c] = [does |-> call[c].does, at |-> call[c].at, of |-> call[c].of,
                    to |-> call[c].to, read |-> call[c].read]
      /\ IsDirectory(call[c].read)
  BY DEF Shapes, CallShapes, IsCall
<1>2. ASSUME call' = [call EXCEPT ![c].at = at]
      PROVE  Becomes(c, CallOf(call[c].does, at, call[c].of, call[c].to, call[c].read))
  <2>1. call'[c] = CallOf(call[c].does, at, call[c].of, call[c].to, call[c].read)
    BY <1>1, <1>2 DEF CallOf
  <2>2. call' = [d \in Calls |-> call'[d]] /\ \A d \in Calls : d # c => call'[d] = call[d]
    BY <1>1, <1>2
  <2> QED
    BY <1>1, <2>1, <2>2, CallFields DEF Becomes
<1>3. ASSUME NEW read, IsDirectory(read),
             call' = [call EXCEPT ![c].at = at, ![c].read = read]
      PROVE  Becomes(c, CallOf(call[c].does, at, call[c].of, call[c].to, read))
  <2>1. call'[c] = CallOf(call[c].does, at, call[c].of, call[c].to, read)
    BY <1>1, <1>3 DEF CallOf
  <2>2. call' = [d \in Calls |-> call'[d]] /\ \A d \in Calls : d # c => call'[d] = call[d]
    BY <1>1, <1>3
  <2> QED
    BY <1>3, <2>1, <2>2, CallFields DEF Becomes
<1>4. ASSUME NEW v, call' = [call EXCEPT ![c].at = at, ![c].read.library = v]
      PROVE  Becomes(c, CallOf(call[c].does, at, call[c].of, call[c].to,
                               [call[c].read EXCEPT !.library = v]))
  <2>1. call'[c] = CallOf(call[c].does, at, call[c].of, call[c].to,
                          [call[c].read EXCEPT !.library = v])
    BY <1>1, <1>4 DEF CallOf
  <2>2. call' = [d \in Calls |-> call'[d]] /\ \A d \in Calls : d # c => call'[d] = call[d]
    BY <1>1, <1>4
  <2>3. IsDirectory([call[c].read EXCEPT !.library = v])
    BY <1>1 DEF IsDirectory
  <2> QED
    BY <2>1, <2>2, <2>3, CallFields DEF Becomes
<1> QED
  BY <1>2, <1>3, <1>4

\* The calls as they begin, and those that open a folder or an example.
LEMMA CallBegins ==
  ASSUME Shapes, NEW c \in Calls, NEW of, NEW to
  PROVE  /\ call' = [call EXCEPT ![c] = [Idle EXCEPT !.does = "open", !.at = "git"]] =>
              Becomes(c, CallOf("open", "git", None, None, Nowhere))
         /\ call' = [call EXCEPT ![c] = [Idle EXCEPT !.does = "open", !.at = "exploding", !.to = to]] =>
              Becomes(c, CallOf("open", "exploding", None, to, Nowhere))
         /\ call' = [call EXCEPT ![c] = [Idle EXCEPT !.does = "new", !.at = "scaffolding", !.to = to]] =>
              Becomes(c, CallOf("new", "scaffolding", None, to, Nowhere))
         /\ call' = [call EXCEPT ![c] = [Idle EXCEPT !.does = "saveAs", !.at = "design",
                                                     !.of = of, !.to = to]] =>
              Becomes(c, CallOf("saveAs", "design", of, to, Nowhere))
         /\ call' = [call EXCEPT ![c] = [[Idle EXCEPT !.does = "save", !.of = of]
                                           EXCEPT !.at = "design", !.to = to]] =>
              Becomes(c, CallOf("save", "design", of, to, Nowhere))
         /\ call' = [call EXCEPT ![c] = [[Idle EXCEPT !.does = "save", !.of = of]
                                           EXCEPT !.at = "git"]] =>
              Becomes(c, CallOf("save", "git", of, None, Nowhere))
<1>1. call = [d \in Calls |-> call[d]] /\ IsDirectory(Nowhere)
  BY NamedCalls DEF Shapes, CallShapes
<1>2. ASSUME NEW r, call' = [call EXCEPT ![c] = r],
             NEW does, NEW at, NEW o, NEW t, call'[c] = CallOf(does, at, o, t, Nowhere)
      PROVE  Becomes(c, CallOf(does, at, o, t, Nowhere))
  BY <1>1, <1>2, CallFields DEF Becomes
<1>3. ASSUME call' = [call EXCEPT ![c] = [Idle EXCEPT !.does = "open", !.at = "git"]]
      PROVE  Becomes(c, CallOf("open", "git", None, None, Nowhere))
  <2>1. call'[c] = CallOf("open", "git", None, None, Nowhere)
    BY <1>1, <1>3 DEF CallOf, Idle
  <2> QED
    BY <1>2, <1>3, <2>1
<1>4. ASSUME call' = [call EXCEPT ![c] = [Idle EXCEPT !.does = "open", !.at = "exploding", !.to = to]]
      PROVE  Becomes(c, CallOf("open", "exploding", None, to, Nowhere))
  <2>1. call'[c] = CallOf("open", "exploding", None, to, Nowhere)
    BY <1>1, <1>4 DEF CallOf, Idle
  <2> QED
    BY <1>2, <1>4, <2>1
<1>5. ASSUME call' = [call EXCEPT ![c] = [Idle EXCEPT !.does = "new", !.at = "scaffolding", !.to = to]]
      PROVE  Becomes(c, CallOf("new", "scaffolding", None, to, Nowhere))
  <2>1. call'[c] = CallOf("new", "scaffolding", None, to, Nowhere)
    BY <1>1, <1>5 DEF CallOf, Idle
  <2> QED
    BY <1>2, <1>5, <2>1
<1>6. ASSUME call' = [call EXCEPT ![c] = [Idle EXCEPT !.does = "saveAs", !.at = "design",
                                                      !.of = of, !.to = to]]
      PROVE  Becomes(c, CallOf("saveAs", "design", of, to, Nowhere))
  <2>1. call'[c] = CallOf("saveAs", "design", of, to, Nowhere)
    BY <1>1, <1>6 DEF CallOf, Idle
  <2> QED
    BY <1>2, <1>6, <2>1
<1>7. ASSUME call' = [call EXCEPT ![c] = [[Idle EXCEPT !.does = "save", !.of = of]
                                            EXCEPT !.at = "design", !.to = to]]
      PROVE  Becomes(c, CallOf("save", "design", of, to, Nowhere))
  <2>1. call'[c] = CallOf("save", "design", of, to, Nowhere)
    BY <1>1, <1>7 DEF CallOf, Idle
  <2> QED
    BY <1>2, <1>7, <2>1
<1>8. ASSUME call' = [call EXCEPT ![c] = [[Idle EXCEPT !.does = "save", !.of = of]
                                            EXCEPT !.at = "git"]]
      PROVE  Becomes(c, CallOf("save", "git", of, None, Nowhere))
  <2>1. call'[c] = CallOf("save", "git", of, None, Nowhere)
    BY <1>1, <1>8 DEF CallOf, Idle
  <2> QED
    BY <1>2, <1>8, <2>1
<1> QED
  BY <1>3, <1>4, <1>5, <1>6, <1>7, <1>8

\* Call c has got to another point; the other calls wait.
Turns(c, does, at, of, to) ==
  /\ \A d \in Calls : d # c => call'[d] = call[d]
  /\ call'[c].does = does /\ call'[c].at = at /\ call'[c].of = of /\ call'[c].to = to
Ends(c) == call'[c] = Ended /\ \A d \in Calls : d # c => call'[d] = call[d]

\* A call that begins, gets on or ends: what it is then.
LEMMA CallTurns ==
  ASSUME Shapes, NEW c \in Calls
  PROVE  /\ call' = [call EXCEPT ![c] = Ended] => Ends(c) /\ CallShapes'
         /\ \A does, at, of, to :
              Becomes(c, CallOf(does, at, of, to, Nowhere)) =>
                Turns(c, does, at, of, to) /\ CallShapes'
         /\ \A at : call' = [call EXCEPT ![c].at = at] =>
              /\ Turns(c, call[c].does, at, call[c].of, call[c].to)
              /\ call'[c].read = call[c].read /\ CallShapes'
         /\ \A at, read : IsDirectory(read) /\ call' = [call EXCEPT ![c].at = at, ![c].read = read] =>
              /\ Turns(c, call[c].does, at, call[c].of, call[c].to)
              /\ call'[c].read = read /\ CallShapes'
         /\ \A at, v : call' = [call EXCEPT ![c].at = at, ![c].read.library = v] =>
              /\ Turns(c, call[c].does, at, call[c].of, call[c].to)
              /\ call'[c].read = [call[c].read EXCEPT !.library = v] /\ CallShapes'
<1>1. ASSUME NEW r, Becomes(c, r) PROVE CallShapes'
  BY <1>1 DEF Becomes, CallShapes, Shapes
<1>2. ASSUME NEW does, NEW at, NEW of, NEW to, NEW read,
             Becomes(c, CallOf(does, at, of, to, read))
      PROVE  Turns(c, does, at, of, to) /\ call'[c].read = read
  BY <1>2, CallFields DEF Becomes, Turns
<1>3. ASSUME call' = [call EXCEPT ![c] = Ended] PROVE Ends(c) /\ CallShapes'
  <2>1. Becomes(c, Ended)
    BY <1>3, NamedCalls, CallBecomes
  <2> QED
    BY <1>1, <2>1 DEF Becomes, Ends
<1>4. ASSUME NEW does, NEW at, NEW of, NEW to,
             Becomes(c, CallOf(does, at, of, to, Nowhere))
      PROVE  Turns(c, does, at, of, to) /\ CallShapes'
  BY <1>1, <1>2, <1>4
<1>5. ASSUME NEW at, call' = [call EXCEPT ![c].at = at]
      PROVE  /\ Turns(c, call[c].does, at, call[c].of, call[c].to)
             /\ call'[c].read = call[c].read /\ CallShapes'
  <2>1. Becomes(c, CallOf(call[c].does, at, call[c].of, call[c].to, call[c].read))
    BY <1>5, CallProceeds
  <2> QED
    BY <1>1, <1>2, <2>1
<1>6. ASSUME NEW at, NEW read, IsDirectory(read),
             call' = [call EXCEPT ![c].at = at, ![c].read = read]
      PROVE  /\ Turns(c, call[c].does, at, call[c].of, call[c].to)
             /\ call'[c].read = read /\ CallShapes'
  <2>1. Becomes(c, CallOf(call[c].does, at, call[c].of, call[c].to, read))
    BY <1>6, CallProceeds
  <2> QED
    BY <1>1, <1>2, <2>1
<1>7. ASSUME NEW at, NEW v, call' = [call EXCEPT ![c].at = at, ![c].read.library = v]
      PROVE  /\ Turns(c, call[c].does, at, call[c].of, call[c].to)
             /\ call'[c].read = [call[c].read EXCEPT !.library = v] /\ CallShapes'
  <2>1. Becomes(c, CallOf(call[c].does, at, call[c].of, call[c].to,
                          [call[c].read EXCEPT !.library = v]))
    BY <1>7, CallProceeds
  <2> QED
    BY <1>1, <1>2, <2>1
<1> QED
  BY <1>3, <1>4, <1>5, <1>6, <1>7

\* A core reads a file.
LEMMA CallReads ==
  ASSUME Shapes, NEW c \in Calls, NEW at, NEW read, IsDirectory(read),
         call' = [call EXCEPT ![c].at = at, ![c].read = read]
  PROVE  Turns(c, call[c].does, at, call[c].of, call[c].to) /\ call'[c].read = read
  BY ZenonT(30), CallTurns

\* It reads the last one.
LEMMA CallReadsLibrary ==
  ASSUME Shapes, NEW c \in Calls, NEW at, NEW v,
         call' = [call EXCEPT ![c].at = at, ![c].read.library = v]
  PROVE  /\ Turns(c, call[c].does, at, call[c].of, call[c].to)
         /\ call'[c].read = [call[c].read EXCEPT !.library = v]
  BY ZenonT(30), CallTurns

(***************************************************************************)
(* Every variable keeps its shape                                          *)
(***************************************************************************)

\* State makes a ProjectState of its kind.
LEMMA ProjectStates ==
  /\ \A p \in Archives : State("archive", p, p) \in ProjectState
  /\ \A f \in Folders : State("directory", f, f) \in ProjectState
  /\ \A e \in DOMAIN Examples : State("example", None, e) \in ProjectState
  /\ NoProject \in ProjectState
  BY DEF State, ProjectState, Forms, Paths, NoProject

\* The directories a project is made from are directories.
LEMMA Directories ==
  /\ \A text : IsDirectory(Explode(text))
  /\ \A e \in DOMAIN Examples : IsDirectory(Examples[e])
<1>1. \A text : IsDirectory(Explode(text))
  BY DEF IsDirectory, Explode
<1> QED
  BY <1>1, ExamplesAssumption

\* Where the files of an open project are, and where git is asked about them.
LEMMA RootsOf ==
  ASSUME Shapes, Lifetimes, NEW c \in Calls
  PROVE  /\ Root(c) \in Roots /\ Root(c) \in Folders \cup {c}
         /\ project[c].form = "archive" => Root(c) = c
         /\ GitBase(project[c], c) \in Paths \cup Calls
  BY DEF Shapes, Lifetimes, Lives, Root, Roots, GitBase, ProjectState

\* The steps of a call, by name.
LEMMA StepNames ==
  ASSUME [Next]_vars
  PROVE  \/ UNCHANGED vars \/ Close \/ Debounce \/ WatchGitEnds
         \/ \E r \in Calls : RemoveFile(r)
         \/ open # None /\ \E text \in Edits(project[open].name) : WriteSpec(text)
         \/ \E c \in Calls :
              \/ \E f \in Folders : OpenFolder(c, f)
              \/ \E f \in Folders : NewFolder(c, f)
              \/ \E p \in Archives : OpenArchive(c, p)
              \/ \E e \in DOMAIN Examples : OpenExample(c, e)
              \/ ExplodeEnds(c) \/ ScaffoldEnds(c) \/ Opened(c)
              \/ SaveProject(c)
              \/ \E p \in Archives : SaveProjectAs(c, p)
              \/ ReadsDesign(c) \/ ReadsTable(c) \/ ReadsLibrary(c)
              \/ WritesArchive(c) \/ SaveEnds(c) \/ Saved(c)
  BY DEF Next, OpensSomething, SavesSomething

\* A step leaves every call a call, or makes one of one.
LEMMA CallsStay ==
  ASSUME Shapes, [Next]_vars
  PROVE  CallShapes'
<1>1. CASE call' = call
  BY <1>1 DEF Shapes, CallShapes
<1>2. ASSUME NEW c \in Calls, NEW f \in Folders, OpenFolder(c, f) \/ NewFolder(c, f)
      PROVE  CallShapes'
  BY <1>2, CallTurns, CallBegins DEF OpenFolder, OpensFolder, NewFolder
<1>3. ASSUME NEW c \in Calls, NEW p \in Archives, OpenArchive(c, p) \/ SaveProjectAs(c, p)
      PROVE  CallShapes'
  BY <1>3, CallTurns, CallBegins DEF OpenArchive, SaveProjectAs
<1>4. ASSUME NEW c \in Calls, NEW e \in DOMAIN Examples, OpenExample(c, e)
      PROVE  CallShapes'
  BY <1>4, CallTurns, CallBegins DEF OpenExample
<1>5. ASSUME NEW c \in Calls, ExplodeEnds(c) \/ ScaffoldEnds(c) \/ Opened(c)
      PROVE  CallShapes'
  BY <1>5, CallTurns, CallBegins DEF ExplodeEnds, ScaffoldEnds, OpensFolder, Opened
<1>6. ASSUME NEW c \in Calls, SaveProject(c)
      PROVE  CallShapes'
  <2>1. \/ \E of, to : call' = [call EXCEPT ![c] = [[Idle EXCEPT !.does = "save", !.of = of]
                                                       EXCEPT !.at = "design", !.to = to]]
        \/ \E of : call' = [call EXCEPT ![c] = [[Idle EXCEPT !.does = "save", !.of = of]
                                                   EXCEPT !.at = "git"]]
    BY <1>6 DEF SaveProject
  <2> QED
    BY <2>1, CallTurns, CallBegins
<1>7. ASSUME NEW c \in Calls, ReadsDesign(c) \/ ReadsTable(c)
      PROVE  CallShapes'
  <2>1. /\ \A v : IsDirectory([Nowhere EXCEPT !.design = v])
        /\ \A v : IsDirectory([call[c].read EXCEPT !.table = v])
    <3>1. \A v : IsDirectory([Nowhere EXCEPT !.design = v])
      BY DEF IsDirectory, Nowhere
    <3>2. IsDirectory(call[c].read)
      BY DEF Shapes, CallShapes, IsCall
    <3>3. \A v : IsDirectory([call[c].read EXCEPT !.table = v])
      BY <3>2 DEF IsDirectory
    <3> QED
      BY <3>1, <3>3
  <2> QED
    BY <1>7, <2>1, CallTurns DEF ReadsDesign, ReadsTable, Proceeds
<1>8. ASSUME NEW c \in Calls, ReadsLibrary(c)
      PROVE  CallShapes'
  BY <1>8, CallTurns DEF ReadsLibrary
<1>9. ASSUME NEW c \in Calls, WritesArchive(c) \/ SaveEnds(c) \/ Saved(c)
      PROVE  CallShapes'
  BY <1>9, CallTurns, NamedCalls DEF WritesArchive, SaveEnds, Saved
<1>10. ASSUME UNCHANGED vars \/ Close \/ Debounce \/ WatchGitEnds
              \/ \E r \in Calls : RemoveFile(r)
       PROVE  call' = call
  BY <1>10 DEF vars, Close, Debounce, WatchGitEnds, RemoveFile
<1>11. ASSUME NEW text, WriteSpec(text) PROVE call' = call
  BY <1>11 DEF WriteSpec
<1> QED
  BY StepNames, <1>1, <1>2, <1>3, <1>4, <1>5, <1>6, <1>7, <1>8, <1>9, <1>10, <1>11

\* A directory a step writes into, or makes, is one.
LEMMA FilesStay ==
  ASSUME Shapes, Lifetimes, Arguments, [Next]_vars
  PROVE  files' = [r \in Roots |-> files'[r]] /\ \A c \in Calls : IsDirectory(files'[c])
<1> DEFINE Kept == files' = [r \in Roots |-> files'[r]] /\ \A c \in Calls : IsDirectory(files'[c])
<1>1. files = [r \in Roots |-> files[r]] /\ \A c \in Calls : c \in Roots /\ IsDirectory(files[c])
  BY DEF Shapes, Roots
<1>2. CASE files' = files
  BY <1>1, <1>2
<1>3. ASSUME NEW r \in Roots, NEW d, IsDirectory(d) \/ r \notin Calls,
             files' = [files EXCEPT ![r] = d]
      PROVE  Kept
  BY <1>1, <1>3
<1>4. ASSUME NEW r \in Calls, NEW f, NEW v, f \in {"design", "table", "library"},
             files' = [files EXCEPT ![r][f] = v]
      PROVE  Kept
  <2>1. /\ files' = [x \in Roots |-> files'[x]]
        /\ \A x \in Roots : x # r => files'[x] = files[x]
        /\ files'[r] = [files[r] EXCEPT ![f] = v]
    BY <1>1, <1>4
  <2>2. IsDirectory(files[r])
    BY <1>1
  <2>3. /\ IsDirectory([files[r] EXCEPT !.design = v])
        /\ IsDirectory([files[r] EXCEPT !.table = v])
        /\ IsDirectory([files[r] EXCEPT !.library = v])
    BY <2>2 DEF IsDirectory
  <2>4. IsDirectory(files'[r])
    BY <1>4, <2>1, <2>3
  <2> QED
    BY <1>1, <2>1, <2>4
<1>5. ASSUME NEW r \in Roots, NEW v, files' = [files EXCEPT ![r].design = v]
      PROVE  Kept
  <2>1. /\ files' = [x \in Roots |-> files'[x]]
        /\ \A x \in Roots : x # r => files'[x] = files[x]
        /\ files'[r] = [files[r] EXCEPT !.design = v]
    BY <1>1, <1>5
  <2>2. IsDirectory(files[r]) => IsDirectory([files[r] EXCEPT !.design = v])
    BY DEF IsDirectory
  <2> QED
    BY <1>1, <2>1, <2>2
<1>6. ASSUME NEW r \in Calls, RemoveFile(r) PROVE Kept
  BY <1>2, <1>4, <1>6 DEF RemoveFile
<1>7. ASSUME NEW text, open # None, WriteSpec(text) PROVE Kept
  <2>1. Root(open) \in Roots
    BY <1>7, RootsOf DEF Shapes
  <2> QED
    BY <1>5, <1>7, <2>1 DEF WriteSpec
<1>8. ASSUME NEW c \in Calls,
             \/ \E f \in Folders : OpenFolder(c, f) \/ NewFolder(c, f)
             \/ \E p \in Archives : OpenArchive(c, p) \/ SaveProjectAs(c, p)
      PROVE  Kept
  BY <1>2, <1>8 DEF OpenFolder, NewFolder, OpenArchive, SaveProjectAs, disk
<1>9. ASSUME NEW c \in Calls, NEW e \in DOMAIN Examples, OpenExample(c, e) PROVE Kept
  BY <1>1, <1>3, <1>9, Directories DEF OpenExample
<1>10. ASSUME NEW c \in Calls, ExplodeEnds(c) PROVE Kept
  BY <1>1, <1>2, <1>3, <1>10, Directories DEF ExplodeEnds
<1>11. ASSUME NEW c \in Calls, ScaffoldEnds(c) PROVE Kept
  <2>1. call[c].to \in Folders /\ call[c].to \in Roots /\ call[c].to \notin Calls
    BY <1>11, PathsAssumption DEF ScaffoldEnds, Arguments, Roots
  <2>2. CASE Scaffolds(files[call[c].to])
    <3>1. files' = [files EXCEPT ![call[c].to] = NewProject(files[call[c].to], Template, Seed)]
      BY <1>11, <2>2 DEF ScaffoldEnds
    <3> QED
      BY <1>3, <2>1, <3>1
  <2>3. CASE ~Scaffolds(files[call[c].to])
    BY <1>2, <1>11, <2>3 DEF ScaffoldEnds
  <2> QED
    BY <2>2, <2>3
<1>12. ASSUME NEW c \in Calls,
              \/ Opened(c) \/ SaveProject(c) \/ ReadsDesign(c) \/ ReadsTable(c)
              \/ ReadsLibrary(c) \/ WritesArchive(c) \/ SaveEnds(c) \/ Saved(c)
       PROVE  Kept
  BY <1>2, <1>12 DEF Opened, SaveProject, ReadsDesign, ReadsTable, ReadsLibrary, WritesArchive,
                     SaveEnds, Saved, Proceeds, disk
<1>13. ASSUME UNCHANGED vars \/ Close \/ Debounce \/ WatchGitEnds PROVE Kept
  BY <1>2, <1>13 DEF vars, disk, Close, Debounce, WatchGitEnds
<1> HIDE DEF Kept
<1>14. Kept
  BY StepNames, <1>6, <1>7, <1>8, <1>9, <1>10, <1>11, <1>12, <1>13
<1> QED
  BY <1>14 DEF Kept

\* A project is made by an opening, and stays what it is.
LEMMA ProjectsStay ==
  ASSUME Shapes, Lifetimes, Arguments, [Next]_vars
  PROVE  project' \in [Calls -> ProjectState]
<1> DEFINE Kept == project' \in [Calls -> ProjectState]
<1>1. project \in [Calls -> ProjectState]
  BY DEF Shapes
<1>2. CASE project' = project
  BY <1>1, <1>2
<1>3. ASSUME NEW c \in Calls, NEW s \in ProjectState, project' = [project EXCEPT ![c] = s]
      PROVE  Kept
  BY <1>1, <1>3
<1>4. ASSUME NEW c \in Calls, NEW b \in BOOLEAN, project' = [project EXCEPT ![c].dirty = b]
      PROVE  Kept
  BY <1>1, <1>4 DEF ProjectState
<1>5. ASSUME NEW c \in Calls, NEW g \in Paths \cup Calls, project' = [project EXCEPT ![c].git = g]
      PROVE  Kept
  BY <1>1, <1>5 DEF ProjectState
<1>6. ASSUME NEW c \in Calls, NEW f \in Folders, OpenFolder(c, f) PROVE Kept
  BY <1>2, <1>3, <1>6, ProjectStates DEF OpenFolder, OpensFolder
<1>7. ASSUME NEW c \in Calls, NEW e \in DOMAIN Examples, OpenExample(c, e) PROVE Kept
  BY <1>3, <1>7, ProjectStates DEF OpenExample
<1>8. ASSUME NEW c \in Calls, ExplodeEnds(c) PROVE Kept
  BY <1>2, <1>3, <1>8, ProjectStates DEF ExplodeEnds, Arguments
<1>9. ASSUME NEW c \in Calls, ScaffoldEnds(c) PROVE Kept
  <2>1. call[c].to \in Folders
    BY <1>9 DEF ScaffoldEnds, Arguments
  <2> QED
    BY <1>2, <1>3, <1>9, <2>1, ProjectStates DEF ScaffoldEnds, OpensFolder
<1>10. ASSUME NEW c \in Calls, Opened(c) PROVE Kept
  BY <1>5, <1>10, RootsOf DEF Opened
<1>11. ASSUME NEW c \in Calls, SaveProject(c) PROVE Kept
  <2>1. open \in Calls
    BY <1>11 DEF SaveProject, Shapes
  <2> QED
    BY <1>2, <1>4, <1>11, <2>1 DEF SaveProject
<1>12. ASSUME NEW c \in Calls, SaveEnds(c) \/ Saved(c) PROVE Kept
  <2>1. call[c].of \in Calls
    BY <1>12 DEF SaveEnds, Saved, Arguments, Saving
  <2> QED
    BY <1>2, <1>4, <1>5, <1>12, <2>1, RootsOf DEF SaveEnds, Saved
<1>13. ASSUME NEW text, open # None, WriteSpec(text) PROVE Kept
  BY <1>4, <1>13 DEF WriteSpec, Shapes
<1>14. ASSUME WatchGitEnds PROVE Kept
  BY <1>2, <1>5, <1>14 DEF WatchGitEnds, Shapes
<1>15. ASSUME NEW c \in Calls,
              \/ \E f \in Folders : NewFolder(c, f)
              \/ \E p \in Archives : OpenArchive(c, p) \/ SaveProjectAs(c, p)
              \/ ReadsDesign(c) \/ ReadsTable(c) \/ ReadsLibrary(c) \/ WritesArchive(c)
       PROVE  Kept
  BY <1>2, <1>15 DEF NewFolder, OpenArchive, SaveProjectAs, ReadsDesign, ReadsTable,
                     ReadsLibrary, WritesArchive, Proceeds
<1>16. ASSUME UNCHANGED vars \/ Close \/ Debounce \/ \E r \in Calls : RemoveFile(r) PROVE Kept
  BY <1>2, <1>16 DEF vars, Close, Debounce, RemoveFile
<1> HIDE DEF Kept
<1>17. Kept
  BY StepNames, <1>6, <1>7, <1>8, <1>9, <1>10, <1>11, <1>12, <1>13, <1>14, <1>15, <1>16
<1> QED
  BY <1>17 DEF Kept

\* The other variables keep to their values too.
LEMMA ShapesStep ==
  ASSUME Shapes, Lifetimes, Arguments, [Next]_vars
  PROVE  Shapes'
<1> DEFINE Kept == /\ archive' = [p \in Archives |-> archive'[p]]
                   /\ scratch' \subseteq Calls /\ removing' \subseteq Calls
                   /\ open' \in Calls \cup {None}
                   /\ watchGit' \in Paths \cup Calls
<1>1. /\ archive = [p \in Archives |-> archive[p]]
      /\ scratch \subseteq Calls /\ removing \subseteq Calls
      /\ open \in Calls \cup {None}
      /\ watchGit \in Paths \cup Calls
  BY DEF Shapes
<1>2. CloseProject => removing' \subseteq Calls
  BY <1>1 DEF CloseProject
<1>3. ASSUME NEW c \in Calls,
             \/ \E f \in Folders : OpenFolder(c, f) \/ NewFolder(c, f)
             \/ \E p \in Archives : OpenArchive(c, p) \/ SaveProjectAs(c, p)
             \/ \E e \in DOMAIN Examples : OpenExample(c, e)
             \/ ScaffoldEnds(c)
      PROVE  Kept
  BY <1>1, <1>2, <1>3 DEF OpenFolder, OpensFolder, NewFolder, OpenArchive, SaveProjectAs,
                          OpenExample, ScaffoldEnds, disk
<1>4. ASSUME NEW c \in Calls, ExplodeEnds(c) \/ Opened(c) \/ SaveProject(c) PROVE Kept
  BY <1>1, <1>4 DEF ExplodeEnds, Opened, SaveProject, disk
<1>5. ASSUME NEW c \in Calls, ReadsLibrary(c) \/ WritesArchive(c) PROVE Kept
  BY <1>1, <1>5 DEF ReadsLibrary, WritesArchive
<1>6. ASSUME NEW c \in Calls, ReadsDesign(c) \/ ReadsTable(c) \/ SaveEnds(c) \/ Saved(c) PROVE Kept
  BY <1>1, <1>6 DEF ReadsDesign, ReadsTable, SaveEnds, Saved, Proceeds, disk
<1>7. ASSUME Close PROVE Kept
  BY <1>1, <1>2, <1>7 DEF Close
<1>8. ASSUME Debounce PROVE Kept
  <2>1. open # None => GitBase(project[open], open) \in Paths \cup Calls
    BY <1>1, RootsOf
  <2> QED
    BY <1>1, <1>8, <2>1 DEF Debounce, disk, Paths
<1>9. ASSUME WatchGitEnds PROVE Kept
  BY <1>1, <1>9 DEF WatchGitEnds, disk, Paths
<1>10. ASSUME NEW r \in Calls, RemoveFile(r) PROVE Kept
  BY <1>1, <1>10 DEF RemoveFile
<1>11. ASSUME NEW text, WriteSpec(text) PROVE Kept
  BY <1>1, <1>11 DEF WriteSpec
<1>12. ASSUME UNCHANGED vars PROVE Kept
  BY <1>1, <1>12 DEF vars, disk
<1> HIDE DEF Kept
<1>13. Kept
  BY StepNames, <1>3, <1>4, <1>5, <1>6, <1>7, <1>8, <1>9, <1>10, <1>11, <1>12
<1> QED
  BY <1>13, CallsStay, FilesStay, ProjectsStay DEF Kept, Shapes

(***************************************************************************)
(* What a step changes                                                     *)
(***************************************************************************)

\* closeProject takes away what is open, and sets its directory to be removed,
\* under the saves that read it.
Closed ==
  /\ open' = None
  /\ removing' = removing \cup
       {d \in {open} \ {None} : project[d].form = "archive" \/ IsShowcase(d)}
  /\ open # None /\ (project[open].form = "archive" \/ IsShowcase(open)) =>
       \A c \in Calls : Bundling(c) /\ call[c].of = open => call[c].to \in torn'
Stays == UNCHANGED <<open, removing>>

\* No project is touched, nor any file of a scratch directory.
Holds ==
  /\ UNCHANGED <<archive, scratch, project, watchGit, amended, orphans, crossed>>
  /\ \A d \in Calls : files'[d] = files[d]

\* No call gets on, at most what is open is closed.
Waits == Holds /\ call' = call /\ (Closed \/ Stays)

\* A call ends that has neither opened nor saved.
Quits(c) ==
  /\ Holds /\ (Closed \/ Stays) /\ Ends(c)
  /\ \/ call[c].at \in {"idle", "exploding", "scaffolding", "design"}
     \/ call[c].at = "bundled" /\ call[c].does # "save"

\* What belongs to the open project, or is torn there, does so at p.
Gives(p) ==
  LET from == project[open].name IN
  /\ <<from, p>> \in given'
  /\ \A g \in given : g[2] = from => <<g[1], p>> \in given'
  /\ project[open].path \in torn => p \in torn'

\* A call begins that will wait for a core.
Begins(c) ==
  /\ Holds /\ call[c].at = "idle"
  /\ \/ Stays /\ \E f \in Folders : Turns(c, "new", "scaffolding", None, f)
     \/ Closed /\ \E p \in Archives : Turns(c, "open", "exploding", None, p)
     \/ /\ Stays /\ open \in Calls /\ project[open].form = "archive"
        /\ Turns(c, "save", "design", open, project[open].path)
     \/ Stays /\ open \in Calls /\ \E p \in Archives :
          Turns(c, "saveAs", "design", open, p) /\ Gives(p)

\* A call has the project it will open.
Makes(c) ==
  /\ UNCHANGED <<archive, watchGit, amended, orphans, crossed>>
  /\ call[c].at \in {"idle", "exploding", "scaffolding"}
  /\ call'[c].does \in {"open", "new"} /\ call'[c].at = "git" /\ call'[c].of = None
  /\ ~project'[c].dirty /\ project'[c].git = None
  /\ \A d \in Calls : d # c =>
       call'[d] = call[d] /\ project'[d] = project[d] /\ files'[d] = files[d]
  /\ \/ /\ Closed /\ scratch' = scratch
        /\ project'[c].form = "directory" /\ project'[c].path \in Folders
        /\ project'[c].name = project'[c].path
        /\ ~Scaffolds(files'[project'[c].path])
     \/ /\ Closed /\ scratch' = scratch \cup {c}
        /\ project'[c].form = "example"
        /\ project'[c].name \in DOMAIN Examples
        /\ files'[c] = Examples[project'[c].name]
     \/ /\ Stays /\ scratch' = scratch \cup {c}
        /\ project'[c].form = "archive" /\ project'[c].path \in Archives
        /\ project'[c].name = project'[c].path
        /\ Explodable(archive[project'[c].path])
        /\ files'[c] = Explode(archive[project'[c].path])

\* A core that saves has read a file.
Reads(c) ==
  /\ Holds /\ Stays
  /\ \/ /\ call[c].at = "design" /\ Loadable(Source(c))
        /\ Turns(c, call[c].does, "table", call[c].of, call[c].to)
        /\ call'[c].read.design = Source(c).design
        /\ call'[c].read.table = NoFile /\ call'[c].read.library = NoFile
     \/ /\ call[c].at = "table"
        /\ Turns(c, call[c].does, "library", call[c].of, call[c].to)
        /\ call'[c].read.design = call[c].read.design
        /\ call'[c].read.table = Source(c).table
        /\ call'[c].read.library = call[c].read.library

\* It has read the last, and written the first of the .gpk or all of it.
Publishes(c) ==
  /\ UNCHANGED <<files, scratch, removing, open, project, watchGit, orphans, crossed>>
  /\ amended' = amended \cup OthersAt(call[c].to, call[c].of)
  /\ \A p \in Archives : p # call[c].to => archive'[p] = archive[p]
  /\ \/ /\ call[c].at = "library"
        /\ Turns(c, call[c].does, "emptied", call[c].of, call[c].to)
        /\ call'[c].read.design = call[c].read.design
        /\ call'[c].read.table = call[c].read.table
        /\ call'[c].read.library = Source(c).library
        /\ archive'[call[c].to] = Emptied
     \/ /\ call[c].at = "emptied"
        /\ Turns(c, call[c].does, "bundled", call[c].of, call[c].to)
        /\ archive'[call[c].to] = Bundle(call[c].read)

\* Of project d, only whether it is dirty and what git says has changed.
Marks(d) ==
  /\ \A e \in Calls : e # d => project'[e] = project[e]
  /\ \A e \in Calls : /\ project'[e].form = project[e].form
                      /\ project'[e].path = project[e].path
                      /\ project'[e].name = project[e].name
  /\ UNCHANGED <<archive, scratch, removing>>

\* writeSpec.
Dirties ==
  /\ open \in Calls /\ Marks(open) /\ project'[open].dirty /\ project'[open].git = project[open].git
  /\ UNCHANGED <<open, call, watchGit, orphans, crossed>>
  /\ \A d \in Calls : d # open => files'[d] = files[d]
  /\ amended' = amended \cup {d \in {open} : \E c \in Calls : Saving(c) /\ call[c].of = d}

\* A save of project d clears dirty: of a folder at once, of a .gpk at its end.
Clears(c, d) ==
  /\ Marks(d) /\ ~project'[d].dirty /\ project'[d].git = project[d].git
  /\ UNCHANGED <<files, open, watchGit, amended, orphans, crossed>>
  /\ \/ /\ call[c].at = "idle" /\ d = open /\ project[d].form # "archive"
        /\ Turns(c, "save", "git", d, None)
     \/ /\ call[c].at = "bundled" /\ call[c].does = "save" /\ d = call[c].of
        /\ Turns(c, "save", "git", d, call[c].to)

\* Git has answered a save.
Learns(c, d) ==
  /\ d = call[c].of /\ call[c].does = "save" /\ call[c].at = "git" /\ Ends(c)
  /\ Marks(d) /\ project'[d].dirty = project[d].dirty /\ project'[d].git = GitBase(project[d], d)
  /\ UNCHANGED <<files, open, watchGit, amended, orphans, crossed>>

\* Git has answered an opening.
Shows(c) ==
  /\ Opening(c) /\ Ends(c) /\ open' = c
  /\ Marks(c) /\ project'[c].dirty = project[c].dirty /\ project'[c].git = GitBase(project[c], c)
  /\ UNCHANGED <<files, watchGit, amended>>
  /\ orphans' = orphans \cup ({open} \ {None})
  /\ crossed' = crossed \cup (IF watchGit = None THEN {} ELSE {c})

\* The watcher asks, and is answered.
Asks ==
  /\ UNCHANGED <<disk, open, project, call, amended, orphans, crossed>>
  /\ watchGit = None
  /\ watchGit' = IF open = None THEN None ELSE GitBase(project[open], open)
Answers ==
  /\ UNCHANGED <<archive, files, scratch, removing, open, call, amended, orphans, crossed>>
  /\ watchGit # None /\ watchGit' = None
  /\ open = None => project' = project
  /\ open # None => /\ Marks(open) /\ project'[open].dirty = project[open].dirty
                    /\ project'[open].git = watchGit

\* A file of a scratch directory is removed, or at last the directory.
Removes(r) ==
  /\ r \in removing /\ UNCHANGED <<archive, open, project, call, watchGit, amended, orphans, crossed>>
  /\ \A d \in Calls : d # r => files'[d] = files[d]
  /\ \/ scratch' = scratch \ {r} /\ removing' = removing \ {r}
     \/ UNCHANGED <<scratch, removing>>

StepKind ==
  \/ Waits \/ Dirties \/ Asks \/ Answers
  \/ \E r \in Calls : Removes(r)
  \/ \E c \in Calls : Quits(c) \/ Begins(c) \/ Makes(c) \/ Reads(c) \/ Publishes(c) \/ Shows(c)
  \/ \E c, d \in Calls : Clears(c, d) \/ Learns(c, d)

\* closeProject closes as Closed says.
LEMMA Closing ==
  ASSUME CloseProject, open' = None
  PROVE  Closed
<1>1. {d \in {open} \ {None} : project[d].form = "archive" \/ IsShowcase(d)} =
        IF open # None /\ (project[open].form = "archive" \/ IsShowcase(open)) THEN {open} ELSE {}
  OBVIOUS
<1> QED
  BY <1>1 DEF CloseProject, Closed

\* What is known of a project once one of its marks, or all of it, is changed.
LEMMA Marking ==
  ASSUME Shapes, NEW c \in Calls, UNCHANGED <<archive, scratch, removing>>
  PROVE  /\ \A b : project' = [project EXCEPT ![c].dirty = b] =>
              Marks(c) /\ project'[c].dirty = b /\ project'[c].git = project[c].git
         /\ \A g : project' = [project EXCEPT ![c].git = g] =>
              Marks(c) /\ project'[c].git = g /\ project'[c].dirty = project[c].dirty
<1>1. project \in [Calls -> ProjectState]
  BY DEF Shapes
<1> QED
  BY <1>1 DEF Marks, ProjectState

\* What is known of a project that is made.
Made(c, s) ==
  /\ \A d \in Calls : d # c => project'[d] = project[d]
  /\ project'[c] = s

\* Giving a call a project leaves the others theirs.
LEMMA Making ==
  ASSUME Shapes, NEW c \in Calls, NEW s, project' = [project EXCEPT ![c] = s]
  PROVE  Made(c, s)
<1>1. project = [d \in Calls |-> project[d]]
  BY DEF Shapes
<1> QED
  BY <1>1 DEF Made

\* Opening a folder, which a new project ends with, closes what was open.
LEMMA OpenFolderKind ==
  ASSUME Shapes, Lifetimes, NEW c \in Calls, NEW f \in Folders, OpensFolder(c, f, files'),
         call[c].at \in {"idle", "scaffolding"}, \A d \in Calls : files'[d] = files[d],
         UNCHANGED <<archive, scratch, watchGit, amended, orphans, crossed>>
  PROVE  Quits(c) \/ Makes(c)
<1>1. Closed
  BY Closing DEF OpensFolder
<1>2. CASE files'[f].design = NoFile
  <2>1. Ends(c) /\ project' = project
    BY <1>2, CallTurns DEF OpensFolder
  <2> QED
    BY <1>1, <2>1 DEF Quits, Holds
<1>3. CASE files'[f].design # NoFile
  <2>1. /\ call' = [call EXCEPT ![c] = [Idle EXCEPT !.does = "open", !.at = "git"]]
        /\ project' = [project EXCEPT ![c] = State("directory", f, f)]
    BY <1>3 DEF OpensFolder
  <2>2. Turns(c, "open", "git", None, None)
    BY <2>1, CallTurns, CallBegins
  <2>3. Made(c, State("directory", f, f))
    BY <2>1, Making
  <2> QED
    BY <1>1, <1>3, <2>2, <2>3 DEF Makes, Turns, Made, State, Scaffolds
<1> QED
  BY <1>2, <1>3

\* Each step of a call that opens or makes something is of one of four kinds.
LEMMA OpeningKinds ==
  ASSUME Shapes, Lifetimes, Arguments, NEW c \in Calls,
         \/ \E f \in Folders : OpenFolder(c, f) \/ NewFolder(c, f)
         \/ \E p \in Archives : OpenArchive(c, p)
         \/ \E e \in DOMAIN Examples : OpenExample(c, e)
         \/ ExplodeEnds(c) \/ ScaffoldEnds(c) \/ Opened(c)
  PROVE  Quits(c) \/ Begins(c) \/ Makes(c) \/ Shows(c)
<1>1. ASSUME NEW f \in Folders, OpenFolder(c, f) PROVE Quits(c) \/ Makes(c)
  <2>1. OpensFolder(c, f, files') /\ call[c].at = "idle"
    BY <1>1 DEF OpenFolder, OpensFolder, Fresh
  <2> QED
    BY <1>1, <2>1, OpenFolderKind DEF OpenFolder
<1>2. ASSUME NEW f \in Folders, NewFolder(c, f) PROVE Begins(c)
  <2>1. Turns(c, "new", "scaffolding", None, f)
    BY <1>2, CallTurns, CallBegins DEF NewFolder
  <2> QED
    BY <1>2, <2>1 DEF NewFolder, Fresh, Begins, Holds, Stays, disk, history
<1>3. ASSUME NEW p \in Archives, OpenArchive(c, p) PROVE Begins(c)
  <2>1. Turns(c, "open", "exploding", None, p)
    BY <1>3, CallTurns, CallBegins DEF OpenArchive
  <2>2. Closed
    BY <1>3, Closing DEF OpenArchive
  <2> QED
    BY <1>3, <2>1, <2>2 DEF OpenArchive, Fresh, Begins, Holds
<1>4. ASSUME NEW e \in DOMAIN Examples, OpenExample(c, e) PROVE Makes(c)
  <2>1. Turns(c, "open", "git", None, None)
    BY <1>4, CallTurns, CallBegins DEF OpenExample
  <2>2. Closed
    BY <1>4, Closing DEF OpenExample
  <2>3. Made(c, State("example", None, e))
    BY <1>4, Making DEF OpenExample
  <2>4. /\ files'[c] = Examples[e]
        /\ \A d \in Calls : d # c => files'[d] = files[d]
    BY <1>4 DEF OpenExample, Shapes, Roots
  <2> QED
    BY <1>4, <2>1, <2>2, <2>3, <2>4 DEF OpenExample, Fresh, Makes, Turns, Made, State
<1>5. ASSUME ExplodeEnds(c) PROVE Quits(c) \/ Makes(c)
  <2> DEFINE p == call[c].to
  <2>1. p \in Archives /\ call[c].does = "open" /\ call[c].at = "exploding" /\ call[c].of = None
    BY <1>5 DEF ExplodeEnds, Arguments
  <2>2. CASE Explodable(archive[p])
    <3>1. /\ Turns(c, "open", "git", None, p)
          /\ Made(c, State("archive", p, p))
      BY <1>5, <2>1, <2>2, CallTurns, Making DEF ExplodeEnds
    <3>2. /\ files'[c] = Explode(archive[p])
          /\ \A d \in Calls : d # c => files'[d] = files[d]
      BY <1>5, <2>2 DEF ExplodeEnds, Shapes, Roots
    <3> QED
      BY <1>5, <2>1, <2>2, <3>1, <3>2
      DEF ExplodeEnds, Makes, Stays, Turns, Made, State, history
  <2>3. CASE ~Explodable(archive[p])
    <3>1. Ends(c)
      BY <1>5, <2>3, CallTurns DEF ExplodeEnds
    <3> QED
      BY <1>5, <2>1, <2>3, <3>1 DEF ExplodeEnds, Quits, Holds, Stays, history
  <2> QED
    BY <2>2, <2>3
<1>6. ASSUME ScaffoldEnds(c) PROVE Quits(c) \/ Makes(c)
  <2> DEFINE f == call[c].to
  <2>1. f \in Folders /\ f \notin Calls
    BY <1>6, PathsAssumption DEF ScaffoldEnds, Arguments
  <2>2. CASE Scaffolds(files[f])
    <3>1. \A d \in Calls : files'[d] = files[d]
      BY <1>6, <2>1, <2>2 DEF ScaffoldEnds, Shapes, Roots
    <3>2. OpensFolder(c, f, files')
      BY <1>6, <2>2 DEF ScaffoldEnds
    <3> QED
      BY <1>6, <2>1, <3>1, <3>2, OpenFolderKind DEF ScaffoldEnds
  <2>3. CASE ~Scaffolds(files[f])
    <3>1. Ends(c)
      BY <1>6, <2>3, CallTurns DEF ScaffoldEnds
    <3> QED
      BY <1>6, <2>3, <3>1 DEF ScaffoldEnds, Quits, Holds, Stays
  <2> QED
    BY <2>2, <2>3
<1>7. ASSUME Opened(c) PROVE Shows(c)
  <2>1. Ends(c)
    BY <1>7, CallTurns DEF Opened
  <2>2. /\ Marks(c) /\ project'[c].git = GitBase(project[c], c)
        /\ project'[c].dirty = project[c].dirty
    BY <1>7, Marking DEF Opened, disk
  <2>3. orphans' = orphans \cup ({open} \ {None})
    BY <1>7 DEF Opened
  <2> QED
    BY <1>7, <2>1, <2>2, <2>3 DEF Opened, Shows, Opening, disk
<1> QED
  BY <1>1, <1>2, <1>3, <1>4, <1>5, <1>6, <1>7

\* Each step of a call that saves is of one of six.
LEMMA SavingKinds ==
  ASSUME Shapes, Lifetimes, Arguments, NEW c \in Calls,
         \/ SaveProject(c)
         \/ \E p \in Archives : SaveProjectAs(c, p)
         \/ ReadsDesign(c) \/ ReadsTable(c) \/ ReadsLibrary(c)
         \/ WritesArchive(c) \/ SaveEnds(c) \/ Saved(c)
  PROVE  \/ Quits(c) \/ Begins(c) \/ Reads(c) \/ Publishes(c)
         \/ \E d \in Calls : Clears(c, d) \/ Learns(c, d)
<1>1. ASSUME SaveProject(c)
      PROVE  Begins(c) \/ (Clears(c, open) /\ open \in Calls)
  <2>1. open \in Calls /\ call[c].at = "idle"
    BY <1>1 DEF SaveProject, Fresh, Shapes
  <2>2. CASE project[open].form = "archive"
    <3>1. call' = [call EXCEPT ![c] = [[Idle EXCEPT !.does = "save", !.of = open]
                                         EXCEPT !.at = "design", !.to = project[open].path]]
      BY <1>1, <2>2 DEF SaveProject
    <3>2. Turns(c, "save", "design", open, project[open].path)
      BY <3>1, CallTurns, CallBegins
    <3> QED
      BY <1>1, <2>1, <2>2, <3>2 DEF SaveProject, Begins, Holds, Stays, disk, history
  <2>3. CASE project[open].form # "archive"
    <3>1. /\ call' = [call EXCEPT ![c] = [[Idle EXCEPT !.does = "save", !.of = open]
                                            EXCEPT !.at = "git"]]
          /\ project' = [project EXCEPT ![open].dirty = FALSE]
      BY <1>1, <2>3 DEF SaveProject
    <3>2. Turns(c, "save", "git", open, None)
      BY <3>1, CallTurns, CallBegins
    <3>3. /\ Marks(open) /\ project'[open].dirty = FALSE
          /\ project'[open].git = project[open].git
      BY <1>1, <2>1, <3>1, Marking DEF SaveProject, disk
    <3> QED
      BY <1>1, <2>1, <2>3, <3>2, <3>3 DEF SaveProject, Clears, disk, history
  <2> QED
    BY <2>2, <2>3
<1>2. ASSUME NEW p \in Archives, SaveProjectAs(c, p) PROVE Begins(c)
  <2>1. open \in Calls /\ Turns(c, "saveAs", "design", open, p)
    BY <1>2, CallTurns, CallBegins DEF SaveProjectAs, Shapes
  <2>2. Gives(p)
    BY <1>2 DEF SaveProjectAs, Gives
  <2> QED
    BY <1>2, <2>1, <2>2 DEF SaveProjectAs, Fresh, Begins, Holds, Stays, disk
<1>3. ASSUME ReadsDesign(c) PROVE Reads(c) \/ Quits(c)
  <2>1. CASE Loadable(Source(c)) /\ Proceeds(c, "table", [Nowhere EXCEPT !.design = Source(c).design])
    <3>1. /\ IsDirectory([Nowhere EXCEPT !.design = Source(c).design])
          /\ [Nowhere EXCEPT !.design = Source(c).design].design = Source(c).design
          /\ [Nowhere EXCEPT !.design = Source(c).design].table = NoFile
          /\ [Nowhere EXCEPT !.design = Source(c).design].library = NoFile
      BY DEF IsDirectory, Nowhere
    <3>2. /\ Turns(c, call[c].does, "table", call[c].of, call[c].to)
          /\ call'[c].read = [Nowhere EXCEPT !.design = Source(c).design]
      BY <2>1, <3>1, CallReads DEF Proceeds
    <3> QED
      BY <1>3, <2>1, <3>1, <3>2 DEF ReadsDesign, Proceeds, Reads, Holds, Stays, disk, history
  <2>2. CASE call' = [call EXCEPT ![c] = Ended]
             /\ UNCHANGED <<disk, open, project, changed, watchGit, writes, history>>
    <3>1. Ends(c)
      BY <2>2, CallTurns
    <3> QED
      BY <1>3, <2>2, <3>1 DEF ReadsDesign, Quits, Holds, Stays, disk, history
  <2> QED
    BY <1>3, <2>1, <2>2 DEF ReadsDesign
<1>4. ASSUME ReadsTable(c) PROVE Reads(c)
  <2> DEFINE read == [call[c].read EXCEPT !.table = Source(c).table]
  <2>1. call[c].read = [design |-> call[c].read.design, table |-> call[c].read.table,
                        library |-> call[c].read.library]
    BY DEF Shapes, CallShapes, IsCall, IsDirectory
  <2>2. /\ IsDirectory(read) /\ read.design = call[c].read.design
        /\ read.table = Source(c).table /\ read.library = call[c].read.library
    BY <2>1 DEF IsDirectory
  <2> HIDE DEF read
  <2>3. call' = [call EXCEPT ![c].at = "library", ![c].read = read]
    BY <1>4 DEF ReadsTable, Proceeds, read
  <2>4. Turns(c, call[c].does, "library", call[c].of, call[c].to) /\ call'[c].read = read
    BY <2>2, <2>3, CallReads
  <2> QED
    BY <1>4, <2>2, <2>4 DEF ReadsTable, Proceeds, Reads, Holds, Stays, disk, history
<1>5. \A t : \A p \in Archives : archive' = [archive EXCEPT ![p] = t] =>
        archive'[p] = t /\ \A q \in Archives : q # p => archive'[q] = archive[q]
  <2>1. archive = [p \in Archives |-> archive[p]]
    BY DEF Shapes
  <2> QED
    BY <2>1
<1>6. ASSUME ReadsLibrary(c) PROVE Publishes(c)
  <2> DEFINE read == [call[c].read EXCEPT !.library = Source(c).library]
  <2>1. call[c].read = [design |-> call[c].read.design, table |-> call[c].read.table,
                        library |-> call[c].read.library]
    BY DEF Shapes, CallShapes, IsCall, IsDirectory
  <2>2. /\ read.design = call[c].read.design /\ read.table = call[c].read.table
        /\ read.library = Source(c).library
    BY <2>1
  <2> HIDE DEF read
  <2>3. Turns(c, call[c].does, "emptied", call[c].of, call[c].to) /\ call'[c].read = read
    BY <1>6, CallReadsLibrary DEF ReadsLibrary, read
  <2>4. call[c].to \in Archives
    BY <1>6 DEF ReadsLibrary, Arguments, Saving, Bundling
  <2>5. /\ archive'[call[c].to] = Emptied
        /\ \A q \in Archives : q # call[c].to => archive'[q] = archive[q]
    BY ZenonT(30), <1>5, <1>6, <2>4 DEF ReadsLibrary
  <2> QED
    BY <1>6, <2>2, <2>3, <2>5 DEF ReadsLibrary, Publishes
<1>7. ASSUME WritesArchive(c) PROVE Publishes(c)
  <2>1. Turns(c, call[c].does, "bundled", call[c].of, call[c].to)
    BY <1>7, NamedCalls, CallTurns DEF WritesArchive
  <2>2. call[c].to \in Archives
    BY <1>7 DEF WritesArchive, Arguments, Saving, Bundling
  <2>3. /\ archive'[call[c].to] = Bundle(call[c].read)
        /\ \A q \in Archives : q # call[c].to => archive'[q] = archive[q]
    BY ZenonT(30), <1>5, <1>7, <2>2 DEF WritesArchive
  <2> QED
    BY <1>7, <2>1, <2>3 DEF WritesArchive, Publishes
<1>8. ASSUME SaveEnds(c)
      PROVE  Quits(c) \/ (Clears(c, call[c].of) /\ call[c].of \in Calls)
  <2>1. call[c].of \in Calls /\ call[c].at = "bundled"
    BY <1>8 DEF SaveEnds, Arguments, Saving
  <2>2. CASE call[c].does = "save"
    <3>1. Turns(c, "save", "git", call[c].of, call[c].to)
      BY <1>8, <2>2, CallTurns DEF SaveEnds
    <3>2. /\ Marks(call[c].of) /\ project'[call[c].of].dirty = FALSE
          /\ project'[call[c].of].git = project[call[c].of].git
      BY <1>8, <2>1, <2>2, Marking DEF SaveEnds, disk
    <3> QED
      BY <1>8, <2>1, <2>2, <3>1, <3>2 DEF SaveEnds, Clears, disk, history
  <2>3. CASE call[c].does # "save"
    <3>1. Ends(c)
      BY <1>8, <2>3, CallTurns DEF SaveEnds
    <3> QED
      BY <1>8, <2>1, <2>3, <3>1 DEF SaveEnds, Quits, Holds, Stays, disk, history
  <2> QED
    BY <2>2, <2>3
<1>9. ASSUME Saved(c) PROVE Learns(c, call[c].of) /\ call[c].of \in Calls
  <2>1. call[c].of \in Calls
    BY <1>9 DEF Saved, Arguments
  <2>2. Ends(c)
    BY <1>9, CallTurns DEF Saved
  <2>3. /\ Marks(call[c].of) /\ project'[call[c].of].dirty = project[call[c].of].dirty
        /\ project'[call[c].of].git = GitBase(project[call[c].of], call[c].of)
    BY ZenonT(30), <1>9, <2>1, Marking DEF Saved, disk
  <2> QED
    BY <1>9, <2>1, <2>2, <2>3 DEF Saved, Learns, disk, history
<1> QED
  BY <1>1, <1>2, <1>3, <1>4, <1>6, <1>7, <1>8, <1>9

\* Every step of the session is of one of the kinds.
LEMMA StepKinds ==
  ASSUME Shapes, Lifetimes, Arguments, [Next]_vars
  PROVE  StepKind
<1>1. CASE UNCHANGED vars
  BY <1>1 DEF vars, disk, history, StepKind, Waits, Holds, Stays
<1>2. CASE Close
  <2>1. Closed
    BY <1>2, Closing DEF Close
  <2> QED
    BY <1>2, <2>1 DEF Close, StepKind, Waits, Holds
<1>3. CASE Debounce
  BY <1>3 DEF Debounce, disk, history, StepKind, Asks
<1>4. CASE WatchGitEnds
  <2>1. CASE open = None
    BY <1>4, <2>1 DEF WatchGitEnds, disk, history, StepKind, Answers
  <2>2. CASE open # None
    <3>1. open \in Calls
      BY <2>2 DEF Shapes
    <3> QED
      BY <1>4, <2>2, <3>1, Marking DEF WatchGitEnds, disk, history, StepKind, Answers
  <2> QED
    BY <2>1, <2>2
<1>5. ASSUME NEW r \in Calls, RemoveFile(r) PROVE StepKind
  <2>1. \A d \in Calls : d # r => files'[d] = files[d]
    <3>1. files = [x \in Roots |-> files[x]] /\ \A d \in Calls : d \in Roots
      BY DEF Shapes, Roots
    <3> QED
      BY <1>5, <3>1 DEF RemoveFile
  <2> QED
    BY <1>5, <2>1 DEF RemoveFile, StepKind, Removes, history
<1>6. ASSUME NEW text, open # None, WriteSpec(text) PROVE StepKind
  <2>1. open \in Calls /\ \A d \in Calls : d \in Roots /\ files = [x \in Roots |-> files[x]]
    BY <1>6 DEF Shapes, Roots
  <2>2. Root(open) \in Folders \cup {open} /\ \A d \in Calls : d \notin Folders
    BY <2>1, RootsOf, PathsAssumption
  <2>3. \A d \in Calls : d # open => files'[d] = files[d]
    BY <1>6, <2>1, <2>2 DEF WriteSpec
  <2>4. Marks(open) /\ project'[open].dirty = TRUE /\ project'[open].git = project[open].git
    BY <1>6, <2>1, Marking DEF WriteSpec
  <2> QED
    BY <1>6, <2>1, <2>3, <2>4 DEF WriteSpec, StepKind, Dirties
<1> QED
  BY StepNames, OpeningKinds, SavingKinds, <1>1, <1>2, <1>3, <1>4, <1>5, <1>6 DEF StepKind

(***************************************************************************)
(* Ownership                                                               *)
(***************************************************************************)

\* Openings do not overtake each other on a project: what is closed was open, and
\* what is made is made by a call that nothing knows of yet.
LEMMA LifetimesStep ==
  ASSUME Shapes, Lifetimes, Arguments, StepKind
  PROVE  Lifetimes'
<1> USE NamedCalls DEF Lifetimes, OpenLives, Lives, Opening, Held
<1>0. open \in Calls \cup {None} /\ \A c \in Calls : c # None
  BY PathsAssumption DEF Shapes
<1>a. ASSUME Closed \/ Stays
      PROVE  /\ open' \in {open, None}
             /\ open' # None => open' = open /\ removing' = removing
             /\ \A c \in Calls : c \in removing' => call[c] = Ended /\ c \in scratch
  BY <1>0, <1>a DEF Closed, Stays, IsShowcase
<1>b. ASSUME NEW d \in Calls, Closed \/ Stays, call'[d] = call[d], project'[d] = project[d],
             d \in scratch' <=> d \in scratch
      PROVE  Lives(d)'
  <2>1. d \in removing' => call[d] = Ended /\ d \in scratch
    BY <1>a, <1>b
  <2>2. open' \in {open, None}
    BY <1>a, <1>b
  <2> QED
    BY <1>0, <1>b, <2>1, <2>2
<1>c. ASSUME Closed \/ Stays,
             open # None => call'[open] = call[open] /\ project'[open] = project[open]
      PROVE  OpenLives'
  <2>1. open' # None => open' = open /\ removing' = removing
    BY <1>a, <1>c
  <2> QED
    BY <1>0, <1>c, <2>1
<1>d. \A c \in Calls : call[c].at \in {"idle", "exploding", "scaffolding", "design", "bundled"} =>
        /\ call[c] # Ended /\ ~Opening(c) /\ open # c
        /\ project[c].form = "none" /\ c \notin scratch /\ c \notin removing
  BY <1>0
<1>1. CASE Waits
  BY <1>1, <1>b, <1>c DEF Waits, Holds
<1>2. CASE Dirties
  BY <1>0, <1>2 DEF Dirties, Marks
<1>3. CASE Asks
  BY <1>0, <1>3 DEF Asks, disk
<1>4. CASE Answers
  BY <1>0, <1>4 DEF Answers, Marks
<1>5. ASSUME NEW r \in Calls, Removes(r) PROVE Lifetimes'
  BY <1>0, <1>5 DEF Removes
<1>6. ASSUME NEW c \in Calls, Quits(c) PROVE Lifetimes'
  <2>1. /\ call'[c] = Ended /\ project' = project /\ scratch' = scratch /\ (Closed \/ Stays)
        /\ \A d \in Calls : d # c => call'[d] = call[d]
        /\ open # c /\ project[c].form = "none" /\ c \notin scratch /\ c \notin removing
    BY <1>6, <1>d DEF Quits, Ends, Holds
  <2>2. OpenLives' /\ \A d \in Calls : d # c => Lives(d)'
    BY <1>0, <1>b, <1>c, <2>1
  <2>3. open' # c /\ c \notin removing'
    BY <1>0, <2>1 DEF Closed, Stays
  <2>4. Lives(c)'
    BY <2>1, <2>3
  <2> QED
    BY <2>2, <2>4
<1>7. ASSUME NEW c \in Calls, Begins(c) PROVE Lifetimes'
  <2>1. /\ project' = project /\ scratch' = scratch /\ (Closed \/ Stays)
        /\ \A d \in Calls : d # c => call'[d] = call[d]
        /\ open # c /\ project[c].form = "none" /\ c \notin scratch /\ c \notin removing
        /\ call'[c].at # "git"
    BY <1>7, <1>d DEF Begins, Turns, Holds
  <2>2. OpenLives' /\ \A d \in Calls : d # c => Lives(d)'
    BY <1>0, <1>b, <1>c, <2>1
  <2>3. c \notin removing'
    BY <1>7, <2>1 DEF Begins, Closed, Stays
  <2>4. Lives(c)'
    BY <1>0, <1>a, <2>1, <2>3
  <2> QED
    BY <2>2, <2>4
<1>8. ASSUME NEW c \in Calls, Makes(c) PROVE Lifetimes'
  <2>1. /\ (Closed \/ Stays) /\ open # c /\ c \notin scratch /\ c \notin removing
        /\ \A d \in Calls : d # c => call'[d] = call[d] /\ project'[d] = project[d]
                                     /\ (d \in scratch' <=> d \in scratch)
        /\ call'[c].does \in {"open", "new"} /\ call'[c].at = "git"
    BY <1>8, <1>d DEF Makes
  <2>2. OpenLives' /\ \A d \in Calls : d # c => Lives(d)'
    BY <1>0, <1>b, <1>c, <2>1
  <2>3. c \notin removing'
    BY <2>1 DEF Closed, Stays
  <2>4. /\ project'[c].form = "directory" => project'[c].path \in Folders /\ c \notin scratch'
        /\ project'[c].form = "archive" => project'[c].path \in Archives /\ c \in scratch'
        /\ project'[c].form = "example" => c \in scratch'
        /\ project'[c].form \in {"directory", "archive", "example"}
    BY <1>8, <2>1 DEF Makes
  <2>5. Lives(c)'
    BY <2>1, <2>3, <2>4
  <2> QED
    BY <2>2, <2>5
<1>9. ASSUME NEW c \in Calls, Reads(c) PROVE Lifetimes'
  BY <1>0, <1>9 DEF Reads, Turns, Holds, Stays
<1>10. ASSUME NEW c \in Calls, Publishes(c) PROVE Lifetimes'
  BY <1>0, <1>10 DEF Publishes, Turns
<1>11. ASSUME NEW c \in Calls, Shows(c) PROVE Lifetimes'
  BY <1>0, <1>11 DEF Shows, Ends, Marks
<1>12. ASSUME NEW c \in Calls, NEW d \in Calls, Clears(c, d) PROVE Lifetimes'
  BY <1>0, <1>12 DEF Clears, Turns, Marks
<1>13. ASSUME NEW c \in Calls, NEW d \in Calls, Learns(c, d) PROVE Lifetimes'
  BY <1>0, <1>13 DEF Learns, Ends, Marks
<1> QED
  BY <1>1, <1>2, <1>3, <1>4, <1>5, <1>6, <1>7, <1>8, <1>9, <1>10, <1>11, <1>12, <1>13
  DEF StepKind

\* A call keeps what it was told, and the project it saves was opened for good.
LEMMA ArgumentsStep ==
  ASSUME Shapes, Lifetimes, Arguments, StepKind
  PROVE  Arguments'
<1> USE NamedCalls DEF Arguments, Saving, Bundling
<1>0. open \in Calls \cup {None} /\ \A c \in Calls : c # None
  BY PathsAssumption DEF Shapes
<1>1. CASE Waits
  BY <1>1 DEF Waits, Holds
<1>2. CASE Dirties
  BY <1>2 DEF Dirties, Marks
<1>3. CASE Asks
  BY <1>3 DEF Asks, disk
<1>4. CASE Answers
  BY <1>0, <1>4 DEF Answers, Marks
<1>5. ASSUME NEW r \in Calls, Removes(r) PROVE Arguments'
  BY <1>5 DEF Removes
<1>6. ASSUME NEW c \in Calls, Quits(c) PROVE Arguments'
  BY <1>6 DEF Quits, Ends, Holds
<1>7. ASSUME NEW c \in Calls, Begins(c) PROVE Arguments'
  <2>1. /\ project' = project /\ call[c].at = "idle" /\ \A d \in Calls : d # c => call'[d] = call[d]
    BY <1>7 DEF Begins, Turns, Holds
  <2>2. open # None => call[open] = Ended /\ project[open].form # "none" /\ open # c
    BY <2>1 DEF Lifetimes, OpenLives
  <2>3. open \in Calls /\ project[open].form = "archive" => project[open].path \in Archives
    BY DEF Lifetimes, Lives
  <2>4. \A d \in Calls : call[d].of # None => call[d].of # c
    BY <2>1
  <2> QED
    BY <1>0, <1>7, <2>1, <2>2, <2>3, <2>4 DEF Begins, Turns
<1>8. ASSUME NEW c \in Calls, Makes(c) PROVE Arguments'
  BY <1>8 DEF Makes
<1>9. ASSUME NEW c \in Calls, Reads(c) PROVE Arguments'
  BY <1>9 DEF Reads, Turns, Holds
<1>10. ASSUME NEW c \in Calls, Publishes(c) PROVE Arguments'
  BY <1>10 DEF Publishes, Turns
<1>11. ASSUME NEW c \in Calls, Shows(c) PROVE Arguments'
  BY <1>11 DEF Shows, Ends, Marks
<1>12. ASSUME NEW c \in Calls, NEW d \in Calls, Clears(c, d) PROVE Arguments'
  BY <1>0, <1>12 DEF Clears, Turns, Marks, Lifetimes, OpenLives, Lives
<1>13. ASSUME NEW c \in Calls, NEW d \in Calls, Learns(c, d) PROVE Arguments'
  BY <1>13 DEF Learns, Ends, Marks
<1> QED
  BY <1>1, <1>2, <1>3, <1>4, <1>5, <1>6, <1>7, <1>8, <1>9, <1>10, <1>11, <1>12, <1>13
  DEF StepKind

\* A directory changes hands but is never without an owner.
LEMMA ScratchStep ==
  ASSUME Shapes, Lifetimes, ScratchIsOwned, StepKind
  PROVE  ScratchIsOwned'
<1> USE NamedCalls DEF ScratchIsOwned
<1>0. open \in Calls \cup {None} /\ scratch \subseteq Calls /\ \A c \in Calls : c # None
  BY PathsAssumption DEF Shapes
<1>1. CASE Waits
  BY <1>0, <1>1 DEF Waits, Holds, Closed, Stays, Lifetimes, OpenLives, Lives, IsShowcase
<1>2. CASE Dirties
  BY <1>0, <1>2 DEF Dirties, Marks, IsShowcase
<1>3. CASE Asks
  BY <1>0, <1>3 DEF Asks, disk, IsShowcase
<1>4. CASE Answers
  BY <1>0, <1>4 DEF Answers, Marks, IsShowcase
<1>5. ASSUME NEW r \in Calls, Removes(r) PROVE ScratchIsOwned'
  BY <1>0, <1>5 DEF Removes, IsShowcase
<1>6. ASSUME NEW c \in Calls, Quits(c) PROVE ScratchIsOwned'
  BY <1>0, <1>6 DEF Quits, Ends, Holds, Closed, Stays, Lifetimes, OpenLives, Lives, IsShowcase
<1>7. ASSUME NEW c \in Calls, Begins(c) PROVE ScratchIsOwned'
  BY <1>0, <1>7 DEF Begins, Turns, Holds, Closed, Stays, Lifetimes, OpenLives, Lives, IsShowcase
<1>8. ASSUME NEW c \in Calls, Makes(c) PROVE ScratchIsOwned'
  BY <1>0, <1>8 DEF Makes, Closed, Stays, Lifetimes, OpenLives, Lives, IsShowcase
<1>9. ASSUME NEW c \in Calls, Reads(c) PROVE ScratchIsOwned'
  BY <1>0, <1>9 DEF Reads, Turns, Holds, Stays, IsShowcase
<1>10. ASSUME NEW c \in Calls, Publishes(c) PROVE ScratchIsOwned'
  BY <1>0, <1>10 DEF Publishes, Turns, IsShowcase
<1>11. ASSUME NEW c \in Calls, Shows(c) PROVE ScratchIsOwned'
  BY <1>0, <1>11 DEF Shows, Ends, Marks, IsShowcase
<1>12. ASSUME NEW c \in Calls, NEW d \in Calls, Clears(c, d) PROVE ScratchIsOwned'
  BY <1>0, <1>12 DEF Clears, Turns, Marks, IsShowcase
<1>13. ASSUME NEW c \in Calls, NEW d \in Calls, Learns(c, d) PROVE ScratchIsOwned'
  BY <1>0, <1>13 DEF Learns, Ends, Marks, Lifetimes, OpenLives, Lives, Opening, IsShowcase
<1> QED
  BY <1>1, <1>2, <1>3, <1>4, <1>5, <1>6, <1>7, <1>8, <1>9, <1>10, <1>11, <1>12, <1>13
  DEF StepKind

\* What git is asked, and what it answers, is about the open project.
LEMMA GitStep ==
  ASSUME Shapes, Lifetimes, Arguments, WatchIsOwn, GitIsOwn, StepKind
  PROVE  WatchIsOwn' /\ GitIsOwn'
<1> USE NamedCalls DEF WatchIsOwn, GitIsOwn, GitBase
<1>0. open \in Calls \cup {None} /\ \A c \in Calls : c # None
  BY PathsAssumption DEF Shapes
<1>1. CASE Waits
  BY <1>0, <1>1 DEF Waits, Holds, Closed, Stays
<1>2. CASE Dirties
  BY <1>0, <1>2 DEF Dirties, Marks
<1>3. CASE Asks
  BY <1>0, <1>3 DEF Asks, disk
<1>4. CASE Answers
  BY <1>0, <1>4 DEF Answers, Marks
<1>5. ASSUME NEW r \in Calls, Removes(r) PROVE WatchIsOwn' /\ GitIsOwn'
  BY <1>0, <1>5 DEF Removes
<1>6. ASSUME NEW c \in Calls, Quits(c) PROVE WatchIsOwn' /\ GitIsOwn'
  BY <1>0, <1>6 DEF Quits, Holds, Closed, Stays
<1>7. ASSUME NEW c \in Calls, Begins(c) PROVE WatchIsOwn' /\ GitIsOwn'
  BY <1>0, <1>7 DEF Begins, Holds, Closed, Stays
<1>8. ASSUME NEW c \in Calls, Makes(c) PROVE WatchIsOwn' /\ GitIsOwn'
  BY <1>0, <1>8 DEF Makes, Closed, Stays, Lifetimes, OpenLives, Lives
<1>9. ASSUME NEW c \in Calls, Reads(c) PROVE WatchIsOwn' /\ GitIsOwn'
  BY <1>0, <1>9 DEF Reads, Holds, Stays
<1>10. ASSUME NEW c \in Calls, Publishes(c) PROVE WatchIsOwn' /\ GitIsOwn'
  BY <1>0, <1>10 DEF Publishes
<1>11. ASSUME NEW c \in Calls, Shows(c) PROVE WatchIsOwn' /\ GitIsOwn'
  BY <1>0, <1>11 DEF Shows, Marks
<1>12. ASSUME NEW c \in Calls, NEW d \in Calls, Clears(c, d) PROVE WatchIsOwn' /\ GitIsOwn'
  BY <1>0, <1>12 DEF Clears, Marks
<1>13. ASSUME NEW c \in Calls, NEW d \in Calls, Learns(c, d) PROVE WatchIsOwn' /\ GitIsOwn'
  BY <1>0, <1>13 DEF Learns, Marks
<1> QED
  BY <1>1, <1>2, <1>3, <1>4, <1>5, <1>6, <1>7, <1>8, <1>9, <1>10, <1>11, <1>12, <1>13
  DEF StepKind

\* The application starts with the last project open, and nothing else made.
LEMMA OwnerInit ==
  ASSUME Init
  PROVE  OwnerInv
<1>1. 0 \in Calls /\ \A c \in Calls : c \in Roots /\ c \notin Folders /\ c # None
  BY CallsAssumption, PathsAssumption DEF Calls, Roots
<1>2. /\ open = 0 /\ scratch = {0} /\ removing = {} /\ watchGit = None /\ orphans = {}
      /\ LastProject \in Archives
  BY PathsAssumption DEF Init
<1>3. /\ call = [c \in Calls |-> call[c]] /\ call[0] = Ended
      /\ \A c \in Calls : c # 0 => call[c] = Idle
  BY <1>1 DEF Init
<1>4. IsCall(Idle) /\ Idle.at = "idle" /\ Idle.does = "nothing" /\ Idle.of = None
  BY NamedCalls, CallFields
<1>5. /\ project \in [Calls -> ProjectState]
      /\ project[0].form = "archive" /\ project[0].path = LastProject
      /\ project[0].git = LastProject
      /\ \A c \in Calls : c # 0 => project[c] = NoProject /\ project[c].form = "none"
  <2> DEFINE last == [State("archive", LastProject, LastProject) EXCEPT !.git = LastProject]
  <2>1. /\ last \in ProjectState /\ last.form = "archive" /\ last.path = LastProject
        /\ last.git = LastProject
    BY <1>2, ProjectStates DEF State, ProjectState, Paths
  <2> HIDE DEF last
  <2>2. project = [c \in Calls |-> IF c = 0 THEN last ELSE NoProject]
    BY DEF Init, last
  <2> QED
    BY <1>1, <2>1, <2>2, ProjectStates DEF NoProject
<1>6. files = [r \in Roots |-> files[r]] /\ \A c \in Calls : IsDirectory(files[c])
  <2>1. \A c \in Calls : files[c] = IF c = 0 THEN Explode(archive[LastProject]) ELSE Nowhere
    BY <1>1 DEF Init
  <2> QED
    BY <2>1, Directories, NamedCalls DEF Init
<1>7. Shapes
  <2>1. archive = [p \in Archives |-> archive[p]]
    BY DEF Init
  <2>2. CallShapes
    BY <1>3, <1>4, NamedCalls DEF CallShapes
  <2> QED
    BY <1>1, <1>2, <1>5, <1>6, <2>1, <2>2 DEF Shapes, Paths
<1>8. Lifetimes
  BY <1>1, <1>2, <1>3, <1>4, <1>5, NamedCalls DEF Lifetimes, OpenLives, Lives, Held, Opening
<1>9. Arguments
  BY <1>3, <1>4, NamedCalls DEF Arguments, Saving, Bundling
<1>10. ScratchIsOwned /\ WatchIsOwn /\ GitIsOwn
  BY <1>2, <1>5 DEF ScratchIsOwned, WatchIsOwn, GitIsOwn
<1> QED
  BY <1>7, <1>8, <1>9, <1>10 DEF OwnerInv

\* Ownership is inductive.
LEMMA OwnerStep == OwnerInv /\ [Next]_vars => OwnerInv'
<1> SUFFICES ASSUME OwnerInv, [Next]_vars PROVE OwnerInv'
  OBVIOUS
<1>1. Shapes /\ Lifetimes /\ Arguments /\ ScratchIsOwned /\ WatchIsOwn /\ GitIsOwn
  BY DEF OwnerInv
<1>2. StepKind
  BY <1>1, StepKinds
<1>3. Shapes' /\ Lifetimes' /\ Arguments'
  BY <1>1, <1>2, ShapesStep, LifetimesStep, ArgumentsStep
<1>4. ScratchIsOwned' /\ WatchIsOwn' /\ GitIsOwn'
  BY <1>1, <1>2, ScratchStep, GitStep
<1> QED
  BY <1>3, <1>4 DEF OwnerInv

\* Ownership always holds.
LEMMA OwnerAlways == Spec => []OwnerInv
  BY OwnerInit, OwnerStep, PTL DEF Spec

\* What the session holds is what the process can hold: only scratch
\* directories there are are being removed, the open project is one whose call
\* has ended, and a save is of a project that was opened.
THEOREM TypeCorrect == Spec => []TypeOK
<1>1. OwnerInv => TypeOK
  BY DEF OwnerInv, Shapes, Lifetimes, OpenLives, Lives, Arguments, TypeOK
<1> QED
  BY <1>1, OwnerAlways, PTL

\* No scratch directory is forgotten but one of an example, or one of two
\* opens that overlapped.
THEOREM ScratchAlwaysOwned == Spec => []ScratchIsOwned
<1>1. OwnerInv => ScratchIsOwned
  BY DEF OwnerInv
<1> QED
  BY <1>1, OwnerAlways, PTL

\* The git status shown is that of the repository of the open project, unless
\* git was being asked about another one when it was opened.
THEOREM GitAlwaysOwn == Spec => []GitIsOwn
<1>1. OwnerInv => GitIsOwn
  BY DEF OwnerInv
<1> QED
  BY <1>1, OwnerAlways, PTL

(***************************************************************************)
(* What a step makes of a project, a save and a .gpk                       *)
(***************************************************************************)

\* A project that was made stays what it is.
Same(d) ==
  /\ project'[d].form = project[d].form
  /\ project'[d].path = project[d].path
  /\ project'[d].name = project[d].name

\* A step makes one project at most, of a call that was idle or waiting for a core.
LEMMA ProjectsStand ==
  ASSUME Shapes, Lifetimes, StepKind, NEW d \in Calls
  PROVE  Same(d) \/ (Makes(d) /\ project[d].form = "none")
<1> USE DEF Same
<1>1. CASE Waits \/ Asks \/ \E r \in Calls : Removes(r)
  BY <1>1 DEF Waits, Holds, Asks, Removes
<1>2. CASE Dirties \/ Answers
  BY <1>2, PathsAssumption DEF Dirties, Answers, Marks, Shapes
<1>3. ASSUME NEW c \in Calls, Quits(c) \/ Begins(c) \/ Reads(c) \/ Publishes(c) PROVE Same(d)
  BY <1>3 DEF Quits, Begins, Reads, Publishes, Holds
<1>4. ASSUME NEW c \in Calls, Shows(c) PROVE Same(d)
  BY <1>4 DEF Shows, Marks
<1>5. ASSUME NEW c \in Calls, NEW e \in Calls, Clears(c, e) \/ Learns(c, e) PROVE Same(d)
  BY <1>5 DEF Clears, Learns, Marks
<1>6. ASSUME NEW c \in Calls, Makes(c) PROVE Same(d) \/ (Makes(d) /\ project[d].form = "none")
  <2>1. project[c].form = "none"
    BY <1>6, NamedCalls DEF Makes, Lifetimes, Lives, Opening
  <2> QED
    BY <1>6, <2>1 DEF Makes
<1> QED
  BY <1>1, <1>2, <1>3, <1>4, <1>5, <1>6 DEF StepKind

\* A save that is bundling was already, or has begun.
Goes(c) ==
  /\ Bundling(c) /\ call'[c].of = call[c].of /\ call'[c].to = call[c].to
  /\ call'[c] = call[c] \/ Reads(c) \/ Publishes(c)

\* There is no third way to be bundling after a step.
LEMMA SaveTurns ==
  ASSUME Shapes, Lifetimes, StepKind, NEW c \in Calls, Bundling(c)'
  PROVE  Goes(c) \/ (Begins(c) /\ call'[c].at = "design")
<1> USE DEF Bundling
<1>1. ASSUME call'[c] = call[c] PROVE Goes(c)
  BY <1>1 DEF Goes
<1>2. CASE Waits \/ Dirties \/ Asks \/ Answers \/ \E r \in Calls : Removes(r)
  BY <1>1, <1>2 DEF Waits, Dirties, Asks, Answers, Removes
<1>3. ASSUME NEW d \in Calls, Quits(d) \/ Makes(d) \/ Shows(d) PROVE Goes(c)
  BY <1>1, <1>3, NamedCalls DEF Quits, Makes, Shows, Ends
<1>4. ASSUME NEW d \in Calls, NEW e \in Calls, Clears(d, e) \/ Learns(d, e) PROVE Goes(c)
  BY <1>1, <1>4, NamedCalls DEF Clears, Learns, Ends, Turns
<1>5. ASSUME NEW d \in Calls, Begins(d) PROVE Goes(c) \/ (Begins(c) /\ call'[c].at = "design")
  BY <1>1, <1>5 DEF Begins, Turns
<1>6. ASSUME NEW d \in Calls, Reads(d) \/ Publishes(d) PROVE Goes(c)
  BY <1>1, <1>6 DEF Goes, Reads, Publishes, Turns
<1> QED
  BY <1>2, <1>3, <1>4, <1>5, <1>6 DEF StepKind

\* What a step makes of a .gpk: nothing, or what a save writes.
Writes(c, p) == call[c].at = "emptied" /\ call[c].to = p /\ archive'[p] = Bundle(call[c].read)

\* An archive stays, is emptied, or is written by a save.
LEMMA ArchiveTurns ==
  ASSUME Shapes, Arguments, StepKind, NEW p \in Archives
  PROVE  archive'[p] = archive[p] \/ archive'[p] = Emptied \/ \E c \in Calls : Writes(c, p)
<1>1. CASE archive' = archive
  BY <1>1
<1>2. CASE Waits \/ Dirties \/ Asks \/ Answers \/ \E r \in Calls : Removes(r)
  BY <1>1, <1>2 DEF Waits, Holds, Dirties, Marks, Asks, disk, Answers, Removes
<1>3. ASSUME NEW c \in Calls, NEW d \in Calls,
             \/ Quits(c) \/ Begins(c) \/ Makes(c) \/ Reads(c) \/ Shows(c)
             \/ Clears(c, d) \/ Learns(c, d)
      PROVE  archive' = archive
  BY <1>3 DEF Quits, Begins, Makes, Reads, Holds, Shows, Clears, Learns, Marks
<1>4. ASSUME NEW c \in Calls, Publishes(c)
      PROVE  archive'[p] = archive[p] \/ archive'[p] = Emptied \/ Writes(c, p)
  BY <1>4 DEF Publishes, Writes
<1> QED
  BY <1>1, <1>2, <1>3, <1>4 DEF StepKind

(***************************************************************************)
(* Texts: what is kept of a sequence, and how a stream is cut              *)
(***************************************************************************)

\* The recursive function of Those.
Selects(f, s, T, n) ==
  f = [i \in 0 .. n |-> IF i = 0 THEN <<>>
                        ELSE IF s[i] \in T THEN Append(f[i - 1], s[i]) ELSE f[i - 1]]

\* It exists, for a sequence of any length.
LEMMA KeepsExist ==
  ASSUME NEW s, NEW T, NEW n \in Nat
  PROVE  \E f : Selects(f, s, T, n)
<1> USE DEF Selects
<1> DEFINE More(x, i) == IF s[i] \in T THEN Append(x, s[i]) ELSE x
<1> DEFINE Run(f, k) == [i \in 0 .. k |-> IF i = 0 THEN <<>> ELSE More(f[i - 1], i)]
<1> DEFINE P == {k \in Nat : \E f : f = Run(f, k)}
<1>1. 0 \in P
  <2> DEFINE e == [i \in 0 .. 0 |-> <<>>]
  <2>1. \A i \in 0 .. 0 : i = 0
    OBVIOUS
  <2>2. e = Run(e, 0)
    <3> HIDE DEF Next
    <3> QED BY <2>1
  <2> QED BY <2>2
<1>2. ASSUME NEW k \in Nat, k \in P PROVE k + 1 \in P
  <2> HIDE DEF Next
  <2>1. PICK f : f = Run(f, k)
    BY <1>2
  <2> DEFINE g == [i \in 0 .. k + 1 |-> IF i <= k THEN f[i] ELSE More(f[i - 1], i)]
  <2>2. \A i \in 0 .. k : f[i] = IF i = 0 THEN <<>> ELSE More(f[i - 1], i)
    BY <2>1
  <2>3. \A i \in 0 .. k : g[i] = f[i]
    OBVIOUS
  <2>4. g[k + 1] = More(f[k], k + 1)
    OBVIOUS
  <2>5. g = [i \in 0 .. k + 1 |-> g[i]]
    OBVIOUS
  <2> HIDE DEF g
  <2>6. ASSUME NEW i \in 0 .. k + 1
        PROVE  g[i] = IF i = 0 THEN <<>> ELSE More(g[i - 1], i)
    <3>1. CASE i <= k
      <4>1. i \in 0 .. k /\ (i # 0 => i - 1 \in 0 .. k)
        BY <3>1
      <4> QED BY <2>2, <2>3, <4>1
    <3>2. CASE i = k + 1
      <4>1. i # 0 /\ i - 1 = k /\ k \in 0 .. k
        BY <3>2
      <4> QED BY <2>3, <2>4, <3>2, <4>1
    <3> QED BY <3>1, <3>2
  <2>7. g = Run(g, k + 1)
    BY <2>5, <2>6
  <2> HIDE DEF Run
  <2> QED BY <2>7
<1>3. \A k \in Nat : k \in P
  <2> HIDE DEF P
  <2> QED BY <1>1, <1>2, NatInduct
<1> QED
  BY <1>3

\* So what is kept is the last of the values it takes on the way.
LEMMA ThoseRun ==
  ASSUME NEW s, NEW T, Len(s) \in Nat
  PROVE  \E f : Selects(f, s, T, Len(s)) /\ Those(s, T) = f[Len(s)]
<1> DEFINE f == CHOOSE f : Selects(f, s, T, Len(s))
<1>1. Those(s, T) = f[Len(s)]
  BY Zenon DEF Those, Selects
<1>2. Selects(f, s, T, Len(s))
  <2>1. \E g : Selects(g, s, T, Len(s))
    BY KeepsExist
  <2> QED BY <2>1, Zenon
<1> QED
  BY <1>1, <1>2, Zenon

\* Each value is made of the one before.
LEMMA KeepsSteps ==
  ASSUME NEW f, NEW s, NEW T, NEW n \in Nat, Selects(f, s, T, n)
  PROVE  /\ f[0] = <<>>
         /\ \A i \in 0 .. n - 1 :
              f[i + 1] = IF s[i + 1] \in T THEN Append(f[i], s[i + 1]) ELSE f[i]
<1>1. \A i \in 0 .. n : f[i] = IF i = 0 THEN <<>>
                               ELSE IF s[i] \in T THEN Append(f[i - 1], s[i]) ELSE f[i - 1]
  BY DEF Selects
<1>2. 0 \in 0 .. n /\ \A i \in 0 .. n - 1 : i + 1 \in 0 .. n /\ i + 1 # 0 /\ (i + 1) - 1 = i
  OBVIOUS
<1> QED
  BY <1>1, <1>2

\* Those of a sequence with one more element.
LEMMA ThoseAppend ==
  ASSUME NEW S, NEW s \in Seq(S), NEW x \in S, NEW T
  PROVE  Those(Append(s, x), T) = IF x \in T THEN Append(Those(s, T), x) ELSE Those(s, T)
<1>1. PICK a \in Nat : a = Len(s)
  OBVIOUS
<1>2. PICK u : u = Append(s, x)
  OBVIOUS
<1>3. Len(u) = a + 1 /\ u[a + 1] = x /\ \A i \in 1 .. a : u[i] = s[i]
  BY <1>1, <1>2
<1>4. a + 1 \in Nat
  OBVIOUS
<1>5. PICK f : Selects(f, u, T, a + 1) /\ Those(u, T) = f[a + 1]
  BY <1>3, <1>4, ThoseRun
<1>6. PICK g : Selects(g, s, T, a) /\ Those(s, T) = g[a]
  BY <1>1, ThoseRun
<1> HIDE <1>1, <1>2
<1>7. /\ f[0] = <<>>
      /\ \A i \in 0 .. (a + 1) - 1 : f[i + 1] = IF u[i + 1] \in T THEN Append(f[i], u[i + 1]) ELSE f[i]
  BY <1>4, <1>5, KeepsSteps
<1>8. /\ g[0] = <<>>
      /\ \A i \in 0 .. a - 1 : g[i + 1] = IF s[i + 1] \in T THEN Append(g[i], s[i + 1]) ELSE g[i]
  BY <1>6, KeepsSteps
<1> DEFINE P == {i \in Nat : i <= a => f[i] = g[i]}
<1>9. \A i \in Nat : i \in P
  <2>1. 0 \in P
    BY <1>7, <1>8
  <2>2. ASSUME NEW i \in Nat, i \in P PROVE i + 1 \in P
    <3>1. i + 1 <= a => i + 1 \in 1 .. a /\ i \in 0 .. a - 1 /\ i \in 0 .. (a + 1) - 1 /\ i <= a
      OBVIOUS
    <3>2. i + 1 <= a => f[i] = g[i] /\ u[i + 1] = s[i + 1]
      BY <1>3, <2>2, <3>1
    <3>3. i + 1 <= a => f[i + 1] = g[i + 1]
      BY <1>7, <1>8, <3>1, <3>2
    <3> QED BY <3>3
  <2> HIDE DEF P
  <2> QED BY <2>1, <2>2, NatInduct
<1>10. f[a] = g[a] /\ f[a + 1] = IF x \in T THEN Append(f[a], x) ELSE f[a]
  <2>1. a <= a /\ a \in 0 .. (a + 1) - 1
    OBVIOUS
  <2> QED BY <1>3, <1>7, <1>9, <2>1
<1> QED
  BY <1>2, <1>5, <1>6, <1>10, Zenon

\* Of nothing, nothing is kept.
LEMMA ThoseNothing ==
  ASSUME NEW T
  PROVE  Those(<<>>, T) = <<>>
<1>1. Len(<<>>) = 0 /\ 0 \in Nat
  OBVIOUS
<1>2. PICK f : Selects(f, <<>>, T, Len(<<>>)) /\ Those(<<>>, T) = f[Len(<<>>)]
  BY <1>1, ThoseRun
<1>3. f[0] = <<>>
  BY <1>1, <1>2, KeepsSteps
<1> QED
  BY <1>1, <1>2, <1>3

\* What is kept is a sequence; of two laid end to end, what is kept of each.
LEMMA ThoseConcat ==
  ASSUME NEW S, NEW T, NEW s \in Seq(S)
  PROVE  \A t \in Seq(S) :
           /\ Those(t, T) \in Seq(S) /\ Those(t, T) \in Seq(T)
           /\ Those(s \o t, T) = Those(s, T) \o Those(t, T)
<1> DEFINE Good(t) == /\ Those(t, T) \in Seq(S) /\ Those(t, T) \in Seq(T)
                      /\ Those(s, T) \in Seq(S) => Those(s \o t, T) = Those(s, T) \o Those(t, T)
<1> DEFINE P == {t \in Seq(S) : Good(t)}
<1>1. <<>> \in P
  <2>1. <<>> \in Seq(S) /\ <<>> \in Seq(T) /\ s \o <<>> = s
    OBVIOUS
  <2>2. \A q \in Seq(S) : q \o <<>> = q
    OBVIOUS
  <2> QED BY <2>1, <2>2, ThoseNothing
<1>2. ASSUME NEW t \in Seq(S), NEW x \in S, t \in P PROVE Append(t, x) \in P
  <2>1. Append(t, x) \in Seq(S) /\ s \o Append(t, x) = Append(s \o t, x) /\ s \o t \in Seq(S)
    OBVIOUS
  <2>2. Those(Append(t, x), T) = IF x \in T THEN Append(Those(t, T), x) ELSE Those(t, T)
    BY ThoseAppend
  <2>3. Those(Append(s \o t, x), T) = IF x \in T THEN Append(Those(s \o t, T), x) ELSE Those(s \o t, T)
    BY <2>1, ThoseAppend
  <2>4. ASSUME NEW p \in Seq(S), NEW q \in Seq(S)
        PROVE  Append(p \o q, x) = p \o Append(q, x) /\ Append(q, x) \in Seq(S)
    <3>1. Append(q, x) \in Seq(S)
      OBVIOUS
    <3>2. p \o Append(q, x) = Append(p \o q, x)
      OBVIOUS
    <3> QED BY <3>1, <3>2
  <2>5. \A q \in Seq(T), y \in T : Append(q, y) \in Seq(T)
    BY AppendPositions
  <2>6. Good(t)
    BY <1>2
  <2>7. Good(Append(t, x))
    <3>1. CASE x \in T
      <4>1. /\ Those(Append(t, x), T) = Append(Those(t, T), x)
            /\ Those(s \o Append(t, x), T) = Append(Those(s \o t, T), x)
        BY <2>1, <2>2, <2>3, <3>1, Zenon
      <4>2. Those(t, T) \in Seq(S) /\ Those(t, T) \in Seq(T)
        BY <2>6
      <4>3. Append(Those(t, T), x) \in Seq(S) /\ Append(Those(t, T), x) \in Seq(T)
        BY <2>4, <2>5, <3>1, <4>2
      <4>4. ASSUME Those(s, T) \in Seq(S)
            PROVE  Append(Those(s \o t, T), x) = Those(s, T) \o Append(Those(t, T), x)
        <5>1. Those(s \o t, T) = Those(s, T) \o Those(t, T)
          BY <2>6, <4>4
        <5> QED BY <2>4, <4>2, <4>4, <5>1, Zenon
      <4> QED BY <4>1, <4>3, <4>4, Zenon
    <3>2. CASE x \notin T
      BY <2>1, <2>2, <2>3, <2>6, <3>2, Zenon
    <3> QED BY <3>1, <3>2
  <2> QED BY <2>1, <2>7
<1>3. \A t \in Seq(S) : t \in P
  <2> HIDE DEF P
  <2> QED BY <1>1, <1>2, SeqInduct
<1>4. Those(s, T) \in Seq(S)
  BY <1>3
<1> QED
  BY <1>3, <1>4

\* What is kept depends on which of the elements are wanted.
LEMMA ThoseSame ==
  ASSUME NEW S, NEW s \in Seq(S), NEW T, NEW U, \A i \in 1 .. Len(s) : s[i] \in T <=> s[i] \in U
  PROVE  Those(s, T) = Those(s, U)
<1> DEFINE Alike(t) == \A i \in 1 .. Len(t) : t[i] \in T <=> t[i] \in U
<1> DEFINE P == {t \in Seq(S) : Alike(t) => Those(t, T) = Those(t, U)}
<1>1. <<>> \in P
  <2>1. <<>> \in Seq(S)
    OBVIOUS
  <2> QED BY <2>1, ThoseNothing
<1>2. ASSUME NEW t \in Seq(S), NEW x \in S, t \in P PROVE Append(t, x) \in P
  <2>1. /\ Append(t, x) \in Seq(S) /\ Len(Append(t, x)) = Len(t) + 1 /\ Append(t, x)[Len(t) + 1] = x
        /\ \A i \in 1 .. Len(t) : Append(t, x)[i] = t[i] /\ i \in 1 .. Len(t) + 1
        /\ Len(t) + 1 \in 1 .. Len(t) + 1
    OBVIOUS
  <2>2. Those(Append(t, x), T) = IF x \in T THEN Append(Those(t, T), x) ELSE Those(t, T)
    BY ThoseAppend
  <2>3. Those(Append(t, x), U) = IF x \in U THEN Append(Those(t, U), x) ELSE Those(t, U)
    BY ThoseAppend
  <2>4. ASSUME Alike(Append(t, x)) PROVE Those(Append(t, x), T) = Those(Append(t, x), U)
    <3>1. (x \in T <=> x \in U) /\ Alike(t)
      BY <2>1, <2>4
    <3>2. Those(t, T) = Those(t, U)
      BY <1>2, <3>1
    <3> QED BY <2>2, <2>3, <3>1, <3>2, Zenon
  <2> QED BY <2>1, <2>4
<1>3. \A t \in Seq(S) : t \in P
  <2> HIDE DEF P
  <2> QED BY <1>1, <1>2, SeqInduct
<1> QED
  BY <1>3

\* All are kept, or none.
LEMMA ThoseAll ==
  ASSUME NEW S, NEW T, NEW s \in Seq(S)
  PROVE  /\ (\A i \in 1 .. Len(s) : s[i] \in T) => Those(s, T) = s
         /\ (\A i \in 1 .. Len(s) : s[i] \notin T) => Those(s, T) = <<>>
<1> DEFINE All(t) == \A i \in 1 .. Len(t) : t[i] \in T
<1> DEFINE No(t) == \A i \in 1 .. Len(t) : t[i] \notin T
<1> DEFINE P == {t \in Seq(S) : (All(t) => Those(t, T) = t) /\ (No(t) => Those(t, T) = <<>>)}
<1>1. <<>> \in P
  <2>1. <<>> \in Seq(S)
    OBVIOUS
  <2> QED BY <2>1, ThoseNothing
<1>2. ASSUME NEW t \in Seq(S), NEW x \in S, t \in P PROVE Append(t, x) \in P
  <2>1. /\ Append(t, x) \in Seq(S) /\ Len(Append(t, x)) = Len(t) + 1 /\ Append(t, x)[Len(t) + 1] = x
        /\ \A i \in 1 .. Len(t) : Append(t, x)[i] = t[i] /\ i \in 1 .. Len(t) + 1
        /\ Len(t) + 1 \in 1 .. Len(t) + 1
    OBVIOUS
  <2>2. Those(Append(t, x), T) = IF x \in T THEN Append(Those(t, T), x) ELSE Those(t, T)
    BY ThoseAppend
  <2>3. ASSUME All(Append(t, x)) PROVE Those(Append(t, x), T) = Append(t, x)
    <3>1. x \in T /\ All(t)
      BY <2>1, <2>3
    <3> QED BY <1>2, <2>2, <3>1
  <2>4. ASSUME No(Append(t, x)) PROVE Those(Append(t, x), T) = <<>>
    <3>1. x \notin T /\ No(t)
      BY <2>1, <2>4
    <3> QED BY <1>2, <2>2, <3>1
  <2> QED BY <2>1, <2>3, <2>4
<1>3. \A t \in Seq(S) : t \in P
  <2> HIDE DEF P
  <2> QED BY <1>1, <1>2, SeqInduct
<1> QED
  BY <1>3

\* The recursive function of Pieces.
Cuts(f, s, seps, n) ==
  f = [i \in 0 .. n |->
         IF i = 0 THEN << <<>> >>
         ELSE IF s[i].is \in seps THEN Append(f[i - 1], <<>>)
         ELSE IF s[i].is = "directive" THEN f[i - 1]
         ELSE [f[i - 1] EXCEPT ![Len(f[i - 1])] = Append(@, s[i])]]

\* The pieces, when one more line x has been read.
Longer(pieces, x, seps) ==
  IF x.is \in seps THEN Append(pieces, <<>>)
  ELSE IF x.is = "directive" THEN pieces
  ELSE [pieces EXCEPT ![Len(pieces)] = Append(@, x)]

\* It exists, for a text of any length.
LEMMA CutsExist ==
  ASSUME NEW s, NEW seps, NEW n \in Nat
  PROVE  \E f : Cuts(f, s, seps, n)
<1> DEFINE More(x, i) == Longer(x, s[i], seps)
<1> DEFINE Run(f, k) == [i \in 0 .. k |-> IF i = 0 THEN << <<>> >> ELSE More(f[i - 1], i)]
<1> DEFINE P == {k \in Nat : \E f : f = Run(f, k)}
<1>1. 0 \in P
  <2> DEFINE e == [i \in 0 .. 0 |-> << <<>> >>]
  <2>1. \A i \in 0 .. 0 : i = 0
    OBVIOUS
  <2>2. e = Run(e, 0)
    <3> HIDE DEF Next
    <3> QED BY <2>1
  <2> QED BY <2>2
<1>2. ASSUME NEW k \in Nat, k \in P PROVE k + 1 \in P
  <2> HIDE DEF Next
  <2>1. PICK f : f = Run(f, k)
    BY <1>2
  <2> DEFINE g == [i \in 0 .. k + 1 |-> IF i <= k THEN f[i] ELSE More(f[i - 1], i)]
  <2>2. \A i \in 0 .. k : f[i] = IF i = 0 THEN << <<>> >> ELSE More(f[i - 1], i)
    BY <2>1
  <2>3. \A i \in 0 .. k : g[i] = f[i]
    OBVIOUS
  <2>4. g[k + 1] = More(f[k], k + 1)
    OBVIOUS
  <2>5. g = [i \in 0 .. k + 1 |-> g[i]]
    OBVIOUS
  <2> HIDE DEF g
  <2>6. ASSUME NEW i \in 0 .. k + 1
        PROVE  g[i] = IF i = 0 THEN << <<>> >> ELSE More(g[i - 1], i)
    <3>1. CASE i <= k
      <4>1. i \in 0 .. k /\ (i # 0 => i - 1 \in 0 .. k)
        BY <3>1
      <4> QED BY <2>2, <2>3, <4>1
    <3>2. CASE i = k + 1
      <4>1. i # 0 /\ i - 1 = k /\ k \in 0 .. k
        BY <3>2
      <4> QED BY <2>3, <2>4, <3>2, <4>1
    <3> QED BY <3>1, <3>2
  <2>7. g = Run(g, k + 1)
    BY <2>5, <2>6
  <2> HIDE DEF Run
  <2> QED BY <2>7
<1>3. \A k \in Nat : k \in P
  <2> HIDE DEF P
  <2> QED BY <1>1, <1>2, NatInduct
<1>4. PICK f : f = Run(f, n)
  BY <1>3
<1> QED
  BY <1>4, Zenon DEF Cuts, Longer

\* So the pieces are the last of the values it takes on the way.
LEMMA PiecesRun ==
  ASSUME NEW s, NEW seps, Len(s) \in Nat
  PROVE  \E f : Cuts(f, s, seps, Len(s)) /\ Pieces(s, seps) = f[Len(s)]
<1> DEFINE f == CHOOSE f : Cuts(f, s, seps, Len(s))
<1>1. Pieces(s, seps) = f[Len(s)]
  BY Zenon DEF Pieces, Cuts
<1>2. Cuts(f, s, seps, Len(s))
  <2>1. \E g : Cuts(g, s, seps, Len(s))
    BY CutsExist
  <2> QED BY <2>1, Zenon
<1> QED
  BY <1>1, <1>2, Zenon

\* Each value is made of the one before.
LEMMA CutsSteps ==
  ASSUME NEW f, NEW s, NEW seps, NEW n \in Nat, Cuts(f, s, seps, n)
  PROVE  /\ f[0] = << <<>> >>
         /\ \A i \in 0 .. n - 1 : f[i + 1] = Longer(f[i], s[i + 1], seps)
<1>1. \A i \in 0 .. n : f[i] = IF i = 0 THEN << <<>> >> ELSE Longer(f[i - 1], s[i], seps)
  <2>1. f = [i \in 0 .. n |-> IF i = 0 THEN << <<>> >> ELSE Longer(f[i - 1], s[i], seps)]
    BY Zenon DEF Cuts, Longer
  <2> QED BY <2>1
<1>2. 0 \in 0 .. n /\ \A i \in 0 .. n - 1 : i + 1 \in 0 .. n /\ i + 1 # 0 /\ (i + 1) - 1 = i
  OBVIOUS
<1> QED
  BY <1>1, <1>2

\* The pieces of nothing.
LEMMA PiecesNothing ==
  ASSUME NEW seps
  PROVE  Pieces(<<>>, seps) = << <<>> >>
<1>1. Len(<<>>) = 0 /\ 0 \in Nat
  OBVIOUS
<1>2. PICK f : Cuts(f, <<>>, seps, Len(<<>>)) /\ Pieces(<<>>, seps) = f[Len(<<>>)]
  BY <1>1, PiecesRun
<1>3. f[0] = << <<>> >>
  BY <1>1, <1>2, CutsSteps
<1> QED
  BY <1>1, <1>2, <1>3

\* The pieces of a text with one more line.
LEMMA PiecesAppend ==
  ASSUME NEW S, NEW s \in Seq(S), NEW x \in S, NEW seps
  PROVE  Pieces(Append(s, x), seps) = Longer(Pieces(s, seps), x, seps)
<1>1. PICK a \in Nat : a = Len(s)
  OBVIOUS
<1>2. PICK u : u = Append(s, x)
  OBVIOUS
<1>3. Len(u) = a + 1 /\ u[a + 1] = x /\ \A i \in 1 .. a : u[i] = s[i]
  BY <1>1, <1>2
<1>4. a + 1 \in Nat
  OBVIOUS
<1>5. PICK f : Cuts(f, u, seps, a + 1) /\ Pieces(u, seps) = f[a + 1]
  BY <1>3, <1>4, PiecesRun
<1>6. PICK g : Cuts(g, s, seps, a) /\ Pieces(s, seps) = g[a]
  BY <1>1, PiecesRun
<1> HIDE <1>1, <1>2
<1>7. /\ f[0] = << <<>> >>
      /\ \A i \in 0 .. (a + 1) - 1 : f[i + 1] = Longer(f[i], u[i + 1], seps)
  BY <1>4, <1>5, CutsSteps
<1>8. /\ g[0] = << <<>> >>
      /\ \A i \in 0 .. a - 1 : g[i + 1] = Longer(g[i], s[i + 1], seps)
  BY <1>6, CutsSteps
<1> DEFINE P == {i \in Nat : i <= a => f[i] = g[i]}
<1>9. \A i \in Nat : i \in P
  <2>1. 0 \in P
    BY <1>7, <1>8
  <2>2. ASSUME NEW i \in Nat, i \in P PROVE i + 1 \in P
    <3>1. i + 1 <= a => i + 1 \in 1 .. a /\ i \in 0 .. a - 1 /\ i \in 0 .. (a + 1) - 1 /\ i <= a
      OBVIOUS
    <3>2. i + 1 <= a => f[i] = g[i] /\ u[i + 1] = s[i + 1]
      BY <1>3, <2>2, <3>1
    <3>3. i + 1 <= a => f[i + 1] = g[i + 1]
      BY <1>7, <1>8, <3>1, <3>2
    <3> QED BY <3>3
  <2> HIDE DEF P
  <2> QED BY <2>1, <2>2, NatInduct
<1>10. f[a] = g[a] /\ f[a + 1] = Longer(f[a], x, seps)
  <2>1. a <= a /\ a \in 0 .. (a + 1) - 1
    OBVIOUS
  <2> QED BY <1>3, <1>7, <1>9, <2>1
<1> QED
  BY <1>2, <1>5, <1>6, <1>10, Zenon

\* There is always a piece, and the pieces are of lines of the text.
LEMMA PiecesTypes ==
  ASSUME NEW S, NEW seps
  PROVE  \A s \in Seq(S) : Pieces(s, seps) \in Seq(Seq(S)) /\ Len(Pieces(s, seps)) > 0
<1> DEFINE Good(p) == p \in Seq(Seq(S)) /\ Len(p) > 0
<1> DEFINE P == {s \in Seq(S) : Good(Pieces(s, seps))}
<1>1. <<>> \in P
  <2>1. <<>> \in Seq(S) /\ Good(<< <<>> >>)
    OBVIOUS
  <2> QED BY <2>1, PiecesNothing
<1>2. ASSUME NEW s \in Seq(S), NEW x \in S, s \in P PROVE Append(s, x) \in P
  <2>1. ASSUME NEW p, Good(p) PROVE Good(Longer(p, x, seps))
    <3>1. Good(Append(p, <<>>))
      <4>1. <<>> \in Seq(S)
        OBVIOUS
      <4> QED BY <2>1, <4>1, AppendPositions
    <3>2. Good([p EXCEPT ![Len(p)] = Append(@, x)])
      <4>1. Append(p[Len(p)], x) \in Seq(S)
        <5>1. p[Len(p)] \in Seq(S)
          BY <2>1
        <5> QED BY <5>1, AppendPositions
      <4>2. \A y \in Seq(S) : Good([p EXCEPT ![Len(p)] = y])
        BY <2>1
      <4> QED BY <4>1, <4>2
    <3> QED BY <2>1, <3>1, <3>2, Zenon DEF Longer
  <2>2. Append(s, x) \in Seq(S)
    OBVIOUS
  <2> HIDE DEF Good
  <2> QED BY <1>2, <2>1, <2>2, PiecesAppend
<1>3. \A s \in Seq(S) : s \in P
  <2> HIDE DEF P
  <2> QED BY <1>1, <1>2, SeqInduct
<1> QED
  BY <1>3

\* No line of a document is a separator or a directive.
Unbroken(doc, seps) == \A i \in 1 .. Len(doc) : doc[i].is \notin seps /\ doc[i].is # "directive"

\* A chunk is one piece more.
LEMMA PiecesChunk ==
  ASSUME NEW S, NEW s \in Seq(S), NEW seps, Separator \in S, Separator.is \in seps
  PROVE  \A doc \in Seq(S) : Unbroken(doc, seps) =>
           Pieces(s \o Chunk(doc), seps) = Append(Pieces(s, seps), doc)
<1> DEFINE P == {doc \in Seq(S) : Unbroken(doc, seps) =>
                   Pieces(s \o Chunk(doc), seps) = Append(Pieces(s, seps), doc)}
<1>1. <<>> \in P
  <2>1. s \o (<<Separator>> \o <<>>) = Append(s, Separator) /\ <<>> \in Seq(S)
    OBVIOUS
  <2>2. Pieces(Append(s, Separator), seps) = Append(Pieces(s, seps), <<>>)
    BY PiecesAppend, Zenon DEF Longer
  <2> QED BY <2>1, <2>2, Zenon DEF Chunk
<1>2. ASSUME NEW doc \in Seq(S), NEW x \in S, doc \in P PROVE Append(doc, x) \in P
  <2>1. /\ Append(doc, x) \in Seq(S) /\ Len(Append(doc, x)) = Len(doc) + 1
        /\ Append(doc, x)[Len(doc) + 1] = x
        /\ \A i \in 1 .. Len(doc) : Append(doc, x)[i] = doc[i] /\ i \in 1 .. Len(doc) + 1
        /\ Len(doc) + 1 \in 1 .. Len(doc) + 1
    OBVIOUS
  <2>2. ASSUME Unbroken(Append(doc, x), seps)
        PROVE  Pieces(s \o Chunk(Append(doc, x)), seps) = Append(Pieces(s, seps), Append(doc, x))
    <3>1. Unbroken(doc, seps) /\ x.is \notin seps /\ x.is # "directive"
      BY <2>1, <2>2 DEF Unbroken
    <3>2. Pieces(s \o Chunk(doc), seps) = Append(Pieces(s, seps), doc)
      BY <1>2, <3>1
    <3>3. <<Separator>> \o doc \in Seq(S) /\ s \o (<<Separator>> \o doc) \in Seq(S)
      OBVIOUS
    <3>4. s \o (<<Separator>> \o Append(doc, x)) = Append(s \o (<<Separator>> \o doc), x)
      OBVIOUS
    <3>5. Pieces(s \o Chunk(Append(doc, x)), seps) = Longer(Append(Pieces(s, seps), doc), x, seps)
      BY <3>2, <3>3, <3>4, PiecesAppend, Zenon DEF Chunk
    <3>6. \A r \in Seq(Seq(S)) : r = [i \in 1 .. Len(r) |-> r[i]]
      OBVIOUS
    <3>7. ASSUME NEW p \in Seq(Seq(S))
          PROVE  [Append(p, doc) EXCEPT ![Len(Append(p, doc))] = Append(@, x)] = Append(p, Append(doc, x))
      <4>1. PICK q : q = Append(p, doc)
        OBVIOUS
      <4>2. PICK n \in Nat : n = Len(p)
        OBVIOUS
      <4>3. /\ q = [i \in 1 .. n + 1 |-> q[i]] /\ Len(q) = n + 1 /\ q[n + 1] = doc
            /\ \A i \in 1 .. n : q[i] = p[i]
        <5>1. Append(p, doc) \in Seq(Seq(S)) /\ Len(p) \in Nat
          BY AppendPositions
        <5>2. Append(p, doc) = [i \in 1 .. Len(Append(p, doc)) |-> Append(p, doc)[i]]
          BY <3>6, <5>1, Zenon
        <5>3. /\ Len(Append(p, doc)) = Len(p) + 1 /\ Append(p, doc)[Len(p) + 1] = doc
              /\ \A i \in 1 .. Len(p) : Append(p, doc)[i] = p[i]
          OBVIOUS
        <5> QED BY <4>1, <4>2, <5>2, <5>3, Zenon
      <4>4. ASSUME NEW y \in Seq(S) PROVE [q EXCEPT ![n + 1] = y] = Append(p, y)
        <5>1. PICK r : r = Append(p, y)
          OBVIOUS
        <5>2. /\ r = [i \in 1 .. n + 1 |-> r[i]] /\ r[n + 1] = y
              /\ \A i \in 1 .. n : r[i] = p[i]
          <6>1. Append(p, y) \in Seq(Seq(S))
            BY AppendPositions
          <6>2. Append(p, y) = [i \in 1 .. Len(Append(p, y)) |-> Append(p, y)[i]]
            BY <3>6, <6>1, Zenon
          <6>3. /\ Len(Append(p, y)) = Len(p) + 1 /\ Append(p, y)[Len(p) + 1] = y
                /\ \A i \in 1 .. Len(p) : Append(p, y)[i] = p[i]
            OBVIOUS
          <6> QED BY <4>2, <5>1, <6>2, <6>3, Zenon
        <5>3. PICK e : e = [q EXCEPT ![n + 1] = y]
          OBVIOUS
        <5>4. e = [i \in 1 .. n + 1 |-> e[i]] /\ \A i \in 1 .. n + 1 : e[i] = IF i = n + 1 THEN y ELSE q[i]
          BY <4>3, <5>3
        <5> HIDE <4>1, <4>2, <5>1, <5>3
        <5>5. \A i \in 1 .. n + 1 : e[i] = r[i]
          <6>1. \A i \in 1 .. n + 1 : i = n + 1 \/ i \in 1 .. n
            OBVIOUS
          <6> QED BY <4>3, <5>2, <5>4, <6>1
        <5>6. e = r
          BY <5>2, <5>4, <5>5
        <5> QED BY <5>1, <5>3, <5>6, Zenon
      <4>5. Append(doc, x) \in Seq(S)
        OBVIOUS
      <4>6. [q EXCEPT ![Len(q)] = Append(q[Len(q)], x)] = Append(p, Append(doc, x))
        BY <4>3, <4>4, <4>5, Zenon
      <4> QED BY <4>1, <4>6, Zenon
    <3>8. Longer(Append(Pieces(s, seps), doc), x, seps) = Append(Pieces(s, seps), Append(doc, x))
      BY <3>1, <3>7, PiecesTypes, Zenon DEF Longer
    <3> QED BY <3>5, <3>8, Zenon
  <2> QED BY <2>1, <2>2
<1>3. \A doc \in Seq(S) : doc \in P
  <2> HIDE DEF P
  <2> QED BY <1>1, <1>2, SeqInduct
<1> QED
  BY <1>3

\* Of one element, it or nothing is kept.
LEMMA ThoseOne ==
  ASSUME NEW x, NEW T
  PROVE  Those(<<x>>, T) = IF x \in T THEN <<x>> ELSE <<>>
<1>1. <<>> \in Seq({x}) /\ x \in {x} /\ Append(<<>>, x) = <<x>>
  OBVIOUS
<1>2. Those(Append(<<>>, x), T) = IF x \in T THEN Append(Those(<<>>, T), x) ELSE Those(<<>>, T)
  BY <1>1, ThoseAppend
<1> QED
  BY <1>1, <1>2, ThoseNothing, Zenon

\* What is wanted is kept.
LEMMA ThoseElements ==
  ASSUME NEW S, NEW T
  PROVE  \A s \in Seq(S) : \A i \in 1 .. Len(s) :
           s[i] \in T => \E j \in 1 .. Len(Those(s, T)) : Those(s, T)[j] = s[i]
<1> DEFINE Kept(s) == \A i \in 1 .. Len(s) :
                        s[i] \in T => \E j \in 1 .. Len(Those(s, T)) : Those(s, T)[j] = s[i]
<1> DEFINE P == {s \in Seq(S) : Kept(s)}
<1>1. <<>> \in P
  OBVIOUS
<1>2. ASSUME NEW s \in Seq(S), NEW x \in S, s \in P PROVE Append(s, x) \in P
  <2>1. /\ Append(s, x) \in Seq(S) /\ Len(Append(s, x)) = Len(s) + 1 /\ Append(s, x)[Len(s) + 1] = x
        /\ \A i \in 1 .. Len(s) : Append(s, x)[i] = s[i]
        /\ \A i \in 1 .. Len(s) + 1 : i = Len(s) + 1 \/ i \in 1 .. Len(s)
    OBVIOUS
  <2>2. PICK p \in Seq(S) : p = Those(s, T)
    <3>1. <<>> \in Seq(S)
      OBVIOUS
    <3> QED BY <3>1, ThoseConcat
  <2>3. PICK q : q = Those(Append(s, x), T)
    OBVIOUS
  <2>4. q = IF x \in T THEN Append(p, x) ELSE p
    BY <2>2, <2>3, ThoseAppend
  <2>5. /\ \A j \in 1 .. Len(p) : j \in 1 .. Len(q) /\ q[j] = p[j]
        /\ x \in T => Len(p) + 1 \in 1 .. Len(q) /\ q[Len(p) + 1] = x
    <3>1. CASE x \in T
      <4>1. q = Append(p, x)
        BY <2>4, <3>1
      <4> QED BY <4>1
    <3>2. CASE x \notin T
      BY <2>4, <3>2
    <3> QED BY <3>1, <3>2
  <2>6. \A i \in 1 .. Len(s) : s[i] \in T => \E j \in 1 .. Len(p) : p[j] = s[i]
    BY <1>2, <2>2
  <2>7. ASSUME NEW i \in 1 .. Len(s) + 1, Append(s, x)[i] \in T
        PROVE  \E j \in 1 .. Len(q) : q[j] = Append(s, x)[i]
    <3>1. CASE i = Len(s) + 1
      BY <2>1, <2>5, <2>7, <3>1
    <3>2. CASE i \in 1 .. Len(s)
      <4>1. Append(s, x)[i] = s[i] /\ s[i] \in T
        BY <2>1, <2>7, <3>2
      <4>2. PICK j \in 1 .. Len(p) : p[j] = s[i]
        BY <2>6, <3>2, <4>1
      <4> QED BY <2>5, <4>1, <4>2, Zenon
    <3> QED BY <2>1, <3>1, <3>2
  <2>8. Kept(Append(s, x))
    BY <2>1, <2>3, <2>7, Zenon
  <2> QED BY <2>1, <2>8
<1>3. \A s \in Seq(S) : s \in P
  <2> HIDE DEF P
  <2> QED BY <1>1, <1>2, SeqInduct
<1> QED
  BY <1>3

(***************************************************************************)
(* Lines and documents                                                     *)
(***************************************************************************)

\* The lines of a stream.
LEMMA LineTypes ==
  /\ Separator \in Lines /\ Separator.is = "separator"
  /\ Directive \in Lines /\ Directive.is = "directive"
  /\ \A t \in Words : Scalar(t) \in Values
  /\ \A t, u : Scalar(t) = Scalar(u) => t = u
  /\ \A key \in Words, v \in Values : Entry(key, v) \in Lines
  /\ \A key, v : Entry(key, v).is = "entry" /\ Entry(key, v).key = key /\ Entry(key, v).value = v
<1>1. <<>> \in Values
  BY DEF Values
<1>2. \A t \in Words : Scalar(t) \in Values
  <2> TAKE t \in Words
  <2>1. <<t>> \in Seq(Words)
    BY OneIsASequence
  <2>2. << <<t>> >> \in Values
    BY <2>1, OneIsASequence DEF Values
  <2> QED BY <2>2 DEF Scalar
<1>3. \A t, u : Scalar(t) = Scalar(u) => t = u
  <2> TAKE t, u
  <2>1. << <<t>> >>[1][1] = t /\ << <<u>> >>[1][1] = u
    OBVIOUS
  <2> QED BY <2>1, Zenon DEF Scalar
<1>4. Separator.is = "separator" /\ Directive.is = "directive"
  BY DEF Separator, Directive, Line
<1>5. \A key, v : Entry(key, v).is = "entry" /\ Entry(key, v).key = key /\ Entry(key, v).value = v
  BY DEF Entry, Line
<1> DEFINE kinds == {"separator", "noted separator", "directive", "comment", "entry", "stray"}
<1>6. ASSUME NEW is \in kinds, NEW key \in Words, NEW v \in Values, is # "comment"
      PROVE  Line(is, key, v) \in Lines
  <2>1. Line(is, key, v) \in [is : kinds, key : Words, value : Values]
    BY DEF Line
  <2>2. Line(is, key, v).is # "comment"
    BY <1>6 DEF Line
  <2> QED BY <2>1, <2>2, Zenon DEF Lines
<1>7. Separator \in Lines /\ Directive \in Lines
  <2>1. /\ "separator" \in kinds /\ "directive" \in kinds /\ "" \in Words
        /\ "separator" # "comment" /\ "directive" # "comment"
    BY WordsAssumption
  <2> QED BY <1>1, <1>6, <2>1, Zenon DEF Separator, Directive
<1>8. \A key \in Words, v \in Values : Entry(key, v) \in Lines
  <2>1. "entry" \in kinds /\ "entry" # "comment"
    OBVIOUS
  <2> QED BY <1>6, <2>1, Zenon DEF Entry
<1> QED
  BY <1>2, <1>3, <1>4, <1>5, <1>7, <1>8

\* What is said in a text, comments aside.
Said == {l \in Lines : l.is # "comment"}

LEMMA ContentIs ==
  ASSUME NEW s \in Seq(Lines)
  PROVE  Content(s) = Those(s, Said) /\ Content(s) \in Seq(Lines)
<1>1. \A i \in 1 .. Len(s) : s[i] \in Lines /\ s[i] \in ToSet(s)
  BY DEF ToSet
<1>2. \A i \in 1 .. Len(s) : s[i] \in {l \in ToSet(s) : l.is # "comment"} <=> s[i] \in Said
  BY <1>1, Zenon DEF Said
<1>3. Those(s, {l \in ToSet(s) : l.is # "comment"}) = Those(s, Said)
  BY <1>2, ThoseSame
<1>4. Those(s, Said) \in Seq(Lines)
  <2>1. <<>> \in Seq(Lines)
    OBVIOUS
  <2> QED BY <2>1, ThoseConcat
<1> QED
  BY <1>3, <1>4, Zenon DEF Content

\* The content of two texts laid end to end.
LEMMA ContentConcat ==
  ASSUME NEW s \in Seq(Lines), NEW t \in Seq(Lines)
  PROVE  Content(s \o t) = Content(s) \o Content(t)
<1>1. s \o t \in Seq(Lines)
  OBVIOUS
<1>2. Those(s \o t, Said) = Those(s, Said) \o Those(t, Said)
  BY ThoseConcat
<1> QED
  BY <1>1, <1>2, ContentIs, Zenon

AllEntries(doc) == \A i \in 1 .. Len(doc) : doc[i].is = "entry"
Distinct(doc) == \A i, j \in 1 .. Len(doc) : doc[i].key = doc[j].key => i = j
\* A document with a header of its kind.
Tagged(doc, kind) ==
  /\ doc \in Seq(Lines) /\ Len(doc) >= 2
  /\ doc[1] = Entry("gatepack", Scalar("1")) /\ doc[2] = Entry("kind", Scalar(kind))

\* The separators of a stream, read one way or the other.
Cutting == {{"separator"}, {"separator", "noted separator"}}

\* A document of entries is said as it stands.
LEMMA EntriesStand ==
  ASSUME NEW doc \in Seq(Lines), AllEntries(doc)
  PROVE  Content(doc) = doc /\ \A seps \in Cutting : Unbroken(doc, seps)
<1>1. \A i \in 1 .. Len(doc) : doc[i] \in Lines /\ doc[i].is = "entry"
  BY DEF AllEntries
<1>2. \A i \in 1 .. Len(doc) : doc[i] \in Said
  BY <1>1 DEF Said
<1>3. Those(doc, Said) = doc
  BY <1>2, ThoseAll
<1> QED
  BY <1>1, <1>3, ContentIs DEF Unbroken, Cutting

\* The value of a key that a document has once.
LEMMA EntryValues ==
  ASSUME NEW doc, NEW key, NEW n \in DOMAIN doc, \A i \in DOMAIN doc : doc[i].key = key <=> i = n
  PROVE  Has(doc, key) /\ ValueOf(doc, key) = doc[n].value
<1>1. (CHOOSE i \in DOMAIN doc : doc[i].key = key) = n
  BY Zenon
<1> QED
  BY <1>1, Zenon DEF Has, ValueOf

\* The two lines of a header.
LEMMA TaggedKeys ==
  ASSUME NEW doc, NEW kind, Tagged(doc, kind)
  PROVE  /\ doc[1].is = "entry" /\ doc[1].key = "gatepack"
         /\ doc[2].is = "entry" /\ doc[2].key = "kind" /\ doc[2].value = Scalar(kind)
<1>1. doc[1] = Entry("gatepack", Scalar("1")) /\ doc[2] = Entry("kind", Scalar(kind))
  BY DEF Tagged
<1> QED
  BY <1>1 DEF Entry, Line

\* The first `kind:` line of a document with a header is the header's.
LEMMA TaggedKind ==
  ASSUME NEW doc, NEW kind, Tagged(doc, kind)
  PROVE  /\ Has(doc, "kind") /\ KindLine(doc) = 2 /\ DocumentKind(doc) = Scalar(kind)
         /\ Distinct(doc) => ValueOf(doc, "kind") = Scalar(kind)
<1>1. /\ doc[1].key = "gatepack" /\ doc[2].key = "kind" /\ doc[2].value = Scalar(kind)
      /\ DOMAIN doc = 1 .. Len(doc) /\ 1 \in DOMAIN doc /\ 2 \in DOMAIN doc
  BY LineTypes DEF Tagged
<1>2. Has(doc, "kind")
  BY <1>1 DEF Has
<1>3. KindLine(doc) = 2
  <2> DEFINE K == {i \in DOMAIN doc : doc[i].key = "kind"}
  <2>1. 2 \in K /\ 1 \notin K /\ K \subseteq Nat /\ \A i \in K : i >= 1
    BY <1>1
  <2>2. \A i \in K : i >= 2
    BY <2>1
  <2>3. Min(K) = 2
    <3> HIDE DEF K
    <3>1. Min(K) \in K /\ \A i \in K : Min(K) <= i
      BY <2>1, MinIsLeast
    <3>2. PICK m : m = Min(K)
      OBVIOUS
    <3>3. m \in Nat /\ m >= 2 /\ m <= 2
      BY <2>1, <2>2, <3>1, <3>2
    <3>4. m = 2
      BY <3>3
    <3> QED BY <3>2, <3>4, Zenon
  <2> QED BY <2>3, Zenon DEF KindLine
<1>4. DocumentKind(doc) = Scalar(kind)
  BY <1>1, <1>2, <1>3, Zenon DEF DocumentKind
<1>5. ASSUME Distinct(doc) PROVE ValueOf(doc, "kind") = Scalar(kind)
  <2>1. \A i \in DOMAIN doc : doc[i].key = "kind" => i = 2
    BY <1>1, <1>5 DEF Distinct
  <2>2. (CHOOSE i \in DOMAIN doc : doc[i].key = "kind") = 2
    BY <1>1, <2>1, Zenon
  <2> QED BY <1>1, <2>2, Zenon DEF ValueOf
<1> QED
  BY <1>2, <1>3, <1>4, <1>5

\* A header is two lines.
LEMMA Headers ==
  ASSUME NEW kind \in Words, NEW s \in Seq(Lines)
  PROVE  /\ Tagged(Header(kind) \o s, kind) /\ Header(kind) \in Seq(Lines)
         /\ AllEntries(Header(kind)) /\ Len(Header(kind)) = 2
         /\ Len(Header(kind) \o s) = Len(s) + 2
         /\ \A i \in 1 .. Len(s) : (Header(kind) \o s)[i + 2] = s[i]
<1>1. PICK a, b : a = Entry("gatepack", Scalar("1")) /\ b = Entry("kind", Scalar(kind))
  OBVIOUS
<1>2. a \in Lines /\ b \in Lines /\ a.is = "entry" /\ b.is = "entry"
  <2>1. "gatepack" \in Words /\ "1" \in Words /\ "kind" \in Words
    BY WordsAssumption
  <2> QED BY <1>1, <2>1, LineTypes, Zenon
<1>3. Header(kind) = <<a, b>>
  BY <1>1, Zenon DEF Header
<1> HIDE <1>1
<1>4. /\ <<a, b>> \in Seq(Lines) /\ Len(<<a, b>>) = 2 /\ <<a, b>>[1] = a /\ <<a, b>>[2] = b
      /\ <<a, b>> \o s \in Seq(Lines) /\ Len(<<a, b>> \o s) = Len(s) + 2
      /\ (<<a, b>> \o s)[1] = a /\ (<<a, b>> \o s)[2] = b
      /\ \A i \in 1 .. Len(s) : (<<a, b>> \o s)[i + 2] = s[i]
  BY <1>2
<1>5. AllEntries(<<a, b>>)
  BY <1>2, <1>4 DEF AllEntries
<1>6. Len(s) + 2 >= 2
  OBVIOUS
<1> QED
  BY <1>1, <1>3, <1>4, <1>5, <1>6, Zenon DEF Tagged

\* The lines of a design, in a file and in a stream.
LEMMA DesignLines ==
  ASSUME NEW src \in Seq(Lines), Parses(src)
  PROVE  /\ Tagged(DesignDocument(src), "design")
         /\ \A seps \in Cutting : Unbroken(DesignDocument(src), seps)
         /\ Content(DesignDocument(src)) = Header("design") \o Content(src)
         /\ Content(src) \in Seq(Lines) /\ AllEntries(Content(src)) /\ Distinct(Content(src))
         /\ DesignSource(DesignDocument(src)) = src
<1>1. "design" \in Words
  BY WordsAssumption
<1>2. PICK h, d : h = Header("design") /\ d = DesignDocument(src)
  OBVIOUS
<1>3. /\ d = h \o src /\ Tagged(d, "design") /\ h \in Seq(Lines) /\ AllEntries(h) /\ Len(h) = 2
      /\ Len(d) = Len(src) + 2 /\ \A i \in 1 .. Len(src) : d[i + 2] = src[i]
  BY <1>1, <1>2, Headers, Zenon DEF DesignDocument
<1>4. Content(src) = Those(src, Said) /\ Content(src) \in Seq(Lines)
  BY ContentIs
<1>5. AllEntries(Content(src)) /\ Distinct(Content(src))
  <2>1. \A q \in Seq(Lines) : DOMAIN q = 1 .. Len(q)
    OBVIOUS
  <2> QED BY <1>4, <2>1, Zenon DEF Parses, AllEntries, Distinct
<1>6. Content(d) = h \o Content(src)
  <2>1. Content(h \o src) = Content(h) \o Content(src)
    BY <1>3, ContentConcat
  <2>2. Content(h) = h
    BY <1>3, EntriesStand
  <2> QED BY <1>3, <2>1, <2>2, Zenon
<1>7. \A i \in 1 .. Len(src) : src[i].is \in {"comment", "entry"}
  <2> TAKE i \in 1 .. Len(src)
  <2>1. src[i] \in Lines
    OBVIOUS
  <2>2. CASE src[i].is = "comment"
    BY <2>2
  <2>3. CASE src[i].is # "comment"
    <3>1. src[i] \in Said
      BY <2>1, <2>3 DEF Said
    <3>2. PICK j \in 1 .. Len(Those(src, Said)) : Those(src, Said)[j] = src[i]
      BY <3>1, ThoseElements
    <3> QED BY <1>4, <1>5, <3>2 DEF AllEntries
  <2> QED BY <2>2, <2>3
<1>8. \A seps \in Cutting : Unbroken(d, seps)
  <2>1. ASSUME NEW i \in 1 .. Len(d) PROVE d[i].is \in {"comment", "entry"}
    <3>1. CASE i \in 1 .. 2
      <4>1. i \in 1 .. Len(h) /\ d[i] = h[i]
        <5>1. Len(h) = 2 /\ h \in Seq(Lines)
          BY <1>3
        <5>2. \A j \in 1 .. Len(h) : (h \o src)[j] = h[j]
          <6>1. \A p, q \in Seq(Lines) : \A j \in 1 .. Len(p) : (p \o q)[j] = p[j]
            OBVIOUS
          <6> QED BY <5>1, <6>1
        <5> QED BY <1>3, <3>1, <5>1, <5>2, Zenon
      <4> QED BY <1>3, <4>1 DEF AllEntries
    <3>2. CASE i \notin 1 .. 2
      <4>1. i - 2 \in 1 .. Len(src) /\ (i - 2) + 2 = i
        BY <1>3, <3>2
      <4> QED BY <1>3, <1>7, <4>1
    <3> QED BY <3>1, <3>2
  <2>2. \A seps \in Cutting : "comment" \notin seps /\ "entry" \notin seps
    BY DEF Cutting
  <2> QED BY <2>1, <2>2 DEF Unbroken
<1>9. DesignSource(d) = src
  <2>1. KindLine(d) = 2
    BY <1>3, TaggedKind
  <2>2. DesignSource(d) = SubSeq(d, 3, Len(src) + 2)
    <3>1. 2 + 1 = 3
      OBVIOUS
    <3> QED BY <1>3, <2>1, <3>1, Zenon DEF DesignSource
  <2>3. SubSeq(d, 3, Len(src) + 2) = [i \in 1 .. Len(src) |-> d[i + 2]]
    <3>1. d \in Seq(Lines) /\ Len(src) \in Nat
      BY <1>3 DEF Tagged
    <3>2. \A n \in Nat : SubSeq(d, 3, n + 2) = [i \in 1 .. n |-> d[i + 2]]
      <4>1. \A n \in Nat : SubSeq(d, 3, n + 2) = [i \in 1 .. ((n + 2) - 3 + 1) |-> d[(i + 3) - 1]]
        BY <3>1
      <4>2. \A n \in Nat : (n + 2) - 3 + 1 = n
        OBVIOUS
      <4>3. \A i \in Int : (i + 3) - 1 = i + 2
        OBVIOUS
      <4> QED BY <4>1, <4>2, <4>3
    <3> QED BY <3>1, <3>2
  <2>4. src = [i \in 1 .. Len(src) |-> src[i]]
    OBVIOUS
  <2>5. [i \in 1 .. Len(src) |-> d[i + 2]] = [i \in 1 .. Len(src) |-> src[i]]
    BY <1>3
  <2> QED BY <2>2, <2>3, <2>4, <2>5, Zenon
<1> QED
  BY <1>2, <1>3, <1>4, <1>5, <1>6, <1>8, <1>9, Zenon

\* The four lines of a table.
LEMMA TableLines ==
  ASSUME NEW t \in Values, t # NoFile
  PROVE  /\ Tagged(TableDocument(t), "truth_table")
         /\ AllEntries(TableDocument(t)) /\ Distinct(TableDocument(t))
         /\ Has(TableDocument(t), "columns") /\ BuildTable(TableDocument(t)) = t
<1>1. /\ "truth_table" \in Words /\ "columns" \in Words /\ "rows" \in Words
  BY WordsAssumption
<1>2. <<Head(t)>> \in Values /\ Tail(t) \in Values /\ <<Head(t)>> \o Tail(t) = t
  <2>1. Head(t) \in Seq(Words) /\ Tail(t) \in Seq(Seq(Words)) /\ <<Head(t)>> \o Tail(t) = t
    BY DEF Values, NoFile
  <2> QED BY <2>1, OneIsASequence DEF Values
<1>3. PICK a, b, d : /\ a = Entry("columns", <<Head(t)>>) /\ b = Entry("rows", Tail(t))
                     /\ d = TableDocument(t)
  OBVIOUS
<1>4. /\ a \in Lines /\ a.is = "entry" /\ a.key = "columns" /\ a.value = <<Head(t)>>
      /\ b \in Lines /\ b.is = "entry" /\ b.key = "rows" /\ b.value = Tail(t)
  BY <1>1, <1>2, <1>3, LineTypes, Zenon
<1>5. d = Header("truth_table") \o <<a, b>>
  BY <1>3, Zenon DEF TableDocument
<1> HIDE <1>3
<1>6. <<a, b>> \in Seq(Lines) /\ Len(<<a, b>>) = 2 /\ <<a, b>>[1] = a /\ <<a, b>>[2] = b
  BY <1>4
<1>7. Tagged(d, "truth_table") /\ Len(d) = 4 /\ d[3] = a /\ d[4] = b
  <2>1. /\ Tagged(d, "truth_table") /\ Len(d) = Len(<<a, b>>) + 2
        /\ \A i \in 1 .. Len(<<a, b>>) : d[i + 2] = <<a, b>>[i]
    BY <1>1, <1>5, <1>6, Headers, Zenon
  <2> QED BY <1>6, <2>1
<1>8. /\ d[1].is = "entry" /\ d[2].is = "entry" /\ d[3].is = "entry" /\ d[4].is = "entry"
      /\ d[1].key = "gatepack" /\ d[2].key = "kind" /\ d[3].key = "columns" /\ d[4].key = "rows"
      /\ d[3].value = <<Head(t)>> /\ d[4].value = Tail(t)
  <2>1. d[1].is = "entry" /\ d[2].is = "entry" /\ d[1].key = "gatepack" /\ d[2].key = "kind"
    BY <1>7, TaggedKeys
  <2> QED BY <1>4, <1>7, <2>1
<1>9. DOMAIN d = 1 .. 4 /\ \A i \in 1 .. 4 : i = 1 \/ i = 2 \/ i = 3 \/ i = 4
  BY <1>7 DEF Tagged
<1>10. AllEntries(d) /\ Distinct(d)
  BY <1>7, <1>8, <1>9 DEF AllEntries, Distinct
<1>11. /\ Has(d, "columns") /\ ValueOf(d, "columns") = <<Head(t)>>
       /\ Has(d, "rows") /\ ValueOf(d, "rows") = Tail(t)
  <2>1. /\ 3 \in DOMAIN d /\ \A i \in DOMAIN d : d[i].key = "columns" <=> i = 3
        /\ 4 \in DOMAIN d /\ \A i \in DOMAIN d : d[i].key = "rows" <=> i = 4
    BY <1>8, <1>9
  <2>2. Has(d, "columns") /\ ValueOf(d, "columns") = d[3].value
    BY <2>1, EntryValues, Zenon
  <2>3. Has(d, "rows") /\ ValueOf(d, "rows") = d[4].value
    BY <2>1, EntryValues, Zenon
  <2> QED BY <1>8, <2>2, <2>3, Zenon
<1>12. BuildTable(d) = t
  BY <1>2, <1>11, Zenon DEF BuildTable
<1> QED
  BY <1>3, <1>7, <1>10, <1>11, <1>12, Zenon

\* The five lines of a library.
LEMMA LibraryLines ==
  ASSUME NEW l \in Values
  PROVE  /\ Tagged(LibraryDocument(l), "library")
         /\ AllEntries(LibraryDocument(l)) /\ Distinct(LibraryDocument(l))
         /\ ~Has(LibraryDocument(l), "columns")
         /\ BuildsLibrary(LibraryDocument(l)) /\ BuildLibrary(LibraryDocument(l)) = l
<1>1. /\ "library" \in Words /\ "source" \in Words /\ "parts.csv" \in Words
      /\ "sha256" \in Words /\ "parts" \in Words
  BY WordsAssumption
<1>2. PICK a, b, c, d : /\ a = Entry("source", Scalar("parts.csv")) /\ b = Entry("sha256", l)
                        /\ c = Entry("parts", l) /\ d = LibraryDocument(l)
  OBVIOUS
<1>3. /\ a \in Lines /\ a.is = "entry" /\ a.key = "source"
      /\ b \in Lines /\ b.is = "entry" /\ b.key = "sha256"
      /\ c \in Lines /\ c.is = "entry" /\ c.key = "parts" /\ c.value = l
  BY <1>1, <1>2, LineTypes, Zenon
<1>4. d = Header("library") \o <<a, b, c>>
  BY <1>2, Zenon DEF LibraryDocument
<1> HIDE <1>2
<1>5. /\ <<a, b, c>> \in Seq(Lines) /\ Len(<<a, b, c>>) = 3
      /\ <<a, b, c>>[1] = a /\ <<a, b, c>>[2] = b /\ <<a, b, c>>[3] = c
  BY <1>3
<1>6. Tagged(d, "library") /\ Len(d) = 5 /\ d[3] = a /\ d[4] = b /\ d[5] = c
  <2>1. /\ Tagged(d, "library") /\ Len(d) = Len(<<a, b, c>>) + 2
        /\ \A i \in 1 .. Len(<<a, b, c>>) : d[i + 2] = <<a, b, c>>[i]
    BY <1>1, <1>4, <1>5, Headers, Zenon
  <2> QED BY <1>5, <2>1
<1>7. /\ d[1].is = "entry" /\ d[2].is = "entry" /\ d[3].is = "entry" /\ d[4].is = "entry"
      /\ d[5].is = "entry" /\ d[1].key = "gatepack" /\ d[2].key = "kind" /\ d[3].key = "source"
      /\ d[4].key = "sha256" /\ d[5].key = "parts" /\ d[5].value = l
  <2>1. d[1].is = "entry" /\ d[2].is = "entry" /\ d[1].key = "gatepack" /\ d[2].key = "kind"
    BY <1>6, TaggedKeys
  <2> QED BY <1>3, <1>6, <2>1
<1>8. DOMAIN d = 1 .. 5 /\ \A i \in 1 .. 5 : i = 1 \/ i = 2 \/ i = 3 \/ i = 4 \/ i = 5
  BY <1>6 DEF Tagged
<1>9. AllEntries(d) /\ Distinct(d)
  BY <1>6, <1>7, <1>8 DEF AllEntries, Distinct
<1>10. /\ ~Has(d, "columns") /\ Has(d, "source") /\ Has(d, "sha256")
       /\ Has(d, "parts") /\ ValueOf(d, "parts") = l
  BY <1>7, <1>8, EntryValues DEF Has
<1>11. BuildsLibrary(d) /\ BuildLibrary(d) = l
  BY <1>10, Zenon DEF BuildsLibrary, BuildLibrary
<1> QED
  BY <1>2, <1>6, <1>9, <1>10, <1>11, Zenon

(***************************************************************************)
(* The stream of a project, cut into its documents                         *)
(***************************************************************************)

\* A document, or nothing when it is absent.
AtMost(part, doc) == part = <<>> \/ part = <<doc>>

\* What is kept of documents that may be absent.
LEMMA ThoseAtMost ==
  ASSUME NEW S, NEW K, NEW a \in S, NEW part, AtMost(part, a)
  PROVE  part \in Seq(S) /\ Those(part, K) = IF a \in K THEN part ELSE <<>>
<1>1. <<>> \in Seq(S) /\ <<a>> \in Seq(S)
  BY OneIsASequence
<1>2. CASE part = <<>>
  BY <1>1, <1>2, ThoseNothing
<1>3. CASE part = <<a>>
  BY <1>1, <1>3, ThoseOne
<1> QED
  BY <1>2, <1>3 DEF AtMost

\* A part, when it is wanted.
WhenIn(K, doc, part) == IF doc \in K THEN part ELSE <<>>

\* Three documents that may be absent.
Three(S, a, b, c, p, q, r) ==
  a \in S /\ b \in S /\ c \in S /\ AtMost(p, a) /\ AtMost(q, b) /\ AtMost(r, c)

\* What is kept of them.
LEMMA ThoseThree ==
  ASSUME NEW S, NEW K, NEW a, NEW b, NEW c, NEW p, NEW q, NEW r, Three(S, a, b, c, p, q, r)
  PROVE  /\ p \o q \o r \in Seq(S)
         /\ Those(p \o q \o r, K) = WhenIn(K, a, p) \o WhenIn(K, b, q) \o WhenIn(K, c, r)
<1> USE DEF WhenIn
<1>1. /\ p \in Seq(S) /\ Those(p, K) = IF a \in K THEN p ELSE <<>>
      /\ q \in Seq(S) /\ Those(q, K) = IF b \in K THEN q ELSE <<>>
      /\ r \in Seq(S) /\ Those(r, K) = IF c \in K THEN r ELSE <<>>
  BY ThoseAtMost DEF Three
<1>2. \A s, t \in Seq(S) : s \o t \in Seq(S) /\ Those(s \o t, K) = Those(s, K) \o Those(t, K)
  <2>1. \A s, t \in Seq(S) : s \o t \in Seq(S)
    OBVIOUS
  <2>2. ASSUME NEW s \in Seq(S), NEW t \in Seq(S) PROVE Those(s \o t, K) = Those(s, K) \o Those(t, K)
    BY ThoseConcat
  <2> QED BY <2>1, <2>2, Zenon
<1>3. p \o q \in Seq(S) /\ Those(p \o q, K) = Those(p, K) \o Those(q, K)
  BY <1>1, <1>2, Zenon
<1>4. (p \o q) \o r \in Seq(S) /\ Those((p \o q) \o r, K) = Those(p \o q, K) \o Those(r, K)
  BY <1>1, <1>2, <1>3, Zenon
<1> QED
  BY <1>1, <1>2, <1>3, <1>4, Zenon

\* A text and what is put behind it.
Behind(s, part) == IF part = <<>> THEN s ELSE s \o Chunk(part[1])

\* A chunk, when there is one, is a piece.
LEMMA PiecesBehind ==
  ASSUME NEW s \in Seq(Lines), NEW seps \in Cutting, NEW doc \in Seq(Lines),
         Unbroken(doc, seps), NEW part, AtMost(part, doc)
  PROVE  /\ Behind(s, part) \in Seq(Lines)
         /\ Pieces(Behind(s, part), seps) = Pieces(s, seps) \o part
<1>1. Separator \in Lines /\ Separator.is \in seps
  <2>1. "separator" \in seps
    BY DEF Cutting
  <2> QED BY <2>1, LineTypes, Zenon
<1>2. Pieces(s \o Chunk(doc), seps) = Append(Pieces(s, seps), doc) /\ s \o Chunk(doc) \in Seq(Lines)
  <2>1. <<Separator>> \in Seq(Lines)
    BY <1>1, OneIsASequence
  <2>2. \A p, q, r \in Seq(Lines) : p \o (q \o r) \in Seq(Lines)
    OBVIOUS
  <2>3. s \o Chunk(doc) \in Seq(Lines)
    BY <2>1, <2>2, Zenon DEF Chunk
  <2> QED BY <1>1, <2>3, PiecesChunk
<1>3. Pieces(s, seps) \in Seq(Seq(Lines))
  BY PiecesTypes
<1>4. \A p \in Seq(Seq(Lines)) : p \o <<>> = p /\ p \o <<doc>> = Append(p, doc)
  OBVIOUS
<1>5. <<doc>> # <<>> /\ <<doc>>[1] = doc
  OBVIOUS
<1>6. CASE part = <<>>
  BY <1>3, <1>4, <1>6, Zenon DEF Behind
<1>7. CASE part = <<doc>>
  BY <1>2, <1>3, <1>4, <1>5, <1>7, Zenon DEF Behind
<1> QED
  BY <1>6, <1>7 DEF AtMost

\* A project that can be loaded, and its documents: the design, as it is and as
\* it is read, the table and the library.
IsProject(p) == HasTexts(p) /\ Loadable(p)
Designed(p) == <<DesignDocument(p.design)>>
Told(p) == Header("design") \o Content(p.design)
Tabled(p) == IF p.table = NoFile THEN <<>> ELSE <<TableDocument(p.table)>>
Stocked(p) == IF p.library = NoFile THEN <<>> ELSE <<LibraryDocument(p.library)>>

\* They are documents, of their kinds.
LEMMA ProjectDocuments ==
  ASSUME NEW p, IsProject(p)
  PROVE  /\ Tagged(DesignDocument(p.design), "design") /\ Tagged(Told(p), "design")
         /\ Content(DesignDocument(p.design)) = Told(p)
         /\ \A seps \in Cutting : Unbroken(DesignDocument(p.design), seps)
         /\ DesignSource(DesignDocument(p.design)) = p.design
         /\ \E t : /\ AtMost(Tabled(p), t) /\ Tagged(t, "truth_table")
                   /\ AllEntries(t) /\ Distinct(t)
                   /\ p.table # NoFile => t = TableDocument(p.table)
         /\ AtMost(Stocked(p), LibraryDocument(p.library))
         /\ Tagged(LibraryDocument(p.library), "library")
         /\ AllEntries(LibraryDocument(p.library)) /\ Distinct(LibraryDocument(p.library))
<1>1. p.design \in Seq(Lines) /\ Parses(p.design) /\ p.table \in Values /\ p.library \in Values
  BY DEF IsProject, HasTexts, Loadable
<1>2. /\ Tagged(DesignDocument(p.design), "design")
      /\ Content(DesignDocument(p.design)) = Told(p) /\ Content(p.design) \in Seq(Lines)
      /\ \A seps \in Cutting : Unbroken(DesignDocument(p.design), seps)
      /\ DesignSource(DesignDocument(p.design)) = p.design
  BY <1>1, DesignLines, Zenon DEF Told
<1>3. Tagged(Told(p), "design")
  BY <1>2, Headers, WordsAssumption DEF Told
<1>4. \E t : /\ AtMost(Tabled(p), t) /\ Tagged(t, "truth_table") /\ AllEntries(t) /\ Distinct(t)
             /\ p.table # NoFile => t = TableDocument(p.table)
  <2>1. CASE p.table = NoFile
    <3>1. PICK v : v = << << "" >> >>
      OBVIOUS
    <3>2. v \in Values /\ v # NoFile
      <4>1. "" \in Words
        BY WordsAssumption
      <4>2. << "" >> \in Seq(Words)
        BY <4>1, OneIsASequence
      <4>3. << << "" >> >> \in Seq(Seq(Words))
        BY <4>2, OneIsASequence
      <4>4. << << "" >> >> # <<>>
        OBVIOUS
      <4> QED BY <3>1, <4>3, <4>4, Zenon DEF Values, NoFile
    <3>3. AtMost(Tabled(p), TableDocument(v))
      BY <2>1, Zenon DEF AtMost, Tabled
    <3> HIDE <3>1
    <3> QED BY <2>1, <3>2, <3>3, TableLines, Zenon
  <2>2. CASE p.table # NoFile
    <3>1. AtMost(Tabled(p), TableDocument(p.table))
      BY <2>2, Zenon DEF AtMost, Tabled
    <3> QED BY <1>1, <2>2, <3>1, TableLines, Zenon
  <2> QED BY <2>1, <2>2
<1>5. AtMost(Stocked(p), LibraryDocument(p.library))
  BY Zenon DEF AtMost, Stocked
<1> QED
  BY <1>1, <1>2, <1>3, <1>4, <1>5, LibraryLines, Zenon

\* y is the three parts but the last, behind an element e that is not wanted.
Fronted(S, K, e, a, b, c, p, q, r, y) ==
  /\ e \in S /\ e \notin K
  /\ Three(S, a, b, c, p, q, r) /\ a \in K /\ b \in K /\ c \in K
  /\ \E x : x = <<e>> \o p /\ y = x \o q

\* What there is before the first separator is not kept.
LEMMA ThoseBehind ==
  ASSUME NEW S, NEW K, NEW e, NEW a, NEW b, NEW c, NEW p, NEW q, NEW r, NEW y,
         Fronted(S, K, e, a, b, c, p, q, r, y)
  PROVE  Those(y \o r, K) = (p \o q) \o r
<1> USE DEF Fronted
<1>0. PICK x : x = <<e>> \o p /\ y = x \o q
  OBVIOUS
<1> HIDE <1>0
<1>1. <<e>> \in Seq(S) /\ Those(<<e>>, K) = <<>>
  BY OneIsASequence, ThoseOne, Zenon
<1>2. /\ p \in Seq(S) /\ Those(p, K) = p
      /\ q \in Seq(S) /\ Those(q, K) = q
      /\ r \in Seq(S) /\ Those(r, K) = r
  BY ThoseAtMost DEF Three
<1>3. \A s, t \in Seq(S) : s \o t \in Seq(S) /\ Those(s \o t, K) = Those(s, K) \o Those(t, K)
  <2>1. \A s, t \in Seq(S) : s \o t \in Seq(S)
    OBVIOUS
  <2>2. ASSUME NEW s \in Seq(S), NEW t \in Seq(S) PROVE Those(s \o t, K) = Those(s, K) \o Those(t, K)
    BY ThoseConcat
  <2> QED BY <2>1, <2>2, Zenon
<1>4. x \in Seq(S) /\ Those(x, K) = p
  <2>1. \A s \in Seq(S) : <<>> \o s = s
    OBVIOUS
  <2>2. <<e>> \o p \in Seq(S) /\ Those(<<e>> \o p, K) = Those(<<e>>, K) \o Those(p, K)
    BY <1>1, <1>2, <1>3, Zenon
  <2>3. Those(<<e>>, K) \o Those(p, K) = p
    BY <1>1, <1>2, <2>1, Zenon
  <2> QED BY <1>0, <2>2, <2>3, Zenon
<1>5. y \in Seq(S) /\ Those(y, K) = p \o q
  BY <1>0, <1>2, <1>3, <1>4, Zenon
<1> QED
  BY <1>2, <1>3, <1>5, Zenon

\* The documents of a project's stream are its own.
LEMMA StreamIsCut ==
  ASSUME NEW p, IsProject(p), NEW seps \in Cutting
  PROVE  Cut(GpkText(p), seps) = Designed(p) \o Tabled(p) \o Stocked(p)
<1>1. PICK d, l : d = DesignDocument(p.design) /\ l = LibraryDocument(p.library)
  OBVIOUS
<1>2. PICK t : /\ AtMost(Tabled(p), t) /\ Tagged(t, "truth_table") /\ AllEntries(t)
               /\ p.table # NoFile => t = TableDocument(p.table)
  BY ProjectDocuments
<1>3. PICK A, B, C : A = Designed(p) /\ B = Tabled(p) /\ C = Stocked(p)
  OBVIOUS
<1>4. AtMost(A, d) /\ AtMost(B, t) /\ AtMost(C, l)
  BY <1>1, <1>2, <1>3, ProjectDocuments, Zenon DEF AtMost, Designed
<1>5. /\ d \in Seq(Lines) /\ Unbroken(d, seps) /\ Content(d) # <<>>
      /\ t \in Seq(Lines) /\ Unbroken(t, seps) /\ Content(t) # <<>>
      /\ l \in Seq(Lines) /\ Unbroken(l, seps) /\ Content(l) # <<>>
  <2>1. ASSUME NEW doc, NEW kind, Tagged(doc, kind) PROVE doc \in Seq(Lines) /\ doc # <<>>
    BY <2>1 DEF Tagged
  <2>2. /\ Tagged(d, "design") /\ Unbroken(d, seps) /\ Content(d) = Told(p) /\ Tagged(Told(p), "design")
        /\ Tagged(l, "library") /\ AllEntries(l)
    BY <1>1, ProjectDocuments, Zenon
  <2>3. t \in Seq(Lines) /\ t # <<>> /\ l \in Seq(Lines) /\ l # <<>> /\ d \in Seq(Lines) /\ Content(d) # <<>>
    BY <1>2, <2>1, <2>2, Zenon
  <2> QED BY <1>2, <2>2, <2>3, EntriesStand, Zenon
<1>6. PICK s0, s1, s2, s3 : /\ s0 = <<Directive>> /\ s1 = Behind(s0, A)
                            /\ s2 = Behind(s1, B) /\ s3 = Behind(s2, C)
  OBVIOUS
<1>7. GpkText(p) = s3
  <2>1. \A x : <<x>> # <<>> /\ <<x>>[1] = x
    OBVIOUS
  <2>2. s1 = s0 \o Chunk(d)
    BY <1>1, <1>3, <1>6, <2>1, Zenon DEF Behind, Designed
  <2>3. s0 \in Seq(Lines) /\ s1 \in Seq(Lines)
    <3>1. s0 \in Seq(Lines)
      BY <1>6, LineTypes, OneIsASequence, Zenon
    <3> QED BY <1>4, <1>5, <1>6, <3>1, PiecesBehind, Zenon
  <2>4. \A q \in Seq(Lines) : q \o <<>> = q
    OBVIOUS
  <2>5. s2 \in Seq(Lines)
    BY <1>4, <1>5, <1>6, <2>3, PiecesBehind, Zenon
  <2>6. s2 = s1 \o (IF p.table = NoFile THEN <<>> ELSE Chunk(TableDocument(p.table)))
    <3>1. CASE p.table = NoFile
      BY <1>3, <1>6, <2>3, <2>4, <3>1, Zenon DEF Behind, Tabled
    <3>2. CASE p.table # NoFile
      BY <1>3, <1>6, <2>1, <3>2, Zenon DEF Behind, Tabled
    <3> QED BY <3>1, <3>2
  <2>7. s3 = s2 \o (IF p.library = NoFile THEN <<>> ELSE Chunk(LibraryDocument(p.library)))
    <3>1. CASE p.library = NoFile
      BY <1>3, <1>6, <2>5, <2>4, <3>1, Zenon DEF Behind, Stocked
    <3>2. CASE p.library # NoFile
      BY <1>3, <1>6, <2>1, <3>2, Zenon DEF Behind, Stocked
    <3> QED BY <3>1, <3>2
  <2> QED BY <1>1, <1>6, <2>2, <2>6, <2>7, Zenon DEF GpkText
<1> HIDE <1>1, <1>3, <1>6
<1>8. s0 \in Seq(Lines) /\ Pieces(s0, seps) = << <<>> >>
  <2>1. <<>> \in Seq(Lines) /\ Append(<<>>, Directive) = <<Directive>>
    OBVIOUS
  <2>2. PICK x \in Lines : x = Directive
    BY LineTypes
  <2>3. Pieces(Append(<<>>, x), seps) = Longer(Pieces(<<>>, seps), x, seps)
    BY <2>1, PiecesAppend
  <2>4. x.is \notin seps /\ x.is = "directive"
    <3>1. seps = {"separator"} \/ seps = {"separator", "noted separator"}
      BY Zenon DEF Cutting
    <3>2. "directive" \notin seps
      <4>1. "directive" \notin {"separator"} /\ "directive" \notin {"separator", "noted separator"}
        OBVIOUS
      <4> QED BY <3>1, <4>1, Zenon
    <3>3. x.is = "directive"
      BY <2>2, LineTypes, Zenon
    <3> QED BY <3>2, <3>3
  <2>5. Longer(<< <<>> >>, x, seps) = << <<>> >>
    BY <2>4, Zenon DEF Longer
  <2>6. Pieces(s0, seps) = << <<>> >>
    BY <1>6, <2>1, <2>2, <2>3, <2>5, PiecesNothing, Zenon
  <2>7. s0 \in Seq(Lines)
    BY <1>6, LineTypes, OneIsASequence, Zenon
  <2> QED BY <2>6, <2>7
<1>9. \A s \in Seq(Lines), doc \in Seq(Lines) : \A part : Unbroken(doc, seps) /\ AtMost(part, doc) =>
        Behind(s, part) \in Seq(Lines) /\ Pieces(Behind(s, part), seps) = Pieces(s, seps) \o part
  BY PiecesBehind
<1>10. PICK P1, P2 : P1 = << <<>> >> \o A /\ P2 = P1 \o B
  OBVIOUS
<1>11. s1 \in Seq(Lines) /\ Pieces(s1, seps) = P1
  <2>1. Behind(s0, A) \in Seq(Lines) /\ Pieces(Behind(s0, A), seps) = Pieces(s0, seps) \o A
    BY <1>4, <1>5, <1>8, <1>9, Zenon
  <2> QED BY <1>6, <1>8, <1>10, <2>1, Zenon
<1>12. s3 \in Seq(Lines) /\ Pieces(s3, seps) = P2 \o C
  <2>1. Behind(s1, B) \in Seq(Lines) /\ Pieces(Behind(s1, B), seps) = Pieces(s1, seps) \o B
    BY <1>4, <1>5, <1>9, <1>11, Zenon
  <2>2. s2 \in Seq(Lines) /\ Pieces(s2, seps) = P2
    BY <1>6, <1>10, <1>11, <2>1, Zenon
  <2>3. Behind(s2, C) \in Seq(Lines) /\ Pieces(Behind(s2, C), seps) = Pieces(s2, seps) \o C
    BY <1>4, <1>5, <1>9, <2>2, Zenon
  <2> QED BY <1>6, <2>2, <2>3, Zenon
<1> HIDE <1>10
<1> DEFINE Real == {x \in Seq(Lines) : Content(x) # <<>>}
<1>13. d \in Real /\ t \in Real /\ l \in Real /\ <<>> \notin Real /\ <<>> \in Seq(Lines)
  <2>1. <<>> \in Seq(Lines)
    OBVIOUS
  <2>2. Content(<<>>) = <<>>
    BY <2>1, ContentIs, ThoseNothing
  <2> QED BY <1>5, <2>1, <2>2
<1> HIDE DEF Real
<1>14. PICK q : q = A \o B \o C
  OBVIOUS
<1>15. Those(Pieces(s3, seps), Real) = q
  <2>1. PICK S : S = Seq(Lines)
    OBVIOUS
  <2>2. <<>> \in S /\ d \in S /\ t \in S /\ l \in S
    BY <1>5, <1>13, <2>1, Zenon
  <2> HIDE <2>1
  <2>3. PICK e : e = <<>>
    OBVIOUS
  <2>4. e \in S /\ e \notin Real /\ P1 = <<e>> \o A
    BY <1>10, <1>13, <2>2, <2>3, Zenon
  <2> HIDE <2>3
  <2>5. Those(P2 \o C, Real) = (A \o B) \o C
    <3>1. P2 = P1 \o B
      BY <1>10
    <3>2. d \in S /\ t \in S /\ l \in S /\ d \in Real /\ t \in Real /\ l \in Real
      BY <1>13, <2>2
    <3>3. Fronted(S, Real, e, d, t, l, A, B, C, P2)
      BY <1>4, <2>4, <3>1, <3>2, Zenon DEF Fronted, Three
    <3> QED BY <3>3, ThoseBehind, SMT
  <2> QED BY <1>12, <1>14, <2>5, Zenon
<1>16. Cut(s3, seps) = q
  <2>1. PICK docs \in Seq(Seq(Lines)) : docs = Pieces(s3, seps)
    BY <1>12, PiecesTypes
  <2>2. Those(docs, {x \in ToSet(docs) : Content(x) # <<>>}) = Those(docs, Real)
    <3>1. \A i \in 1 .. Len(docs) : docs[i] \in Seq(Lines) /\ docs[i] \in ToSet(docs)
      BY DEF ToSet
    <3>2. \A i \in 1 .. Len(docs) : docs[i] \in {x \in ToSet(docs) : Content(x) # <<>>} <=> docs[i] \in Real
      BY <3>1, Zenon DEF Real
    <3> QED BY <3>2, ThoseSame
  <2> QED BY <1>15, <2>1, <2>2, Zenon DEF Cut
<1> QED
  BY <1>3, <1>7, <1>14, <1>16, Zenon
\* The documents of a stream, as they are said.
Contents(docs) == [i \in DOMAIN docs |-> Content(docs[i])]

LEMMA ContentsConcat ==
  ASSUME NEW S, NEW s \in Seq(S), NEW t \in Seq(S)
  PROVE  Contents(s \o t) = Contents(s) \o Contents(t)
<1> DEFINE R == {Content(x) : x \in S}
<1>1. ASSUME NEW q \in Seq(S)
      PROVE  /\ Contents(q) \in Seq(R) /\ Len(Contents(q)) = Len(q)
             /\ \A i \in 1 .. Len(q) : Contents(q)[i] = Content(q[i])
  BY DEF Contents
<1>2. s \o t \in Seq(S) /\ Len(s \o t) = Len(s) + Len(t)
  OBVIOUS
<1>3. PICK u \in Seq(S) : u = s \o t
  BY <1>2
<1>4. /\ \A i \in 1 .. Len(s) : u[i] = s[i]
      /\ \A i \in 1 .. Len(u) : i > Len(s) => u[i] = t[i - Len(s)]
      /\ Len(u) = Len(s) + Len(t)
  BY <1>3
<1> HIDE <1>3
<1>5. PICK a \in Seq(R), b \in Seq(R), c \in Seq(R) : a = Contents(s) /\ b = Contents(t) /\ c = Contents(u)
  BY <1>1, Zenon
<1>6. /\ Len(a) = Len(s) /\ \A i \in 1 .. Len(s) : a[i] = Content(s[i])
      /\ Len(b) = Len(t) /\ \A i \in 1 .. Len(t) : b[i] = Content(t[i])
      /\ Len(c) = Len(u) /\ \A i \in 1 .. Len(u) : c[i] = Content(u[i])
  BY <1>1, <1>5, Zenon
<1> HIDE <1>5
<1> HIDE DEF R
<1>7. c = a \o b
  <2>1. Len(c) = Len(a) + Len(b)
    BY <1>4, <1>6
  <2>2. ASSUME NEW i \in 1 .. Len(c) PROVE c[i] = IF i <= Len(a) THEN a[i] ELSE b[i - Len(a)]
    <3>1. CASE i <= Len(s)
      <4>1. i \in 1 .. Len(s) /\ i \in 1 .. Len(u) /\ i <= Len(a)
        BY <1>6, <3>1
      <4> QED BY <1>4, <1>6, <4>1, Zenon
    <3>2. CASE ~(i <= Len(s))
      <4>1. i - Len(s) \in 1 .. Len(t) /\ i \in 1 .. Len(u) /\ i > Len(s) /\ ~(i <= Len(a))
        BY <1>4, <1>6, <3>2
      <4> QED BY <1>4, <1>6, <4>1, ZenonT(30)
    <3> QED BY <3>1, <3>2
  <2> QED BY SMTT(30), <2>1, <2>2
<1> QED
  BY <1>3, <1>5, <1>7, Zenon

\* Of documents that may be absent.
LEMMA ContentsAtMost ==
  ASSUME NEW a, NEW b, Content(a) = b, NEW part, AtMost(part, a)
  PROVE  Contents(part) = IF part = <<>> THEN <<>> ELSE <<b>>
<1>1. CASE part = <<>>
  BY <1>1 DEF Contents
<1>2. CASE part = <<a>>
  <2>1. DOMAIN <<a>> = 1 .. 1 /\ \A i \in 1 .. 1 : <<a>>[i] = a
    OBVIOUS
  <2>2. [i \in 1 .. 1 |-> Content(<<a>>[i])] = [i \in 1 .. 1 |-> b]
    BY <2>1
  <2>3. [i \in 1 .. 1 |-> b] = <<b>>
    OBVIOUS
  <2>4. <<a>> # <<>>
    OBVIOUS
  <2> QED BY <1>2, <2>1, <2>2, <2>3, <2>4, Zenon DEF Contents
<1> QED
  BY <1>1, <1>2 DEF AtMost

\* A project's stream is read as its documents, and split into them.
LEMMA StreamIsRead ==
  ASSUME NEW p, IsProject(p)
  PROVE  /\ ParseDocuments(GpkText(p)) = <<Told(p)>> \o Tabled(p) \o Stocked(p)
         /\ SplitDocuments(GpkText(p)) = Designed(p) \o Tabled(p) \o Stocked(p)
<1>1. /\ SplitDocuments(GpkText(p)) = Designed(p) \o Tabled(p) \o Stocked(p)
      /\ Cut(GpkText(p), {"separator", "noted separator"}) = Designed(p) \o Tabled(p) \o Stocked(p)
  <2>1. {"separator"} \in Cutting /\ {"separator", "noted separator"} \in Cutting
    BY DEF Cutting
  <2> QED BY <2>1, StreamIsCut, Zenon DEF SplitDocuments
<1>2. PICK t : AtMost(Tabled(p), t) /\ Tagged(t, "truth_table") /\ AllEntries(t)
  BY ProjectDocuments
<1>3. PICK l : l = LibraryDocument(p.library)
  OBVIOUS
<1>4. AtMost(Stocked(p), l) /\ Tagged(l, "library") /\ AllEntries(l)
  BY <1>3, ProjectDocuments, Zenon
<1>5. PICK d : d = DesignDocument(p.design)
  OBVIOUS
<1>6. Content(d) = Told(p) /\ Designed(p) = <<d>> /\ Tagged(d, "design")
  BY <1>5, ProjectDocuments, Zenon DEF Designed
<1> HIDE <1>3, <1>5
<1>7. Content(t) = t /\ Content(l) = l /\ d \in Seq(Lines) /\ t \in Seq(Lines) /\ l \in Seq(Lines)
  BY <1>2, <1>4, <1>6, EntriesStand DEF Tagged
<1>8. PICK A, B, C : A = Designed(p) /\ B = Tabled(p) /\ C = Stocked(p)
  OBVIOUS
<1>9. AtMost(A, d) /\ AtMost(B, t) /\ AtMost(C, l) /\ A = <<d>>
  BY <1>2, <1>4, <1>6, <1>8, Zenon DEF AtMost
<1>10. Contents(A) = <<Told(p)>> /\ Contents(B) = B /\ Contents(C) = C
  <2>1. ASSUME NEW x, Content(x) = x, NEW part, AtMost(part, x) PROVE Contents(part) = part
    BY <2>1, ContentsAtMost DEF AtMost
  <2>2. <<d>> # <<>>
    OBVIOUS
  <2>3. Contents(A) = <<Told(p)>>
    BY <1>6, <1>9, <2>2, ContentsAtMost, Zenon
  <2> QED BY <1>7, <1>9, <2>1, <2>3, Zenon
<1>11. A \in Seq(Seq(Lines)) /\ B \in Seq(Seq(Lines)) /\ C \in Seq(Seq(Lines))
  BY <1>7, <1>9, ThoseAtMost
<1>12. Contents(A \o B \o C) = Contents(A) \o Contents(B) \o Contents(C)
  <2>1. A \o B \in Seq(Seq(Lines))
    BY <1>11
  <2>2. PICK D \in Seq(Seq(Lines)) : D = A \o B
    BY <2>1
  <2>3. Contents(D \o C) = Contents(D) \o Contents(C)
    BY <1>11, ContentsConcat
  <2>4. Contents(A \o B) = Contents(A) \o Contents(B)
    BY <1>11, ContentsConcat
  <2> QED BY <2>2, <2>3, <2>4, Zenon
<1>13. ParseDocuments(GpkText(p)) = Contents(A \o B \o C)
  BY <1>1, <1>8, Zenon DEF ParseDocuments, Contents
<1> QED
  BY <1>1, <1>8, <1>10, <1>12, <1>13, Zenon

\* A stream's documents: one, and two that may be absent.
Stream(S, a, b, c, B, C, docs) ==
  /\ a \in S /\ b \in S /\ c \in S
  /\ AtMost(B, b) /\ AtMost(C, c) /\ docs = <<a>> \o B \o C

\* What is found of each kind, in three documents with their headers.
LEMMA KindsFound ==
  ASSUME NEW a, Tagged(a, "design"), NEW b, Tagged(b, "truth_table"), NEW c, Tagged(c, "library"),
         NEW B, NEW C, NEW docs, Stream(Seq(Lines), a, b, c, B, C, docs)
  PROVE  /\ Those(docs, {d \in ToSet(docs) : DocumentKind(d) = Scalar("design")}) = <<a>>
         /\ Distinct(a) /\ Distinct(b) /\ Distinct(c) =>
              Of(docs, "design") = <<a>> /\ Of(docs, "truth_table") = B /\ Of(docs, "library") = C
<1>0. AtMost(B, b) /\ AtMost(C, c) /\ docs = <<a>> \o B \o C
  BY DEF Stream
<1>1. AtMost(<<a>>, a) /\ a \in Seq(Lines) /\ b \in Seq(Lines) /\ c \in Seq(Lines)
  BY DEF Stream, AtMost
<1>2. PICK A : A = <<a>>
  OBVIOUS
<1>3. AtMost(A, a)
  BY <1>1, <1>2
<1> HIDE <1>2
<1>4. ASSUME NEW K
      PROVE  /\ A \o B \o C \in Seq(Seq(Lines))
             /\ Those(A \o B \o C, K) = WhenIn(K, a, A) \o WhenIn(K, b, B) \o WhenIn(K, c, C)
  <2>1. PICK S : S = Seq(Lines)
    OBVIOUS
  <2>2. a \in S /\ b \in S /\ c \in S
    BY <1>1, <2>1, Zenon
  <2> HIDE <2>1
  <2>3. /\ A \o B \o C \in Seq(S)
        /\ Those(A \o B \o C, K) = WhenIn(K, a, A) \o WhenIn(K, b, B) \o WhenIn(K, c, C)
    <3>1. Three(S, a, b, c, A, B, C)
      BY <1>0, <1>3, <2>2, Zenon DEF Three
    <3> QED BY ONLY <3>1, ThoseThree, SMT
  <2> QED BY <2>1, <2>3, Zenon
<1>5. docs = A \o B \o C /\ docs \in Seq(Seq(Lines))
  BY <1>0, <1>2, <1>4, Zenon
<1>6. \A x \in Seq(Seq(Lines)) : x \o <<>> = x /\ <<>> \o x = x
  OBVIOUS
<1>7. A \in Seq(Seq(Lines)) /\ B \in Seq(Seq(Lines)) /\ C \in Seq(Seq(Lines))
  BY <1>0, <1>1, <1>3, ThoseAtMost
<1>8. Scalar("design") # Scalar("truth_table") /\ Scalar("design") # Scalar("library")
      /\ Scalar("truth_table") # Scalar("library")
  <2>1. "design" # "truth_table" /\ "design" # "library" /\ "truth_table" # "library"
    OBVIOUS
  <2> QED BY <2>1, LineTypes
<1>9. ASSUME NEW K
      PROVE  /\ a \in K /\ b \notin K /\ c \notin K => Those(docs, K) = A
             /\ a \notin K /\ b \in K /\ c \notin K => Those(docs, K) = B
             /\ a \notin K /\ b \notin K /\ c \in K => Those(docs, K) = C
  <2>1. Those(docs, K) = ((IF a \in K THEN A ELSE <<>>) \o (IF b \in K THEN B ELSE <<>>))
                           \o (IF c \in K THEN C ELSE <<>>)
    BY <1>4, <1>5, Zenon DEF WhenIn
  <2>2. <<>> \o <<>> = <<>> /\ <<>> \in Seq(Seq(Lines))
    OBVIOUS
  <2> QED BY <1>6, <1>7, <2>1, <2>2, Zenon
<1>10. \A i \in 1 .. Len(docs) : docs[i] \in Seq(Lines) /\ docs[i] \in ToSet(docs)
  BY <1>5 DEF ToSet
<1>11. Those(docs, {d \in ToSet(docs) : DocumentKind(d) = Scalar("design")}) = <<a>>
  <2> DEFINE K == {d \in Seq(Lines) : DocumentKind(d) = Scalar("design")}
  <2>1. a \in K /\ b \notin K /\ c \notin K
    BY <1>1, <1>8, TaggedKind
  <2>2. Those(docs, {d \in ToSet(docs) : DocumentKind(d) = Scalar("design")}) = Those(docs, K)
    <3>1. \A i \in 1 .. Len(docs) :
            docs[i] \in {d \in ToSet(docs) : DocumentKind(d) = Scalar("design")} <=> docs[i] \in K
      BY <1>10, Zenon
    <3> QED BY <1>5, <3>1, ThoseSame
  <2> QED BY <1>2, <1>9, <2>1, <2>2, Zenon
<1>12. ASSUME Distinct(a), Distinct(b), Distinct(c)
       PROVE  Of(docs, "design") = <<a>> /\ Of(docs, "truth_table") = B /\ Of(docs, "library") = C
  <2> DEFINE K(kind) == {d \in Seq(Lines) : ValueOf(d, "kind") = Scalar(kind)}
  <2>1. /\ ValueOf(a, "kind") = Scalar("design") /\ ValueOf(b, "kind") = Scalar("truth_table")
        /\ ValueOf(c, "kind") = Scalar("library")
    BY <1>12, TaggedKind
  <2>2. /\ a \in K("design") /\ b \notin K("design") /\ c \notin K("design")
        /\ a \notin K("truth_table") /\ b \in K("truth_table") /\ c \notin K("truth_table")
        /\ a \notin K("library") /\ b \notin K("library") /\ c \in K("library")
    BY <1>1, <1>8, <2>1
  <2>3. ASSUME NEW kind PROVE Of(docs, kind) = Those(docs, K(kind))
    <3>1. \A i \in 1 .. Len(docs) :
            docs[i] \in {d \in ToSet(docs) : ValueOf(d, "kind") = Scalar(kind)} <=> docs[i] \in K(kind)
      BY <1>10, Zenon
    <3>2. Those(docs, {d \in ToSet(docs) : ValueOf(d, "kind") = Scalar(kind)}) = Those(docs, K(kind))
      BY <1>5, <3>1, ThoseSame
    <3> QED BY <3>2, Zenon DEF Of
  <2> QED BY <1>2, <1>9, <2>2, <2>3, Zenon
<1> QED
  BY <1>11, <1>12
\* A key that is there twice is counted.
LEMMA TwiceCounted ==
  ASSUME NEW d \in Seq(Lines), NEW key, NEW i \in DOMAIN d, NEW j \in DOMAIN d, i # j,
         d[i].key = key, d[j].key = key
  PROVE  Cardinality({k \in DOMAIN d : d[k].key = key}) > 1
<1> DEFINE K == {k \in DOMAIN d : d[k].key = key}
<1>1. IsFiniteSet(K)
  <2>1. Len(d) \in Nat /\ DOMAIN d = 1 .. Len(d) /\ 1 \in Int /\ Len(d) \in Int
    OBVIOUS
  <2>2. IsFiniteSet(1 .. Len(d))
    BY <2>1, FS_Interval
  <2> QED BY <2>1, <2>2, FS_Subset
<1>2. i \in K /\ j \in K
  OBVIOUS
<1> HIDE DEF K
<1>3. Cardinality({i} \cup {j}) = 2 /\ {i} \cup {j} \subseteq K /\ IsFiniteSet({i})
  <2>1. IsFiniteSet({i}) /\ Cardinality({i}) = 1
    BY FS_Singleton
  <2>2. Cardinality({i} \cup {j}) = Cardinality({i}) + 1
    BY <2>1, FS_AddElement
  <2> QED BY <1>2, <2>1, <2>2
<1>4. Cardinality({i} \cup {j}) <= Cardinality(K) /\ Cardinality(K) \in Nat
  BY <1>1, <1>3, FS_Subset, FS_CardinalityType
<1>5. 2 <= Cardinality(K)
  BY <1>3, <1>4, Zenon
<1>6. \A n \in Nat : 2 <= n => n > 1
  OBVIOUS
<1>7. Cardinality(K) > 1
  BY <1>4, <1>5, <1>6, Zenon
<1> QED
  BY <1>7 DEF K

\* A document of entries is one that is read, exactly when it has each key once.
LEMMA WholeDocuments ==
  ASSUME NEW doc, NEW kind \in Kinds, Tagged(doc, kind), AllEntries(doc)
  PROVE  Distinct(doc) <=> IsDocument(doc)
<1>1. doc \in Seq(Lines) /\ Len(doc) >= 2 /\ doc[1] = Entry("gatepack", Scalar("1")) /\ DOMAIN doc = 1 .. Len(doc)
  BY DEF Tagged
<1>2. Content(doc) = doc /\ doc # <<>>
  BY <1>1, EntriesStand
<1>3. Parses(doc) <=> Distinct(doc)
  BY <1>1, <1>2, Zenon DEF Parses, Distinct, AllEntries
<1>4. Distinct(doc) => Has(doc, "kind") /\ ValueOf(doc, "kind") = Scalar(kind)
  BY TaggedKind
<1> QED
  BY <1>1, <1>3, <1>4, Zenon DEF IsDocument

\* What a design says in a stream: a key twice is one of the header's.
LEMMA ToldLines ==
  ASSUME NEW p, IsProject(p)
  PROVE  /\ Tagged(Told(p), "design") /\ AllEntries(Told(p)) /\ Content(Told(p)) = Told(p)
         /\ Distinct(Told(p)) \/ \E key \in {"gatepack", "kind"} :
              Cardinality({k \in DOMAIN Told(p) : Told(p)[k].key = key}) > 1
<1>1. p.design \in Seq(Lines) /\ Parses(p.design)
  BY DEF IsProject, HasTexts, Loadable
<1>2. PICK h, c, a : h = Header("design") /\ c = Content(p.design) /\ a = Told(p)
  OBVIOUS
<1>3. c \in Seq(Lines) /\ AllEntries(c) /\ Distinct(c)
  BY <1>1, <1>2, DesignLines, Zenon
<1>4. "design" \in Words
  BY WordsAssumption
<1>5. /\ Tagged(a, "design") /\ Len(a) = Len(c) + 2 /\ \A i \in 1 .. Len(c) : a[i + 2] = c[i]
  BY <1>2, <1>3, <1>4, Headers, Zenon DEF Told
<1> HIDE <1>2
<1>6. /\ a[1].is = "entry" /\ a[1].key = "gatepack" /\ a[2].is = "entry" /\ a[2].key = "kind"
      /\ a \in Seq(Lines) /\ DOMAIN a = 1 .. Len(a) /\ Len(c) \in Nat
  BY <1>3, <1>5, TaggedKeys DEF Tagged
<1>7. \A i \in 1 .. Len(a) : i = 1 \/ i = 2 \/ (i - 2 \in 1 .. Len(c) /\ a[i] = c[i - 2])
  <2> TAKE i \in 1 .. Len(a)
  <2>1. i = 1 \/ i = 2 \/ (i - 2 \in 1 .. Len(c) /\ (i - 2) + 2 = i)
    BY <1>5, <1>6
  <2> QED BY <1>5, <2>1
<1>8. AllEntries(a)
  BY <1>3, <1>6, <1>7 DEF AllEntries
<1>9. ASSUME ~Distinct(a)
      PROVE  \E key \in {"gatepack", "kind"} : Cardinality({k \in DOMAIN a : a[k].key = key}) > 1
  <2>1. PICK i, j \in 1 .. Len(a) : a[i].key = a[j].key /\ i # j
    BY <1>9 DEF Distinct
  <2>2. ~(i - 2 \in 1 .. Len(c) /\ a[i] = c[i - 2] /\ j - 2 \in 1 .. Len(c) /\ a[j] = c[j - 2])
    <3>1. i - 2 \in 1 .. Len(c) /\ a[i] = c[i - 2] /\ j - 2 \in 1 .. Len(c) /\ a[j] = c[j - 2] => i - 2 = j - 2
      BY <1>3, <2>1 DEF Distinct
    <3>2. i - 2 = j - 2 => i = j
      OBVIOUS
    <3> QED BY <2>1, <3>1, <3>2
  <2>3. a[i].key \in {"gatepack", "kind"}
    BY <1>6, <1>7, <2>1, <2>2
  <2>4. Cardinality({k \in DOMAIN a : a[k].key = a[i].key}) > 1
    BY <1>6, <2>1, TwiceCounted
  <2> QED BY <2>3, <2>4
<1>10. Content(a) = a
  BY <1>6, <1>8, EntriesStand
<1> QED
  BY <1>2, <1>5, <1>8, <1>9, <1>10, Zenon

\* The documents of three parts, the last two of which may be absent.
LEMMA ThreePlaces ==
  ASSUME NEW S, NEW a, NEW b, NEW c, NEW B, NEW C, NEW docs, Stream(S, a, b, c, B, C, docs)
  PROVE  /\ docs \in Seq(S) /\ 1 \in DOMAIN docs /\ docs[1] = a
         /\ B # <<>> => \E i \in DOMAIN docs : docs[i] = b
         /\ \A i \in DOMAIN docs : docs[i] = a \/ (B # <<>> /\ docs[i] = b) \/ (C # <<>> /\ docs[i] = c)
<1> USE DEF Stream
<1>1. <<b>> # <<>> /\ <<c>> # <<>> /\ \A x \in Seq(S) : x \o <<>> = x /\ <<>> \o x = x
  OBVIOUS
<1>2. <<a>> \in Seq(S) /\ <<a, b>> \in Seq(S) /\ <<a, c>> \in Seq(S) /\ <<a, b, c>> \in Seq(S)
  OBVIOUS
<1>3. <<a>> \o <<b>> = <<a, b>> /\ <<a>> \o <<c>> = <<a, c>> /\ <<a, b>> \o <<c>> = <<a, b, c>>
  <2>1. ASSUME NEW x \in S, NEW y \in S PROVE <<x>> \o <<y>> = <<x, y>>
    <3>1. PICK s : s = <<x>> \o <<y>>
      OBVIOUS
    <3>2. s \in Seq(S) /\ Len(s) = 2 /\ s[1] = x /\ s[2] = y
      BY <3>1
    <3> HIDE <3>1
    <3>3. s = <<x, y>>
      BY <3>2
    <3> QED BY <3>1, <3>3, Zenon
  <2>2. PICK s : s = <<a, b>> \o <<c>>
    OBVIOUS
  <2>3. s \in Seq(S) /\ Len(s) = 3 /\ s[1] = a /\ s[2] = b /\ s[3] = c
    BY <2>2
  <2> HIDE <2>2
  <2>4. s = <<a, b, c>>
    BY <2>3
  <2> QED BY <2>1, <2>2, <2>4, Zenon
<1>4. CASE B = <<>> /\ C = <<>>
  <2>1. docs = <<a>>
    BY <1>1, <1>2, <1>4, Zenon
  <2>2. DOMAIN <<a>> = 1 .. 1 /\ <<a>>[1] = a /\ \A i \in 1 .. 1 : i = 1
    OBVIOUS
  <2> QED BY <1>2, <1>4, <2>1, <2>2
<1>5. CASE B = <<b>> /\ C = <<>>
  <2>1. docs = <<a, b>>
    BY <1>1, <1>2, <1>3, <1>5, Zenon
  <2>2. DOMAIN <<a, b>> = 1 .. 2 /\ <<a, b>>[1] = a /\ <<a, b>>[2] = b /\ \A i \in 1 .. 2 : i = 1 \/ i = 2
    OBVIOUS
  <2> QED BY <1>1, <1>2, <1>5, <2>1, <2>2
<1>6. CASE B = <<>> /\ C = <<c>>
  <2>1. docs = <<a, c>>
    BY <1>1, <1>2, <1>3, <1>6, Zenon
  <2>2. DOMAIN <<a, c>> = 1 .. 2 /\ <<a, c>>[1] = a /\ <<a, c>>[2] = c /\ \A i \in 1 .. 2 : i = 1 \/ i = 2
    OBVIOUS
  <2> QED BY <1>1, <1>2, <1>6, <2>1, <2>2
<1>7. CASE B = <<b>> /\ C = <<c>>
  <2>1. docs = <<a, b, c>>
    BY <1>3, <1>7, Zenon
  <2>2. /\ DOMAIN <<a, b, c>> = 1 .. 3 /\ <<a, b, c>>[1] = a /\ <<a, b, c>>[2] = b /\ <<a, b, c>>[3] = c
        /\ \A i \in 1 .. 3 : i = 1 \/ i = 2 \/ i = 3
    OBVIOUS
  <2> QED BY <1>1, <1>2, <1>7, <2>1, <2>2
<1> QED
  BY <1>4, <1>5, <1>6, <1>7 DEF AtMost

\* What is put into a stream comes out of it, or is one of the two things that
\* cannot be expressed.
LEMMA TextsComeApart ==
  ASSUME NEW p, IsProject(p), IsDirectory(p)
  PROVE  ComesApart(GpkText(p), p)
<1>1. PICK a, l, text : a = Told(p) /\ l = LibraryDocument(p.library) /\ text = GpkText(p)
  OBVIOUS
<1>2. PICK B, C : B = Tabled(p) /\ C = Stocked(p)
  OBVIOUS
<1>3. PICK t : /\ AtMost(B, t) /\ Tagged(t, "truth_table") /\ AllEntries(t) /\ Distinct(t)
               /\ p.table # NoFile => t = TableDocument(p.table)
  BY <1>2, ProjectDocuments
<1>4. /\ Tagged(a, "design") /\ AllEntries(a)
      /\ AtMost(C, l) /\ Tagged(l, "library") /\ AllEntries(l) /\ Distinct(l)
      /\ Distinct(a) \/ \E key \in {"gatepack", "kind"} : Cardinality({k \in DOMAIN a : a[k].key = key}) > 1
  <2>1. Tagged(a, "design") /\ AllEntries(a)
    BY <1>1, ToldLines, Zenon
  <2>2. AtMost(C, l) /\ Tagged(l, "library") /\ AllEntries(l) /\ Distinct(l)
    BY <1>1, <1>2, ProjectDocuments, Zenon
  <2>3. Distinct(a) \/ \E key \in {"gatepack", "kind"} : Cardinality({k \in DOMAIN a : a[k].key = key}) > 1
    BY <1>1, ToldLines, Zenon
  <2> QED BY <2>1, <2>2, <2>3
<1>5. PICK docs : docs = <<a>> \o B \o C
  OBVIOUS
<1>6. ParseDocuments(text) = docs
  BY <1>1, <1>2, <1>5, StreamIsRead, Zenon
<1>7. DesignSources(text) = <<p.design>>
  <2>1. PICK d, bodies : d = DesignDocument(p.design) /\ bodies = Designed(p) \o B \o C
    OBVIOUS
  <2>2. bodies = <<d>> \o B \o C /\ Tagged(d, "design") /\ DesignSource(d) = p.design
    BY <2>1, ProjectDocuments, Zenon DEF Designed
  <2>3. SplitDocuments(text) = bodies
    BY <1>1, <1>2, <2>1, StreamIsRead, Zenon
  <2> HIDE <2>1
  <2>4. Those(bodies, {b \in ToSet(bodies) : DocumentKind(b) = Scalar("design")}) = <<d>>
    <3>1. a \in Seq(Lines) /\ t \in Seq(Lines) /\ l \in Seq(Lines) /\ d \in Seq(Lines)
      BY <1>3, <1>4, <2>2 DEF Tagged
    <3>2. Stream(Seq(Lines), d, t, l, B, C, bodies)
      BY <1>3, <1>4, <2>2, <3>1, Zenon DEF Stream
    <3> QED BY <1>3, <1>4, <2>2, <3>2, KindsFound
  <2>5. [i \in DOMAIN <<d>> |-> DesignSource(<<d>>[i])] = <<p.design>>
    <3>1. DOMAIN <<d>> = 1 .. 1 /\ \A i \in 1 .. 1 : <<d>>[i] = d
      OBVIOUS
    <3>2. [i \in 1 .. 1 |-> DesignSource(<<d>>[i])] = [i \in 1 .. 1 |-> p.design]
      BY <2>2, <3>1
    <3>3. [i \in 1 .. 1 |-> p.design] = <<p.design>>
      OBVIOUS
    <3> QED BY <3>1, <3>2, <3>3, Zenon
  <2> QED BY <2>3, <2>4, <2>5, Zenon DEF DesignSources
<1>8. /\ p.library \in Values
      /\ p.library # NoFile <=> C # <<>>
      /\ p.table # NoFile <=> B # <<>>
  <2>1. \A x : <<x>> # <<>>
    OBVIOUS
  <2>2. p.library \in Values
    BY DEF IsProject, HasTexts
  <2> QED BY <1>2, <2>1, <2>2, Zenon DEF Tabled, Stocked
<1> HIDE <1>2
<1>9. /\ BuildsLibrary(l) /\ BuildLibrary(l) = p.library /\ ~Has(l, "columns")
      /\ B # <<>> => Has(t, "columns") /\ BuildTable(t) = p.table
  <2>1. BuildsLibrary(l) /\ BuildLibrary(l) = p.library /\ ~Has(l, "columns")
    BY <1>1, <1>8, LibraryLines, Zenon
  <2>2. p.table \in Values
    BY DEF IsProject, HasTexts
  <2>3. B # <<>> => Has(t, "columns") /\ BuildTable(t) = p.table
    BY <1>3, <1>8, <2>2, TableLines, Zenon
  <2> QED BY <2>1, <2>3
<1> HIDE <1>1
<1>10. Stream(Seq(Lines), a, t, l, B, C, docs)
  <2>1. a \in Seq(Lines) /\ t \in Seq(Lines) /\ l \in Seq(Lines)
    BY <1>3, <1>4 DEF Tagged
  <2> QED BY <1>3, <1>4, <1>5, <2>1, Zenon DEF Stream
<1> HIDE <1>5
<1>11. /\ 1 \in DOMAIN docs /\ docs[1] = a
       /\ B # <<>> => \E i \in DOMAIN docs : docs[i] = t
       /\ \A i \in DOMAIN docs : docs[i] = a \/ (B # <<>> /\ docs[i] = t) \/ (C # <<>> /\ docs[i] = l)
  BY <1>10, ThreePlaces
<1>12. /\ "design" \in Kinds /\ "truth_table" \in Kinds /\ "library" \in Kinds
       /\ Scalar("design") # Scalar("truth_table") /\ Scalar("design") # Scalar("library")
       /\ Scalar("truth_table") # Scalar("library")
  <2>1. "design" # "truth_table" /\ "design" # "library" /\ "truth_table" # "library"
    OBVIOUS
  <2> QED BY <2>1, LineTypes DEF Kinds
<1>13. CASE ~Distinct(a)
  <2>1. ~IsDocument(a)
    BY <1>4, <1>12, <1>13, WholeDocuments
  <2>2. ~Explodable(text)
    BY <1>6, <1>11, <2>1, Zenon DEF Explodable
  <2>3. PICK key \in {"gatepack", "kind"} : Cardinality({k \in DOMAIN docs[1] : docs[1][k].key = key}) > 1
    BY <1>4, <1>11, <1>13
  <2>4. Unrepresentable(text)
    BY <1>6, <1>11, <2>3, Zenon DEF Unrepresentable
  <2> QED BY <1>1, <2>2, <2>4, Zenon DEF ComesApart
<1>14. CASE Distinct(a)
  <2>1. /\ IsDocument(a) /\ IsDocument(t) /\ IsDocument(l)
        /\ ValueOf(a, "kind") = Scalar("design") /\ ValueOf(t, "kind") = Scalar("truth_table")
        /\ ValueOf(l, "kind") = Scalar("library")
    BY <1>3, <1>4, <1>12, <1>14, WholeDocuments, TaggedKind
  <2>2. Of(docs, "design") = <<a>> /\ Of(docs, "truth_table") = B /\ Of(docs, "library") = C
    <3>1. Tagged(a, "design") /\ Tagged(t, "truth_table") /\ Tagged(l, "library")
      BY <1>3, <1>4
    <3>2. Distinct(a) /\ Distinct(t) /\ Distinct(l)
      BY <1>3, <1>4, <1>14
    <3>3. /\ Those(docs, {d \in ToSet(docs) : DocumentKind(d) = Scalar("design")}) = <<a>>
          /\ Distinct(a) /\ Distinct(t) /\ Distinct(l) =>
               Of(docs, "design") = <<a>> /\ Of(docs, "truth_table") = B /\ Of(docs, "library") = C
      BY ONLY <1>10, <3>1, KindsFound
    <3> QED BY <3>2, <3>3, Zenon
  <2>3. CASE B # <<>> /\ ~BuildsTable(t)
    <3>1. ~Explodable(text)
      BY <1>6, <1>11, <2>1, <2>3, Zenon DEF Explodable
    <3>2. Unrepresentable(text)
      BY <1>6, <1>9, <1>11, <2>3, Zenon DEF Unrepresentable
    <3> QED BY <1>1, <3>1, <3>2, Zenon DEF ComesApart
  <2>4. CASE B = <<>> \/ BuildsTable(t)
    <3>1. ASSUME NEW i \in DOMAIN docs
          PROVE  /\ IsDocument(docs[i])
                 /\ ValueOf(docs[i], "kind") = Scalar("truth_table") => BuildsTable(docs[i])
                 /\ ValueOf(docs[i], "kind") = Scalar("library") => BuildsLibrary(docs[i])
      <4>1. CASE docs[i] = a
        BY <1>12, <2>1, <4>1, Zenon
      <4>2. CASE B # <<>> /\ docs[i] = t
        BY <1>12, <2>1, <2>4, <4>2, Zenon
      <4>3. CASE docs[i] = l
        BY <1>9, <1>12, <2>1, <4>3, Zenon
      <4> QED BY <1>11, <4>1, <4>2, <4>3
    <3>2. Len(<<a>>) = 1 /\ Len(B) <= 1 /\ Len(C) <= 1
      <4>1. \A x : Len(<<x>>) = 1
        OBVIOUS
      <4>2. Len(<<>>) = 0 /\ 0 <= 1 /\ 1 <= 1
        OBVIOUS
      <4> QED BY <1>3, <1>4, <4>1, <4>2, Zenon DEF AtMost
    <3>3. Explodable(text)
      BY <1>6, <2>2, <3>1, <3>2, Zenon DEF Explodable
    <3>4. /\ <<p.design>> # <<>> /\ Head(<<p.design>>) = p.design
          /\ B # <<>> => B[1] = t
          /\ C # <<>> => C[1] = l
      BY <1>3, <1>4 DEF AtMost
    <3>5. /\ (IF B = <<>> THEN NoFile ELSE BuildTable(B[1])) = p.table
          /\ (IF C = <<>> THEN NoFile ELSE BuildLibrary(C[1])) = p.library
      BY <1>8, <1>9, <3>4, Zenon
    <3>6. Explode(text) = [design |-> p.design, table |-> p.table, library |-> p.library]
      BY <1>6, <1>7, <2>2, <3>4, <3>5, Zenon DEF Explode
    <3> QED BY <1>1, <3>3, <3>6, Zenon DEF ComesApart, IsDirectory
  <2> QED BY <2>3, <2>4
<1> QED
  BY <1>13, <1>14
(***************************************************************************)
(* What a stream is exploded into                                          *)
(***************************************************************************)

\* Tables and lines that quote no number.
Plain == {v \in Values : \A j \in DOMAIN v : "01" \notin ToSet(v[j])}
PlainLines == {l \in Lines : l.value \in Plain}

\* int() changes nothing in them.
LEMMA PlainSettles ==
  ASSUME NEW v \in Plain
  PROVE  TruthTableCsv(v) = v
<1>1. v = [i \in DOMAIN v |-> v[i]] /\ \A i \in DOMAIN v : v[i] = [j \in DOMAIN v[i] |-> v[i][j]]
  BY DEF Plain, Values
<1>2. \A i \in DOMAIN v : \A j \in DOMAIN v[i] : CoerceCell(v[i][j]) = v[i][j]
  <2> TAKE i \in DOMAIN v
  <2> TAKE j \in DOMAIN v[i]
  <2>1. v[i][j] \in ToSet(v[i]) /\ "01" \notin ToSet(v[i])
    BY DEF Plain, ToSet
  <2> QED BY <2>1 DEF CoerceCell
<1>3. \A i \in DOMAIN v : (IF i = 1 THEN v[1] ELSE [j \in DOMAIN v[i] |-> CoerceCell(v[i][j])]) = v[i]
  <2> TAKE i \in DOMAIN v
  <2>1. [j \in DOMAIN v[i] |-> CoerceCell(v[i][j])] = [j \in DOMAIN v[i] |-> v[i][j]]
    BY <1>2
  <2> QED BY <1>1, <2>1
<1>4. TruthTableCsv(v) = [i \in DOMAIN v |-> v[i]]
  <2>1. [i \in DOMAIN v |-> IF i = 1 THEN v[1] ELSE [j \in DOMAIN v[i] |-> CoerceCell(v[i][j])]]
          = [i \in DOMAIN v |-> v[i]]
    BY <1>3
  <2> QED BY <2>1, Zenon DEF TruthTableCsv
<1> QED
  BY <1>1, <1>4, Zenon

\* Two plain tables end to end are one.
LEMMA PlainConcat ==
  ASSUME NEW v \in Plain, NEW w \in Plain
  PROVE  v \o w \in Plain
<1>1. v \in Seq(Seq(Words)) /\ w \in Seq(Seq(Words))
  BY DEF Plain, Values
<1>2. PICK u : u = v \o w
  OBVIOUS
<1>3. /\ u \in Seq(Seq(Words)) /\ DOMAIN u = 1 .. Len(u) /\ DOMAIN v = 1 .. Len(v) /\ DOMAIN w = 1 .. Len(w)
      /\ Len(u) = Len(v) + Len(w) /\ Len(v) \in Nat /\ Len(w) \in Nat
      /\ \A j \in 1 .. Len(v) : u[j] = v[j]
      /\ \A j \in 1 .. Len(u) : j > Len(v) => u[j] = w[j - Len(v)]
  BY <1>1, <1>2
<1> HIDE <1>2
<1>4. ASSUME NEW j \in DOMAIN u PROVE "01" \notin ToSet(u[j])
  <2>1. CASE j <= Len(v)
    <3>1. j \in DOMAIN v /\ u[j] = v[j]
      BY <1>3, <2>1
    <3> QED BY <3>1 DEF Plain
  <2>2. CASE ~(j <= Len(v))
    <3>1. j \in 1 .. Len(u) /\ j > Len(v) /\ j - Len(v) \in 1 .. Len(w)
      BY <1>3, <2>2
    <3>2. j - Len(v) \in DOMAIN w /\ u[j] = w[j - Len(v)]
      BY <1>3, <3>1, Zenon
    <3> QED BY <3>2 DEF Plain
  <2> QED BY <2>1, <2>2
<1>5. u \in Plain
  BY <1>3, <1>4 DEF Plain, Values
<1> QED
  BY <1>2, <1>5, Zenon

\* The pieces of a text, and what is kept of them, are of its lines.
LEMMA DocumentTypes ==
  ASSUME NEW S, NEW text \in Seq(S)
  PROVE  /\ ParseDocuments(text) \in Seq(Seq(S)) /\ SplitDocuments(text) \in Seq(Seq(S))
         /\ \A T : Those(text, T) \in Seq(S)
<1>1. ASSUME NEW R, NEW s \in Seq(R), NEW T PROVE Those(s, T) \in Seq(R) /\ Those(s, T) \in Seq(T)
  <2>1. <<>> \in Seq(R)
    OBVIOUS
  <2> QED BY <2>1, ThoseConcat
<1>2. ASSUME NEW seps PROVE Cut(text, seps) \in Seq(Seq(S))
  <2>1. Pieces(text, seps) \in Seq(Seq(S))
    BY PiecesTypes
  <2> QED BY <1>1, <2>1, Zenon DEF Cut
<1>3. ASSUME NEW d \in Seq(S) PROVE Content(d) \in Seq(S)
  BY <1>1, Zenon DEF Content
<1>4. ParseDocuments(text) \in Seq(Seq(S))
  <2>1. PICK docs \in Seq(Seq(S)) : docs = Cut(text, {"separator", "noted separator"})
    BY <1>2
  <2>2. [i \in DOMAIN docs |-> Content(docs[i])] \in Seq(Seq(S))
    <3>1. \A i \in 1 .. Len(docs) : docs[i] \in Seq(S)
      OBVIOUS
    <3>2. \A i \in 1 .. Len(docs) : Content(docs[i]) \in Seq(S)
      BY <1>3, <3>1
    <3>3. DOMAIN docs = 1 .. Len(docs) /\ Len(docs) \in Nat
      OBVIOUS
    <3> QED BY <3>2, <3>3
  <2> QED BY <2>1, <2>2, Zenon DEF ParseDocuments
<1> QED
  BY <1>1, <1>2, <1>4, Zenon DEF SplitDocuments

\* The sources found in a text are of its lines.
LEMMA SourceTypes ==
  ASSUME NEW S, NEW text \in Seq(S), DesignSources(text) # <<>>
  PROVE  Head(DesignSources(text)) \in Seq(S)
<1> DEFINE K == {b \in ToSet(SplitDocuments(text)) : DocumentKind(b) = Scalar("design")}
<1>1. PICK designs : designs = Those(SplitDocuments(text), K)
  OBVIOUS
<1>2. designs \in Seq(Seq(S)) /\ designs \in Seq(K)
  <2>1. SplitDocuments(text) \in Seq(Seq(S)) /\ <<>> \in Seq(Seq(S))
    BY DocumentTypes
  <2> QED BY <1>1, <2>1, ThoseConcat
<1>3. DesignSources(text) = [i \in DOMAIN designs |-> DesignSource(designs[i])]
  BY <1>1, Zenon DEF DesignSources
<1> HIDE <1>1
<1>4. 1 \in DOMAIN designs /\ Head(DesignSources(text)) = DesignSource(designs[1])
  BY <1>2, <1>3
<1>5. PICK b : b = designs[1]
  OBVIOUS
<1>6. b \in Seq(S) /\ DocumentKind(b) = Scalar("design")
  BY <1>2, <1>4, <1>5
<1>7. Has(b, "kind")
  BY <1>6 DEF DocumentKind, Scalar
<1>8. KindLine(b) \in Nat
  <2>1. DOMAIN b \subseteq Nat
    BY <1>6
  <2>2. {i \in DOMAIN b : b[i].key = "kind"} # {} /\ {i \in DOMAIN b : b[i].key = "kind"} \subseteq Nat
    BY <1>7, <2>1 DEF Has
  <2> QED BY <2>2, MinIsLeast DEF KindLine
<1>9. DesignSource(b) \in Seq(S)
  <2>1. \A s \in Seq(S), n \in Nat : SubSeq(s, n + 1, Len(s)) \in Seq(S)
    OBVIOUS
  <2> QED BY <1>6, <1>8, <2>1, Zenon DEF DesignSource
<1> QED
  BY <1>4, <1>5, <1>9, Zenon

\* What a plain text is exploded into are texts, with nothing for int() to change.
LEMMA ExplodeTypes ==
  ASSUME NEW text \in Seq(PlainLines), Explodable(text)
  PROVE  /\ HasTexts(Explode(text)) /\ TruthTableCsv(Explode(text).table) = Explode(text).table
         /\ IsDirectory(Explode(text))
<1>1. PICK docs : docs = ParseDocuments(text)
  OBVIOUS
<1>2. docs \in Seq(Seq(PlainLines))
  BY <1>1, DocumentTypes, Zenon
<1>3. /\ Len(Of(docs, "design")) = 1
      /\ \A i \in DOMAIN docs : ValueOf(docs[i], "kind") = Scalar("truth_table") => BuildsTable(docs[i])
  BY <1>1, Zenon DEF Explodable
<1>4. /\ Explode(text).design = IF DesignSources(text) = <<>> THEN Body(Of(docs, "design")[1])
                                ELSE Head(DesignSources(text))
      /\ Explode(text).table = IF Of(docs, "truth_table") = <<>> THEN NoFile
                               ELSE BuildTable(Of(docs, "truth_table")[1])
      /\ Explode(text).library = IF Of(docs, "library") = <<>> THEN NoFile
                                 ELSE BuildLibrary(Of(docs, "library")[1])
      /\ IsDirectory(Explode(text))
  BY <1>1 DEF Explode, IsDirectory
<1> HIDE <1>1
<1>5. ASSUME NEW kind, Of(docs, kind) # <<>>
      PROVE  /\ Of(docs, kind)[1] \in Seq(PlainLines) /\ ValueOf(Of(docs, kind)[1], "kind") = Scalar(kind)
             /\ \E i \in DOMAIN docs : docs[i] = Of(docs, kind)[1]
  <2> DEFINE K == {d \in ToSet(docs) : ValueOf(d, "kind") = Scalar(kind)}
  <2>1. PICK found : found = Of(docs, kind)
    OBVIOUS
  <2>2. found \in Seq(K)
    <3>1. <<>> \in Seq(Seq(PlainLines))
      OBVIOUS
    <3>2. Those(docs, K) \in Seq(K)
      BY <1>2, <3>1, ThoseConcat
    <3> QED BY <2>1, <3>2, Zenon DEF Of
  <2>3. found # <<>>
    BY <1>5, <2>1
  <2> HIDE <2>1
  <2>4. found[1] \in K
    BY <2>2, <2>3
  <2>5. PICK i \in DOMAIN docs : docs[i] = found[1]
    BY <2>4 DEF ToSet
  <2>6. docs[i] \in Seq(PlainLines)
    BY <1>2
  <2> QED BY <2>1, <2>4, <2>5, <2>6, Zenon
<1>6. ASSUME NEW doc \in Seq(PlainLines), NEW key, Has(doc, key)
      PROVE  ValueOf(doc, key) \in Plain
  <2>1. PICK n : n = CHOOSE i \in DOMAIN doc : doc[i].key = key
    OBVIOUS
  <2>2. n \in DOMAIN doc
    BY <1>6, <2>1, Zenon DEF Has
  <2>3. doc[n] \in PlainLines
    BY <2>2
  <2>4. doc[n].value \in Plain
    BY <2>3 DEF PlainLines
  <2> QED BY <2>1, <2>4, Zenon DEF ValueOf
<1>7. <<>> \in Plain /\ Plain \subseteq Values /\ PlainLines \subseteq Lines
  BY DEF Plain, PlainLines, Values
<1>8. Explode(text).design \in Seq(Lines)
  <2>1. ASSUME DesignSources(text) = <<>> PROVE Body(Of(docs, "design")[1]) \in Seq(PlainLines)
    <3>1. Of(docs, "design") # <<>>
      <4>1. Len(<<>>) # 1
        OBVIOUS
      <4> QED BY <1>3, <4>1, Zenon
    <3>2. Of(docs, "design")[1] \in Seq(PlainLines)
      BY <1>5, <3>1
    <3> QED BY <3>2, DocumentTypes, Zenon DEF Body
  <2>2. Explode(text).design \in Seq(PlainLines)
    BY <1>4, <2>1, SourceTypes, Zenon
  <2> QED BY <1>7, <2>2, WiderQueue
<1>9. Explode(text).table \in Plain
  <2>1. CASE Of(docs, "truth_table") = <<>>
    BY <1>4, <1>7, <2>1 DEF NoFile
  <2>2. CASE Of(docs, "truth_table") # <<>>
    <3>1. PICK d : d = Of(docs, "truth_table")[1]
      OBVIOUS
    <3>2. d \in Seq(PlainLines) /\ BuildsTable(d)
      BY <1>3, <1>5, <2>2, <3>1, Zenon
    <3>3. BuildTable(d) \in Plain
      <4>1. ValueOf(d, "columns") \in Plain
        BY <1>6, <3>2 DEF BuildsTable
      <4>2. (IF Has(d, "rows") THEN ValueOf(d, "rows") ELSE <<>>) \in Plain
        BY <1>6, <1>7, <3>2, Zenon
      <4> QED BY <4>1, <4>2, PlainConcat, Zenon DEF BuildTable
    <3> QED BY <1>4, <2>2, <3>1, <3>3, Zenon
  <2> QED BY <2>1, <2>2
<1>10. Explode(text).library \in Values
  <2>1. CASE Of(docs, "library") = <<>>
    BY <1>4, <1>7, <2>1 DEF NoFile
  <2>2. CASE Of(docs, "library") # <<>>
    <3>1. PICK d : d = Of(docs, "library")[1]
      OBVIOUS
    <3>2. d \in Seq(PlainLines)
      BY <1>5, <2>2, <3>1, Zenon
    <3>3. BuildLibrary(d) \in Plain
      BY <1>6, <1>7, <3>2, Zenon DEF BuildLibrary
    <3> QED BY <1>4, <1>7, <2>2, <3>1, <3>3, Zenon
  <2> QED BY <2>1, <2>2
<1> QED
  BY <1>4, <1>7, <1>8, <1>9, <1>10, PlainSettles DEF HasTexts

(***************************************************************************)
(* What is bundled comes apart as what it was bundled of                   *)
(***************************************************************************)

\* A directory of texts.
Holding(dir) == IsDirectory(dir) /\ HasTexts(dir)
\* int() changes nothing in its table.
Settled(dir) == TruthTableCsv(dir.table) = dir.table
\* A .gpk that comes apart does so into such a directory.
Whole(text) == Explodable(text) => Holding(Explode(text)) /\ Settled(Explode(text))
\* A core has read a design that can be loaded.
HasRead(c) == call[c].at \in {"table", "library", "emptied"}
Names == Archives \cup Folders \cup DOMAIN Examples

\* Wherever the program has put a text it is one: in the directories, in what a save
\* has read, in the archives; and a project has a name.
FilesHold == \A r \in Roots : Holding(files[r])
ReadsHold == \A c \in Calls : HasRead(c) => Holding(call[c].read) /\ Loadable(call[c].read)
ArchivesHold == \A p \in Archives : Whole(archive[p])
CopiesSettled == \A c \in Calls : project[c].form = "archive" => Settled(files[c])
NamesGiven == \A c \in Calls : project[c].form # "none" => project[c].name \in Names
TextsInv == FilesHold /\ ReadsHold /\ ArchivesHold /\ CopiesSettled /\ NamesGiven

\* No file, and no text.
LEMMA NoTexts ==
  /\ <<>> \in Seq(Lines) /\ <<>> \in Values /\ Seq(PlainLines) \subseteq Seq(Lines)
  /\ Holding(Nowhere) /\ TruthTableCsv(<<>>) = <<>>
<1>1. <<>> \in Seq(Lines) /\ <<>> \in Values /\ Seq(PlainLines) \subseteq Seq(Lines)
  BY DEF Values, PlainLines
<1>2. TruthTableCsv(<<>>) = <<>>
  BY DEF TruthTableCsv
<1> QED
  BY <1>1, <1>2, NamedCalls DEF Holding, HasTexts, Nowhere, NoFile

\* Reading a table makes a table.
LEMMA TableTypes ==
  ASSUME NEW v \in Values
  PROVE  TruthTableCsv(v) \in Values
<1>1. v \in Seq(Seq(Words)) /\ "1" \in Words
  BY WordsAssumption DEF Values
<1>2. ASSUME NEW i \in 1 .. Len(v)
      PROVE  [j \in DOMAIN v[i] |-> CoerceCell(v[i][j])] \in Seq(Words)
  <2>1. PICK row \in Seq(Words) : row = v[i]
    BY <1>1
  <2>2. \A j \in 1 .. Len(row) : CoerceCell(row[j]) \in Words
    BY <1>1 DEF CoerceCell
  <2>3. [j \in 1 .. Len(row) |-> CoerceCell(row[j])] \in Seq(Words)
    BY <2>2
  <2>4. DOMAIN row = 1 .. Len(row)
    OBVIOUS
  <2> QED
    BY <2>1, <2>3, <2>4
<1>3. \A i \in 1 .. Len(v) :
        (IF i = 1 THEN v[1] ELSE [j \in DOMAIN v[i] |-> CoerceCell(v[i][j])]) \in Seq(Words)
  <2>1. \A i \in 1 .. Len(v) : v[i] \in Seq(Words)
    BY <1>1
  <2> QED
    BY <1>2, <2>1, Zenon
<1>4. DOMAIN v = 1 .. Len(v)
  BY <1>1
<1>5. [i \in 1 .. Len(v) |-> IF i = 1 THEN v[1] ELSE [j \in DOMAIN v[i] |-> CoerceCell(v[i][j])]]
        \in Seq(Seq(Words))
  BY <1>1, <1>3
<1> QED
  BY <1>4, <1>5, Zenon DEF TruthTableCsv, Values

\* A table that was read once reads the same again.
LEMMA TablesAreStable ==
  ASSUME NEW table
  PROVE  TruthTableCsv(TruthTableCsv(table)) = TruthTableCsv(table)
<1> DEFINE once == TruthTableCsv(table)
<1>1. \A cell : CoerceCell(CoerceCell(cell)) = CoerceCell(cell)
  BY DEF CoerceCell
<1>2. DOMAIN once = DOMAIN table
  BY DEF TruthTableCsv
<1>3. \A i \in DOMAIN table :
        IF i = 1 THEN once[i] = table[1]
        ELSE once[i] = [j \in DOMAIN table[i] |-> CoerceCell(table[i][j])]
  BY DEF TruthTableCsv
<1>4. ASSUME NEW i \in DOMAIN table, i # 1
      PROVE  [j \in DOMAIN once[i] |-> CoerceCell(once[i][j])] = once[i]
  <2> DEFINE row == [j \in DOMAIN table[i] |-> CoerceCell(table[i][j])]
  <2>1. once[i] = row
    BY <1>3, <1>4
  <2>2. [j \in DOMAIN row |-> CoerceCell(row[j])] = row
    BY <1>1
  <2> HIDE DEF row
  <2> QED
    BY <2>1, <2>2
<1>5. once = [i \in DOMAIN once |-> once[i]]
  BY DEF TruthTableCsv
<1>6. TruthTableCsv(once) =
        [i \in DOMAIN once |-> IF i = 1 THEN once[1]
                               ELSE [j \in DOMAIN once[i] |-> CoerceCell(once[i][j])]]
  BY DEF TruthTableCsv
<1> HIDE DEF once
<1>7. TruthTableCsv(once) = [i \in DOMAIN once |-> once[i]]
  BY <1>2, <1>4, <1>6
<1> QED
  BY <1>5, <1>7 DEF once

\* What is loaded of a directory of texts is one, with nothing for int() to change,
\* and comes apart as it was put together.
LEMMA LoadedComesApart ==
  ASSUME NEW dir, Holding(dir)
  PROVE  /\ Holding(LoadExploded(dir)) /\ Settled(LoadExploded(dir))
         /\ Settled(dir) => LoadExploded(dir) = dir
         /\ Loadable(dir) => ComesApart(Bundle(dir), LoadExploded(dir))
<1>1. PICK new : new = LoadExploded(dir)
  OBVIOUS
<1>2. /\ IsDirectory(new) /\ new.design = dir.design /\ new.library = dir.library
      /\ new.table = TruthTableCsv(dir.table)
  BY <1>1 DEF Holding, IsDirectory, LoadExploded
<1>3. Holding(new)
  BY <1>2, TableTypes DEF Holding, HasTexts
<1>4. Settled(new)
  BY <1>2, TablesAreStable DEF Settled
<1>5. Settled(dir) => new = dir
  BY <1>2 DEF Settled, Holding, IsDirectory
<1>6. Loadable(dir) => IsProject(new)
  BY <1>2, <1>3 DEF Holding, Loadable, IsProject
<1>7. Loadable(dir) => ComesApart(GpkText(new), new)
  BY <1>3, <1>6, TextsComeApart DEF Holding
<1> QED
  BY <1>1, <1>3, <1>4, <1>5, <1>7, Zenon DEF Bundle

\* So the texts of such a session come apart.
LEMMA HeldComesApart ==
  ASSUME Shapes, TextsInv
  PROVE  TextsRoundTrip
<1>1. ASSUME open # None, project[open].form = "archive", Loadable(files[open])
      PROVE  ComesApart(Bundle(files[open]), files[open])
  <2>1. open \in Calls /\ open \in Roots
    BY <1>1 DEF Shapes, Roots
  <2>2. Holding(files[open]) /\ Settled(files[open])
    BY <1>1, <2>1 DEF TextsInv, FilesHold, CopiesSettled
  <2> QED
    BY <1>1, <2>2, LoadedComesApart
<1>2. ASSUME NEW c \in Calls, call[c].at = "emptied"
      PROVE  ComesApart(Bundle(call[c].read), LoadExploded(call[c].read))
  BY <1>2, LoadedComesApart DEF TextsInv, ReadsHold, HasRead
<1> QED
  BY <1>1, <1>2 DEF TextsRoundTrip

\* What a step makes of the directory r.
Lost(r) == \E f \in {"design", "table", "library"} : files'[r] = [files[r] EXCEPT ![f] = NoFile]
Copied(r) ==
  project'[r].form = "example" /\ \E e \in DOMAIN Examples : files'[r] = Examples[e]
Exploded(r) ==
  \E p \in Archives : Explodable(archive[p]) /\ files'[r] = Explode(archive[p])
Edited(r) ==
  /\ open \in Calls /\ project[open].form # "none"
  /\ \E text \in Edits(project[open].name) : files'[r] = [files[r] EXCEPT !.design = text]

\* A directory stays, or one of these things happens to it.
LEMMA DirectoryTurns ==
  ASSUME Shapes, Lifetimes, Arguments, [Next]_vars, NEW r \in Roots
  PROVE  \/ files'[r] = files[r] \/ Edited(r)
         \/ r \in Calls /\ (Lost(r) \/ Copied(r) \/ Exploded(r))
         \/ r \notin Calls /\ files'[r] = NewProject(files[r], Template, Seed)
<1> DEFINE Goal == \/ files'[r] = files[r] \/ Edited(r)
                   \/ r \in Calls /\ (Lost(r) \/ Copied(r) \/ Exploded(r))
                   \/ r \notin Calls /\ files'[r] = NewProject(files[r], Template, Seed)
<1>1. files = [x \in Roots |-> files[x]] /\ \A c \in Calls : c \in Roots
  BY DEF Shapes, Roots
<1>2. ASSUME files' = files PROVE Goal
  BY <1>2
<1>3. ASSUME NEW x \in Roots, NEW dir, files' = [files EXCEPT ![x] = dir]
      PROVE  files'[r] = files[r] \/ (r = x /\ files'[r] = dir)
  BY <1>1, <1>3
<1>4. ASSUME NEW x \in Calls, RemoveFile(x) PROVE Goal
  <2>1. CASE files[x] = Nowhere
    BY <1>2, <1>4, <2>1 DEF RemoveFile
  <2>2. CASE files[x] # Nowhere
    <3>1. PICK f \in {"design", "table", "library"} : files' = [files EXCEPT ![x][f] = NoFile]
      BY <1>4, <2>2 DEF RemoveFile
    <3>2. files'[r] = files[r] \/ (r = x /\ files'[r] = [files[r] EXCEPT ![f] = NoFile])
      BY <1>1, <3>1
    <3> QED
      BY <3>2 DEF Lost
  <2> QED
    BY <2>1, <2>2
<1>5. ASSUME open # None, NEW text \in Edits(project[open].name), WriteSpec(text) PROVE Goal
  <2>1. open \in Calls /\ Root(open) \in Roots /\ project[open].form # "none"
    BY <1>5, RootsOf DEF Shapes, Lifetimes, OpenLives
  <2>2. \/ files'[r] = files[r]
        \/ files'[r] = [files[r] EXCEPT !.design = text]
    BY <1>1, <1>5, <2>1 DEF WriteSpec
  <2> QED
    BY <2>1, <2>2 DEF Edited
<1>6. ASSUME NEW c \in Calls, NEW e \in DOMAIN Examples, OpenExample(c, e) PROVE Goal
  <2>1. project'[c].form = "example"
    <3>1. Made(c, State("example", None, e))
      BY <1>6, Making DEF OpenExample
    <3> QED
      BY <3>1 DEF Made, State
  <2>2. files'[r] = files[r] \/ (r = c /\ files'[r] = Examples[e])
    BY <1>1, <1>3, <1>6 DEF OpenExample
  <2> QED
    BY <2>1, <2>2 DEF Copied
<1>7. ASSUME NEW c \in Calls, ExplodeEnds(c) PROVE Goal
  <2>1. call[c].to \in Archives
    BY <1>7 DEF ExplodeEnds, Arguments
  <2>2. CASE Explodable(archive[call[c].to])
    <3>1. files'[r] = files[r] \/ (r = c /\ files'[r] = Explode(archive[call[c].to]))
      BY <1>1, <1>3, <1>7, <2>2 DEF ExplodeEnds
    <3> QED
      BY <2>1, <2>2, <3>1 DEF Exploded
  <2>3. CASE ~Explodable(archive[call[c].to])
    BY <1>2, <1>7, <2>3 DEF ExplodeEnds
  <2> QED
    BY <2>2, <2>3
<1>8. ASSUME NEW c \in Calls, ScaffoldEnds(c) PROVE Goal
  <2>1. call[c].to \in Roots /\ call[c].to \notin Calls
    BY <1>8, PathsAssumption DEF ScaffoldEnds, Arguments, Roots
  <2>2. CASE Scaffolds(files[call[c].to])
    BY <1>3, <1>8, <2>1, <2>2 DEF ScaffoldEnds
  <2>3. CASE ~Scaffolds(files[call[c].to])
    BY <1>2, <1>8, <2>3 DEF ScaffoldEnds
  <2> QED
    BY <2>2, <2>3
<1>9. ASSUME NEW c \in Calls,
             \/ \E f \in Folders : OpenFolder(c, f) \/ NewFolder(c, f)
             \/ \E p \in Archives : OpenArchive(c, p) \/ SaveProjectAs(c, p)
             \/ Opened(c) \/ SaveProject(c) \/ ReadsDesign(c) \/ ReadsTable(c)
             \/ ReadsLibrary(c) \/ WritesArchive(c) \/ SaveEnds(c) \/ Saved(c)
      PROVE  Goal
  BY <1>2, <1>9 DEF OpenFolder, NewFolder, OpenArchive, SaveProjectAs, Opened, SaveProject,
     ReadsDesign, ReadsTable, Proceeds, ReadsLibrary, WritesArchive, SaveEnds, Saved, disk
<1>10. ASSUME UNCHANGED vars \/ Close \/ Debounce \/ WatchGitEnds PROVE Goal
  BY <1>2, <1>10 DEF vars, disk, Close, Debounce, WatchGitEnds
<1> HIDE DEF Goal
<1>11. Goal
  BY StepNames, <1>4, <1>5, <1>6, <1>7, <1>8, <1>9, <1>10
<1> QED
  BY <1>11 DEF Goal

\* A file gone, written or laid out leaves a directory of texts, whose table is as
\* it was or gone.
LEMMA HoldingStays ==
  ASSUME NEW dir, Holding(dir)
  PROVE  /\ \A f \in {"design", "table", "library"} :
              LET new == [dir EXCEPT ![f] = NoFile] IN Holding(new) /\ (Settled(dir) => Settled(new))
         /\ \A text \in Seq(Lines) :
              LET new == [dir EXCEPT !.design = text] IN Holding(new) /\ (Settled(dir) => Settled(new))
         /\ Holding(NewProject(dir, Template, Seed))
<1>1. /\ NoFile \in Seq(Lines) /\ NoFile \in Values /\ TruthTableCsv(NoFile) = NoFile
      /\ Template \in Seq(Lines) /\ Seed \in Values
  BY NoTexts, TextsAssumption DEF NoFile
<1>2. /\ dir = [design |-> dir.design, table |-> dir.table, library |-> dir.library]
      /\ dir.design \in Seq(Lines) /\ dir.table \in Values /\ dir.library \in Values
  BY DEF Holding, IsDirectory, HasTexts
<1>3. ASSUME NEW d \in Seq(Lines), NEW t \in Values, NEW l \in Values
      PROVE  Holding([design |-> d, table |-> t, library |-> l])
  BY <1>3 DEF Holding, IsDirectory, HasTexts
<1>4. \A text \in Seq(Lines) :
        LET new == [dir EXCEPT !.design = text] IN Holding(new) /\ (Settled(dir) => Settled(new))
  <2> TAKE text \in Seq(Lines)
  <2>1. [dir EXCEPT !.design = text] = [design |-> text, table |-> dir.table, library |-> dir.library]
    BY <1>2
  <2> QED
    BY <1>2, <1>3, <2>1 DEF Settled
<1>5. LET new == [dir EXCEPT !.table = NoFile] IN Holding(new) /\ Settled(new)
  <2>1. [dir EXCEPT !.table = NoFile] = [design |-> dir.design, table |-> NoFile, library |-> dir.library]
    BY <1>2
  <2> QED
    BY <1>1, <1>2, <1>3, <2>1 DEF Settled
<1>6. LET new == [dir EXCEPT !.library = NoFile] IN Holding(new) /\ (Settled(dir) => Settled(new))
  <2>1. [dir EXCEPT !.library = NoFile] = [design |-> dir.design, table |-> dir.table, library |-> NoFile]
    BY <1>2
  <2> QED
    BY <1>1, <1>2, <1>3, <2>1 DEF Settled
<1>7. Holding(NewProject(dir, Template, Seed))
  <2> DEFINE shelf == IF dir.library = NoFile THEN Seed ELSE dir.library
  <2>1. NewProject(dir, Template, Seed) = [design |-> Template, table |-> dir.table, library |-> shelf]
    <3>1. PICK new : new = [dir EXCEPT !.design = Template, !.library = shelf]
      OBVIOUS
    <3>2. IsDirectory(dir)
      BY DEF Holding
    <3>3. /\ IsDirectory(new) /\ new.design = Template /\ new.table = dir.table
          /\ new.library = shelf
      BY <3>1, <3>2 DEF IsDirectory
    <3>4. new = [design |-> Template, table |-> dir.table, library |-> shelf]
      BY <3>3 DEF IsDirectory
    <3> QED
      BY <3>1, <3>4 DEF NewProject
  <2>2. shelf \in Values
    BY <1>1, <1>2
  <2> HIDE DEF shelf
  <2> QED
    BY <1>1, <1>2, <1>3, <2>1, <2>2
<1> QED
  BY <1>1, <1>4, <1>5, <1>6, <1>7

\* A name is kept, or given with the project.
LEMMA NamesGivenStep ==
  ASSUME Shapes, Lifetimes, NamesGiven, StepKind
  PROVE  NamesGiven'
<1> SUFFICES ASSUME NEW d \in Calls, project'[d].form # "none"
             PROVE  project'[d].name \in Names
  BY DEF NamesGiven, Names
<1>1. CASE Same(d)
  BY <1>1 DEF Same, NamesGiven
<1>2. CASE Makes(d)
  BY <1>2 DEF Makes, Names
<1> QED
  BY <1>1, <1>2, ProjectsStand

\* Directories of texts stay so.
LEMMA FilesHoldStep ==
  ASSUME OwnerInv, TextsInv, StepKind, [Next]_vars
  PROVE  FilesHold' /\ CopiesSettled'
<1>1. /\ Shapes /\ Lifetimes /\ Arguments
      /\ FilesHold /\ ArchivesHold /\ CopiesSettled /\ NamesGiven
  BY DEF OwnerInv, TextsInv
<1>2. ASSUME NEW r \in Roots PROVE Holding(files'[r]) /\ (Settled(files[r]) => Settled(files'[r]) \/ r \notin Calls \/ Copied(r))
  <2>1. Holding(files[r])
    BY <1>1 DEF FilesHold
  <2>2. ASSUME Edited(r) PROVE Holding(files'[r]) /\ (Settled(files[r]) => Settled(files'[r]))
    <3>1. project[open].name \in Names /\ open \in Calls
      BY <1>1, <2>2 DEF Edited, NamesGiven
    <3>2. Edits(project[open].name) \subseteq Seq(Lines)
      BY <3>1, TextsAssumption DEF Names
    <3>3. PICK text \in Seq(Lines) : files'[r] = [files[r] EXCEPT !.design = text]
      BY <2>2, <3>2 DEF Edited
    <3>4. LET new == [files[r] EXCEPT !.design = text]
          IN  Holding(new) /\ (Settled(files[r]) => Settled(new))
      BY <2>1, HoldingStays
    <3> QED
      BY <3>3, <3>4, Zenon
  <2>3. ASSUME Lost(r) PROVE Holding(files'[r]) /\ (Settled(files[r]) => Settled(files'[r]))
    <3>1. PICK f \in {"design", "table", "library"} : files'[r] = [files[r] EXCEPT ![f] = NoFile]
      BY <2>3 DEF Lost
    <3>2. LET new == [files[r] EXCEPT ![f] = NoFile]
          IN  Holding(new) /\ (Settled(files[r]) => Settled(new))
      BY <2>1, HoldingStays
    <3> QED
      BY <3>1, <3>2, Zenon
  <2>4. ASSUME Copied(r) PROVE Holding(files'[r])
    BY <2>4, ExamplesAssumption, TextsAssumption DEF Copied, Holding
  <2>5. ASSUME Exploded(r) PROVE Holding(files'[r]) /\ Settled(files'[r])
    BY <1>1, <2>5 DEF Exploded, ArchivesHold, Whole
  <2>6. files'[r] = NewProject(files[r], Template, Seed) => Holding(files'[r])
    BY <2>1, HoldingStays
  <2> QED
    BY <1>1, <2>1, <2>2, <2>3, <2>4, <2>5, <2>6, DirectoryTurns, Zenon
<1>3. FilesHold'
  <2>1. \A r \in Roots : Holding(files'[r])
    BY <1>2
  <2> QED
    BY <2>1 DEF FilesHold, Holding, HasTexts
<1>4. ASSUME NEW c \in Calls, project'[c].form = "archive" PROVE Settled(files'[c])
  <2>1. CASE Same(c)
    <3>1. Settled(files[c]) /\ c \in Roots /\ ~Copied(c)
      BY <1>1, <1>4, <2>1 DEF Same, CopiesSettled, Roots, Copied
    <3> QED
      BY <1>2, <3>1
  <2>2. CASE Makes(c)
    BY <1>1, <1>4, <2>2 DEF Makes, ArchivesHold, Whole
  <2> QED
    BY <1>1, <2>1, <2>2, ProjectsStand
<1>5. CopiesSettled'
  BY <1>4 DEF CopiesSettled, Settled
<1> QED
  BY <1>3, <1>5

\* A core that reads finds texts, and a design that can be loaded.
LEMMA ReadsHoldStep ==
  ASSUME OwnerInv, TextsInv, StepKind, [Next]_vars
  PROVE  ReadsHold'
<1> SUFFICES ASSUME NEW c \in Calls, HasRead(c)'
             PROVE  Holding(call'[c].read) /\ Loadable(call'[c].read)
  BY DEF ReadsHold, Holding, HasTexts
<1>1. /\ Shapes /\ Lifetimes /\ Arguments /\ FilesHold /\ ReadsHold
  BY DEF OwnerInv, TextsInv
<1>2. Goes(c)
  <2>1. Bundling(c)'
    BY DEF HasRead, Bundling
  <2> QED
    BY <1>1, <2>1, SaveTurns DEF HasRead
<1>3. CASE call'[c] = call[c]
  BY <1>1, <1>3 DEF ReadsHold, HasRead
<1>4. Holding(Source(c))
  <2>1. call[c].of \in Calls
    BY <1>1, <1>2 DEF Goes, Arguments, Saving
  <2> QED
    BY <1>1, <2>1, RootsOf DEF FilesHold, Source
<1>5. IsDirectory(call'[c].read)
  BY <1>1, CallsStay DEF CallShapes, IsCall
<1>6. HasRead(c) => HasTexts(call[c].read) /\ Loadable(call[c].read)
  BY <1>1 DEF ReadsHold, Holding
<1>7. CASE Reads(c)
  <2>1. CASE call[c].at = "design"
    <3>1. /\ Loadable(Source(c)) /\ call'[c].read.design = Source(c).design
          /\ call'[c].read.table = NoFile /\ call'[c].read.library = NoFile
      BY <1>7, <2>1 DEF Reads
    <3> QED
      BY <1>4, <1>5, <3>1, NoTexts DEF Holding, HasTexts, Loadable, NoFile
  <2>2. CASE call[c].at # "design"
    <3>1. /\ HasRead(c) /\ call'[c].read.design = call[c].read.design
          /\ call'[c].read.table = Source(c).table /\ call'[c].read.library = call[c].read.library
      BY <1>7, <2>2 DEF Reads, HasRead
    <3> QED
      BY <1>4, <1>5, <1>6, <3>1 DEF Holding, HasTexts, Loadable
  <2> QED
    BY <2>1, <2>2
<1>8. CASE Publishes(c)
  <2>1. call'[c].at # "bundled"
    BY DEF HasRead
  <2>2. /\ HasRead(c) /\ call'[c].read.design = call[c].read.design
        /\ call'[c].read.table = call[c].read.table /\ call'[c].read.library = Source(c).library
    BY <1>8, <2>1 DEF Publishes, HasRead, Turns
  <2> QED
    BY <1>4, <1>5, <1>6, <2>2 DEF Holding, HasTexts, Loadable
<1> QED
  BY <1>2, <1>3, <1>7, <1>8 DEF Goes

\* A .gpk that is written comes apart as what was read.
LEMMA ArchivesHoldStep ==
  ASSUME OwnerInv, TextsInv, StepKind
  PROVE  ArchivesHold'
<1>1. Shapes /\ Arguments /\ ArchivesHold /\ ReadsHold
  BY DEF OwnerInv, TextsInv
<1>2. ASSUME NEW p \in Archives, NEW c \in Calls, Writes(c, p) PROVE Whole(archive'[p])
  <2>1. PICK read : read = call[c].read
    OBVIOUS
  <2>2. /\ archive'[p] = Bundle(read) /\ Holding(read) /\ Loadable(read)
    BY <1>1, <1>2, <2>1 DEF Writes, ReadsHold, HasRead
  <2>3. /\ Holding(LoadExploded(read)) /\ Settled(LoadExploded(read))
        /\ ComesApart(Bundle(read), LoadExploded(read))
    BY <2>2, LoadedComesApart
  <2> QED
    BY <2>2, <2>3, Zenon DEF ComesApart, Whole
<1>3. ASSUME NEW p \in Archives PROVE Whole(archive'[p])
  <2>1. Whole(archive[p]) /\ Whole(Emptied)
    BY <1>1, EmptiedAssumption DEF ArchivesHold, Whole
  <2> QED
    BY <1>1, <1>2, <2>1, ArchiveTurns, Zenon
<1> QED
  BY <1>3 DEF ArchivesHold, Whole, Holding, HasTexts, Settled

\* What there is to begin with are texts, and what is exploded of them is.
LEMMA TextsInit ==
  ASSUME Init
  PROVE  TextsInv
<1>1. PICK dirs \in [Folders -> UNION {Dirs(f) : f \in Folders}] :
        /\ \A f \in Folders : dirs[f] \in Dirs(f)
        /\ files = [r \in Roots |-> IF r \in Folders THEN dirs[r]
                                    ELSE IF r = 0 THEN Explode(archive[LastProject]) ELSE Nowhere]
  BY DEF Init
<1>2. 0 \in Calls /\ 0 \in Roots /\ 0 \notin Folders /\ LastProject \in Archives
  BY CallsAssumption, PathsAssumption DEF Calls, Roots
<1>3. ASSUME NEW p \in Archives PROVE Whole(archive[p])
  <2>1. PICK text \in Texts(p) : archive[p] = text
    BY DEF Init
  <2>2. /\ text \in Seq(Lines)
        /\ \A i \in DOMAIN text : \A j \in DOMAIN text[i].value : "01" \notin ToSet(text[i].value[j])
    BY TextsAssumption
  <2>3. \A i \in 1 .. Len(text) : text[i] \in PlainLines
    <3> TAKE i \in 1 .. Len(text)
    <3>1. text[i] \in Lines /\ i \in DOMAIN text
      BY <2>2
    <3>2. text[i].value \in Values
      BY <3>1 DEF Lines
    <3> QED
      BY <2>2, <3>1, <3>2 DEF PlainLines, Plain
  <2>4. text \in Seq(PlainLines)
    <3>1. \A s \in Seq(Lines) : (\A i \in 1 .. Len(s) : s[i] \in PlainLines) => s \in Seq(PlainLines)
      OBVIOUS
    <3> QED
      BY <2>2, <2>3, <3>1, Zenon
  <2> QED
    BY <2>1, <2>4, ExplodeTypes, Zenon DEF Whole, Holding, Settled
<1>4. Explodable(archive[LastProject]) /\ files[0] = Explode(archive[LastProject])
  BY <1>1, <1>2 DEF Init
<1>5. ASSUME NEW r \in Roots PROVE Holding(files[r])
  <2>1. CASE r \in Folders
    <3>1. files[r] \in Dirs(r)
      BY <1>1, <2>1
    <3> QED
      BY <2>1, <3>1, OriginalsAssumption, TextsAssumption DEF Holding, IsFolderOf
  <2>2. CASE r = 0
    BY <1>2, <1>3, <1>4, <2>2 DEF Whole
  <2>3. CASE r \notin Folders /\ r # 0
    BY <1>1, <2>3, NoTexts
  <2> QED
    BY <2>1, <2>2, <2>3
<1>6. /\ project[0].name = LastProject
      /\ \A d \in Calls : d # 0 => project[d].form = "none"
      /\ \A c \in Calls : call[c].at \in {"idle", "ended"}
  BY <1>2, NamedCalls, CallFields DEF Init, State, NoProject
<1>7. CopiesSettled
  BY <1>2, <1>3, <1>4, <1>6 DEF CopiesSettled, Whole
<1> QED
  BY <1>2, <1>3, <1>5, <1>6, <1>7
  DEF TextsInv, FilesHold, ReadsHold, HasRead, ArchivesHold, NamesGiven, Names

\* The texts of a session stay texts.
LEMMA TextsStep ==
  ASSUME OwnerInv, TextsInv, [Next]_vars
  PROVE  TextsInv'
<1>1. StepKind
  BY StepKinds DEF OwnerInv
<1>2. NamesGiven'
  BY <1>1, NamesGivenStep DEF OwnerInv, TextsInv
<1> QED
  BY <1>1, <1>2, FilesHoldStep, ReadsHoldStep, ArchivesHoldStep DEF TextsInv

\* Whatever the session bundles comes apart as what it was bundled of, whoever
\* writes, saves, opens or removes in between: the working copy that is open, and
\* what a save has read; but for a table and a design the form cannot express.
\* (gatepack/project, session.cts)
THEOREM TextsAlwaysRoundTrip == Spec => []TextsRoundTrip
<1>1. Init => TextsInv
  BY TextsInit
<1>2. OwnerInv /\ TextsInv /\ [Next]_vars => TextsInv'
  BY TextsStep
<1>3. OwnerInv /\ TextsInv => TextsRoundTrip
  BY HeldComesApart DEF OwnerInv
<1> QED
  BY <1>1, <1>2, <1>3, OwnerAlways, PTL DEF Spec

(***************************************************************************)
(* A clean .gpk is saved                                                   *)
(***************************************************************************)

\* What is, or is about to be, open is not being removed.
LEMMA HeldIsKept ==
  ASSUME Lifetimes, NEW d \in Calls, Held(d)
  PROVE  d \notin removing
  BY NamedCalls, PathsAssumption DEF Lifetimes, OpenLives, Lives, Held, Opening

\* A step that does not touch project d leaves it as it was.
Keeps(d) ==
  Undisturbed(d)' =>
    /\ Undisturbed(d) /\ project'[d].path = project[d].path
    /\ archive'[project[d].path] = archive[project[d].path] /\ files'[d] = files[d]

\* A project that is left alone stays in step with its .gpk, unless it settles.
LEMMA SyncedFrame ==
  ASSUME SettledIsSynced, NEW d \in Calls, Keeps(d),
         Undisturbed(d)' => (Settles(d)' => Settles(d)) /\ (BeingWritten(d) => BeingWritten(d)')
  PROVE  Undisturbed(d)' /\ Settles(d)' => Synced(d)' \/ BeingWritten(d)'
<1> SUFFICES ASSUME Undisturbed(d)', Settles(d)' PROVE Synced(d)' \/ BeingWritten(d)'
  OBVIOUS
<1>1. Synced(d) \/ BeingWritten(d)
  BY DEF SettledIsSynced, Keeps
<1>2. Synced(d) => Synced(d)'
  BY DEF Synced, Keeps
<1> QED
  BY <1>1, <1>2

\* Calls that are not writing, and have not just written, settle nothing.
LEMMA CallFrame ==
  ASSUME \A e \in Calls :
           call'[e] = call[e] \/ (call'[e].at # "bundled" /\ call[e].at # "emptied"),
         NEW d \in Calls, project'[d].path = project[d].path,
         project'[d].dirty = project[d].dirty
  PROVE  (Settles(d)' => Settles(d)) /\ (BeingWritten(d) => BeingWritten(d)')
  BY DEF Settles, BeingWritten

\* The steps of the kinds that leave a project alone do.
LEMMA KindsKeep ==
  ASSUME OwnerInv, NEW d \in Calls
  PROVE  /\ Waits \/ Asks \/ Answers => Keeps(d)
         /\ \A r \in Calls : Removes(r) => Keeps(d)
         /\ \A c \in Calls : Quits(c) \/ Begins(c) \/ Reads(c) \/ Shows(c) => Keeps(d)
         /\ \A c \in Calls : Makes(c) /\ d # c => Keeps(d)
         /\ \A c, e \in Calls : Clears(c, e) \/ Learns(c, e) => Keeps(d)
         /\ Dirties /\ d # open => Keeps(d)
<1> USE NamedCalls DEF Keeps, Undisturbed, Held, Opening
<1>0. open \in Calls \cup {None} /\ \A c \in Calls : c # None
  BY PathsAssumption DEF OwnerInv, Shapes
<1>1. ASSUME Waits PROVE Keeps(d)
  BY <1>0, <1>1 DEF Waits, Holds, Closed, Stays
<1>2. ASSUME Asks PROVE Keeps(d)
  BY <1>2 DEF Asks, disk
<1>3. ASSUME Answers PROVE Keeps(d)
  BY <1>0, <1>3 DEF Answers, Marks
<1>4. ASSUME NEW r \in Calls, Removes(r) PROVE Keeps(d)
  <2>1. Held(d) => d # r
    BY <1>4, HeldIsKept DEF OwnerInv, Removes
  <2> QED
    BY <1>4, <2>1 DEF Removes
<1>5. ASSUME NEW c \in Calls, Quits(c) PROVE Keeps(d)
  BY <1>0, <1>5 DEF Quits, Ends, Holds, Closed, Stays
<1>6. ASSUME NEW c \in Calls, Begins(c) PROVE Keeps(d)
  BY <1>0, <1>6 DEF Begins, Turns, Holds, Closed, Stays
<1>7. ASSUME NEW c \in Calls, Reads(c) PROVE Keeps(d)
  BY <1>7 DEF Reads, Turns, Holds, Stays
<1>8. ASSUME NEW c \in Calls, Shows(c) PROVE Keeps(d)
  BY <1>8 DEF Shows, Ends, Marks
<1>9. ASSUME NEW c \in Calls, Makes(c), d # c PROVE Keeps(d)
  BY <1>0, <1>9 DEF Makes, Closed, Stays
<1>10. ASSUME NEW c \in Calls, NEW e \in Calls, Clears(c, e) PROVE Keeps(d)
  BY <1>10 DEF Clears, Turns, Marks
<1>11. ASSUME NEW c \in Calls, NEW e \in Calls, Learns(c, e) PROVE Keeps(d)
  BY <1>11 DEF Learns, Ends, Marks
<1>12. ASSUME Dirties, d # open PROVE Keeps(d)
  BY <1>12 DEF Dirties, Marks
<1> HIDE DEF Keeps
<1> QED
  BY <1>1, <1>2, <1>3, <1>4, <1>5, <1>6, <1>7, <1>8, <1>9, <1>10, <1>11, <1>12

\* A project whose dirty goes down has its .gpk written.  The one step that makes
\* them agree is that of a save that writes what it has read: nothing came in
\* between, or the project would be amended.
LEMMA SettledStep ==
  ASSUME OwnerInv, SavedInv, TextsRoundTrip, StepKind
  PROVE  SettledIsSynced'
<1> SUFFICES ASSUME NEW d \in Calls
             PROVE  Undisturbed(d)' /\ Settles(d)' => Synced(d)' \/ BeingWritten(d)'
  BY DEF SettledIsSynced
<1> DEFINE Goal == Undisturbed(d)' /\ Settles(d)' => Synced(d)' \/ BeingWritten(d)'
<1>1. /\ Shapes /\ Lifetimes /\ Arguments /\ SettledIsSynced /\ ReadsAreCurrent
      /\ \A c \in Calls : c # None
  BY PathsAssumption DEF OwnerInv, SavedInv
<1>2. ASSUME Keeps(d), project'[d].path = project[d].path, project'[d].dirty = project[d].dirty,
             \A e \in Calls :
               call'[e] = call[e] \/ (call'[e].at # "bundled" /\ call[e].at # "emptied")
      PROVE  Goal
  BY <1>1, <1>2, CallFrame, SyncedFrame
<1>3. ASSUME Waits PROVE Goal
  <2>1. project' = project /\ call' = call
    BY <1>3 DEF Waits, Holds
  <2> QED
    BY <1>2, <1>3, <2>1, KindsKeep
<1>4. ASSUME Asks PROVE Goal
  <2>1. project' = project /\ call' = call
    BY <1>4 DEF Asks
  <2> QED
    BY <1>2, <1>4, <2>1, KindsKeep
<1>5. ASSUME Answers PROVE Goal
  <2>1. project'[d].path = project[d].path /\ project'[d].dirty = project[d].dirty /\ call' = call
    BY <1>5 DEF Answers, Marks
  <2> QED
    BY <1>2, <1>5, <2>1, KindsKeep
<1>6. ASSUME NEW r \in Calls, Removes(r) PROVE Goal
  <2>1. project' = project /\ call' = call
    BY <1>6 DEF Removes
  <2> QED
    BY <1>2, <1>6, <2>1, KindsKeep
<1>7. ASSUME NEW c \in Calls, Quits(c) PROVE Goal
  <2>1. /\ project' = project /\ call'[c].at = "ended" /\ call[c].at # "emptied"
        /\ \A e \in Calls : e # c => call'[e] = call[e]
    BY <1>7, NamedCalls DEF Quits, Ends, Holds
  <2> QED
    BY <1>2, <1>7, <2>1, KindsKeep
<1>8. ASSUME NEW c \in Calls, Begins(c) PROVE Goal
  <2>1. /\ project' = project /\ call'[c].at # "bundled" /\ call[c].at = "idle"
        /\ \A e \in Calls : e # c => call'[e] = call[e]
    BY <1>8 DEF Begins, Turns, Holds
  <2> QED
    BY <1>2, <1>8, <2>1, KindsKeep
<1>9. ASSUME NEW c \in Calls, Reads(c) PROVE Goal
  <2>1. /\ project' = project /\ call'[c].at # "bundled" /\ call[c].at # "emptied"
        /\ \A e \in Calls : e # c => call'[e] = call[e]
    BY <1>9 DEF Reads, Turns, Holds
  <2> QED
    BY <1>2, <1>9, <2>1, KindsKeep
<1>10. ASSUME NEW c \in Calls, Shows(c) PROVE Goal
  <2>1. /\ call'[c].at # "bundled" /\ call[c].at # "emptied"
        /\ \A e \in Calls : e # c => call'[e] = call[e]
        /\ project'[d].path = project[d].path /\ project'[d].dirty = project[d].dirty
    BY <1>10, NamedCalls DEF Shows, Opening, Ends, Marks
  <2> QED
    BY <1>2, <1>10, <2>1, KindsKeep
<1>11. ASSUME NEW c \in Calls, NEW e \in Calls, Learns(c, e) PROVE Goal
  <2>1. /\ call'[c].at # "bundled" /\ call[c].at # "emptied"
        /\ \A x \in Calls : x # c => call'[x] = call[x]
        /\ project'[d].path = project[d].path /\ project'[d].dirty = project[d].dirty
    BY <1>11, NamedCalls DEF Learns, Ends, Marks
  <2> QED
    BY <1>2, <1>11, <2>1, KindsKeep
<1>12. ASSUME NEW c \in Calls, Makes(c) PROVE Goal
  <2>1. CASE d # c
    <3>1. /\ call'[c].at # "bundled" /\ call[c].at # "emptied"
          /\ \A e \in Calls : e # c => call'[e] = call[e]
          /\ project'[d] = project[d]
      BY <1>12, <2>1 DEF Makes
    <3> QED
      BY <1>2, <1>12, <2>1, <3>1, KindsKeep
  <2>2. CASE d = c
    <3>1. project'[d].form = "archive" => Synced(d)'
      BY <1>12, <2>2 DEF Makes, Synced
    <3> QED
      BY <3>1 DEF Undisturbed
  <2> QED
    BY <2>1, <2>2
<1>13. ASSUME NEW c \in Calls, NEW e \in Calls, Clears(c, e) PROVE Goal
  <2>1. /\ call'[c].at # "bundled" /\ call[c].at # "emptied"
        /\ \A x \in Calls : x # c => call'[x] = call[x]
        /\ project'[d].path = project[d].path
        /\ d # e => project'[d] = project[d]
    BY <1>13 DEF Clears, Turns, Marks
  <2>2. CASE d # e
    BY <1>2, <1>13, <2>1, <2>2, KindsKeep
  <2>3. CASE d = e
    <3>1. Undisturbed(d)' => Settles(d)
      <4>1. CASE call[c].at = "idle"
        BY <1>13, <2>3, <4>1 DEF Clears, Marks, Undisturbed
      <4>2. CASE call[c].at # "idle"
        BY <1>13, <2>3, <4>2 DEF Clears, Settles
      <4> QED
        BY <4>1, <4>2
    <3>2. BeingWritten(d) => BeingWritten(d)'
      BY <2>1 DEF BeingWritten
    <3> QED
      BY <1>1, <1>13, <3>1, <3>2, KindsKeep, SyncedFrame
  <2> QED
    BY <2>2, <2>3
<1>14. ASSUME Dirties PROVE Goal
  <2>1. call' = call /\ open \in Calls
    BY <1>14 DEF Dirties
  <2>2. CASE d # open
    <3>1. project'[d] = project[d]
      BY <1>14, <2>2 DEF Dirties, Marks
    <3> QED
      BY <1>2, <1>14, <2>1, <2>2, <3>1, KindsKeep
  <2>3. CASE d = open
    <3>1. project'[d].dirty
      BY <1>14, <2>3 DEF Dirties
    <3>2. Settles(d)' => d \in amended'
      BY <1>14, <2>1, <2>3, <3>1 DEF Dirties, Settles, Saving
    <3> QED
      BY <3>2 DEF Undisturbed
  <2> QED
    BY <2>2, <2>3
<1>15. ASSUME NEW c \in Calls, Publishes(c) PROVE Goal
  <2> DEFINE p == call[c].to
             of == call[c].of
  <2>1. /\ p \in Archives /\ of \in Calls /\ call[of] = Ended
        /\ call[c].does = "save" => project[of].form = "archive" /\ p = project[of].path
    BY <1>1, <1>15 DEF Publishes, Arguments, Saving, Bundling
  <2>2. /\ project' = project /\ files' = files /\ open' = open
        /\ call'[c].does = call[c].does /\ call'[c].of = of /\ call'[c].to = p
        /\ call'[c].at \in {"emptied", "bundled"}
        /\ call[c].at = "library" <=> call'[c].at = "emptied"
        /\ call[c].at = "emptied" <=> call'[c].at = "bundled"
        /\ \A e \in Calls : e # c => call'[e] = call[e]
    BY <1>15 DEF Publishes, Turns
  <2>3. Undisturbed(d)' => Undisturbed(d) /\ (d = of \/ project[d].path # p)
    BY <1>15, <2>2 DEF Publishes, Undisturbed, Held, Opening, OthersAt
  <2>4. CASE project[d].path # p
    <3>1. Keeps(d)
      <4>1. Undisturbed(d) => project[d].path \in Archives
        BY <1>1 DEF Undisturbed, Lifetimes, Lives
      <4> QED
        BY <1>15, <2>2, <2>3, <2>4, <4>1 DEF Publishes, Keeps
    <3>2. Settles(d)' => Settles(d)
      BY <2>1, <2>2, <2>4 DEF Settles
    <3>3. BeingWritten(d) => BeingWritten(d)'
      BY <2>2, <2>4 DEF BeingWritten
    <3> QED
      BY <1>1, <3>1, <3>2, <3>3, SyncedFrame
  <2>5. CASE d = of /\ project[d].path = p /\ call[c].at = "library"
    <3>1. BeingWritten(d)'
      BY <2>2, <2>5 DEF BeingWritten
    <3> QED
      BY <3>1
  <2>6. CASE d = of /\ project[d].path = p /\ call[c].at = "emptied"
    <3> SUFFICES ASSUME Undisturbed(d)' PROVE Synced(d)'
      OBVIOUS
    <3>1. Undisturbed(d) /\ open = d /\ project[d].form = "archive"
      BY <2>1, <2>3, <2>6, NamedCalls DEF Undisturbed, Held, Opening
    <3>2. /\ Loadable(files[d])
          /\ call[c].read.design = files[d].design /\ call[c].read.table = files[d].table
          /\ call[c].read.library = files[d].library
      BY <1>1, <2>6, <3>1 DEF ReadsAreCurrent
    <3>3. call[c].read = files[d]
      <4>1. IsDirectory(call[c].read) /\ IsDirectory(files[d])
        BY <1>1 DEF Shapes, CallShapes, IsCall
      <4> QED
        BY <3>2, <4>1 DEF IsDirectory
    <3>4. archive'[p] = Bundle(files[d])
      BY <1>15, <2>6, <3>3 DEF Publishes
    <3>5. ComesApart(Bundle(files[d]), files[d])
      BY <1>1, <3>1, <3>2 DEF TextsRoundTrip
    <3> QED
      BY <2>2, <2>6, <3>4, <3>5 DEF ComesApart, Synced
  <2> QED
    BY <2>2, <2>3, <2>4, <2>5, <2>6
<1> HIDE DEF Goal
<1>16. Goal
  BY <1>3, <1>4, <1>5, <1>6, <1>7, <1>8, <1>9, <1>10, <1>11, <1>12, <1>13, <1>14, <1>15
  DEF StepKind
<1> QED
  BY <1>16 DEF Goal

\* What a save has read stays what is there, or the project is amended.
LEMMA CurrentStep ==
  ASSUME OwnerInv, SavedInv, StepKind
  PROVE  ReadsAreCurrent'
<1> SUFFICES ASSUME NEW x \in Calls, NEW d \in Calls, Undisturbed(d)', call'[x].of = d
             PROVE  /\ call'[x].at \in {"table", "library", "emptied"} =>
                         /\ Loadable(files'[d])
                         /\ call'[x].read.design = files'[d].design
                    /\ call'[x].at \in {"library", "emptied"} =>
                         call'[x].read.table = files'[d].table
                    /\ call'[x].at = "emptied" => call'[x].read.library = files'[d].library
  BY DEF ReadsAreCurrent
<1> DEFINE Goal == /\ call'[x].at \in {"table", "library", "emptied"} =>
                        /\ Loadable(files'[d])
                        /\ call'[x].read.design = files'[d].design
                   /\ call'[x].at \in {"library", "emptied"} =>
                        call'[x].read.table = files'[d].table
                   /\ call'[x].at = "emptied" => call'[x].read.library = files'[d].library
<1>1. /\ Shapes /\ Lifetimes /\ Arguments /\ ReadsAreCurrent
      /\ \A c \in Calls : c # None
  BY PathsAssumption DEF OwnerInv, SavedInv
<1>2. ASSUME Keeps(d), call'[x] = call[x] PROVE Goal
  BY <1>1, <1>2 DEF ReadsAreCurrent, Keeps
<1>3. ASSUME call'[x].at \notin {"table", "library", "emptied"} PROVE Goal
  BY <1>3
<1>4. ASSUME Waits \/ Asks \/ Answers PROVE Goal
  <2>1. call' = call
    BY <1>4 DEF Waits, Asks, Answers
  <2> QED
    BY <1>2, <1>4, <2>1, KindsKeep
<1>5. ASSUME NEW r \in Calls, Removes(r) PROVE Goal
  <2>1. call' = call
    BY <1>5 DEF Removes
  <2> QED
    BY <1>2, <1>5, <2>1, KindsKeep
<1>6. ASSUME NEW c \in Calls, Quits(c) \/ Begins(c) \/ Shows(c) PROVE Goal
  <2>1. x # c => call'[x] = call[x]
    BY <1>6 DEF Quits, Begins, Shows, Ends, Turns
  <2>2. call'[c].at \notin {"table", "library", "emptied"}
    BY <1>6, NamedCalls DEF Quits, Begins, Shows, Ends, Turns
  <2> QED
    BY <1>2, <1>3, <1>6, <2>1, <2>2, KindsKeep
<1>7. ASSUME NEW c \in Calls, NEW e \in Calls, Clears(c, e) \/ Learns(c, e) PROVE Goal
  <2>1. x # c => call'[x] = call[x]
    BY <1>7 DEF Clears, Learns, Ends, Turns
  <2>2. call'[c].at \notin {"table", "library", "emptied"}
    BY <1>7, NamedCalls DEF Clears, Learns, Ends, Turns
  <2> QED
    BY <1>2, <1>3, <1>7, <2>1, <2>2, KindsKeep
<1>8. ASSUME NEW c \in Calls, Makes(c) PROVE Goal
  <2>1. /\ x # c => call'[x] = call[x]
        /\ call'[c].of = None /\ call[c] # Ended
    BY <1>8, NamedCalls DEF Makes
  <2>2. x # c /\ call[x].of = d
    BY <1>1, <2>1
  <2>3. d # c
    BY <1>1, <2>1, <2>2 DEF Arguments
  <2> QED
    BY <1>2, <1>8, <2>1, <2>2, <2>3, KindsKeep
<1>9. ASSUME Dirties PROVE Goal
  <2>1. call' = call
    BY <1>9 DEF Dirties
  <2>2. CASE d # open
    BY <1>2, <1>9, <2>1, <2>2, KindsKeep
  <2>3. CASE d = open
    <3>1. ~Saving(x)
      BY <1>9, <2>1, <2>3 DEF Dirties, Undisturbed
    <3> QED
      BY <1>3, <2>1, <3>1 DEF Saving, Bundling
  <2> QED
    BY <2>2, <2>3
<1>10. ASSUME NEW c \in Calls, Reads(c) PROVE Goal
  <2>1. CASE x # c
    <3>1. call'[x] = call[x]
      BY <1>10, <2>1 DEF Reads, Turns
    <3> QED
      BY <1>2, <1>10, <3>1, KindsKeep
  <2>2. CASE x = c
    <3>1. /\ Undisturbed(d) /\ files'[d] = files[d] /\ call[c].of = d
      <4>1. Keeps(d)
        BY <1>10, KindsKeep
      <4>2. call'[c].of = call[c].of
        BY <1>10 DEF Reads, Turns
      <4> QED
        BY <2>2, <4>1, <4>2 DEF Keeps
    <3>2. Source(c) = files[d]
      BY <1>1, <3>1, RootsOf DEF Source, Undisturbed
    <3>3. CASE call[c].at = "design"
      BY <1>10, <2>2, <3>1, <3>2, <3>3 DEF Reads, Turns
    <3>4. CASE call[c].at = "table"
      <4>1. Loadable(files[d]) /\ call[c].read.design = files[d].design
        BY <1>1, <3>1, <3>4 DEF ReadsAreCurrent
      <4> QED
        BY <1>10, <2>2, <3>1, <3>2, <3>4, <4>1 DEF Reads, Turns
    <3> QED
      BY <1>10, <3>3, <3>4 DEF Reads
  <2> QED
    BY <2>1, <2>2
<1>11. ASSUME NEW c \in Calls, Publishes(c) PROVE Goal
  <2>1. /\ Undisturbed(d) /\ files'[d] = files[d] /\ call'[c].of = call[c].of
        /\ x # c => call'[x] = call[x]
    <3>1. /\ open' = open /\ project' = project /\ files' = files /\ amended \subseteq amended'
          /\ \A e \in Calls : e # c => call'[e] = call[e]
          /\ call'[c].at # "git" /\ call'[c].of = call[c].of
      BY <1>11 DEF Publishes, Turns
    <3> QED
      BY <3>1 DEF Undisturbed, Held, Opening
  <2>2. CASE x # c
    BY <1>1, <2>1, <2>2 DEF ReadsAreCurrent
  <2>3. CASE x = c /\ call[c].at = "library"
    <3>1. Source(c) = files[d]
      BY <1>1, <2>1, <2>3, RootsOf DEF Source, Undisturbed
    <3>2. /\ Loadable(files[d]) /\ call[c].read.design = files[d].design
          /\ call[c].read.table = files[d].table
      BY <1>1, <2>1, <2>3 DEF ReadsAreCurrent
    <3> QED
      BY <1>11, <2>1, <2>3, <3>1, <3>2 DEF Publishes, Turns
  <2>4. CASE x = c /\ call[c].at # "library"
    <3>1. call'[c].at = "bundled"
      BY <1>11, <2>4 DEF Publishes, Turns
    <3> QED
      BY <1>3, <2>4, <3>1
  <2> QED
    BY <2>2, <2>3, <2>4
<1> HIDE DEF Goal
<1>12. Goal
  BY <1>4, <1>5, <1>6, <1>7, <1>8, <1>9, <1>10, <1>11 DEF StepKind
<1> QED
  BY <1>12 DEF Goal

\* The last project is opened from its .gpk, and no call saves.
LEMMA SavedInit == Init => SavedInv
<1> SUFFICES ASSUME Init PROVE SavedInv
  OBVIOUS
<1>1. OwnerInv
  BY OwnerInit
<1>2. /\ open = 0 /\ 0 \in Calls /\ 0 \in Roots
      /\ \A c \in Calls : ~Opening(c) /\ call[c].of = None /\ c # None
  <2>1. 0 \in Calls /\ \A c \in Calls : c # None
    BY CallsAssumption, PathsAssumption DEF Calls
  <2>2. \A c \in Calls : call[c] = Ended \/ call[c] = Idle
    BY DEF Init
  <2>3. Idle.of = None /\ Idle.at = "idle"
    BY NamedCalls, CallFields
  <2> QED
    BY <2>1, <2>2, <2>3, NamedCalls DEF Init, Opening, Roots
<1>3. ReadsAreCurrent
  BY <1>2 DEF ReadsAreCurrent
<1>4. Synced(0)
  <2>1. project[0].path = LastProject
    <3>1. project[0] = [State("archive", LastProject, LastProject) EXCEPT !.git = LastProject]
      BY <1>2 DEF Init
    <3> QED
      BY <3>1 DEF State
  <2>2. files[0] = Explode(archive[LastProject]) /\ Explodable(archive[LastProject])
    BY <1>2, PathsAssumption DEF Init
  <2> QED
    BY <2>1, <2>2 DEF Synced
<1>5. SettledIsSynced
  BY <1>2, <1>4 DEF SettledIsSynced, Undisturbed, Held
<1> QED
  BY <1>3, <1>5 DEF SavedInv

\* A .gpk that is open and clean is that of its working copy, but while a save
\* is writing it: for any projects, and any interleaving of opens, closes,
\* writes, saves and removals.
THEOREM CleanAlwaysSaved == Spec => []CleanIsSaved
<1>1. OwnerInv /\ SavedInv /\ TextsRoundTrip /\ [Next]_vars => SavedInv'
  <2> SUFFICES ASSUME OwnerInv, SavedInv, TextsRoundTrip, [Next]_vars PROVE SavedInv'
    OBVIOUS
  <2>1. StepKind
    BY StepKinds DEF OwnerInv
  <2> QED
    BY <2>1, SettledStep, CurrentStep DEF SavedInv
<1>2. OwnerInv /\ SavedInv => CleanIsSaved
  <2> SUFFICES ASSUME OwnerInv, SavedInv, open # None, open \notin amended,
                      project[open].form = "archive", ~project[open].dirty
               PROVE  CleanIsSaved
    BY DEF CleanIsSaved
  <2>1. open \in Calls
    BY DEF OwnerInv, Shapes
  <2>2. Synced(open) \/ BeingWritten(open)
    BY <2>1 DEF SavedInv, SettledIsSynced, Undisturbed, Held, Settles
  <2>3. CASE Synced(open)
    BY <2>3 DEF Synced, CleanIsSaved
  <2>4. CASE BeingWritten(open)
    BY <2>4 DEF BeingWritten, CleanIsSaved, Saving, Bundling
  <2> QED
    BY <2>2, <2>3, <2>4
<1> QED
  BY <1>1, <1>2, SavedInit, OwnerAlways, TextsAlwaysRoundTrip, PTL DEF Spec

(***************************************************************************)
(* Nothing is lost                                                         *)
(***************************************************************************)

\* The files of project d are where they were, and nobody removes them.
Alive(d) ==
  /\ project[d].form # "none"
  /\ project[d].form # "directory" => d \in scratch /\ d \notin removing

\* They are a state of a project named.
Keeping(d, names) == IsStateOf(files[Root(d)], names)

\* Folders are written into only by those who opened them, which they do once
\* there is a design.
FoldersKept ==
  /\ \A f \in Folders : IsFolderOf(files[f], f)
  /\ \A d \in Calls : project[d].form = "directory" => ~Scaffolds(files[Root(d)])

\* A project goes by the name of its path, and is whole unless it was opened
\* from an archive that was torn.
NamesArePaths ==
  \A d \in Calls :
    project[d].form \in {"archive", "directory"} => project[d].name = project[d].path
ProjectsKept ==
  \A d \in Calls :
    Alive(d) /\ project[d].path \notin torn => Keeping(d, Sources(project[d].name))

\* What a save that is not torn reads is there, and belongs where it is saved.
SavesKept ==
  \A c \in Calls : Bundling(c) /\ call[c].to \notin torn =>
    LET of == call[c].of IN
    /\ Alive(of)
    /\ project[of].name \in Sources(call[c].to)
    /\ Keeping(of, Sources(call[c].to))

\* It has read a design there was, and the table and the library there are.
ReadKept(c) ==
  /\ call[c].at \in {"table", "library", "emptied"} =>
       HasDesignOf(call[c].read, Sources(call[c].to))
  /\ call[c].at \in {"library", "emptied"} => call[c].read.table = Source(c).table
  /\ call[c].at = "emptied" => call[c].read.library = Source(c).library
ReadsKept == \A c \in Calls : Bundling(c) /\ call[c].to \notin torn => ReadKept(c)

\* So what is written comes apart into a state of its project.
ArchivesKept ==
  \A p \in Archives : p \notin torn /\ Explodable(archive[p]) =>
    IsStateOf(Explode(archive[p]), Sources(p))
WritesKept ==
  \A c \in Calls : call[c].at = "bundled" =>
    LET text == archive[call[c].to] IN
    text = Emptied \/ Explodable(text) \/ Unrepresentable(text)

KeptInv ==
  /\ FoldersKept /\ NamesArePaths /\ ProjectsKept
  /\ SavesKept /\ ReadsKept /\ ArchivesKept /\ WritesKept

\* What is a state of some projects is one of more of them.
LEMMA StatesGrow ==
  ASSUME NEW S, NEW T, S \subseteq T, NEW dir
  PROVE  /\ HasTablesOf(dir, S) => HasTablesOf(dir, T)
         /\ HasDesignOf(dir, S) => HasDesignOf(dir, T)
         /\ IsStateOf(dir, S) => IsStateOf(dir, T)
  BY DEF HasTablesOf, HasDesignOf, IsStateOf

\* The projects that p may hold a state of, after a step.
NewSources(p) == {p} \cup {g[1] : g \in {h \in given' : h[2] = p}}

\* A project may hold a state of what was saved as it, and that only grows.
LEMMA SourcesGrow ==
  ASSUME given \subseteq given', NEW p
  PROVE  Sources(p) \subseteq NewSources(p) /\ p \in NewSources(p)
  BY DEF Sources, NewSources

\* What is saved and lost is remembered.
LEMMA HistoryGrows ==
  ASSUME [Next]_vars
  PROVE  given \subseteq given' /\ torn \subseteq torn'
<1> USE DEF disk, history
<1>1. ASSUME UNCHANGED <<given, torn>> PROVE given \subseteq given' /\ torn \subseteq torn'
  BY <1>1
<1>2. ASSUME CloseProject, UNCHANGED given PROVE given \subseteq given' /\ torn \subseteq torn'
  BY <1>2 DEF CloseProject
<1>3. CASE UNCHANGED vars \/ Debounce \/ WatchGitEnds \/ \E r \in Calls : RemoveFile(r)
  BY <1>1, <1>3 DEF vars, Debounce, WatchGitEnds, RemoveFile
<1>4. CASE Close
  BY <1>2, <1>4 DEF Close
<1>5. ASSUME NEW text, WriteSpec(text) PROVE UNCHANGED <<given, torn>>
  BY <1>5 DEF WriteSpec
<1>6. ASSUME NEW c \in Calls,
             \/ \E f \in Folders : NewFolder(c, f)
             \/ ExplodeEnds(c) \/ Opened(c) \/ SaveProject(c) \/ ReadsDesign(c) \/ ReadsTable(c)
             \/ ReadsLibrary(c) \/ WritesArchive(c) \/ SaveEnds(c) \/ Saved(c)
      PROVE  UNCHANGED <<given, torn>>
  BY <1>6 DEF NewFolder, ExplodeEnds, Opened, SaveProject, ReadsDesign, ReadsTable, Proceeds,
     ReadsLibrary, WritesArchive, SaveEnds, Saved
<1>7. ASSUME NEW c \in Calls,
             \/ \E f \in Folders : OpenFolder(c, f)
             \/ \E p \in Archives : OpenArchive(c, p)
             \/ \E e \in DOMAIN Examples : OpenExample(c, e)
             \/ ScaffoldEnds(c)
      PROVE  given \subseteq given' /\ torn \subseteq torn'
  BY <1>1, <1>2, <1>7 DEF OpenFolder, OpensFolder, OpenArchive, OpenExample, ScaffoldEnds
<1>8. ASSUME NEW c \in Calls, NEW p \in Archives, SaveProjectAs(c, p)
      PROVE  given \subseteq given' /\ torn \subseteq torn'
  BY <1>8 DEF SaveProjectAs
<1> QED
  BY StepNames, <1>1, <1>3, <1>4, <1>5, <1>6, <1>7, <1>8

\* What a step does to files that somebody has: nothing; or a folder without a
\* design is given one; or the user writes the design of the open project.
TouchesOthers ==
  \A r \in Roots : \/ files'[r] = files[r]
                   \/ r \in Calls /\ (r \in removing \/ project[r].form = "none")
Scaffolded ==
  \E f \in Folders :
    /\ Scaffolds(files[f]) /\ files'[f] = NewProject(files[f], Template, Seed)
    /\ \A r \in Roots : r # f => files'[r] = files[r]
Written ==
  /\ open \in Calls /\ project[open].form # "none"
  /\ \E text \in Edits(project[open].name) :
       files'[Root(open)] = [files[Root(open)] EXCEPT !.design = text]
  /\ \A r \in Roots : r # Root(open) => files'[r] = files[r]

\* Files change in one of these three ways.
LEMMA FileSteps ==
  ASSUME Shapes, Lifetimes, Arguments, [Next]_vars
  PROVE  TouchesOthers \/ Scaffolded \/ Written
<1> USE DEF disk, history
<1>1. files = [r \in Roots |-> files[r]] /\ \A c \in Calls : c \in Roots
  BY DEF Shapes, Roots
<1>2. ASSUME files' = files PROVE TouchesOthers
  BY <1>2 DEF TouchesOthers
<1>3. ASSUME NEW c \in Calls, call[c].at \in {"idle", "exploding"},
             NEW dir, files' = [files EXCEPT ![c] = dir]
      PROVE  TouchesOthers
  <2>1. project[c].form = "none"
    BY <1>3, NamedCalls DEF Lifetimes, Lives, Opening
  <2> QED
    BY <1>1, <1>3, <2>1 DEF TouchesOthers
<1>4. CASE UNCHANGED vars \/ Close \/ Debounce \/ WatchGitEnds
  BY <1>2, <1>4 DEF vars, Close, Debounce, WatchGitEnds
<1>5. ASSUME NEW r \in Calls, RemoveFile(r) PROVE TouchesOthers
  BY <1>1, <1>5 DEF RemoveFile, TouchesOthers
<1>6. ASSUME NEW c \in Calls,
             \/ \E f \in Folders : OpenFolder(c, f) \/ NewFolder(c, f)
             \/ \E p \in Archives : OpenArchive(c, p) \/ SaveProjectAs(c, p)
             \/ Opened(c) \/ SaveProject(c) \/ ReadsDesign(c) \/ ReadsTable(c)
             \/ ReadsLibrary(c) \/ WritesArchive(c) \/ SaveEnds(c) \/ Saved(c)
      PROVE  TouchesOthers
  BY <1>2, <1>6 DEF OpenFolder, NewFolder, OpenArchive, SaveProjectAs, Opened, SaveProject,
     ReadsDesign, ReadsTable, Proceeds, ReadsLibrary, WritesArchive, SaveEnds, Saved
<1>7. ASSUME NEW c \in Calls, (\E e \in DOMAIN Examples : OpenExample(c, e)) \/ ExplodeEnds(c)
      PROVE  TouchesOthers
  BY <1>2, <1>3, <1>7 DEF OpenExample, ExplodeEnds, Fresh
<1>8. ASSUME NEW c \in Calls, ScaffoldEnds(c) PROVE TouchesOthers \/ Scaffolded
  <2> DEFINE f == call[c].to
  <2>1. f \in Folders /\ f \in Roots
    BY <1>8 DEF ScaffoldEnds, Arguments, Roots
  <2>2. CASE Scaffolds(files[f])
    BY <1>1, <1>8, <2>1, <2>2 DEF ScaffoldEnds, Scaffolded
  <2>3. CASE ~Scaffolds(files[f])
    BY <1>2, <1>8, <2>3 DEF ScaffoldEnds
  <2> QED
    BY <2>2, <2>3
<1>9. ASSUME open # None, NEW text \in Edits(project[open].name), WriteSpec(text) PROVE Written
  <2>1. open \in Calls /\ Root(open) \in Roots /\ project[open].form # "none"
    BY <1>9, RootsOf DEF Shapes, Lifetimes, OpenLives
  <2> QED
    BY <1>1, <1>9, <2>1 DEF WriteSpec, Written
<1> QED
  BY StepNames, <1>4, <1>5, <1>6, <1>7, <1>8, <1>9

\* A project keeps the name of its path.
LEMMA NamesStep ==
  ASSUME Shapes, Lifetimes, NamesArePaths, StepKind
  PROVE  NamesArePaths'
<1> SUFFICES ASSUME NEW d \in Calls, project'[d].form \in {"archive", "directory"}
             PROVE  project'[d].name = project'[d].path
  BY DEF NamesArePaths
<1>1. CASE Same(d)
  BY <1>1 DEF Same, NamesArePaths
<1>2. CASE Makes(d)
  BY <1>2 DEF Makes
<1> QED
  BY <1>1, <1>2, ProjectsStand

\* What becomes of the files of a project that is there.
Standing(d) ==
  LET old == files[Root(d)]
      new == files'[Root(d)]
  IN /\ new.table = old.table /\ new.library = old.library
     /\ new.design = old.design \/ new.design \in Edits(project[d].name)

\* Its tables stay, and its design becomes only what its user writes.
LEMMA FilesStand ==
  ASSUME OwnerInv, FoldersKept, NamesArePaths, [Next]_vars, NEW d \in Calls, Alive(d)
  PROVE  Standing(d)
<1>1. /\ Shapes /\ Lifetimes /\ Arguments
      /\ \A c \in Calls : c \notin Folders
  BY PathsAssumption DEF OwnerInv
<1>2. /\ Root(d) \in Roots
      /\ project[d].form # "directory" => Root(d) = d /\ d \notin removing
      /\ project[d].form = "directory" => Root(d) \in Folders /\ Root(d) = project[d].path
      /\ project[d].form # "none"
  BY <1>1, RootsOf DEF Alive, Root, Lifetimes, Lives
<1>3. CASE TouchesOthers
  BY <1>1, <1>2, <1>3 DEF TouchesOthers, Standing
<1>4. CASE Scaffolded
  <2>1. PICK f \in Folders : Scaffolds(files[f]) /\ \A r \in Roots : r # f => files'[r] = files[r]
    BY <1>4 DEF Scaffolded
  <2>2. Root(d) # f
    BY <1>1, <1>2, <2>1 DEF FoldersKept
  <2> QED
    BY <1>2, <2>1, <2>2 DEF Standing
<1>5. CASE Written
  <2>1. CASE Root(d) # Root(open)
    BY <1>2, <1>5, <2>1 DEF Written, Standing
  <2>2. CASE Root(d) = Root(open)
    <3>1. open \in Calls /\ project[open].form # "none"
      BY <1>5 DEF Written
    <3>2. project[d].name = project[open].name
      <4>1. CASE project[d].form = "directory"
        <5>1. project[open].form = "directory" /\ Root(open) = project[open].path
          BY <1>1, <1>2, <2>2, <3>1, <4>1 DEF Root
        <5> QED
          BY <1>2, <2>2, <3>1, <4>1, <5>1 DEF NamesArePaths
      <4>2. CASE project[d].form # "directory"
        <5>1. project[open].form # "directory"
          BY <1>1, <1>2, <2>2, <3>1, <4>2 DEF Root, Lifetimes, Lives
        <5> QED
          BY <1>2, <2>2, <3>1, <4>2, <5>1 DEF Root
      <4> QED
        BY <4>1, <4>2
    <3>3. PICK text \in Edits(project[open].name) :
            files'[Root(d)] = [files[Root(d)] EXCEPT !.design = text]
      BY <1>5, <2>2 DEF Written
    <3>4. IsDirectory(files[Root(d)])
      BY <1>1, <1>2 DEF Shapes, FoldersKept, IsFolderOf
    <3>5. /\ files'[Root(d)].design = text
          /\ files'[Root(d)].table = files[Root(d)].table
          /\ files'[Root(d)].library = files[Root(d)].library
      BY <3>3, <3>4 DEF IsDirectory
    <3> QED
      BY <3>2, <3>5 DEF Standing
  <2> QED
    BY <2>1, <2>2
<1> QED
  BY <1>1, <1>3, <1>4, <1>5, FileSteps

\* Files that stand are still a state of their project.
LEMMA StatesStand ==
  ASSUME NEW d \in Calls, NEW S, NEW T, S \subseteq T, Keeping(d, S),
         Standing(d), Same(d), project[d].name \in T
  PROVE  IsStateOf(files'[Root(d)'], T)
<1> DEFINE old == files[Root(d)]
           new == files'[Root(d)]
<1>1. Root(d)' = Root(d)
  BY DEF Same, Root
<1>2. HasTablesOf(old, T) /\ HasDesignOf(old, T)
  BY StatesGrow DEF Keeping, IsStateOf
<1>3. HasTablesOf(new, T)
  BY <1>2 DEF Standing, HasTablesOf
<1>4. HasDesignOf(new, T)
  BY <1>2 DEF Standing, HasDesignOf
<1> QED
  BY <1>1, <1>3, <1>4 DEF IsStateOf

\* A folder that has a design keeps one, and stays a state of its project.
LEMMA FoldersStand ==
  ASSUME OwnerInv, FoldersKept, NamesArePaths, [Next]_vars, NEW f \in Folders
  PROVE  /\ IsFolderOf(files'[f], f)
         /\ ~Scaffolds(files[f]) => ~Scaffolds(files'[f])
<1>1. /\ Shapes /\ Lifetimes /\ Arguments
      /\ f \in Roots /\ f \notin Calls
      /\ IsFolderOf(files[f], f) /\ Template # NoFile /\ NoFile \notin Edits(f)
  BY PathsAssumption, OriginalsAssumption DEF OwnerInv, Roots, FoldersKept
<1> DEFINE old == files[f]
           new == files'[f]
<1>2. CASE new = old
  BY <1>1, <1>2
<1>3. CASE Scaffolds(old) /\ new = NewProject(old, Template, Seed)
  <2>1. IsDirectory(old) /\ IsStateOf(new, {f})
    BY <1>1, <1>3 DEF IsFolderOf
  <2>2. IsDirectory(new) /\ new.design = Template
    BY <1>3, <2>1 DEF IsDirectory, NewProject
  <2> QED
    BY <1>1, <1>3, <2>1, <2>2 DEF IsFolderOf, Scaffolds
<1>4. CASE ~Scaffolds(old) /\ \E text \in Edits(f) : new = [old EXCEPT !.design = text]
  <2>1. PICK text \in Edits(f) : new = [old EXCEPT !.design = text]
    BY <1>4
  <2>2. IsDirectory(old) /\ HasTablesOf(old, {f})
    BY <1>1, <1>4 DEF IsFolderOf, IsStateOf
  <2>3. /\ IsDirectory(new) /\ new.design = text
        /\ new.table = old.table /\ new.library = old.library
    BY <2>1, <2>2 DEF IsDirectory
  <2>4. HasTablesOf(new, {f})
    BY <2>2, <2>3 DEF HasTablesOf
  <2>5. HasDesignOf(new, {f})
    BY <2>3 DEF HasDesignOf
  <2>6. ~Scaffolds(new)
    BY <1>1, <2>3 DEF Scaffolds
  <2> HIDE DEF new, old
  <2> QED
    BY <2>3, <2>4, <2>5, <2>6 DEF IsFolderOf, IsStateOf, new, old
<1>5. CASE TouchesOthers
  BY <1>1, <1>2, <1>5 DEF TouchesOthers
<1>6. CASE Scaffolded
  BY <1>1, <1>2, <1>3, <1>6 DEF Scaffolded
<1>7. CASE Written
  <2>1. CASE f # Root(open)
    BY <1>1, <1>2, <1>7, <2>1 DEF Written
  <2>2. CASE f = Root(open)
    <3>1. /\ open \in Calls /\ project[open].form = "directory"
          /\ project[open].path = f
      BY <1>1, <1>7, <2>2 DEF Written, Root
    <3>2. project[open].name = f /\ ~Scaffolds(old)
      BY <2>2, <3>1 DEF NamesArePaths, FoldersKept
    <3>3. \E text \in Edits(f) : new = [old EXCEPT !.design = text]
      BY <1>7, <2>2, <3>2 DEF Written
    <3> QED
      BY <1>4, <3>2, <3>3
  <2> QED
    BY <2>1, <2>2
<1> QED
  BY <1>1, <1>5, <1>6, <1>7, FileSteps

\* Who opens a folder finds a design in it, and it stays there.
LEMMA FoldersStep ==
  ASSUME OwnerInv, FoldersKept, NamesArePaths, StepKind, [Next]_vars
  PROVE  FoldersKept'
<1>1. \A f \in Folders : IsFolderOf(files'[f], f)
  BY FoldersStand
<1>2. ASSUME NEW d \in Calls, project'[d].form = "directory"
      PROVE  ~Scaffolds(files'[Root(d)'])
  <2>1. Root(d)' = project'[d].path
    BY <1>2 DEF Root
  <2>2. CASE Same(d)
    <3>1. Root(d)' = Root(d) /\ project[d].form = "directory" /\ Root(d) \in Folders
      BY <1>2, <2>2 DEF Same, Root, OwnerInv, Lifetimes, Lives
    <3>2. ~Scaffolds(files[Root(d)])
      BY <3>1 DEF FoldersKept
    <3> QED
      BY <3>1, <3>2, FoldersStand
  <2>3. CASE Makes(d)
    BY <1>2, <2>1, <2>3 DEF Makes
  <2> QED
    BY <2>2, <2>3, ProjectsStand DEF OwnerInv
<1> QED
  BY <1>1, <1>2 DEF FoldersKept

\* The files of a project are there once it is made and until they are removed,
\* which tears the saves that read them.
LEMMA AliveStep ==
  ASSUME Shapes, Lifetimes, StepKind, NEW d \in Calls
  PROVE  /\ Alive(d)' => Makes(d) \/ (Alive(d) /\ Same(d))
         /\ Alive(d) => /\ Same(d)
                        /\ \/ Alive(d)'
                           \/ \A c \in Calls : Bundling(c) /\ call[c].of = d => call[c].to \in torn'
<1> DEFINE There == d \in scratch /\ d \notin removing
           Torn == \A c \in Calls : Bundling(c) /\ call[c].of = d => call[c].to \in torn'
           Stands == (There' => There) /\ (There => There' \/ Torn)
<1>1. Makes(d) => project[d].form = "none"
  BY NamedCalls DEF Makes, Lifetimes, Lives, Opening
<1>2. ASSUME Closed \/ Stays, d \in scratch' <=> d \in scratch PROVE Stands
  <2>1. CASE Closed /\ open = d /\ (project[d].form = "archive" \/ IsShowcase(d))
    BY <1>2, <2>1, PathsAssumption DEF Closed
  <2>2. CASE Closed /\ ~(open = d /\ (project[d].form = "archive" \/ IsShowcase(d)))
    <3>1. d \in removing' <=> d \in removing
      BY <2>2 DEF Closed
    <3> QED
      BY <1>2, <3>1
  <2>3. CASE Stays
    BY <1>2, <2>3 DEF Stays
  <2> QED
    BY <1>2, <2>1, <2>2, <2>3
<1>3. ASSUME UNCHANGED <<scratch, removing>> PROVE Stands
  BY <1>3
<1>4. ASSUME Waits PROVE Stands
  BY <1>2, <1>4 DEF Waits, Holds
<1>5. ASSUME Dirties \/ Asks \/ Answers PROVE Stands
  BY <1>3, <1>5 DEF Dirties, Marks, Asks, disk, Answers
<1>6. ASSUME NEW r \in Calls, Removes(r) PROVE Stands
  BY <1>6 DEF Removes
<1>7. ASSUME NEW c \in Calls, Quits(c) \/ Begins(c) \/ Reads(c) PROVE Stands
  BY <1>2, <1>7 DEF Quits, Begins, Reads, Holds
<1>8. ASSUME NEW c \in Calls, Makes(c), c # d PROVE Stands
  BY <1>2, <1>8 DEF Makes
<1>9. ASSUME NEW c \in Calls, NEW e \in Calls,
             Publishes(c) \/ Shows(c) \/ Clears(c, e) \/ Learns(c, e)
      PROVE  Stands
  BY <1>3, <1>9 DEF Publishes, Shows, Clears, Learns, Marks
<1> HIDE DEF Stands
<1>10. Makes(d) \/ Stands
  BY <1>4, <1>5, <1>6, <1>7, <1>8, <1>9 DEF StepKind
<1>11. Makes(d) \/ (Stands /\ Same(d))
  BY <1>1, <1>10, ProjectsStand
<1>12. ASSUME Stands, Same(d)
       PROVE  /\ Alive(d)' => Alive(d)
              /\ Alive(d) => Alive(d)' \/ Torn
  BY <1>12 DEF Stands, Same, Alive
<1>13. Alive(d) => ~Makes(d)
  BY <1>1 DEF Alive
<1> QED
  BY <1>11, <1>12, <1>13

\* Projects stay whole, and are whole when they are made of whole ones.
LEMMA ProjectsStep ==
  ASSUME OwnerInv, KeptInv, StepKind, [Next]_vars
  PROVE  ProjectsKept'
<1> SUFFICES ASSUME NEW d \in Calls, Alive(d)', project'[d].path \notin torn'
             PROVE  IsStateOf(files'[Root(d)'], NewSources(project'[d].name))
  BY DEF ProjectsKept, Keeping, Sources, NewSources
<1>1. /\ Shapes /\ Lifetimes /\ FoldersKept /\ FoldersKept' /\ NamesArePaths
      /\ given \subseteq given' /\ torn \subseteq torn'
  BY HistoryGrows, FoldersStep DEF OwnerInv, KeptInv
<1> DEFINE name == project'[d].name
           S == Sources(name)
           T == NewSources(name)
<1>2. S \subseteq T /\ name \in T
  BY <1>1, SourcesGrow
<1>3. CASE Alive(d) /\ Same(d)
  <2>1. name = project[d].name /\ project[d].path \notin torn
    BY <1>1, <1>3 DEF Same
  <2>2. Keeping(d, S)
    BY <1>3, <2>1 DEF KeptInv, ProjectsKept
  <2>3. Standing(d)
    BY <1>1, <1>3, FilesStand
  <2> QED
    BY <1>2, <1>3, <2>1, <2>2, <2>3, StatesStand
<1>4. CASE Makes(d)
  <2> DEFINE new == files'[Root(d)']
  <2>1. CASE project'[d].form = "archive"
    <3>1. /\ project'[d].path \in Archives /\ name = project'[d].path
          /\ Explodable(archive[name]) /\ new = Explode(archive[name])
      BY <1>4, <2>1 DEF Makes, Root
    <3>2. IsStateOf(new, S)
      BY <1>1, <3>1 DEF KeptInv, ArchivesKept
    <3> QED
      BY <1>2, <3>2, StatesGrow
  <2>2. CASE project'[d].form = "example"
    <3>1. name \in DOMAIN Examples /\ new = Examples[name]
      BY <1>4, <2>2 DEF Makes, Root
    <3>2. IsStateOf(new, {name})
      BY <3>1, OriginalsAssumption
    <3> QED
      BY <1>2, <3>2, StatesGrow
  <2>3. CASE project'[d].form = "directory"
    <3>1. name \in Folders /\ Root(d)' = name /\ ~Scaffolds(new)
      BY <1>4, <2>3 DEF Makes, Root
    <3>2. IsStateOf(new, {name})
      BY <1>1, <3>1 DEF FoldersKept, IsFolderOf
    <3> QED
      BY <1>2, <3>2, StatesGrow
  <2> QED
    BY <1>4, <2>1, <2>2, <2>3 DEF Makes
<1> QED
  BY <1>1, <1>3, <1>4, AliveStep

\* What becomes of the source of a save that is not torn.
LEMMA SourceStands ==
  ASSUME OwnerInv, KeptInv, StepKind, [Next]_vars,
         NEW c \in Calls, Goes(c), call'[c].to \notin torn', NEW of, of = call[c].of
  PROVE  /\ call[c].to \notin torn /\ Bundling(c) /\ of \in Calls
         /\ Alive(of) /\ Alive(of)' /\ Same(of) /\ Standing(of)
         /\ project[of].name \in Sources(call[c].to)
         /\ Keeping(of, Sources(call[c].to))
<1>1. /\ Shapes /\ Lifetimes /\ Arguments /\ FoldersKept /\ NamesArePaths
      /\ torn \subseteq torn'
  BY HistoryGrows DEF OwnerInv, KeptInv
<1>2. call[c].to \notin torn /\ call[c].to \notin torn' /\ Bundling(c) /\ of \in Calls
  BY <1>1 DEF Goes, Arguments, Saving
<1>3. /\ Alive(of) /\ project[of].name \in Sources(call[c].to)
      /\ Keeping(of, Sources(call[c].to))
  BY <1>2 DEF KeptInv, SavesKept
<1>4. Same(of) /\ Alive(of)'
  BY <1>1, <1>2, <1>3, AliveStep
<1>5. Standing(of)
  BY <1>1, <1>2, <1>3, FilesStand
<1> QED
  BY <1>2, <1>3, <1>4, <1>5

\* A save that begins is of a project that is whole, and goes where it belongs.
LEMMA SaveBegins ==
  ASSUME OwnerInv, KeptInv, StepKind, [Next]_vars,
         NEW c \in Calls, Begins(c), call'[c].at = "design", call'[c].to \notin torn',
         NEW of, of = call'[c].of, NEW p, p = call'[c].to
  PROVE  /\ of \in Calls /\ Alive(of)' /\ Same(of) /\ Standing(of)
         /\ project[of].name \in NewSources(p)
         /\ \E S : Keeping(of, S) /\ S \subseteq NewSources(p)
<1>1. /\ Shapes /\ Lifetimes /\ FoldersKept /\ NamesArePaths
      /\ given \subseteq given' /\ torn \subseteq torn'
  BY HistoryGrows DEF OwnerInv, KeptInv
<1> DEFINE S == Sources(project[of].name)
           T == NewSources(p)
<1>2. /\ of = open /\ of \in Calls /\ Stays
      /\ UNCHANGED <<scratch, project>>
      /\ \/ project[of].form = "archive" /\ p = project[of].path
         \/ Gives(p)
  BY DEF Begins, Turns, Holds
<1>3. open # None
  BY <1>2, PathsAssumption
<1>4. Alive(of)
  BY <1>1, <1>2, <1>3 DEF Alive, Lifetimes, OpenLives, Lives, Held, Shapes, ProjectState, Forms
<1>5. Alive(of)' /\ Same(of)
  BY <1>2, <1>4 DEF Alive, Same, Stays
<1>6. project[of].path \notin torn /\ project[of].name \in T /\ S \subseteq T
  <2>1. CASE project[of].form = "archive" /\ p = project[of].path
    <3>1. project[of].name = p
      BY <1>1, <1>2, <2>1 DEF NamesArePaths
    <3> QED
      BY <1>1, <2>1, <3>1, SourcesGrow
  <2>2. CASE Gives(p)
    <3>1. /\ <<project[of].name, p>> \in given'
          /\ \A g \in given : g[2] = project[of].name => <<g[1], p>> \in given'
          /\ project[of].path \notin torn
      BY <1>2, <2>2 DEF Gives
    <3>2. \A n : <<n, p>> \in given' => n \in T
      BY DEF NewSources
    <3>3. \A n \in S : n = project[of].name \/ \E g \in given : g[2] = project[of].name /\ n = g[1]
      BY DEF Sources
    <3> HIDE DEF S, T
    <3> QED
      BY <3>1, <3>2, <3>3
  <2> QED
    BY <1>2, <2>1, <2>2
<1>7. Keeping(of, S)
  BY <1>2, <1>4, <1>6 DEF KeptInv, ProjectsKept
<1>8. Standing(of)
  BY <1>1, <1>2, <1>4, FilesStand
<1> QED
  BY <1>2, <1>5, <1>6, <1>7, <1>8

\* Saves go on from what is whole.
LEMMA SavesStep ==
  ASSUME OwnerInv, KeptInv, StepKind, [Next]_vars
  PROVE  SavesKept'
<1> SUFFICES ASSUME NEW c \in Calls, Bundling(c)', call'[c].to \notin torn',
                    NEW of, of = call'[c].of, NEW p, p = call'[c].to
             PROVE  /\ Alive(of)' /\ project'[of].name \in NewSources(p)
                    /\ IsStateOf(files'[Root(of)'], NewSources(p))
  BY SMTT(30) DEF SavesKept, Alive, Keeping, Sources, NewSources
<1>1. Shapes /\ Lifetimes /\ given \subseteq given'
  BY HistoryGrows DEF OwnerInv
<1>2. CASE Goes(c)
  <2>1. of = call[c].of /\ p = call[c].to
    BY <1>2 DEF Goes
  <2>2. /\ of \in Calls /\ Alive(of)' /\ Same(of) /\ Standing(of)
        /\ project[of].name \in Sources(p) /\ Keeping(of, Sources(p))
    BY <1>2, <2>1, SourceStands
  <2>3. Sources(p) \subseteq NewSources(p)
    BY <1>1, SourcesGrow
  <2> QED
    BY <2>2, <2>3, StatesStand DEF Same
<1>3. CASE Begins(c) /\ call'[c].at = "design"
  <2>1. /\ of \in Calls /\ Alive(of)' /\ Same(of) /\ Standing(of)
        /\ project[of].name \in NewSources(p)
        /\ \E S : Keeping(of, S) /\ S \subseteq NewSources(p)
    BY <1>3, SaveBegins
  <2> QED
    BY <2>1, StatesStand DEF Same
<1> QED
  BY <1>1, <1>2, <1>3, SaveTurns

\* What is read is of the project that is saved.
LEMMA ReadsStep ==
  ASSUME OwnerInv, KeptInv, StepKind, [Next]_vars
  PROVE  ReadsKept'
<1> SUFFICES ASSUME NEW c \in Calls, Bundling(c)', call'[c].to \notin torn',
                    NEW of, of = call[c].of
             PROVE  ReadKept(c)'
  BY DEF ReadsKept
<1>1. Shapes /\ Lifetimes /\ given \subseteq given'
  BY HistoryGrows DEF OwnerInv
<1> DEFINE p == call[c].to
           T == NewSources(p)
           read == call[c].read
           new == call'[c].read
           src == files[Root(of)]
<1>2. CASE Goes(c)
  <2>1. /\ p \notin torn /\ Bundling(c) /\ of \in Calls
        /\ Same(of) /\ Standing(of) /\ Keeping(of, Sources(p))
    BY <1>2, SourceStands
  <2>2. /\ call'[c].of = of /\ call'[c].to = p
        /\ call'[c] = call[c] \/ Reads(c) \/ Publishes(c)
    BY <1>2 DEF Goes
  <2>3. /\ Source(c) = src
        /\ files'[Root(of)'].table = src.table
        /\ files'[Root(of)'].library = src.library
    BY <2>1, <2>2 DEF Same, Standing, Source, Root
  <2>4. Sources(p) \subseteq T
    BY <1>1, SourcesGrow
  <2>5. HasDesignOf(src, T) /\ ReadKept(c)
    BY <2>1, <2>4, StatesGrow DEF Keeping, IsStateOf, KeptInv, ReadsKept
  <2>6. call[c].at \in {"table", "library", "emptied"} => HasDesignOf(read, T)
    BY <2>4, <2>5, StatesGrow DEF ReadKept
  <2>7. /\ call'[c].at \in {"table", "library", "emptied"} => HasDesignOf(new, T)
        /\ call'[c].at \in {"library", "emptied"} => new.table = src.table
        /\ call'[c].at = "emptied" => new.library = src.library
    <3>1. CASE call'[c] = call[c]
      BY <2>3, <2>5, <2>6, <3>1 DEF ReadKept
    <3>2. CASE Reads(c)
      BY <2>3, <2>5, <2>6, <3>2 DEF ReadKept, Reads, Turns, HasDesignOf
    <3>3. CASE Publishes(c)
      BY <2>3, <2>5, <2>6, <3>3 DEF ReadKept, Publishes, Turns, HasDesignOf, Bundling
    <3> QED
      BY <2>2, <3>1, <3>2, <3>3
  <2> QED
    BY <2>2, <2>3, <2>7 DEF ReadKept, Source, Sources, NewSources
<1>3. CASE call'[c].at = "design"
  BY <1>3 DEF ReadKept
<1> QED
  BY <1>1, <1>2, <1>3, SaveTurns

\* What was read of a project whose files are whole is whole itself, and so is
\* what it is written and comes apart as.
LEMMA ReadsAreWhole ==
  ASSUME Shapes, KeptInv, NEW c \in Calls, call[c].at = "emptied", call[c].to \notin torn
  PROVE  IsStateOf(LoadExploded(call[c].read), Sources(call[c].to))
<1> DEFINE read == call[c].read
           S == Sources(call[c].to)
           new == LoadExploded(read)
<1>1. Bundling(c) /\ Keeping(call[c].of, S) /\ ReadKept(c)
  BY DEF KeptInv, SavesKept, ReadsKept, Bundling
<1>2. /\ HasDesignOf(read, S) /\ HasTablesOf(Source(c), S)
      /\ read.table = Source(c).table /\ read.library = Source(c).library
  BY <1>1 DEF ReadKept, Keeping, IsStateOf, Source
<1>3. IsDirectory(read)
  BY DEF Shapes, CallShapes, IsCall
<1>4. /\ new.design = read.design /\ new.library = read.library
      /\ new.table = TruthTableCsv(read.table)
  BY <1>3 DEF LoadExploded, IsDirectory
<1>5. TruthTableCsv(new.table) = TruthTableCsv(Source(c).table)
  BY <1>2, <1>4, TablesAreStable
<1> HIDE DEF new, read, S
<1>6. HasDesignOf(new, S)
  BY <1>2, <1>4 DEF HasDesignOf
<1>7. HasTablesOf(new, S)
  BY <1>2, <1>4, <1>5 DEF HasTablesOf
<1> QED
  BY <1>6, <1>7 DEF IsStateOf, new, read, S

\* A .gpk is that of its project or of one saved there.
LEMMA ArchivesStep ==
  ASSUME OwnerInv, KeptInv, TextsRoundTrip, StepKind, [Next]_vars
  PROVE  ArchivesKept'
<1> SUFFICES ASSUME NEW p \in Archives, p \notin torn', Explodable(archive'[p])
             PROVE  IsStateOf(Explode(archive'[p]), NewSources(p))
  BY DEF ArchivesKept, Sources, NewSources
<1>1. /\ Shapes /\ Arguments /\ p \notin torn /\ Sources(p) \subseteq NewSources(p)
  BY HistoryGrows, SourcesGrow DEF OwnerInv
<1>2. IsStateOf(Explode(archive'[p]), Sources(p))
  <2>1. CASE archive'[p] = archive[p]
    BY <1>1, <2>1 DEF KeptInv, ArchivesKept
  <2>2. CASE archive'[p] = Emptied
    BY <2>2, EmptiedAssumption
  <2>3. ASSUME NEW c \in Calls, Writes(c, p)
        PROVE  IsStateOf(Explode(archive'[p]), Sources(p))
    <3>1. /\ call[c].at = "emptied" /\ call[c].to = p
          /\ ComesApart(archive'[p], LoadExploded(call[c].read))
      BY <2>3 DEF Writes, TextsRoundTrip
    <3>2. Explode(archive'[p]) = LoadExploded(call[c].read)
      BY <3>1 DEF ComesApart
    <3> QED
      BY <1>1, <3>1, <3>2, ReadsAreWhole
  <2> QED
    BY <1>1, <2>1, <2>2, <2>3, ArchiveTurns
<1> QED
  BY <1>1, <1>2, StatesGrow

\* A save leaves a .gpk that comes apart, or one that the form cannot express.
LEMMA WritesStep ==
  ASSUME OwnerInv, KeptInv, TextsRoundTrip, StepKind
  PROVE  WritesKept'
<1> SUFFICES ASSUME NEW c \in Calls, call'[c].at = "bundled", NEW p, p = call'[c].to
             PROVE  \/ archive'[p] = Emptied \/ Explodable(archive'[p])
                    \/ Unrepresentable(archive'[p])
  BY DEF WritesKept
<1>1. Shapes /\ Arguments
  BY DEF OwnerInv
<1>2. \/ call[c].at = "bundled" /\ call[c].to = p
      \/ call[c].at = "emptied" /\ call[c].to = p /\ archive'[p] = Bundle(call[c].read)
  <2>1. CASE Waits \/ Dirties \/ Asks \/ Answers \/ \E r \in Calls : Removes(r)
    BY <2>1 DEF Waits, Dirties, Asks, Answers, Removes
  <2>2. ASSUME NEW d \in Calls, Quits(d) \/ Makes(d) \/ Shows(d)
        PROVE  call'[c] = call[c]
    BY <2>2, NamedCalls DEF Quits, Makes, Shows, Ends
  <2>3. ASSUME NEW d \in Calls, NEW e \in Calls, Clears(d, e) \/ Learns(d, e)
        PROVE  call'[c] = call[c]
    BY <2>3, NamedCalls DEF Clears, Learns, Ends, Turns
  <2>4. ASSUME NEW d \in Calls, Begins(d) \/ Reads(d) PROVE call'[c] = call[c]
    BY <2>4 DEF Begins, Reads, Turns
  <2>5. ASSUME NEW d \in Calls, Publishes(d)
        PROVE  \/ call'[c] = call[c]
               \/ call[c].at = "emptied" /\ call[c].to = p /\ archive'[p] = Bundle(call[c].read)
    BY <2>5 DEF Publishes, Turns
  <2> QED
    BY <2>1, <2>2, <2>3, <2>4, <2>5 DEF StepKind
<1>3. p \in Archives
  BY <1>1, <1>2 DEF Arguments, Saving, Bundling
<1>4. ASSUME NEW d \in Calls, Writes(d, p)
      PROVE  Explodable(archive'[p]) \/ Unrepresentable(archive'[p])
  BY <1>4 DEF Writes, TextsRoundTrip, ComesApart
<1>5. CASE archive'[p] = archive[p] /\ call[c].at = "bundled" /\ call[c].to = p
  BY <1>5 DEF KeptInv, WritesKept
<1> QED
  BY <1>1, <1>2, <1>3, <1>4, <1>5, ArchiveTurns DEF Writes

\* Every step keeps what is kept.
LEMMA KeptStep ==
  ASSUME OwnerInv, KeptInv, TextsRoundTrip, [Next]_vars
  PROVE  KeptInv'
<1>1. StepKind
  BY StepKinds DEF OwnerInv
<1>2. FoldersKept' /\ NamesArePaths'
  BY <1>1, FoldersStep, NamesStep DEF OwnerInv, KeptInv
<1> QED
  BY <1>1, <1>2, ProjectsStep, SavesStep, ReadsStep, ArchivesStep, WritesStep DEF KeptInv

\* To begin with there is one project, and what is on the disk is whole.
LEMMA KeptInit ==
  ASSUME Init
  PROVE  KeptInv
<1>1. PICK dirs \in [Folders -> UNION {Dirs(f) : f \in Folders}] :
        /\ \A f \in Folders : dirs[f] \in Dirs(f)
        /\ files = [r \in Roots |-> IF r \in Folders THEN dirs[r]
                                    ELSE IF r = 0 THEN Explode(archive[LastProject]) ELSE Nowhere]
  BY DEF Init
<1>2. 0 \in Calls /\ 0 \in Roots /\ 0 \notin Folders /\ LastProject \in Archives
  BY CallsAssumption, PathsAssumption DEF Calls, Roots
<1>3. /\ project[0].form = "archive" /\ project[0].path = LastProject
      /\ project[0].name = LastProject
      /\ \A d \in Calls : d # 0 => project[d].form = "none"
      /\ \A c \in Calls : call[c].at \in {"idle", "ended"}
  BY <1>2, NamedCalls, CallFields DEF Init, State, NoProject
<1>4. \A p \in Archives : p \in Sources(p)
  BY DEF Sources
<1>5. \A p \in Archives : Explodable(archive[p]) => IsStateOf(Explode(archive[p]), {p})
  BY OriginalsAssumption DEF Init
<1>6. ArchivesKept
  <2>1. ASSUME NEW p \in Archives, Explodable(archive[p])
        PROVE  IsStateOf(Explode(archive[p]), Sources(p))
    <3>1. {p} \subseteq Sources(p)
      BY <1>4
    <3> QED
      BY <1>5, <2>1, <3>1, StatesGrow
  <2> QED
    BY <2>1 DEF ArchivesKept
<1>7. FoldersKept
  <2>1. \A f \in Folders : files[f] \in Dirs(f)
    BY <1>1 DEF Roots
  <2> QED
    BY <1>3, <2>1, OriginalsAssumption DEF FoldersKept
<1>8. ProjectsKept
  <2>1. files[0] = Explode(archive[LastProject]) /\ Root(0) = 0
    BY <1>1, <1>2, <1>3 DEF Root
  <2>2. Explodable(archive[LastProject]) /\ torn = {}
    BY DEF Init
  <2>3. Keeping(0, Sources(project[0].name))
    BY <1>2, <1>3, <1>6, <2>1, <2>2 DEF ArchivesKept, Keeping
  <2> QED
    BY <1>3, <2>3 DEF ProjectsKept, Alive
<1>9. NamesArePaths
  BY <1>3 DEF NamesArePaths
<1>10. SavesKept /\ ReadsKept /\ WritesKept
  BY <1>3 DEF SavesKept, ReadsKept, WritesKept, Bundling
<1> QED
  BY <1>6, <1>7, <1>8, <1>9, <1>10 DEF KeptInv

\* Nothing of a project is lost between a directory and a .gpk, nor mixed with
\* another's, however openings, writes, saves and removals overlap: what is open
\* and what a save has written hold a whole state of the project they belong to
\* or of one that was saved there.  (session.cts, project/__init__.py)
THEOREM NothingEverLost == Spec => []NothingLost
<1>1. Init => KeptInv
  BY KeptInit
<1>2. OwnerInv /\ KeptInv /\ TextsRoundTrip /\ [Next]_vars => KeptInv'
  BY KeptStep
<1>3. OwnerInv /\ KeptInv => NothingLost
  <2> SUFFICES ASSUME OwnerInv, KeptInv PROVE NothingLost
    OBVIOUS
  <2>1. ASSUME open # None, project[open].path \notin torn
        PROVE  IsStateOf(files[Root(open)], Sources(project[open].name))
    <3>1. open \in Calls /\ Alive(open)
      BY <2>1 DEF OwnerInv, Shapes, Alive, Lifetimes, OpenLives, Lives, Held, ProjectState, Forms
    <3> QED
      BY <2>1, <3>1 DEF KeptInv, ProjectsKept, Keeping
  <2>2. ASSUME NEW c \in Calls, call[c].at = "bundled", archive[call[c].to] # Emptied,
               call[c].to \notin torn
        PROVE  LET text == archive[call[c].to]
               IN IF Explodable(text)
                  THEN IsStateOf(Explode(text), Sources(call[c].to))
                  ELSE Unrepresentable(text)
    <3>1. call[c].to \in Archives
      BY <2>2 DEF OwnerInv, Arguments, Saving
    <3> QED
      BY <2>2, <3>1 DEF KeptInv, ArchivesKept, WritesKept
  <2> QED
    BY <2>1, <2>2 DEF NothingLost
<1> QED
  BY <1>1, <1>2, <1>3, OwnerAlways, TextsAlwaysRoundTrip, PTL DEF Spec

=============================================================================
