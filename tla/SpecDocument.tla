---------------------------- MODULE SpecDocument ----------------------------
(***************************************************************************)
(* The specification text (design.yaml) and the three places it lives in:  *)
(* the renderer's ProjectProvider, the IPC calls between the renderer and  *)
(* the main process, and the working directory of the open project.        *)
(*                                                                         *)
(* The renderer edits a local copy and writes it back 400 ms after the     *)
(* last keystroke; the main process owns the file, watches it, and tells   *)
(* the renderer when it, or the open project, has changed; the renderer    *)
(* then reads it again.  Nothing here holds a lock: the copies agree only  *)
(* because every way to make them differ leaves something in flight that   *)
(* will make them agree.                                                   *)
(*                                                                         *)
(* A text is abstracted to the project whose file it was loaded from and a *)
(* version number; every text typed or written by another program has a    *)
(* version of its own.  Projects are working directories.                  *)
(***************************************************************************)
EXTENDS Naturals, Sequences, Functions

CONSTANTS
  Projects,      \* working directories the user may open
  NoProject,     \* SessionManager.project === null
  NoText,        \* pendingRef.current === null, an absent file, a failed read
  MaxEvents      \* bound: edits and commands of the user, external changes

ASSUME ProjectsAssumption == NoProject \notin Projects
ASSUME BoundAssumption == MaxEvents \in Nat

Text == [owner : Projects \cup {NoProject}, version : Nat]

ASSUME NoTextAssumption == NoText \notin Text

VARIABLES
  text,      \* textRef.current and specText, which are always set together
  pending,   \* pendingRef.current; the 400 ms timer is armed iff it is a text
  stale,     \* specStale
  rev,       \* revision
  readSeq,   \* readSeqRef.current
  shown,     \* the project the renderer believes is open
  toMain,    \* ipcRenderer.invoke calls that main has not handled yet
  replies,   \* answers to readSpec on their way back, in no particular order
  inbox,     \* events sent to the renderer, and the answer to currentProject
  cur,       \* SessionManager.project
  opening,   \* opening[p]: openProjectPath calls between close and assignment
  saving,    \* saving[p]: saveProject calls awaiting the bundle or git
  armed,     \* this.debounced has a timer running and paths to report
  strays,    \* armed debounces that startWatching replaced without cancelling
  disk,      \* disk[p]: the design.yaml in p
  rejected,  \* history: the file system refused a write
  authored,  \* history: how many versions exist
  commands   \* history: how many commands were given

renderer == <<text, pending, stale, rev, readSeq, shown>>
channels == <<toMain, replies, inbox>>
session  == <<cur, opening, saving, armed, strays>>
files    == <<disk, rejected>>
vars == <<renderer, channels, session, files, authored, commands>>

ReadRequest    == [op : {"readSpec"}, seq : Nat, mark : BOOLEAN]
WriteRequest   == [op : {"writeSpec"}, text : Text]
CurrentRequest == [op : {"currentProject"}]
Request == ReadRequest \cup WriteRequest \cup CurrentRequest

Reply == [seq : Nat, mark : BOOLEAN, text : Text \cup {NoText}]

Message ==
  [event : {"projectChanged", "currentProject"}, project : Projects \cup {NoProject}]
    \cup [event : {"fileChanged"}]

ProjectChanged(p) == [event |-> "projectChanged", project |-> p]
FileChanged == [event |-> "fileChanged"]

Original(p) == [owner |-> p, version |-> 0]

(***************************************************************************)
(* The provider has just run its mount effects: it has asked for the open  *)
(* project and for the text.  Main opened the initial project (or failed   *)
(* to) before it loaded the page, and may have broadcast it once more.     *)
(***************************************************************************)
Init ==
  /\ text = Original(NoProject)
  /\ pending = NoText
  /\ stale = FALSE
  /\ rev = 0
  /\ readSeq = 1
  /\ shown = NoProject
  /\ toMain = <<[op |-> "currentProject"],
                [op |-> "readSpec", seq |-> 1, mark |-> FALSE]>>
  /\ replies = {}
  /\ cur \in Projects \cup {NoProject}
  /\ inbox \in {<<>>} \cup {<<ProjectChanged(cur)>> : p \in {cur} \ {NoProject}}
  /\ opening = [p \in Projects |-> 0]
  /\ saving = [p \in Projects |-> 0]
  /\ armed = FALSE
  /\ strays = 0
  /\ disk = [p \in Projects |-> Original(p)]
  /\ rejected = FALSE
  /\ authored = 0
  /\ commands = 0

(* What the user and other programs do is bounded. *)
Author  == authored + commands < MaxEvents /\ authored' = authored + 1
Command == authored + commands < MaxEvents /\ commands' = commands + 1

-----------------------------------------------------------------------------
(* Renderer: ProjectProvider *)

\* readSpecFromDisk: the new sequence number makes every earlier read late.
ReadSpecFromDisk(mark) ==
  /\ readSeq' = readSeq + 1
  /\ toMain' = Append(toMain, [op |-> "readSpec", seq |-> readSeq + 1, mark |-> mark])

\* Variants: the revision is not bumped; the marker is left alone.
ApplyQuietly(t) ==
  /\ text' = t
  /\ stale' = FALSE
  /\ UNCHANGED rev

ApplyKeepingMarker(t) ==
  /\ text' = t
  /\ rev' = rev + 1
  /\ UNCHANGED stale

\* Variant: a text that is loaded starts a new count.
ApplyRewinding(t) ==
  /\ text' = t
  /\ stale' = FALSE
  /\ rev' = IF t.owner = text.owner THEN rev + 1 ELSE 0

\* applySpecText
ApplySpecText(t) ==
  /\ text' = t
  /\ stale' = FALSE
  /\ rev' = rev + 1

\* setSpecText, from the text editor or through editSpec; re-arms the timer.
SetSpecText ==
  /\ Author
  /\ ApplySpecText([owner |-> text.owner, version |-> authored + 1])
  /\ pending' = text'
  /\ UNCHANGED <<readSeq, shown, channels, session, files, commands>>

\* Variants: the pending text is not reset; its absence is not tested.
WriteTimerKeepsText ==
  /\ pending # NoText
  /\ toMain' = Append(toMain, [op |-> "writeSpec", text |-> pending])
  /\ UNCHANGED <<renderer, replies, inbox, session, files, authored, commands>>

WriteTimerUnguarded ==
  /\ toMain' = Append(toMain, [op |-> "writeSpec", text |-> pending])
  /\ pending' = NoText
  /\ UNCHANGED <<text, stale, rev, readSeq, shown, replies, inbox, session, files,
                 authored, commands>>

\* The timer that setSpecText armed.
WriteTimerFires ==
  /\ pending # NoText
  /\ toMain' = Append(toMain, [op |-> "writeSpec", text |-> pending])
  /\ pending' = NoText
  /\ UNCHANGED <<text, stale, rev, readSeq, shown, replies, inbox, session, files,
                 authored, commands>>

\* Variant: a read is applied whichever read was issued since.
AnyReply(r) == TRUE

IsCurrent(r) == r.seq = readSeq

\* The continuation of api.readSpec(): only the latest read is applied, and
\* the one made on mount does not count as a change.
ReadReplyArrives ==
  \E r \in replies :
    /\ replies' = replies \ {r}
    /\ IF IsCurrent(r) /\ r.text # NoText
         THEN IF r.mark THEN ApplySpecText(r.text)
                        ELSE text' = r.text /\ UNCHANGED <<stale, rev>>
         ELSE UNCHANGED <<text, stale, rev>>
    /\ UNCHANGED <<pending, readSeq, shown, toMain, inbox, session, files,
                   authored, commands>>

Receive(event) ==
  /\ inbox # <<>>
  /\ Head(inbox).event = event
  /\ inbox' = Tail(inbox)

\* api.onProjectChanged
OnProjectChanged ==
  /\ Receive("projectChanged")
  /\ shown' = Head(inbox).project
  /\ pending' = NoText
  /\ ReadSpecFromDisk(TRUE)
  /\ UNCHANGED <<text, stale, rev, replies, session, files, authored, commands>>

\* api.onFileChanged: a text that is still to be written is kept and marked.
OnFileChanged ==
  /\ Receive("fileChanged")
  /\ IF pending # NoText
       THEN stale' = TRUE /\ UNCHANGED <<readSeq, toMain>>
       ELSE ReadSpecFromDisk(TRUE) /\ UNCHANGED stale
  /\ UNCHANGED <<text, pending, rev, shown, replies, session, files, authored, commands>>

\* The answer to the api.currentProject() of the mount effect.
OnCurrentProject ==
  /\ Receive("currentProject")
  /\ shown' = IF Head(inbox).project = NoProject THEN shown ELSE Head(inbox).project
  /\ UNCHANGED <<text, pending, stale, rev, readSeq, toMain, replies, session, files,
                 authored, commands>>

-----------------------------------------------------------------------------
(* Main process: IPC handlers *)

Handle(op) ==
  /\ toMain # <<>>
  /\ Head(toMain).op = op
  /\ toMain' = Tail(toMain)

\* readSpec: with no project, or no file, the answer is an error envelope.
HandleReadSpec ==
  /\ Handle("readSpec")
  /\ replies' = replies \cup
       {[seq |-> Head(toMain).seq, mark |-> Head(toMain).mark,
         text |-> IF cur = NoProject THEN NoText ELSE disk[cur]]}
  /\ UNCHANGED <<renderer, inbox, session, files, authored, commands>>

\* Variant: a change is reported only if one is already waiting.
Unwatched(p) == armed' = armed

\* Main's file watcher sees a change in p: only the open project is watched.
Watched(p) == armed' = (armed \/ p = cur)

\* writeSpec writes the project that is open when the call is handled.  An
\* error envelope (no project, or a refused write) is ignored by the renderer.
HandleWriteSpec ==
  /\ Handle("writeSpec")
  /\ \/ /\ cur # NoProject
        /\ disk' = [disk EXCEPT ![cur] = Head(toMain).text]
        /\ Watched(cur)
        /\ UNCHANGED rejected
     \/ /\ cur # NoProject
        /\ ~rejected
        /\ rejected' = TRUE
        /\ UNCHANGED <<disk, armed>>
     \/ /\ cur = NoProject
        /\ UNCHANGED <<disk, armed, rejected>>
  /\ UNCHANGED <<renderer, replies, inbox, cur, opening, saving, strays, authored, commands>>

HandleCurrentProject ==
  /\ Handle("currentProject")
  /\ inbox' = Append(inbox, [event |-> "currentProject", project |-> cur])
  /\ UNCHANGED <<renderer, replies, session, files, authored, commands>>

-----------------------------------------------------------------------------
(* Main process: SessionManager *)

\* closeProject: stop watching and forget the project.  Nothing is broadcast.
Close ==
  /\ cur' = NoProject
  /\ armed' = FALSE

CloseProject ==
  /\ Command
  /\ Close
  /\ UNCHANGED <<renderer, channels, opening, saving, strays, files, authored>>

\* openProjectPath and openBundledExample close the old project first ...
OpenProject(p) ==
  /\ Command
  /\ Close
  /\ opening' = [opening EXCEPT ![p] = @ + 1]
  /\ UNCHANGED <<renderer, channels, saving, strays, files, authored>>

\* ... and after the awaits (explode, git) install the new one, whatever may
\* have been opened meanwhile.  startWatching overwrites a running debounce.
OpenCompletes(p) ==
  /\ opening[p] > 0
  /\ opening' = [opening EXCEPT ![p] = @ - 1]
  /\ cur' = p
  /\ strays' = IF armed THEN strays + 1 ELSE strays
  /\ armed' = FALSE
  /\ inbox' = Append(inbox, ProjectChanged(p))
  /\ UNCHANGED <<renderer, toMain, replies, saving, files, authored, commands>>

\* No design.yaml, or the .gpk does not explode: an error to the caller only.
OpenFails(p) ==
  /\ opening[p] > 0
  /\ opening' = [opening EXCEPT ![p] = @ - 1]
  /\ UNCHANGED <<renderer, channels, cur, saving, armed, strays, files, authored, commands>>

\* saveProject and saveProjectAs capture the project, await, and broadcast it.
SaveProject ==
  /\ cur # NoProject
  /\ Command
  /\ saving' = [saving EXCEPT ![cur] = @ + 1]
  /\ UNCHANGED <<renderer, channels, cur, opening, armed, strays, files, authored>>

SaveCompletes(p) ==
  /\ saving[p] > 0
  /\ saving' = [saving EXCEPT ![p] = @ - 1]
  /\ inbox' = Append(inbox, ProjectChanged(p))
  /\ UNCHANGED <<renderer, toMain, replies, cur, opening, armed, strays, files,
                 authored, commands>>

SaveFails(p) ==
  /\ saving[p] > 0
  /\ saving' = [saving EXCEPT ![p] = @ - 1]
  /\ UNCHANGED <<renderer, channels, cur, opening, armed, strays, files, authored, commands>>

\* The 250 ms debounce of the watcher.
WatchTimerFires ==
  /\ armed
  /\ armed' = FALSE
  /\ inbox' = Append(inbox, FileChanged)
  /\ UNCHANGED <<renderer, toMain, replies, cur, opening, saving, strays, files,
                 authored, commands>>

\* A replaced debounce was never cancelled: it still reports its paths.
StrayTimerFires ==
  /\ strays > 0
  /\ strays' = strays - 1
  /\ inbox' = Append(inbox, FileChanged)
  /\ UNCHANGED <<renderer, toMain, replies, cur, opening, saving, armed, files,
                 authored, commands>>

-----------------------------------------------------------------------------
(* Environment: other programs working in a project's directory *)

ExternalStep(p) ==
  /\ Author
  /\ Watched(p)
  /\ UNCHANGED <<renderer, channels, cur, opening, saving, strays, rejected, commands>>

ExternalWrite(p) ==
  /\ ExternalStep(p)
  /\ disk' = [disk EXCEPT ![p] = [owner |-> p, version |-> authored + 1]]

ExternalRemove(p) ==
  /\ ExternalStep(p)
  /\ disk' = [disk EXCEPT ![p] = NoText]

\* Another file of the directory changes (parts.csv), or the same write is
\* reported twice.
ExternalTouch(p) ==
  /\ ExternalStep(p)
  /\ UNCHANGED disk

-----------------------------------------------------------------------------
RendererStep ==
  \/ WriteTimerFires
  \/ ReadReplyArrives
  \/ OnProjectChanged
  \/ OnFileChanged
  \/ OnCurrentProject

MainStep ==
  \/ HandleReadSpec
  \/ HandleWriteSpec
  \/ HandleCurrentProject
  \/ WatchTimerFires
  \/ StrayTimerFires

AwaitReturns(p) ==
  \/ OpenCompletes(p)
  \/ OpenFails(p)
  \/ SaveCompletes(p)
  \/ SaveFails(p)

UserStep ==
  \/ SetSpecText
  \/ CloseProject
  \/ SaveProject
  \/ \E p \in Projects : OpenProject(p)

OutsideStep ==
  \E p \in Projects : ExternalWrite(p) \/ ExternalRemove(p) \/ ExternalTouch(p)

Next ==
  \/ RendererStep
  \/ MainStep
  \/ UserStep
  \/ OutsideStep
  \/ \E p \in Projects : AwaitReturns(p)

Spec == Init /\ [][Next]_vars

(***************************************************************************)
(* Timers fire, messages are delivered and handlers run; child processes   *)
(* and git return.  Users and other programs owe nothing.                  *)
(***************************************************************************)
Fairness ==
  /\ WF_vars(WriteTimerFires)
  /\ WF_vars(ReadReplyArrives)
  /\ WF_vars(OnProjectChanged)
  /\ WF_vars(OnFileChanged)
  /\ WF_vars(OnCurrentProject)
  /\ WF_vars(HandleReadSpec)
  /\ WF_vars(HandleWriteSpec)
  /\ WF_vars(HandleCurrentProject)
  /\ WF_vars(WatchTimerFires)
  /\ WF_vars(StrayTimerFires)
  /\ \A p \in Projects : WF_vars(AwaitReturns(p))

FairSpec == Spec /\ Fairness

-----------------------------------------------------------------------------
(* Properties *)

\* Every variable holds a value of its kind.
TypeOK ==
  /\ text \in Text
  /\ pending \in Text \cup {NoText}
  /\ stale \in BOOLEAN
  /\ rev \in Nat
  /\ readSeq \in Nat
  /\ shown \in Projects \cup {NoProject}
  /\ toMain \in Seq(Request)
  /\ replies \subseteq Reply
  /\ inbox \in Seq(Message)
  /\ cur \in Projects \cup {NoProject}
  /\ opening \in [Projects -> Nat]
  /\ saving \in [Projects -> Nat]
  /\ armed \in BOOLEAN
  /\ strays \in Nat
  /\ disk \in [Projects -> Text \cup {NoText}]
  /\ rejected \in BOOLEAN
  /\ authored \in Nat
  /\ commands \in Nat

\* There is a file to agree with.
FileIsOpen == cur # NoProject /\ disk[cur] # NoText

WriteIsQueued == \E m \in Range(toMain) : m.op = "writeSpec"

\* A change notification the renderer has not seen, or that main will send.
NotificationIsDue ==
  armed \/ \E m \in Range(inbox) : m.event \in {"projectChanged", "fileChanged"}

WorkIsDue == pending # NoText \/ WriteIsQueued \/ NotificationIsDue

\* The renderer's latest read has yet to be handled, or its answer is on the
\* way and carries what the file holds.
ReadIsDue ==
  \/ \E m \in Range(toMain) : m.op = "readSpec" /\ m.seq = readSeq
  \/ \E r \in replies : r.seq = readSeq /\ r.text = disk[cur]

\* The text on screen differs from the file of the open project only while
\* something in flight is bound to reconcile them: a keystroke still to be
\* written, a queued write, a change notification or the latest read.  It is
\* what makes the lock-free protocol of project.tsx and session.cts correct,
\* and it must survive late reads, overlapping opens and external edits.
DivergenceIsOwed ==
  FileIsOpen /\ ~rejected /\ text # disk[cur] => WorkIsDue \/ ReadIsDue

\* The two facts that make it inductive: no read, handled or not, is newer
\* than readSeq; and with no work due the latest answer carries the file.
SeqBound ==
  /\ \A m \in Range(toMain) : m.op = "readSpec" => m.seq <= readSeq
  /\ \A r \in replies : r.seq <= readSeq

AnswerIsFresh ==
  FileIsOpen /\ ~rejected /\ ~WorkIsDue
    => \A r \in replies : r.seq = readSeq /\ r.text # NoText => r.text = disk[cur]

IInv == TypeOK /\ SeqBound /\ AnswerIsFresh /\ DivergenceIsOwed

WriteAt(i) == toMain[i].op = "writeSpec"

\* Each typed text is handed to main once, in the order it was typed: the
\* debounce can neither repeat a write nor let an older one overtake it.
WritesInTypingOrder ==
  /\ \A i, j \in DOMAIN toMain :
       i < j /\ WriteAt(i) /\ WriteAt(j)
         => toMain[i].text.version < toMain[j].text.version
  /\ pending # NoText =>
       \A i \in DOMAIN toMain : WriteAt(i) => toMain[i].text.version < pending.version

\* What makes it inductive: the next text typed is newer than all of them.
WritesAreAuthored ==
  /\ pending # NoText => pending.version <= authored
  /\ \A i \in DOMAIN toMain : WriteAt(i) => toMain[i].text.version <= authored

OrderInv == TypeOK /\ WritesInTypingOrder /\ WritesAreAuthored

\* Once users and other programs are quiet, the editor shows the file of the
\* open project for good (unless the file system refused a write).
EditorSettles == <>[](FileIsOpen /\ ~rejected => text = disk[cur])

\* The "changed on disk" marker never outlives its cause: it goes away, or
\* there is no file left to read (or a write was refused).
StaleMarkerClears == stale ~> (~stale \/ ~FileIsOpen \/ rejected)

\* What project.tsx says of external changes: "silently overwriting what they
\* typed because a file changed on disk is a worse bug than a stale editor.
\* Policy: keep local edits and mark the spec stale."  While an edit of the
\* project on screen waits to be written, the text on screen is that edit.
TypedTextIsKept ==
  pending # NoText /\ pending.owner = shown /\ shown # NoProject => text = pending

\* What project.tsx says of the pending write it drops: "it belonged to the
\* previous project".  An edit of the project on screen is only ever dropped
\* unwritten when the renderer learns of another project.
OnlyASwitchDropsEdits ==
  [][pending # NoText /\ pending.owner = shown /\ pending' = NoText /\ shown' = shown
       => toMain' = Append(toMain, [op |-> "writeSpec", text |-> pending])]_vars

\* A text loaded from one project is never written into another's file.
WritesStayInTheirProject ==
  \A p \in Projects : disk[p] # NoText => disk[p].owner \in {p, NoProject}
=============================================================================
