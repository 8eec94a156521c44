----------------------------- MODULE Workbench -----------------------------
(***************************************************************************)
(* A core command run while the document is edited: SpecDocument and       *)
(* RevisionedTask together.  The core reads design.yaml from disk, where   *)
(* the text on screen arrives 400 ms and an IPC call late, while the task  *)
(* is stamped with the revision of the text on screen.                     *)
(*                                                                         *)
(* The renderer's calls to read and write the text and its calls to run    *)
(* and cancel a command are two queues: their order is not relied upon.    *)
(***************************************************************************)
EXTENDS SpecDocument

CONSTANTS NoSource, NoToken, NoRevision, MaxRevision, MaxRuns

\* RevisionedTask's assumptions, of its instance.
ASSUME TaskAssumption ==
  /\ NoSource \notin Text \cup {NoText}
  /\ NoToken \notin Nat /\ NoRevision \notin Nat
  /\ MaxRevision \in Nat /\ MaxRuns \in Nat

VARIABLES rendered, mounted, tokenRef, state, effectDue, inflight, lastToken, switches,
          running, evidence, queue, answers, registry, procs, killed, cwd, readBy, startedAt

Task == INSTANCE RevisionedTask
          WITH project <- cur, source <- disk, replies <- answers,
               Sources <- Text \cup {NoText}

taskVars ==
  <<rendered, mounted, tokenRef, state, effectDue, inflight, lastToken, switches, running,
    evidence, queue, answers, registry, procs, killed, cwd, readBy, startedAt>>

workbenchVars == <<vars, taskVars>>

\* The provider and the view are mounted in one render.
WorkbenchInit ==
  /\ Init
  /\ Task!TaskInit

\* An edit, a file change or a project switch; the task notices nothing yet.
DocumentStep == Next /\ UNCHANGED taskVars

\* A step of the hook, of main's handlers for it, or of a core process.
TaskStep == Task!TaskStep /\ UNCHANGED vars

WorkbenchNext == DocumentStep \/ TaskStep

WorkbenchSpec ==
  /\ WorkbenchInit
  /\ [][WorkbenchNext]_workbenchVars
  /\ Fairness
  /\ Task!TaskFairness

-----------------------------------------------------------------------------
(* Properties *)

\* A result is presented as live: it is a success and isStale is false.
IsLive == mounted /\ state.status = "success" /\ state.revision = rev

LiveMismatch == IsLive /\ readBy[state.token] # text

\* A live result computed from another text than the one on screen is never
\* left standing: something in flight is bound to bump the revision, so that
\* the result is flagged.  It is the only thing that catches a command run
\* between a keystroke and its write.
MismatchIsOwed ==
  LiveMismatch /\ FileIsOpen /\ ~rejected => WorkIsDue \/ ReadIsDue

\* The process of token t read, or may yet read, something else than the file
\* of the open project; and its run was started at this revision.
ReadsAnother(t) ==
  /\ startedAt[t] = rev
  /\ \/ readBy[t] # NoSource /\ readBy[t] # disk[cur]
     \/ readBy[t] = NoSource /\ t \in procs /\ cwd[t] # cur

\* What makes it inductive.  While a run of this revision reads another text,
\* what is owed will bump the revision: the read made on mount does not, but
\* it is the first, and the latest only until the first notification.
ReadingIsOwed ==
  \A t \in 1 .. MaxRuns :
    FileIsOpen /\ ~rejected /\ ReadsAnother(t) => WorkIsDue \/ (readSeq > 1 /\ ReadIsDue)

OnlyTheFirstReadIsQuiet ==
  /\ readSeq >= 1
  /\ \A m \in Range(toMain) : m.op = "readSpec" /\ m.seq > 1 => m.mark
  /\ \A r \in replies : r.seq > 1 => r.mark

\* A run was started at a revision that has been, not before the one its
\* result is shown against; a result that is shown was read.
RunsAreOfThePast ==
  /\ rendered <= rev
  /\ \A t \in 1 .. MaxRuns : startedAt[t] # NoRevision => startedAt[t] <= rev
  /\ mounted \/ tokenRef = NoToken
  /\ tokenRef # NoToken => state.status # "idle" /\ state.token = tokenRef
  /\ state.status # "idle" =>
       /\ state.token \in 1 .. MaxRuns
       /\ startedAt[state.token] \in Nat
       /\ state.revision \in Nat
       /\ state.revision <= startedAt[state.token]
  /\ \A r \in answers : r.outcome = "ok" => readBy[r.token] # NoSource
  /\ state.status = "success" => readBy[state.token] # NoSource

\* Nothing was read for a token of the future.
TokensAreFresh == \A t \in (lastToken + 1) .. MaxRuns : readBy[t] = NoSource

\* Processes are started in a project.
TaskTypes == Task!TypeOK /\ \A t \in procs : cwd[t] \in Projects

WorkbenchInv ==
  /\ IInv
  /\ TaskTypes
  /\ ReadingIsOwed
  /\ OnlyTheFirstReadIsQuiet
  /\ RunsAreOfThePast
  /\ TokensAreFresh

\* What RevisionedTask assumes of the document is what SpecDocument does: the
\* revision counts up, one at a time, however the text came to change, so that
\* a revision never comes back to vouch for an old result.
ImplementsTask == Task!Spec

\* What useRevisionedTask.ts says: "a stale result against edited source is a
\* correctness bug, so the UI must never present one as live".  Here: once the
\* text of the open project has been edited.
LiveResultMatchesSource ==
  text.owner = cur /\ text.version > 0 => ~LiveMismatch
=============================================================================
