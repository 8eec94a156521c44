--------------------------- MODULE RevisionedTask ---------------------------
(***************************************************************************)
(* A core command whose result is tied to a revision of the document: the  *)
(* useRevisionedTask hook of the view that owns the command (Build in the  *)
(* packing view, Verify in the verification panel), the session stores the *)
(* view publishes to, the registry of tokens that Escape cancels, and in   *)
(* the main process the CancelRegistry and the child processes.            *)
(*                                                                         *)
(* The document is the environment: rev is its revision in the renderer,   *)
(* project the one main has open, source the files a core process reads.   *)
(* Workbench substitutes SpecDocument for them.                            *)
(***************************************************************************)
EXTENDS Naturals, Sequences, Functions

CONSTANTS
  Projects,     \* working directories
  NoProject,    \* no project is open
  Sources,      \* what may be in a project's design.yaml
  NoSource,     \* a process that has not read the disk yet
  NoToken,      \* tokenRef.current === null
  NoRevision,   \* a revision that is null
  MaxRevision,  \* bound: revisions of the document
  MaxRuns       \* bound: runs, and the Escapes and view switches among them

ASSUME SourceAssumption == NoSource \notin Sources
ASSUME NullAssumption == NoToken \notin Nat /\ NoRevision \notin Nat
ASSUME BoundsAssumption == MaxRevision \in Nat /\ MaxRuns \in Nat

VARIABLES
  rev,         \* revision of the ProjectProvider
  project,     \* SessionManager.project
  source,      \* source[p]: the design.yaml in p
  rendered,    \* the revision of the view's last render, captured by run()
  mounted,     \* the view is mounted
  tokenRef,    \* tokenRef.current of the hook
  state,       \* TaskState, with the token whose call set it
  effectDue,   \* the view's [state] effect has yet to run
  inflight,    \* inflightTokens, the module-level registry
  lastToken,   \* history: nextToken() so far
  switches,    \* history: view switches and Escapes so far
  running,     \* published: setBuildRunning / setVerifyRunning
  evidence,    \* published: setVerifyRevision (setBuildRevision, which useBuildState
               \* also sets, to adopt the artefacts of an earlier session)
  queue,       \* ipcRenderer.invoke calls that main has not handled yet
  replies,     \* settled calls on their way back
  registry,    \* CancelRegistry: tokens of unsettled calls
  procs,       \* core processes that have not closed
  killed,      \* those that were sent SIGKILL
  cwd,         \* cwd[t]: the project the process of token t was started in
  readBy,      \* readBy[t]: what the process of token t read from disk
  startedAt    \* history: startedAt[t] is rev when run t was started

document == <<rev, project, source>>
hook == <<rendered, mounted, tokenRef, state, effectDue, inflight, lastToken, switches,
          startedAt>>
session == <<running, evidence>>
main == <<registry, procs, killed, cwd, readBy>>
taskVars == <<hook, session, queue, replies, main>>
vars == <<document, taskVars>>

Idle == [status |-> "idle", revision |-> NoRevision, token |-> NoToken]

Invoke(t) == [op |-> "invoke", token |-> t]
Cancel(t) == [op |-> "cancel", token |-> t]

DocumentInit ==
  /\ rev = 0
  /\ project \in Projects \cup {NoProject}
  /\ source \in [Projects -> Sources]

\* No view is mounted yet, and nothing has run.
TaskInit ==
  /\ rendered = 0
  /\ mounted = FALSE
  /\ tokenRef = NoToken
  /\ state = Idle
  /\ effectDue = FALSE
  /\ inflight = {}
  /\ lastToken = 0
  /\ switches = 0
  /\ running = FALSE
  /\ evidence = NoRevision
  /\ queue = <<>>
  /\ replies = {}
  /\ registry = {}
  /\ procs = {}
  /\ killed = {}
  /\ cwd = [t \in 1 .. MaxRuns |-> NoProject]
  /\ readBy = [t \in 1 .. MaxRuns |-> NoSource]
  /\ startedAt = [t \in 1 .. MaxRuns |-> NoRevision]

Init == DocumentInit /\ TaskInit

-----------------------------------------------------------------------------
(* Renderer: the hook *)

\* Variants: the cleanup forgets main; it forgets Escape's registry.
CancelNowhere ==
  /\ inflight' = inflight \ {tokenRef}
  /\ UNCHANGED queue

CancelInMainOnly ==
  /\ UNCHANGED inflight
  /\ queue' = IF tokenRef = NoToken THEN queue ELSE Append(queue, Cancel(tokenRef))

\* Cleanup of the [revision, api] effect: give up the call in flight.
CancelCurrent ==
  IF tokenRef = NoToken
    THEN UNCHANGED <<inflight, queue>>
    ELSE inflight' = inflight \ {tokenRef} /\ queue' = Append(queue, Cancel(tokenRef))

\* run(): supersede the call in flight and start another, at the revision of
\* the last render.
Run ==
  /\ mounted
  /\ lastToken < MaxRuns
  /\ LET token == lastToken + 1
         cancel == IF tokenRef = NoToken THEN <<>> ELSE <<Cancel(tokenRef)>>
     IN /\ lastToken' = token
        /\ tokenRef' = token
        /\ inflight' = (inflight \ {tokenRef}) \cup {token}
        /\ queue' = queue \o cancel \o <<Invoke(token)>>
        /\ state' = [status |-> "running", revision |-> rendered, token |-> token]
        /\ startedAt' = [startedAt EXCEPT ![token] = rev]
  /\ effectDue' = TRUE
  /\ UNCHANGED <<document, rendered, mounted, switches, session, replies, main>>

\* React renders the new revision; the old effect is cleaned up.
Render ==
  /\ mounted
  /\ rendered # rev
  /\ rendered' = rev
  /\ CancelCurrent
  /\ tokenRef' = NoToken
  /\ UNCHANGED <<document, mounted, state, effectDue, lastToken, switches, startedAt,
                 session, replies, main>>

Switch ==
  /\ switches < MaxRuns
  /\ switches' = switches + 1

\* The user switches to the view: a new instance of the hook.
Mount ==
  /\ ~mounted
  /\ Switch
  /\ mounted' = TRUE
  /\ rendered' = rev
  /\ state' = Idle
  /\ effectDue' = TRUE
  /\ UNCHANGED <<document, tokenRef, inflight, lastToken, startedAt, session, queue,
                 replies, main>>

\* ... and away from it.  An effect that has not run by then never does.
Unmount ==
  /\ mounted
  /\ Switch
  /\ mounted' = FALSE
  /\ CancelCurrent
  /\ tokenRef' = NoToken
  /\ effectDue' = FALSE
  /\ UNCHANGED <<document, rendered, state, lastToken, startedAt, session, replies, main>>

\* Variant: a result is stamped with the revision it arrives at.
SettledOnArrival(r) ==
  [status |-> IF r.outcome = "ok" THEN "success" ELSE "error",
   revision |-> rev, token |-> r.token]

\* The TaskState a settled call sets, with the revision run() captured (and
\* had put in the state when it set it to running).
Settled(r) ==
  [status |-> IF r.outcome = "ok" THEN "success" ELSE "error",
   revision |-> state.revision, token |-> r.token]

\* The guard of then, catch and finally: superseded calls are ignored.
Expected(r) == tokenRef = r.token

\* A call settles: with an envelope, or rejected because it was cancelled.
ReplyArrives ==
  \E r \in replies :
    /\ replies' = replies \ {r}
    /\ IF Expected(r)
         THEN /\ state' = Settled(r)
              /\ effectDue' = TRUE
              /\ inflight' = inflight \ {r.token}
         ELSE UNCHANGED <<state, effectDue, inflight>>
    /\ UNCHANGED <<document, rendered, mounted, tokenRef, lastToken, switches, startedAt,
                   session, queue, main>>

\* Variant: an attempt counts as evidence.
EvidenceOfAttempt == state.status # "idle"

\* BomView and VerificationPanel publish evidence of a success only.
IsEvidence == state.status = "success"

\* The view's effect publishes the task's state to the session stores.
Publish ==
  /\ effectDue
  /\ effectDue' = FALSE
  /\ running' = (state.status = "running")
  /\ evidence' = IF IsEvidence THEN state.revision ELSE evidence
  /\ UNCHANGED <<document, rendered, mounted, tokenRef, state, inflight, lastToken, switches,
                 startedAt, queue, replies, main>>

\* run.cancel (Escape): ask main to cancel every registered token (of one
\* task there is at most one, see InflightIsUnsettled).
Escape ==
  /\ inflight # {}
  /\ Switch
  /\ \E t \in inflight : queue' = Append(queue, Cancel(t))
  /\ UNCHANGED <<document, rendered, mounted, tokenRef, state, effectDue, inflight, lastToken,
                 startedAt, session, replies, main>>

-----------------------------------------------------------------------------
(* Main process: IPC handlers, CancelRegistry and runEnvelope *)

Handle(op) ==
  /\ queue # <<>>
  /\ Head(queue).op = op
  /\ queue' = Tail(queue)

Answer(t, outcome) == replies' = replies \cup {[token |-> t, outcome |-> outcome]}

\* invoke: register the call and spawn the core in the open project, or
\* refuse (there is no project open, or no executable).
HandleInvoke ==
  LET t == Head(queue).token
  IN /\ Handle("invoke")
     /\ \/ /\ project # NoProject
           /\ registry' = registry \cup {t}
           /\ procs' = procs \cup {t}
           /\ cwd' = [cwd EXCEPT ![t] = project]
           /\ UNCHANGED replies
        \/ Answer(t, "error") /\ UNCHANGED <<registry, procs, cwd>>
     /\ UNCHANGED <<document, hook, session, killed, readBy>>

\* CancelRegistry.cancel: reject the call and kill its process; an unknown or
\* settled token is ignored.
HandleCancel ==
  LET t == Head(queue).token
  IN /\ Handle("cancel")
     /\ IF t \in registry
          THEN /\ registry' = registry \ {t}
               /\ killed' = killed \cup {t}
               /\ Answer(t, "cancelled")
          ELSE UNCHANGED <<registry, killed, replies>>
     /\ UNCHANGED <<document, hook, session, procs, cwd, readBy>>

\* The core reads design.yaml, once.
CoreReads(t) ==
  /\ t \in procs
  /\ readBy[t] = NoSource
  /\ readBy' = [readBy EXCEPT ![t] = source[cwd[t]]]
  /\ UNCHANGED <<document, hook, session, queue, replies, registry, procs, killed, cwd>>

\* The process closes.  Killed, it says nothing: its call was settled.
ProcessCloses(t) ==
  /\ t \in procs
  /\ procs' = procs \ {t}
  /\ killed' = killed \ {t}
  /\ registry' = registry \ {t}
  /\ \/ t \in registry /\ readBy[t] # NoSource /\ Answer(t, "ok")
     \/ t \in registry /\ Answer(t, "error")
     \/ t \notin registry /\ UNCHANGED replies
  /\ UNCHANGED <<document, hook, session, queue, cwd, readBy>>

-----------------------------------------------------------------------------
(* The document changes: the text, the files, the open project. *)
DocumentChanges ==
  /\ \/ rev < MaxRevision /\ rev' = rev + 1
     \/ rev' = rev
  /\ project' \in Projects \cup {NoProject}
  /\ source' \in [Projects -> Sources]
  /\ UNCHANGED taskVars

TaskStep ==
  \/ Run
  \/ Render
  \/ Mount
  \/ Unmount
  \/ ReplyArrives
  \/ Publish
  \/ Escape
  \/ HandleInvoke
  \/ HandleCancel
  \/ \E t \in procs : CoreReads(t) \/ ProcessCloses(t)

Next == TaskStep \/ DocumentChanges

Spec == Init /\ [][Next]_vars

(***************************************************************************)
(* React renders, messages are delivered, and a killed process dies.  One  *)
(* that was not killed may run for as long as it likes.                    *)
(***************************************************************************)
TaskFairness ==
  /\ WF_vars(Render)
  /\ WF_vars(ReplyArrives)
  /\ WF_vars(Publish)
  /\ WF_vars(HandleInvoke)
  /\ WF_vars(HandleCancel)
  /\ \A t \in 1 .. MaxRuns : WF_vars(t \in killed /\ ProcessCloses(t))

FairSpec == Spec /\ TaskFairness

-----------------------------------------------------------------------------
(* Properties *)

Tokens == 1 .. lastToken
Revisions == Nat \cup {NoRevision}

\* Every variable holds a value of its kind.
TypeOK ==
  /\ rev \in Nat
  /\ project \in Projects \cup {NoProject}
  /\ source \in [Projects -> Sources]
  /\ rendered \in Nat
  /\ mounted \in BOOLEAN
  /\ tokenRef \in Tokens \cup {NoToken}
  /\ state \in [status : {"idle", "running", "success", "error"},
                revision : Revisions, token : Tokens \cup {NoToken}]
  /\ effectDue \in BOOLEAN
  /\ inflight \subseteq Tokens
  /\ lastToken \in 0 .. MaxRuns
  /\ switches \in Nat
  /\ running \in BOOLEAN
  /\ evidence \in Revisions
  /\ queue \in Seq([op : {"invoke", "cancel"}, token : Tokens])
  /\ replies \subseteq [token : Tokens, outcome : {"ok", "error", "cancelled"}]
  /\ registry \subseteq Tokens
  /\ procs \subseteq Tokens
  /\ killed \subseteq Tokens
  /\ cwd \in [1 .. MaxRuns -> Projects \cup {NoProject}]
  /\ readBy \in [1 .. MaxRuns -> Sources \cup {NoSource}]
  /\ startedAt \in [1 .. MaxRuns -> Revisions]

\* A call main holds that the view no longer waits for is about to be
\* cancelled: re-running, editing and leaving the view never strand a core
\* process, though the cancel may be sent before the call was handled.
SupersededRunsAreCancelled ==
  \A t \in registry : t = tokenRef \/ Cancel(t) \in Range(queue)

Unsettled(t) ==
  \/ Invoke(t) \in Range(queue)
  \/ t \in registry
  \/ \E r \in replies : r.token = t

\* Escape's registry holds the call the view waits for, exactly while it is
\* unsettled: Escape neither misses it nor cancels a token of the past.
InflightIsUnsettled ==
  inflight = {t \in {tokenRef} \ {NoToken} : Unsettled(t)}

\* A result that is not flagged as stale comes from a run started at the
\* revision it is shown against, and from the latest run, however late the
\* answers arrive and however often the run was superseded.
LiveResultIsOfThisRevision ==
  mounted /\ state.status = "success" =>
    /\ state.revision = rev => startedAt[state.token] = rev
    /\ tokenRef # NoToken => state.token = tokenRef

\* The strip paints Verify as done for this revision only if a run of the core
\* started at it read the source, and is over: verifySession.ts, "a run in this
\* session, for the current revision".
EvidenceIsReal ==
  evidence = rev =>
    \E t \in Tokens : startedAt[t] = rev /\ readBy[t] # NoSource /\ t \notin procs

\* A superseded process does not outlive its run for ever.
SupersededProcessesEnd ==
  \A t \in 1 .. MaxRuns : (t \in procs /\ t # tokenRef) ~> t \notin procs

\* What buildState.ts says of the flag: "Publish that a build is in flight (the
\* strip's running state)".  With no effect or render outstanding, the flag is
\* up only while some call is unsettled.
RunningMeansInFlight ==
  running /\ ~effectDue /\ rendered = rev => \E t \in Tokens : Unsettled(t)
=============================================================================
