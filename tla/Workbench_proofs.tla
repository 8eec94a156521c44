-------------------------- MODULE Workbench_proofs --------------------------
(* The document and the task together behave as RevisionedTask says: what   *)
(* is proved of the task against any document holds against this one.       *)
EXTENDS Workbench, SpecDocument_proofs

\* The revision counts up, one at a time.
LEMMA RevisionStep ==
  ASSUME [Next]_vars
  PROVE  rev' \in {rev, rev + 1}
<1> USE DEF renderer, channels, session, files
<1>1. \A t : ApplySpecText(t) => rev' = rev + 1
  BY DEF ApplySpecText
<1>2. CASE SetSpecText
  BY <1>1, <1>2 DEF SetSpecText
<1>3. CASE ReadReplyArrives
  BY <1>1, <1>3 DEF ReadReplyArrives
<1>4. CASE WriteTimerFires \/ OnProjectChanged \/ OnFileChanged \/ OnCurrentProject
  BY <1>4 DEF WriteTimerFires, OnProjectChanged, OnFileChanged, OnCurrentProject
<1>5. CASE MainStep \/ (UserStep /\ ~SetSpecText)
  BY <1>5 DEF MainStep, UserStep, HandleReadSpec, HandleWriteSpec, HandleCurrentProject,
     WatchTimerFires, StrayTimerFires, CloseProject, OpenProject, SaveProject
<1>6. CASE OutsideStep
  BY <1>6 DEF OutsideStep, ExternalStep, ExternalWrite, ExternalRemove, ExternalTouch
<1>7. CASE \E p \in Projects : AwaitReturns(p)
  BY <1>7 DEF AwaitReturns, OpenCompletes, OpenFails, SaveCompletes, SaveFails
<1>8. CASE UNCHANGED vars
  BY <1>8 DEF vars
<1> QED
  BY <1>2, <1>3, <1>4, <1>5, <1>6, <1>7, <1>8 DEF Next, RendererStep, UserStep

\* The task's steps are its own, and leave the document alone; the document's
\* are changes the task expects, as long as the revision is within its bound.
LEMMA TaskMapping ==
  ASSUME TypeOK, TypeOK', [WorkbenchNext]_workbenchVars, rev' \in 0 .. MaxRevision
  PROVE  [Task!Next]_(Task!vars)
<1> USE DEF renderer, session, files
<1>1. CASE DocumentStep
  <2>1. rev' \in {rev, rev + 1}
    BY <1>1, RevisionStep DEF DocumentStep
  <2>2. \/ rev < MaxRevision /\ rev' = rev + 1
        \/ rev' = rev
    BY <2>1, TaskAssumption DEF TypeOK
  <2>3. cur' \in Projects \cup {NoProject} /\ disk' \in [Projects -> Text \cup {NoText}]
    BY DEF TypeOK
  <2>4. UNCHANGED Task!taskVars
    BY <1>1 DEF DocumentStep, taskVars, Task!taskVars, Task!hook, Task!session, Task!main
  <2>5. Task!DocumentChanges
    BY <2>2, <2>3, <2>4 DEF Task!DocumentChanges
  <2> QED
    BY <2>5 DEF Task!Next
<1>2. CASE TaskStep
  BY <1>2 DEF TaskStep, Task!Next
<1>3. CASE UNCHANGED workbenchVars
  BY <1>3 DEF workbenchVars, vars, taskVars, Task!vars, Task!document, Task!taskVars,
     Task!hook, Task!session, Task!main
<1> QED
  BY <1>1, <1>2, <1>3 DEF WorkbenchNext

\* As long as the revision stays within RevisionedTask's bound, the workbench
\* implements it.
THEOREM WorkbenchImplementsTask ==
  WorkbenchSpec /\ [](rev \in 0 .. MaxRevision) => ImplementsTask
<1>1. WorkbenchInit => TypeOK /\ Task!Init
  <2> SUFFICES ASSUME WorkbenchInit PROVE TypeOK /\ Task!Init
    OBVIOUS
  <2>1. TypeOK
    BY TypeInit DEF WorkbenchInit
  <2>2. Task!DocumentInit
    BY <2>1 DEF WorkbenchInit, Init, Task!DocumentInit, TypeOK
  <2> QED
    BY <2>1, <2>2 DEF WorkbenchInit, Task!Init
<1>2. TypeOK /\ [WorkbenchNext]_workbenchVars => TypeOK'
  <2> SUFFICES ASSUME TypeOK, [WorkbenchNext]_workbenchVars PROVE TypeOK'
    OBVIOUS
  <2>1. [Next]_vars
    BY DEF WorkbenchNext, DocumentStep, TaskStep, workbenchVars
  <2> QED
    BY <2>1, TypeStep
<1>3. /\ TypeOK /\ TypeOK' /\ [WorkbenchNext]_workbenchVars /\ (rev \in 0 .. MaxRevision)'
        => [Task!Next]_(Task!vars)
  BY TaskMapping
<1> QED
  BY <1>1, <1>2, <1>3, PTL DEF WorkbenchSpec, ImplementsTask, Task!Spec

(***************************************************************************)
(* A mismatch is owed.  What RevisionedTask_proofs shows of the types of   *)
(* the task holds here: its steps are the task's.                          *)
(***************************************************************************)

TaskProofs == INSTANCE RevisionedTask_proofs
                WITH project <- cur, source <- disk, replies <- answers,
                     Sources <- Text \cup {NoText}

\* The two instances have the same steps.
LEMMA SameSteps == Task!TaskStep => TaskProofs!TaskStep
<1> USE DEF Task!document, TaskProofs!document, Task!hook, TaskProofs!hook,
            Task!session, TaskProofs!session, Task!main, TaskProofs!main,
            Task!Invoke, TaskProofs!Invoke, Task!Cancel, TaskProofs!Cancel,
            Task!CancelCurrent, TaskProofs!CancelCurrent, Task!Switch, TaskProofs!Switch,
            Task!Handle, TaskProofs!Handle, Task!Answer, TaskProofs!Answer,
            Task!Idle, TaskProofs!Idle
<1>1. Task!Run => TaskProofs!Run
  BY DEF Task!Run, TaskProofs!Run
<1>2. Task!Render => TaskProofs!Render
  BY DEF Task!Render, TaskProofs!Render
<1>3. Task!Mount => TaskProofs!Mount
  BY DEF Task!Mount, TaskProofs!Mount
<1>4. Task!Unmount => TaskProofs!Unmount
  BY DEF Task!Unmount, TaskProofs!Unmount
<1>5. Task!ReplyArrives => TaskProofs!ReplyArrives
  BY DEF Task!ReplyArrives, TaskProofs!ReplyArrives, Task!Expected, TaskProofs!Expected,
     Task!Settled, TaskProofs!Settled
<1>6. Task!Publish => TaskProofs!Publish
  BY DEF Task!Publish, TaskProofs!Publish, Task!IsEvidence, TaskProofs!IsEvidence
<1>7. Task!Escape => TaskProofs!Escape
  BY DEF Task!Escape, TaskProofs!Escape
<1>8. Task!HandleInvoke => TaskProofs!HandleInvoke
  BY DEF Task!HandleInvoke, TaskProofs!HandleInvoke
<1>9. Task!HandleCancel => TaskProofs!HandleCancel
  BY DEF Task!HandleCancel, TaskProofs!HandleCancel
<1>10. \A t \in procs : Task!CoreReads(t) => TaskProofs!CoreReads(t)
  BY DEF Task!CoreReads, TaskProofs!CoreReads
<1>11. \A t \in procs : Task!ProcessCloses(t) => TaskProofs!ProcessCloses(t)
  BY DEF Task!ProcessCloses, TaskProofs!ProcessCloses
<1> QED
  BY <1>1, <1>2, <1>3, <1>4, <1>5, <1>6, <1>7, <1>8, <1>9, <1>10, <1>11
     DEF Task!TaskStep, TaskProofs!TaskStep

\* The types of the task, as this module and its proofs name them.
LEMMA SameTypes ==
  /\ TaskTypes <=> TaskProofs!TypeInv
  /\ TaskTypes' <=> TaskProofs!TypeInv'
  BY DEF TaskTypes, TaskProofs!TypeInv, Task!TypeOK, TaskProofs!TypeOK,
     Task!Tokens, TaskProofs!Tokens, Task!Revisions, TaskProofs!Revisions

\* The task's variables keep their types, whatever the document does.
LEMMA TaskTypesStep ==
  ASSUME TypeOK, TypeOK', TaskTypes, [WorkbenchNext]_workbenchVars
  PROVE  TaskTypes'
<1>1. CASE TaskStep
  <2>1. TaskProofs!TypeInv /\ TaskProofs!Next
    BY <1>1, SameSteps, SameTypes DEF TaskStep, TaskProofs!Next
  <2>2. TaskProofs!TypeInv'
    BY <2>1, TaskProofs!TypeStep, TaskAssumption
  <2> QED
    BY <2>2, SameTypes
<1>2. CASE UNCHANGED taskVars
  <2>1. UNCHANGED <<rendered, mounted, tokenRef, state, effectDue, inflight, lastToken,
                    switches, running, evidence, queue, answers, registry, procs, killed,
                    cwd, readBy, startedAt>>
    BY <1>2 DEF taskVars
  <2>2. /\ rev' \in Nat /\ cur' \in Projects \cup {NoProject}
        /\ disk' \in [Projects -> Text \cup {NoText}]
    BY DEF TypeOK
  <2> QED
    BY <2>1, <2>2 DEF TaskTypes, Task!TypeOK, Task!Tokens, Task!Revisions
<1> QED
  BY <1>1, <1>2 DEF WorkbenchNext, DocumentStep, workbenchVars

\* What the lemmas below need of the types.
LEMMA TaskFacts ==
  ASSUME TaskTypes
  PROVE  /\ lastToken \in Nat /\ lastToken <= MaxRuns /\ MaxRuns \in Nat
         /\ rendered \in Nat /\ rev \in Nat
         /\ NoToken \notin Nat /\ NoRevision \notin Nat
         /\ NoSource \notin Text \cup {NoText}
         /\ startedAt \in [1 .. MaxRuns -> Nat \cup {NoRevision}]
         /\ readBy \in [1 .. MaxRuns -> Text \cup {NoText, NoSource}]
         /\ cwd \in [1 .. MaxRuns -> Projects \cup {NoProject}]
         /\ tokenRef \in 1 .. lastToken \cup {NoToken}
         /\ procs \subseteq 1 .. lastToken
         /\ procs \subseteq 1 .. MaxRuns
         /\ \A t \in procs : cwd[t] \in Projects
         /\ \A r \in answers : r.token \in 1 .. lastToken
         /\ \A t \in 1 .. lastToken : t \in 1 .. MaxRuns /\ t \in Nat
<1>1. /\ lastToken \in 0 .. MaxRuns /\ rendered \in Nat /\ rev \in Nat
      /\ startedAt \in [1 .. MaxRuns -> Nat \cup {NoRevision}]
      /\ readBy \in [1 .. MaxRuns -> Text \cup {NoText} \cup {NoSource}]
      /\ cwd \in [1 .. MaxRuns -> Projects \cup {NoProject}]
      /\ tokenRef \in 1 .. lastToken \cup {NoToken}
      /\ procs \subseteq 1 .. lastToken
      /\ \A t \in procs : cwd[t] \in Projects
      /\ answers \subseteq [token : 1 .. lastToken, outcome : {"ok", "error", "cancelled"}]
  BY DEF TaskTypes, Task!TypeOK, Task!Tokens, Task!Revisions
<1>2. /\ MaxRuns \in Nat /\ NoToken \notin Nat /\ NoRevision \notin Nat
      /\ NoSource \notin Text \cup {NoText}
  BY TaskAssumption
<1>3. lastToken \in Nat /\ lastToken <= MaxRuns
  BY <1>1, <1>2
<1>4. \A t \in 1 .. lastToken : t \in 1 .. MaxRuns /\ t \in Nat
  BY <1>2, <1>3
<1>5. \A r \in answers : r.token \in 1 .. lastToken
  BY <1>1
<1>6. readBy \in [1 .. MaxRuns -> Text \cup {NoText, NoSource}]
  BY <1>1
<1>7. procs \subseteq 1 .. MaxRuns
  BY <1>1, <1>4
<1> QED
  BY <1>1, <1>2, <1>3, <1>4, <1>5, <1>6, <1>7

\* A step of the task leaves the document alone, and with it what is owed.
LEMMA DocumentStands ==
  ASSUME UNCHANGED vars
  PROVE  /\ UNCHANGED <<text, rev, readSeq, cur, disk, rejected, toMain, replies>>
         /\ FileIsOpen' <=> FileIsOpen
         /\ WorkIsDue' <=> WorkIsDue
         /\ ReadIsDue' <=> ReadIsDue
<1>1. UNCHANGED <<text, pending, rev, readSeq, cur, disk, rejected, toMain, replies, inbox, armed>>
  BY DEF vars, renderer, channels, session, files
<1> QED
  BY <1>1 DEF FileIsOpen, WorkIsDue, WriteIsQueued, NotificationIsDue, ReadIsDue

\* Tokens of the future stay unread.
LEMMA FreshStep ==
  ASSUME TaskTypes, TokensAreFresh, Task!TaskStep
  PROVE  TokensAreFresh'
<1> USE DEF Task!hook, Task!main, Task!session, Task!document
<1>0. /\ lastToken \in Nat /\ MaxRuns \in Nat
      /\ readBy \in [1 .. MaxRuns -> Text \cup {NoText, NoSource}]
      /\ procs \subseteq 1 .. lastToken
  BY TaskFacts
<1>1. CASE UNCHANGED <<lastToken, readBy>>
  BY <1>1 DEF TokensAreFresh
<1>2. CASE Task!Run
  <2>1. lastToken' = lastToken + 1 /\ readBy' = readBy
    BY <1>2 DEF Task!Run
  <2> QED
    BY <1>0, <2>1 DEF TokensAreFresh
<1>3. ASSUME NEW t \in procs, Task!CoreReads(t)  PROVE TokensAreFresh'
  <2>1. lastToken' = lastToken /\ \A u \in 1 .. MaxRuns : u # t => readBy'[u] = readBy[u]
    BY <1>0, <1>3 DEF Task!CoreReads
  <2>2. \A u \in (lastToken + 1) .. MaxRuns : u \in 1 .. MaxRuns /\ u # t
    BY <1>0
  <2> QED
    BY <2>1, <2>2 DEF TokensAreFresh
<1>4. CASE Task!Render \/ Task!Mount \/ Task!Unmount \/ Task!ReplyArrives \/ Task!Publish
             \/ Task!Escape
  BY <1>1, <1>4 DEF Task!Render, Task!Mount, Task!Unmount, Task!ReplyArrives, Task!Publish,
     Task!Escape
<1>5. CASE Task!HandleInvoke \/ Task!HandleCancel \/ \E t \in procs : Task!ProcessCloses(t)
  BY <1>1, <1>5 DEF Task!HandleInvoke, Task!HandleCancel, Task!ProcessCloses
<1> QED
  BY <1>2, <1>3, <1>4, <1>5 DEF Task!TaskStep

\* Only the first read is quiet.
LEMMA QuietReadStep ==
  ASSUME TypeOK, OnlyTheFirstReadIsQuiet, [Next]_vars
  PROVE  OnlyTheFirstReadIsQuiet'
<1>1. CASE Quiet \/ BringsWork
  BY <1>1 DEF Quiet, BringsWork, KeepsReads, OnlyTheFirstReadIsQuiet
<1>2. CASE ReadSpecFromDisk(TRUE) /\ UNCHANGED replies
  <2> DEFINE m == [op |-> "readSpec", seq |-> readSeq + 1, mark |-> TRUE]
  <2>1. readSeq \in Nat /\ readSeq >= 1 /\ readSeq' = readSeq + 1
    BY <1>2 DEF TypeOK, OnlyTheFirstReadIsQuiet, ReadSpecFromDisk
  <2>2. m \in Request /\ m.mark
    <3>1. readSeq + 1 \in Nat
      BY <2>1
    <3> QED
      BY <3>1, RequestTypes
  <2>3. Range(toMain') = Range(toMain) \cup {m}
    BY <1>2, <2>2, RequestQueued DEF ReadSpecFromDisk
  <2>4. readSeq' >= 1
    BY <2>1
  <2> HIDE DEF m
  <2> QED
    BY <1>2, <2>2, <2>3, <2>4 DEF OnlyTheFirstReadIsQuiet
<1>3. CASE HandleReadSpec
  <2>1. /\ Head(toMain).op = "readSpec"
        /\ Range(toMain) = Range(toMain') \cup {Head(toMain)}
    BY <1>3, RequestTaken DEF HandleReadSpec
  <2>2. \E t : replies' = replies \cup
                 {[seq |-> Head(toMain).seq, mark |-> Head(toMain).mark, text |-> t]}
    BY <1>3 DEF HandleReadSpec
  <2>3. readSeq' = readSeq
    BY <1>3 DEF HandleReadSpec, renderer
  <2> QED
    BY <2>1, <2>2, <2>3 DEF OnlyTheFirstReadIsQuiet
<1>4. CASE ReadReplyArrives
  BY <1>4 DEF ReadReplyArrives, OnlyTheFirstReadIsQuiet
<1> QED
  BY <1>1, <1>2, <1>3, <1>4, StepKinds DEF StepKind

\* The runs and what they are shown against: no step of the task puts a result
\* on screen that its process did not read, or against a revision that is past
\* the one it was started at.
LEMMA RunsStep ==
  ASSUME TaskTypes, RunsAreOfThePast, TokensAreFresh, Task!TaskStep, UNCHANGED vars,
         disk \in [Projects -> Text \cup {NoText}]
  PROVE  RunsAreOfThePast'
<1> USE DEF Task!hook, Task!main, Task!session, Task!document
<1>0. /\ lastToken \in Nat /\ MaxRuns \in Nat /\ rendered \in Nat /\ rev \in Nat
      /\ NoToken \notin Nat /\ NoRevision \notin Nat
      /\ NoSource \notin Text \cup {NoText}
      /\ startedAt \in [1 .. MaxRuns -> Nat \cup {NoRevision}]
      /\ readBy \in [1 .. MaxRuns -> Text \cup {NoText, NoSource}]
      /\ tokenRef \in 1 .. lastToken \cup {NoToken}
      /\ procs \subseteq 1 .. MaxRuns
      /\ \A t \in procs : cwd[t] \in Projects
      /\ \A r \in answers : r.token \in 1 .. lastToken
      /\ \A t \in 1 .. lastToken : t \in 1 .. MaxRuns /\ t \in Nat
      /\ rev' = rev
  BY TaskFacts DEF vars, renderer
\* Neither the runs nor what is shown of them changes.
<1>a. ASSUME UNCHANGED <<startedAt, state>>, rendered' \in {rendered, rev},
             tokenRef' \in {tokenRef, NoToken}, mounted' \/ tokenRef' = NoToken,
             UNCHANGED <<answers, readBy>>
      PROVE  RunsAreOfThePast'
  <2>1. rendered' <= rev
    BY <1>0, <1>a DEF RunsAreOfThePast
  <2> QED
    BY <1>0, <1>a, <2>1 DEF RunsAreOfThePast
\* An answer is on its way.
<1>b. ASSUME UNCHANGED <<startedAt, state, rendered, tokenRef, mounted>>,
             \A t \in 1 .. MaxRuns : readBy[t] # NoSource => readBy'[t] # NoSource,
             \A r \in answers' : r.outcome = "ok" => r \in answers \/ readBy'[r.token] # NoSource
      PROVE  RunsAreOfThePast'
  <2>1. \A r \in answers' : r.outcome = "ok" => readBy'[r.token] # NoSource
    BY <1>0, <1>b DEF RunsAreOfThePast
  <2>2. state.status = "success" => readBy'[state.token] # NoSource
    BY <1>b DEF RunsAreOfThePast
  <2> QED
    BY <1>0, <1>b, <2>1, <2>2 DEF RunsAreOfThePast
<1>1. CASE Task!Run
  <2> DEFINE new == lastToken + 1
             begun == [status |-> "running", revision |-> rendered, token |-> new]
  <2>1. /\ tokenRef' = new /\ state' = begun /\ mounted
        /\ startedAt' = [startedAt EXCEPT ![new] = rev]
        /\ UNCHANGED <<rendered, mounted, answers, readBy>>
        /\ lastToken < MaxRuns
    BY <1>1 DEF Task!Run
  <2>2. new \in 1 .. MaxRuns
    BY <1>0, <2>1
  <2>3. /\ startedAt'[new] = rev
        /\ \A t \in 1 .. MaxRuns : t # new => startedAt'[t] = startedAt[t]
    BY <1>0, <2>1, <2>2
  <2>4. /\ begun.status = "running" /\ begun.status # "idle" /\ begun.status # "success"
        /\ begun.token = new /\ begun.revision = rendered
    OBVIOUS
  <2> HIDE DEF new, begun
  <2>5. \A t \in 1 .. MaxRuns : startedAt'[t] # NoRevision => startedAt'[t] <= rev
    BY <1>0, <2>3 DEF RunsAreOfThePast
  <2> QED
    BY <1>0, <2>1, <2>2, <2>3, <2>4, <2>5 DEF RunsAreOfThePast
<1>2. CASE Task!Render
  BY <1>a, <1>2 DEF Task!Render
<1>3. CASE Task!Mount
  <2>1. /\ ~mounted /\ mounted' /\ rendered' = rev /\ state' = Task!Idle
        /\ UNCHANGED <<tokenRef, startedAt, answers, readBy>>
    BY <1>3 DEF Task!Mount
  <2>2. tokenRef = NoToken /\ state'.status = "idle"
    BY <2>1 DEF RunsAreOfThePast, Task!Idle
  <2>3. rev <= rev
    BY <1>0
  <2> QED
    BY <1>0, <2>1, <2>2, <2>3 DEF RunsAreOfThePast
<1>4. CASE Task!Unmount
  BY <1>a, <1>4 DEF Task!Unmount
<1>5. CASE Task!ReplyArrives
  <2>1. PICK r \in answers :
          /\ answers' = answers \ {r}
          /\ IF Task!Expected(r) THEN state' = Task!Settled(r) ELSE state' = state
    BY <1>5 DEF Task!ReplyArrives
  <2>2. UNCHANGED <<rendered, mounted, tokenRef, startedAt, readBy>>
    BY <1>5 DEF Task!ReplyArrives
  <2>3. CASE ~Task!Expected(r)
    BY <1>b, <2>1, <2>2, <2>3
  <2>4. CASE Task!Expected(r)
    <3>1. tokenRef = r.token /\ tokenRef # NoToken
      BY <1>0, <2>4 DEF Task!Expected
    <3>2. state.token = tokenRef /\ state.status # "idle"
      BY <3>1 DEF RunsAreOfThePast
    <3>3. /\ state'.token = state.token /\ state'.revision = state.revision
          /\ state'.status # "idle"
          /\ state'.status = "success" => r.outcome = "ok"
      BY <2>1, <2>4, <3>1, <3>2 DEF Task!Settled
    <3>4. state'.status = "success" => readBy[state.token] # NoSource
      BY <3>1, <3>2, <3>3 DEF RunsAreOfThePast
    <3> QED
      BY <1>0, <2>1, <2>2, <3>2, <3>3, <3>4 DEF RunsAreOfThePast
  <2> QED
    BY <2>3, <2>4
<1>6. CASE Task!Publish
  <2>1. UNCHANGED <<startedAt, state, rendered, tokenRef, mounted, answers, readBy>>
    BY <1>6 DEF Task!Publish
  <2> QED
    BY <1>b, <2>1
<1>7. CASE Task!Escape
  <2>1. UNCHANGED <<startedAt, state, rendered, tokenRef, mounted, answers, readBy>>
    BY <1>7 DEF Task!Escape
  <2> QED
    BY <1>b, <2>1
<1>8. ASSUME NEW t, NEW outcome, Task!Answer(t, outcome), NEW r \in answers'
      PROVE  r \in answers \/ (r.outcome = outcome /\ r.token = t)
  <2> DEFINE a == [token |-> t, outcome |-> outcome]
  <2>1. answers' = answers \cup {a} /\ a.token = t /\ a.outcome = outcome
    BY <1>8 DEF Task!Answer
  <2> HIDE DEF a
  <2> QED
    BY <1>8, <2>1
<1>9. CASE Task!HandleInvoke
  <2>1. UNCHANGED <<startedAt, state, rendered, tokenRef, mounted, readBy>>
    BY <1>9 DEF Task!HandleInvoke
  <2>2. \A r \in answers' : r \in answers \/ r.outcome = "error"
    BY <1>8, <1>9 DEF Task!HandleInvoke
  <2> QED
    BY <1>b, <2>1, <2>2
<1>10. CASE Task!HandleCancel
  <2>1. UNCHANGED <<startedAt, state, rendered, tokenRef, mounted, readBy>>
    BY <1>10 DEF Task!HandleCancel
  <2>2. \A r \in answers' : r \in answers \/ r.outcome = "cancelled"
    BY <1>8, <1>10 DEF Task!HandleCancel
  <2> QED
    BY <1>b, <2>1, <2>2
<1>11. ASSUME NEW t \in procs, Task!CoreReads(t)  PROVE RunsAreOfThePast'
  <2>1. UNCHANGED <<startedAt, state, rendered, tokenRef, mounted, answers>>
    BY <1>11 DEF Task!CoreReads
  <2>2. disk[cwd[t]] # NoSource
    BY <1>0
  <2>3. \A u \in 1 .. MaxRuns : readBy[u] # NoSource => readBy'[u] # NoSource
    BY <1>0, <1>11, <2>2 DEF Task!CoreReads
  <2> QED
    BY <1>b, <2>1, <2>3
<1>12. ASSUME NEW t \in procs, Task!ProcessCloses(t)  PROVE RunsAreOfThePast'
  <2>1. UNCHANGED <<startedAt, state, rendered, tokenRef, mounted, readBy>>
    BY <1>12 DEF Task!ProcessCloses
  <2>2. \/ readBy[t] # NoSource /\ Task!Answer(t, "ok")
        \/ Task!Answer(t, "error")
        \/ answers' = answers
    BY <1>12 DEF Task!ProcessCloses
  <2>3. \A r \in answers' : r.outcome = "ok" => r \in answers \/ readBy[r.token] # NoSource
    <3>1. CASE readBy[t] # NoSource /\ Task!Answer(t, "ok")
      BY <1>8, <3>1
    <3>2. CASE Task!Answer(t, "error")
      BY <1>8, <3>2
    <3> QED
      BY <2>2, <3>1, <3>2
  <2> QED
    BY <1>b, <2>1, <2>3
<1> QED
  BY <1>1, <1>2, <1>3, <1>4, <1>5, <1>6, <1>7, <1>9, <1>10, <1>11, <1>12 DEF Task!TaskStep

\* Nor does a step of the document: the revision only counts up.
LEMMA RunsStand ==
  ASSUME TaskTypes, RunsAreOfThePast, UNCHANGED taskVars, [Next]_vars
  PROVE  RunsAreOfThePast'
<1>1. UNCHANGED <<rendered, mounted, tokenRef, state, answers, readBy, startedAt>>
  BY DEF taskVars
<1>2. rev \in Nat /\ rev' \in {rev, rev + 1} /\ rendered \in Nat
  BY TaskFacts, RevisionStep
<1>3. rendered' <= rev'
  BY <1>1, <1>2 DEF RunsAreOfThePast
<1>4. ASSUME NEW t \in 1 .. MaxRuns, startedAt[t] # NoRevision  PROVE startedAt[t] <= rev'
  <2>1. startedAt[t] \in Nat
    BY <1>4, TaskFacts
  <2> QED
    BY <1>2, <1>4, <2>1 DEF RunsAreOfThePast
<1> QED
  BY <1>1, <1>3, <1>4 DEF RunsAreOfThePast

\* What a process reads, and where: none comes to read another text than that
\* of the open file unless something is owed.
LEMMA ReadingByTask ==
  ASSUME TaskTypes, ReadingIsOwed, TokensAreFresh, Task!TaskStep, UNCHANGED vars,
         cur \in Projects \cup {NoProject}
  PROVE  ReadingIsOwed'
<1> USE DEF Task!hook, Task!main, Task!session, Task!document
<1>0. /\ lastToken \in Nat /\ MaxRuns \in Nat
      /\ startedAt \in [1 .. MaxRuns -> Nat \cup {NoRevision}]
      /\ readBy \in [1 .. MaxRuns -> Text \cup {NoText, NoSource}]
      /\ cwd \in [1 .. MaxRuns -> Projects \cup {NoProject}]
      /\ procs \subseteq 1 .. lastToken
      /\ procs \subseteq 1 .. MaxRuns
  BY TaskFacts
<1>1. /\ UNCHANGED <<rev, readSeq, cur, disk, rejected>>
      /\ FileIsOpen' <=> FileIsOpen
      /\ WorkIsDue' <=> WorkIsDue
      /\ ReadIsDue' <=> ReadIsDue
  BY DocumentStands
<1>2. SUFFICES ASSUME NEW t \in 1 .. MaxRuns, FileIsOpen, ReadsAnother(t)'
               PROVE  ReadsAnother(t)
  BY <1>1 DEF ReadingIsOwed
<1>3. CASE UNCHANGED <<startedAt, readBy, cwd>> /\ procs' \subseteq procs
  BY <1>1, <1>2, <1>3 DEF ReadsAnother
<1>4. CASE Task!Run
  <2> DEFINE new == lastToken + 1
  <2>1. /\ startedAt' = [startedAt EXCEPT ![new] = rev]
        /\ UNCHANGED <<readBy, cwd, procs>>
    BY <1>4 DEF Task!Run
  <2>2. new \notin procs /\ (new \in 1 .. MaxRuns => readBy[new] = NoSource)
    BY <1>0 DEF TokensAreFresh
  <2> HIDE DEF new
  <2>3. t # new
    BY <1>1, <1>2, <2>1, <2>2 DEF ReadsAnother
  <2> QED
    BY <1>0, <1>1, <1>2, <2>1, <2>3 DEF ReadsAnother
<1>5. CASE Task!HandleInvoke
  <2> DEFINE u == Head(queue).token
  <2>1. \/ /\ procs' = procs \cup {u} /\ cwd' = [cwd EXCEPT ![u] = cur]
           /\ UNCHANGED <<startedAt, readBy>>
        \/ UNCHANGED <<startedAt, readBy, cwd, procs>>
    BY <1>5 DEF Task!HandleInvoke
  <2> HIDE DEF u
  <2> QED
    BY <1>0, <1>1, <1>2, <2>1 DEF ReadsAnother
<1>6. ASSUME NEW u \in procs, Task!CoreReads(u)  PROVE ReadsAnother(t)
  <2>1. /\ readBy[u] = NoSource /\ readBy' = [readBy EXCEPT ![u] = disk[cwd[u]]]
        /\ UNCHANGED <<startedAt, cwd, procs>>
    BY <1>6 DEF Task!CoreReads
  <2> QED
    BY <1>0, <1>1, <1>2, <2>1 DEF ReadsAnother
<1>7. CASE Task!Render \/ Task!Mount \/ Task!Unmount \/ Task!ReplyArrives \/ Task!Publish
             \/ Task!Escape
  BY <1>3, <1>7 DEF Task!Render, Task!Mount, Task!Unmount, Task!ReplyArrives, Task!Publish,
     Task!Escape
<1>8. CASE Task!HandleCancel \/ \E u \in procs : Task!ProcessCloses(u)
  BY <1>3, <1>8 DEF Task!HandleCancel, Task!ProcessCloses
<1> QED
  BY <1>4, <1>5, <1>6, <1>7, <1>8 DEF Task!TaskStep

\* The document may change under a run of this revision; but then work is due,
\* or a read that will bump the revision, or it has been bumped.
LEMMA ReadingByDocument ==
  ASSUME TypeOK, TaskTypes, ReadingIsOwed, RunsAreOfThePast, OnlyTheFirstReadIsQuiet,
         [Next]_vars, UNCHANGED taskVars
  PROVE  ReadingIsOwed'
<1> USE DEF renderer, session, files
<1>1. UNCHANGED <<startedAt, readBy, cwd, procs>>
  BY DEF taskVars
<1>2. /\ rev \in Nat /\ NoRevision \notin Nat
      /\ startedAt \in [1 .. MaxRuns -> Nat \cup {NoRevision}]
  BY TaskFacts
\* No run was started at a revision that has just come about.
<1>3. ASSUME rev' = rev + 1  PROVE ReadingIsOwed'
  <2> SUFFICES ASSUME NEW t \in 1 .. MaxRuns, startedAt[t] = rev'  PROVE FALSE
    BY <1>1 DEF ReadingIsOwed, ReadsAnother
  <2>1. startedAt[t] <= rev
    BY <1>2, <1>3 DEF RunsAreOfThePast
  <2> QED
    BY <1>2, <1>3, <2>1
<1>4. CASE Quiet
  <2>1. FileIsOpen' => FileIsOpen
    BY <1>4 DEF Quiet, FileIsOpen
  <2>2. FileIsOpen' /\ ReadIsDue => ReadIsDue'
    BY <1>4 DEF Quiet, ReadIsDue, FileIsOpen
  <2>3. \A t \in 1 .. MaxRuns : FileIsOpen' /\ ReadsAnother(t)' => ReadsAnother(t)
    BY <1>1, <1>4 DEF Quiet, ReadsAnother, FileIsOpen
  <2> QED
    BY <1>4, <2>1, <2>2, <2>3 DEF ReadingIsOwed, Quiet
<1>5. CASE BringsWork
  BY <1>5 DEF BringsWork, ReadingIsOwed
<1>6. CASE ReadSpecFromDisk(TRUE) /\ UNCHANGED replies
  <2> DEFINE m == [op |-> "readSpec", seq |-> readSeq + 1, mark |-> TRUE]
  <2>1. readSeq \in Nat /\ readSeq' = readSeq + 1 /\ readSeq' > 1
    BY <1>6 DEF ReadSpecFromDisk, OnlyTheFirstReadIsQuiet, TypeOK
  <2>2. m \in Request /\ m.op = "readSpec" /\ m.seq = readSeq'
    <3>1. readSeq + 1 \in Nat
      BY <2>1
    <3> QED
      BY <2>1, <3>1, RequestTypes
  <2>3. Range(toMain') = Range(toMain) \cup {m}
    BY <1>6, <2>2, RequestQueued DEF ReadSpecFromDisk
  <2> HIDE DEF m
  <2>4. ReadIsDue'
    BY <2>2, <2>3 DEF ReadIsDue
  <2> QED
    BY <2>1, <2>4 DEF ReadingIsOwed
<1>7. CASE HandleReadSpec
  <2> DEFINE m == Head(toMain)
             r == [seq |-> m.seq, mark |-> m.mark,
                   text |-> IF cur = NoProject THEN NoText ELSE disk[cur]]
  <2>1. m.op = "readSpec" /\ Range(toMain) = Range(toMain') \cup {m}
    BY <1>7, RequestTaken DEF HandleReadSpec
  <2>2. /\ replies' = replies \cup {r}
        /\ UNCHANGED <<pending, rev, readSeq, inbox, cur, armed, disk, rejected>>
    BY <1>7 DEF HandleReadSpec
  <2>3. r.seq = m.seq /\ (FileIsOpen => r.text = disk[cur])
    BY DEF FileIsOpen
  <2> HIDE DEF m, r
  <2>4. WorkIsDue => WorkIsDue'
    BY <2>1, <2>2 DEF WorkIsDue, WriteIsQueued, NotificationIsDue
  <2>5. FileIsOpen' => FileIsOpen
    BY <2>2 DEF FileIsOpen
  <2>6. FileIsOpen /\ ReadIsDue => ReadIsDue'
    BY <2>1, <2>2, <2>3 DEF ReadIsDue
  <2>7. \A t \in 1 .. MaxRuns : ReadsAnother(t)' => ReadsAnother(t)
    BY <1>1, <2>2 DEF ReadsAnother
  <2> QED
    BY <2>2, <2>4, <2>5, <2>6, <2>7 DEF ReadingIsOwed
<1>8. CASE ReadReplyArrives
  <2>1. PICK r \in replies :
          /\ replies' = replies \ {r}
          /\ IF IsCurrent(r) /\ r.text # NoText
               THEN IF r.mark THEN ApplySpecText(r.text)
                              ELSE text' = r.text /\ UNCHANGED <<stale, rev>>
               ELSE UNCHANGED <<text, stale, rev>>
    BY <1>8 DEF ReadReplyArrives
  <2>2. UNCHANGED <<pending, readSeq, toMain, inbox, cur, armed, disk, rejected>>
    BY <1>8 DEF ReadReplyArrives
  <2>3. CASE r.seq = readSeq /\ r.text # NoText /\ r.mark
    BY <1>3, <2>1, <2>3 DEF ApplySpecText, IsCurrent
  <2>4. CASE ~(r.seq = readSeq /\ r.text # NoText /\ r.mark)
    <3>1. rev' = rev
      BY <2>1, <2>4 DEF IsCurrent
    <3>2. (WorkIsDue <=> WorkIsDue') /\ (FileIsOpen <=> FileIsOpen')
      BY <2>2 DEF WorkIsDue, WriteIsQueued, NotificationIsDue, FileIsOpen
    <3>3. FileIsOpen /\ readSeq > 1 /\ ReadIsDue => ReadIsDue'
      <4> SUFFICES ASSUME FileIsOpen, readSeq > 1, ReadIsDue  PROVE ReadIsDue'
        OBVIOUS
      <4>1. r.seq = readSeq => r.mark
        BY DEF OnlyTheFirstReadIsQuiet
      <4>2. ~(r.seq = readSeq /\ r.text = disk[cur])
        BY <2>4, <4>1 DEF FileIsOpen
      <4> QED
        BY <2>1, <2>2, <4>2 DEF ReadIsDue
    <3>4. \A t \in 1 .. MaxRuns : ReadsAnother(t)' => ReadsAnother(t)
      BY <1>1, <2>2, <3>1 DEF ReadsAnother
    <3> QED
      BY <2>2, <3>2, <3>3, <3>4 DEF ReadingIsOwed
  <2> QED
    BY <2>3, <2>4
<1> QED
  BY <1>4, <1>5, <1>6, <1>7, <1>8, StepKinds DEF StepKind

\* Together they are inductive.
LEMMA WorkbenchInvStep == WorkbenchInv /\ [WorkbenchNext]_workbenchVars => WorkbenchInv'
<1> SUFFICES ASSUME WorkbenchInv, [WorkbenchNext]_workbenchVars PROVE WorkbenchInv'
  OBVIOUS
<1>1. /\ IInv /\ TaskTypes /\ ReadingIsOwed /\ OnlyTheFirstReadIsQuiet
      /\ RunsAreOfThePast /\ TokensAreFresh
  BY DEF WorkbenchInv
<1>2. [Next]_vars
  BY DEF WorkbenchNext, DocumentStep, TaskStep, workbenchVars
<1>3. IInv' /\ TypeOK /\ TypeOK'
  <2>1. IInv'
    BY <1>1, <1>2, InvStep
  <2> QED
    BY <1>1, <2>1 DEF IInv
<1>4. TaskTypes' /\ OnlyTheFirstReadIsQuiet'
  BY <1>1, <1>2, <1>3, TaskTypesStep, QuietReadStep
<1>5. CASE UNCHANGED taskVars
  <2>1. ReadingIsOwed' /\ RunsAreOfThePast'
    BY <1>1, <1>2, <1>3, <1>5, ReadingByDocument, RunsStand
  <2>2. TokensAreFresh'
    BY <1>1, <1>5 DEF taskVars, TokensAreFresh
  <2> QED
    BY <1>3, <1>4, <2>1, <2>2 DEF WorkbenchInv
<1>6. CASE TaskStep
  <2>1. /\ Task!TaskStep /\ UNCHANGED vars
        /\ cur \in Projects \cup {NoProject} /\ disk \in [Projects -> Text \cup {NoText}]
    BY <1>3, <1>6 DEF TaskStep, TypeOK
  <2>2. ReadingIsOwed' /\ RunsAreOfThePast' /\ TokensAreFresh'
    BY <1>1, <2>1, ReadingByTask, RunsStep, FreshStep
  <2> QED
    BY <1>3, <1>4, <2>2 DEF WorkbenchInv
<1> QED
  BY <1>5, <1>6 DEF WorkbenchNext, DocumentStep, workbenchVars

\* Nothing has run at first, and the read made on mount is the only one.
LEMMA WorkbenchInvInit == WorkbenchInit => WorkbenchInv
<1> SUFFICES ASSUME WorkbenchInit PROVE WorkbenchInv
  OBVIOUS
<1>1. IInv /\ TypeOK
  BY InvInit, TypeInit DEF WorkbenchInit
<1>2. Init /\ Task!TaskInit /\ MaxRuns \in Nat /\ NoToken \notin Nat /\ NoRevision \notin Nat
  BY TaskAssumption DEF WorkbenchInit
<1> USE DEF Task!TaskInit
<1>3. TaskTypes
  <2>1. queue \in Seq([op : {"invoke", "cancel"}, token : Task!Tokens])
    BY <1>2
  <2>2. state \in [status : {"idle", "running", "success", "error"},
                   revision : Task!Revisions, token : Task!Tokens \cup {NoToken}]
    BY <1>2 DEF Task!Idle, Task!Revisions
  <2>3. /\ cwd \in [1 .. MaxRuns -> Projects \cup {NoProject}]
        /\ readBy \in [1 .. MaxRuns -> (Text \cup {NoText}) \cup {NoSource}]
        /\ startedAt \in [1 .. MaxRuns -> Task!Revisions]
    BY <1>2 DEF Task!Revisions
  <2>4. /\ rev \in Nat /\ cur \in Projects \cup {NoProject}
        /\ disk \in [Projects -> Text \cup {NoText}]
    BY <1>1 DEF TypeOK
  <2>5. evidence \in Task!Revisions
    BY <1>2 DEF Task!Revisions
  <2>6. lastToken \in 0 .. MaxRuns /\ rendered \in Nat /\ switches \in Nat
    BY <1>2
  <2>7. answers \subseteq [token : Task!Tokens, outcome : {"ok", "error", "cancelled"}]
    BY <1>2
  <2>8. /\ mounted \in BOOLEAN /\ effectDue \in BOOLEAN /\ running \in BOOLEAN
        /\ tokenRef \in Task!Tokens \cup {NoToken}
        /\ inflight = {} /\ registry = {} /\ procs = {} /\ killed = {}
    BY <1>2
  <2> QED
    BY <2>1, <2>2, <2>3, <2>4, <2>5, <2>6, <2>7, <2>8 DEF TaskTypes, Task!TypeOK
<1>4. ReadingIsOwed
  <2>1. \A t \in 1 .. MaxRuns : startedAt[t] # rev
    BY <1>2 DEF Init
  <2> QED
    BY <2>1 DEF ReadingIsOwed, ReadsAnother
<1>5. OnlyTheFirstReadIsQuiet
  <2> DEFINE m == [op |-> "readSpec", seq |-> 1, mark |-> FALSE]
  <2>1. toMain = <<[op |-> "currentProject"], m>> /\ readSeq = 1 /\ replies = {}
    BY <1>2 DEF Init
  <2>2. Range(toMain) = {[op |-> "currentProject"], m}
    <3>1. DOMAIN toMain = {1, 2} /\ toMain[1] = [op |-> "currentProject"] /\ toMain[2] = m
      BY <2>1
    <3> QED
      BY <3>1 DEF Range
  <2>3. \A n \in Range(toMain) : n.op = "readSpec" => ~(n.seq > 1)
    BY <2>2
  <2> QED
    BY <2>1, <2>3 DEF OnlyTheFirstReadIsQuiet
<1>6. RunsAreOfThePast
  BY <1>2 DEF RunsAreOfThePast, Init, Task!Idle
<1>7. TokensAreFresh
  BY <1>2 DEF TokensAreFresh
<1> QED
  BY <1>1, <1>3, <1>4, <1>5, <1>6, <1>7 DEF WorkbenchInv

\* A live result of another text than the one on screen is owed its flag: the
\* run was started at this revision, so had nothing been owed, the process
\* would have read the open file, which would have been the text.
LEMMA OwedByInvariant == WorkbenchInv => MismatchIsOwed
<1> SUFFICES ASSUME WorkbenchInv, LiveMismatch, FileIsOpen, ~rejected, ~WorkIsDue, ~ReadIsDue
             PROVE  FALSE
  BY DEF MismatchIsOwed
<1> DEFINE t == state.token
<1>1. /\ IInv /\ TaskTypes /\ ReadingIsOwed /\ RunsAreOfThePast
  BY DEF WorkbenchInv
<1>2. /\ state.status = "success" /\ state.revision = rev /\ readBy[t] # text
  BY DEF LiveMismatch, IsLive
<1>3. /\ t \in 1 .. MaxRuns /\ startedAt[t] \in Nat /\ startedAt[t] # NoRevision
      /\ state.revision <= startedAt[t] /\ startedAt[t] <= rev
      /\ readBy[t] # NoSource /\ rev \in Nat
  BY <1>1, <1>2, TaskFacts DEF RunsAreOfThePast
<1>4. startedAt[t] = rev
  BY <1>2, <1>3
<1>5. readBy[t] = disk[cur]
  BY <1>1, <1>3, <1>4 DEF ReadingIsOwed, ReadsAnother
<1>6. text = disk[cur]
  BY <1>1 DEF IInv, DivergenceIsOwed
<1> QED
  BY <1>2, <1>5, <1>6

\* Whatever is typed, written, opened and run, and for any number of revisions
\* and runs: no result of another text than the one on screen is left standing.
THEOREM MismatchAlwaysOwed == WorkbenchSpec => []MismatchIsOwed
<1> QED
  BY WorkbenchInvInit, WorkbenchInvStep, OwedByInvariant, PTL DEF WorkbenchSpec
=============================================================================
