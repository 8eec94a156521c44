------------------------ MODULE RevisionedTask_proofs ------------------------
(* Proofs about RevisionedTask, for any projects, sources and bounds.       *)
EXTENDS RevisionedTask, DataLemmas

(***************************************************************************)
(* Type correctness                                                        *)
(***************************************************************************)

Message == [op : {"invoke", "cancel"}, token : Tokens]

\* A process was started in a project that was open, so what it reads is the
\* source of a project.
TypeInv ==
  /\ TypeOK
  /\ \A t \in procs : cwd[t] \in Projects

\* Tokens are numbers, and none is NoToken.
LEMMA TokenTypes ==
  TypeOK => /\ lastToken \in Nat /\ MaxRuns \in Nat /\ lastToken <= MaxRuns
            /\ Tokens \subseteq 1 .. MaxRuns /\ Tokens \subseteq Nat
            /\ NoToken \notin Tokens /\ lastToken + 1 \notin Tokens
            /\ queue \in Seq(Message)
  BY NullAssumption, BoundsAssumption DEF TypeOK, Tokens, Message

\* The messages of the queue, and what main may rely on in them.
LEMMA MessageTypes ==
  /\ \A t \in Tokens : Invoke(t) \in Message /\ Cancel(t) \in Message
  /\ \A m \in Message : m.op \in {"invoke", "cancel"} /\ m.token \in Tokens
  /\ \A t : Invoke(t).op = "invoke" /\ Invoke(t).token = t
  /\ \A t : Cancel(t).op = "cancel" /\ Cancel(t).token = t
  /\ \A m \in Message : m.op = "invoke" => m = Invoke(m.token)
  /\ \A m \in Message : m.op = "cancel" => m = Cancel(m.token)
  BY DEF Message, Invoke, Cancel

\* What giving up the call in flight does to the queue.
LEMMA CancelCurrentTypes ==
  ASSUME TypeOK, CancelCurrent
  PROVE  /\ inflight' \subseteq inflight
         /\ queue' \in Seq(Message)
         /\ tokenRef = NoToken => queue' = queue /\ inflight' = inflight
         /\ tokenRef # NoToken => /\ queue' = Append(queue, Cancel(tokenRef))
                                  /\ inflight' = inflight \ {tokenRef}
                                  /\ tokenRef \in Tokens
<1>1. queue \in Seq(Message) /\ tokenRef \in Tokens \cup {NoToken}
  BY TokenTypes DEF TypeOK
<1>2. CASE tokenRef = NoToken
  BY <1>1, <1>2 DEF CancelCurrent
<1>3. CASE tokenRef # NoToken
  <2>1. tokenRef \in Tokens /\ Cancel(tokenRef) \in Message
    BY <1>1, <1>3, MessageTypes
  <2>2. /\ queue' = Append(queue, Cancel(tokenRef))
        /\ inflight' = inflight \ {tokenRef}
    BY <1>3 DEF CancelCurrent
  <2>3. queue' \in Seq(Message)
    BY <1>1, <2>1, <2>2, AppendPositions
  <2> QED
    BY <1>3, <2>1, <2>2, <2>3
<1> QED
  BY <1>2, <1>3

\* run() makes a token that was never used, and queues its call behind the
\* cancel of the call it supersedes.
LEMMA RunEffect ==
  ASSUME TypeOK, Run
  PROVE  LET new == lastToken + 1
             given == IF tokenRef = NoToken THEN queue ELSE Append(queue, Cancel(tokenRef))
         IN /\ new \in 1 .. MaxRuns /\ new \in Nat /\ new \notin Tokens
            /\ Tokens' = Tokens \cup {new}
            /\ tokenRef' = new /\ lastToken' = new
            /\ inflight' = (inflight \ {tokenRef}) \cup {new}
            /\ given \in Seq(Message)
            /\ queue' = Append(given, Invoke(new))
<1> DEFINE new == lastToken + 1
<1> DEFINE given == IF tokenRef = NoToken THEN queue ELSE Append(queue, Cancel(tokenRef))
<1>1. /\ queue \in Seq(Message) /\ tokenRef \in Tokens \cup {NoToken}
      /\ lastToken \in Nat /\ MaxRuns \in Nat
  BY TokenTypes DEF TypeOK
<1>2. new \in 1 .. MaxRuns /\ new \in Nat /\ new \notin Tokens
  BY <1>1 DEF Run, Tokens
<1>3. /\ tokenRef' = new /\ lastToken' = new
      /\ inflight' = (inflight \ {tokenRef}) \cup {new}
      /\ queue' = queue \o (IF tokenRef = NoToken THEN <<>> ELSE <<Cancel(tokenRef)>>)
                        \o <<Invoke(new)>>
  BY DEF Run
<1>4. Tokens' = Tokens \cup {new}
  BY <1>1, <1>3 DEF Tokens
<1>5. given \in Seq(Message) /\ queue' = Append(given, Invoke(new))
  <2>1. CASE tokenRef = NoToken
    <3>1. queue \o <<>> = queue
      BY <1>1
    <3> QED
      BY <1>1, <1>3, <2>1, <3>1
  <2>2. CASE tokenRef # NoToken
    <3>1. Cancel(tokenRef) \in Message
      BY <1>1, <2>2, MessageTypes
    <3>2. queue \o <<Cancel(tokenRef)>> = Append(queue, Cancel(tokenRef))
      BY <1>1, <3>1
    <3>3. given \in Seq(Message)
      BY <1>1, <2>2, <3>1
    <3> QED
      BY <1>3, <2>2, <3>2, <3>3
  <2> QED
    BY <2>1, <2>2
<1> HIDE DEF new, given
<1>6. QED
  BY <1>2, <1>3, <1>4, <1>5 DEF new, given

\* Every variable keeps its type through every step.
LEMMA TypeStep == TypeInv /\ [Next]_vars => TypeInv'
<1> SUFFICES ASSUME TypeInv, [Next]_vars PROVE TypeInv'
  OBVIOUS
<1> USE DEF document, hook, session, main
<1>1. TypeOK
  BY DEF TypeInv
<1>2. CASE Run
  <2> DEFINE new == lastToken + 1
  <2>1. /\ new \in 1 .. MaxRuns /\ new \in Nat
        /\ Tokens' = Tokens \cup {new} /\ lastToken' = new /\ tokenRef' = new
        /\ inflight' = (inflight \ {tokenRef}) \cup {new}
    BY <1>1, <1>2, RunEffect
  <2>2. queue' \in Seq(Message')
    <3>1. PICK q \in Seq(Message) : queue' = Append(q, Invoke(new))
      BY <1>1, <1>2, RunEffect
    <3>2. Message \subseteq Message' /\ Invoke(new) \in Message'
      BY <2>1 DEF Message, Invoke
    <3>3. q \in Seq(Message')
      BY <3>2, WiderQueue
    <3> QED
      BY <3>1, <3>2, <3>3, AppendPositions
  <2>3. state' \in [status : {"idle", "running", "success", "error"},
                    revision : Revisions, token : Tokens' \cup {NoToken}]
    BY <1>1, <1>2, <2>1 DEF Run, TypeOK, Revisions
  <2>4. startedAt' \in [1 .. MaxRuns -> Revisions]
    BY <1>1, <1>2, <2>1 DEF Run, TypeOK, Revisions
  <2>5. /\ lastToken' \in 0 .. MaxRuns
        /\ inflight' \subseteq Tokens' /\ replies \subseteq
             [token : Tokens', outcome : {"ok", "error", "cancelled"}]
        /\ registry \subseteq Tokens' /\ procs \subseteq Tokens' /\ killed \subseteq Tokens'
    BY <1>1, <2>1 DEF TypeOK
  <2> HIDE DEF new
  <2>6. TypeOK'
    BY <1>1, <1>2, <2>1, <2>2, <2>3, <2>4, <2>5 DEF Run, TypeOK, Message, Revisions
  <2> QED
    BY <1>2, <2>6 DEF TypeInv, Run
<1>3. ASSUME UNCHANGED lastToken  PROVE Tokens' = Tokens /\ Message' = Message
  BY <1>3 DEF Tokens, Message
<1>4. CASE Render
  BY <1>1, <1>3, <1>4, CancelCurrentTypes DEF Render, TypeOK, TypeInv, Message, Revisions
<1>5. CASE Mount
  BY <1>1, <1>3, <1>5 DEF Mount, Switch, Idle, TypeOK, TypeInv, Revisions
<1>6. CASE Unmount
  <2>1. inflight' \subseteq inflight /\ queue' \in Seq(Message)
    BY <1>1, <1>6, CancelCurrentTypes DEF Unmount
  <2> QED
    <3>1. /\ rendered' = rendered /\ state' = state /\ startedAt' = startedAt
          /\ UNCHANGED <<document, lastToken, session, replies, main>>
          /\ mounted' = FALSE /\ tokenRef' = NoToken /\ effectDue' = FALSE
      BY <1>6 DEF Unmount
    <3>2. switches' \in Nat
      BY <1>1, <1>6 DEF Unmount, Switch, TypeOK
    <3> QED
      BY <1>1, <1>3, <2>1, <3>1, <3>2 DEF TypeOK, TypeInv, Message, Revisions
<1>7. CASE ReplyArrives
  <2>1. PICK r \in replies :
          /\ replies' = replies \ {r}
          /\ state' \in {state, Settled(r)}
          /\ effectDue' \in {effectDue, TRUE}
          /\ inflight' \subseteq inflight
    BY <1>7 DEF ReplyArrives
  <2>2. Settled(r) \in [status : {"idle", "running", "success", "error"},
                        revision : Revisions, token : Tokens \cup {NoToken}]
    BY <1>1 DEF Settled, TypeOK
  <2> QED
    BY <1>1, <1>3, <1>7, <2>1, <2>2 DEF ReplyArrives, TypeOK, TypeInv, Revisions
<1>8. CASE Publish
  BY <1>1, <1>3, <1>8 DEF Publish, TypeOK, TypeInv, Revisions
<1>9. CASE Escape
  <2>1. PICK t \in inflight : queue' = Append(queue, Cancel(t))
    BY <1>9 DEF Escape
  <2>2. queue' \in Seq(Message)
    BY <1>1, <2>1, TokenTypes, MessageTypes, AppendPositions DEF TypeOK
  <2> QED
    BY <1>1, <1>3, <1>9, <2>2, BoundsAssumption
       DEF Escape, Switch, TypeOK, TypeInv, Message, Revisions
<1>10. ASSUME NEW o, Handle(o)
       PROVE  /\ Head(queue) \in Message /\ Head(queue).token \in Tokens
              /\ queue' \in Seq(Message)
  BY <1>1, <1>10, TokenTypes, MessageTypes, TailPositions DEF Handle
<1>11. ASSUME NEW t \in Tokens, NEW outcome \in {"ok", "error", "cancelled"},
              Answer(t, outcome)
       PROVE  replies' \subseteq [token : Tokens, outcome : {"ok", "error", "cancelled"}]
  BY <1>1, <1>11 DEF Answer, TypeOK
<1>12. CASE HandleInvoke
  <2>1. Handle("invoke")
    BY <1>12 DEF HandleInvoke
  <2> DEFINE t == Head(queue).token
  <2>2. t \in Tokens /\ t \in 1 .. MaxRuns /\ queue' \in Seq(Message)
    BY <1>1, <1>10, <2>1, TokenTypes
  <2>3. CASE /\ project # NoProject
             /\ registry' = registry \cup {t}
             /\ procs' = procs \cup {t}
             /\ cwd' = [cwd EXCEPT ![t] = project]
             /\ UNCHANGED replies
    <3>1. project \in Projects
      BY <1>1, <2>3 DEF TypeOK
    <3>2. \A u \in procs' : cwd'[u] \in Projects
      BY <1>1, <2>2, <2>3, <3>1, TokenTypes DEF TypeInv, TypeOK
    <3>3. TypeOK'
      BY <1>1, <1>3, <1>12, <2>2, <2>3, <3>1
         DEF HandleInvoke, TypeOK, Message, Revisions
    <3> QED
      BY <3>2, <3>3 DEF TypeInv
  <2>4. CASE Answer(t, "error") /\ UNCHANGED <<registry, procs, cwd>>
    <3>1. replies' \subseteq [token : Tokens, outcome : {"ok", "error", "cancelled"}]
      BY <1>11, <2>2, <2>4
    <3> QED
      BY <1>1, <1>3, <1>12, <2>2, <2>4, <3>1
         DEF HandleInvoke, TypeOK, TypeInv, Message, Revisions
  <2> QED
    BY <1>12, <2>3, <2>4 DEF HandleInvoke
<1>13. CASE HandleCancel
  <2>1. Handle("cancel")
    BY <1>13 DEF HandleCancel
  <2> DEFINE t == Head(queue).token
  <2>2. t \in Tokens /\ queue' \in Seq(Message)
    BY <1>10, <2>1
  <2>3. CASE t \in registry
    <3>1. /\ registry' = registry \ {t} /\ killed' = killed \cup {t}
          /\ Answer(t, "cancelled")
      BY <1>13, <2>3 DEF HandleCancel
    <3>2. replies' \subseteq [token : Tokens, outcome : {"ok", "error", "cancelled"}]
      BY <1>11, <2>2, <3>1
    <3> QED
      BY <1>1, <1>3, <1>13, <2>2, <3>1, <3>2
         DEF HandleCancel, TypeOK, TypeInv, Message, Revisions
  <2>4. CASE t \notin registry
    BY <1>1, <1>3, <1>13, <2>2, <2>4
       DEF HandleCancel, TypeOK, TypeInv, Message, Revisions
  <2> QED
    BY <2>3, <2>4
<1>14. ASSUME NEW t \in procs, CoreReads(t)  PROVE TypeInv'
  <2>1. source[cwd[t]] \in Sources
    BY <1>1 DEF TypeInv, TypeOK
  <2> QED
    BY <1>1, <1>3, <1>14, <2>1 DEF CoreReads, TypeOK, TypeInv, Revisions
<1>15. ASSUME NEW t \in procs, ProcessCloses(t)  PROVE TypeInv'
  <2>1. t \in Tokens
    BY <1>1 DEF TypeOK
  <2>2. replies' \subseteq [token : Tokens, outcome : {"ok", "error", "cancelled"}]
    <3>1. CASE Answer(t, "ok")
      BY <1>11, <2>1, <3>1
    <3>2. CASE Answer(t, "error")
      BY <1>11, <2>1, <3>2
    <3>3. CASE UNCHANGED replies
      BY <1>1, <3>3 DEF TypeOK
    <3> QED
      BY <1>15, <3>1, <3>2, <3>3 DEF ProcessCloses
  <2> QED
    BY <1>1, <1>3, <1>15, <2>2 DEF ProcessCloses, TypeOK, TypeInv, Revisions
<1>16. CASE DocumentChanges
  BY <1>1, <1>3, <1>16 DEF DocumentChanges, taskVars, TypeOK, TypeInv, Revisions
<1>17. CASE UNCHANGED vars
  BY <1>1, <1>3, <1>17 DEF vars, taskVars, TypeOK, TypeInv, Revisions
<1> QED
  BY <1>2, <1>4, <1>5, <1>6, <1>7, <1>8, <1>9, <1>12, <1>13, <1>14, <1>15, <1>16, <1>17
     DEF Next, TaskStep

\* Every variable has its type to begin with.
LEMMA TypeInit == Init => TypeInv
<1> SUFFICES ASSUME Init PROVE TypeInv
  OBVIOUS
<1> USE DEF Init, DocumentInit, TaskInit
<1>1. queue \in Seq([op : {"invoke", "cancel"}, token : Tokens])
  OBVIOUS
<1>2. state \in [status : {"idle", "running", "success", "error"},
                 revision : Revisions, token : Tokens \cup {NoToken}]
  BY DEF Idle, Revisions
<1>3. /\ cwd \in [1 .. MaxRuns -> Projects \cup {NoProject}]
      /\ readBy \in [1 .. MaxRuns -> Sources \cup {NoSource}]
      /\ startedAt \in [1 .. MaxRuns -> Revisions]
  BY DEF Revisions
<1>4. lastToken \in 0 .. MaxRuns /\ evidence \in Revisions
  BY BoundsAssumption DEF Revisions
<1> QED
  BY <1>1, <1>2, <1>3, <1>4 DEF TypeInv, TypeOK

\* TypeOK holds in every state, however many runs, revisions and projects
\* there are.
THEOREM TypeCorrect == Spec => []TypeOK
<1>1. TypeInv => TypeOK
  BY DEF TypeInv
<1> QED
  BY <1>1, TypeInit, TypeStep, PTL DEF Spec

(***************************************************************************)
(* The inductive invariant                                                 *)
(***************************************************************************)

\* An invoke call the view has given up is followed by its cancel, so that the
\* cancel finds the call registered or settled, and never comes first.
CancelFollowsInvoke ==
  \A i \in DOMAIN queue :
    queue[i].op = "invoke" /\ queue[i].token # tokenRef
      => \E j \in DOMAIN queue : j > i /\ queue[j] = Cancel(queue[i].token)

\* The calls main has yet to handle.
Sent == {t \in Tokens : Invoke(t) \in Range(queue)}

\* A call is sent once.
InvokeOnce ==
  \A i, j \in DOMAIN queue : queue[i].op = "invoke" /\ queue[j] = queue[i] => i = j

\* A call is in one place at a time: sent, then registered, then answered.
CallsAreOnce ==
  /\ InvokeOnce
  /\ Sent \cap procs = {}
  /\ registry \subseteq procs
  /\ \A r \in replies : r.token \notin Sent /\ r.token \notin registry
  /\ \A r, s \in replies : r.token = s.token => r = s

\* The state shown is that of the run the view waits for, stamped with a
\* revision no later than the one the run was started at.
StateIsOfTheRun ==
  /\ rendered <= rev
  /\ \A t \in Tokens : startedAt[t] \in Nat /\ startedAt[t] <= rev
  /\ tokenRef # NoToken => mounted /\ state.token = tokenRef
  /\ state.status # "idle" => state.token # NoToken
  /\ state.token # NoToken => state.revision \in Nat /\ state.revision <= startedAt[state.token]

\* The run is over, and its process had read the source.
Done(t) == readBy[t] # NoSource /\ t \notin procs /\ t \notin Sent

\* A success, on its way, shown or published, is that of a run that is over.
SuccessIsDone ==
  /\ \A r \in replies : r.outcome = "ok" => Done(r.token)
  /\ state.status = "success" => Done(state.token)
  /\ evidence # NoRevision => \E t \in Tokens : evidence <= startedAt[t] /\ Done(t)

IInv ==
  /\ TypeInv
  /\ CancelFollowsInvoke
  /\ SupersededRunsAreCancelled
  /\ CallsAreOnce
  /\ InflightIsUnsettled
  /\ StateIsOfTheRun
  /\ SuccessIsDone

(***************************************************************************)
(* Superseded runs are cancelled                                           *)
(***************************************************************************)

Cancels == CancelFollowsInvoke /\ SupersededRunsAreCancelled

\* Nothing is sent or handled, and the view waits for what it waited for.
LEMMA QuietCancels ==
  ASSUME Cancels, queue' = queue, tokenRef' = tokenRef, registry' \subseteq registry
  PROVE  Cancels'
  BY DEF Cancels, CancelFollowsInvoke, SupersededRunsAreCancelled

\* A cancel is sent; the view may stop waiting for the call it cancels.
LEMMA CancelsOneMore ==
  ASSUME TypeOK, Cancels, NEW t \in Tokens, queue' = Append(queue, Cancel(t)),
         registry' = registry, tokenRef' = tokenRef \/ tokenRef = t
  PROVE  Cancels'
<1>1. /\ queue \in Seq(Message) /\ Cancel(t) \in Message
      /\ \A m \in Message : m.op \in {"invoke", "cancel"} /\ m.token \in Tokens
      /\ Cancel(t).op # "invoke"
  BY TokenTypes, MessageTypes
<1>2. /\ Len(queue) \in Nat /\ DOMAIN queue = 1 .. Len(queue)
      /\ DOMAIN queue' = 1 .. (Len(queue) + 1)
      /\ \A i \in DOMAIN queue : queue'[i] = queue[i]
      /\ queue'[Len(queue) + 1] = Cancel(t)
  BY <1>1, AppendPositions
<1>3. CancelFollowsInvoke'
  <2> SUFFICES ASSUME NEW i \in DOMAIN queue', queue'[i].op = "invoke",
                      queue'[i].token # tokenRef'
               PROVE  \E j \in DOMAIN queue' : j > i /\ queue'[j] = Cancel(queue'[i].token)
    BY DEF CancelFollowsInvoke, Cancel
  <2>1. i \in DOMAIN queue /\ queue'[i] = queue[i]
    BY <1>1, <1>2
  <2>2. CASE queue[i].token = tokenRef
    <3>1. queue'[i].token = t
      BY <2>1, <2>2
    <3> QED
      BY <1>2, <2>1, <3>1
  <2>3. CASE queue[i].token # tokenRef
    <3>1. PICK j \in DOMAIN queue : j > i /\ queue[j] = Cancel(queue[i].token)
      BY <2>1, <2>3 DEF Cancels, CancelFollowsInvoke
    <3> QED
      BY <1>2, <2>1, <3>1
  <2> QED
    BY <2>2, <2>3
<1>4. Range(queue') = Range(queue) \cup {Cancel(t)}
  BY <1>1, AppendElements
<1>5. SupersededRunsAreCancelled'
  BY <1>4 DEF Cancels, SupersededRunsAreCancelled, Cancel
<1> QED
  BY <1>3, <1>5 DEF Cancels

\* A message is handled: a call's cancel is behind it, and the call of a
\* cancel that is handled is not registered any more.
LEMMA CancelsOneLess ==
  ASSUME TypeOK, Cancels, queue # <<>>, queue' = Tail(queue), tokenRef' = tokenRef,
         \/ /\ Head(queue).op = "invoke"
            /\ registry' \subseteq registry \cup {Head(queue).token}
         \/ /\ Head(queue).op = "cancel"
            /\ registry' \subseteq registry \ {Head(queue).token}
  PROVE  Cancels'
<1>1. /\ queue \in Seq(Message)
      /\ \A m \in Message : m.op = "cancel" => m = Cancel(m.token)
      /\ \A u : Cancel(u).token = u /\ Cancel(u).op = "cancel"
  BY TokenTypes, MessageTypes
<1>2. /\ Head(queue) \in Message /\ Head(queue) = queue[1]
      /\ Len(queue) \in Nat \ {0} /\ DOMAIN queue = 1 .. Len(queue)
      /\ DOMAIN queue' = 1 .. (Len(queue) - 1)
      /\ \A i \in DOMAIN queue' : queue'[i] = queue[i + 1]
  BY <1>1, TailPositions
<1>3. CancelFollowsInvoke'
  <2> SUFFICES ASSUME NEW i \in DOMAIN queue', queue'[i].op = "invoke",
                      queue'[i].token # tokenRef'
               PROVE  \E j \in DOMAIN queue' : j > i /\ queue'[j] = Cancel(queue'[i].token)
    BY DEF CancelFollowsInvoke, Cancel
  <2>1. i + 1 \in DOMAIN queue /\ queue'[i] = queue[i + 1]
    BY <1>2
  <2>2. PICK j \in DOMAIN queue : j > i + 1 /\ queue[j] = Cancel(queue[i + 1].token)
    BY <2>1 DEF Cancels, CancelFollowsInvoke
  <2>3. j - 1 \in DOMAIN queue' /\ j - 1 > i /\ queue'[j - 1] = queue[j]
    BY <1>2, <2>2
  <2> QED
    BY <2>1, <2>2, <2>3
<1>4. Range(queue) = Range(queue') \cup {Head(queue)}
  BY <1>1, TailElements
<1>5. SupersededRunsAreCancelled'
  <2> SUFFICES ASSUME NEW u \in registry', u # tokenRef
               PROVE  Cancel(u) \in Range(queue')
    BY DEF SupersededRunsAreCancelled, Cancel
  <2>1. CASE u \in registry
    <3>1. Cancel(u) \in Range(queue)
      BY <2>1 DEF Cancels, SupersededRunsAreCancelled
    <3>2. Cancel(u) # Head(queue)
      BY <1>1
    <3> QED
      BY <1>4, <3>1, <3>2
  <2>2. CASE u \notin registry
    <3>1. queue[1].op = "invoke" /\ u = queue[1].token
      BY <1>2, <2>2
    <3>2. PICK j \in DOMAIN queue : j > 1 /\ queue[j] = Cancel(u)
      BY <1>2, <3>1 DEF Cancels, CancelFollowsInvoke
    <3>3. j - 1 \in DOMAIN queue' /\ queue'[j - 1] = Cancel(u)
      BY <1>2, <3>2
    <3> QED
      BY <3>3 DEF Range
  <2> QED
    BY <2>1, <2>2
<1> QED
  BY <1>3, <1>5 DEF Cancels

\* run() cancels the call it supersedes before it sends its own.
LEMMA CancelsRun == ASSUME TypeOK, Cancels, Run  PROVE Cancels'
<1> DEFINE new == lastToken + 1
<1> DEFINE given == IF tokenRef = NoToken THEN queue ELSE Append(queue, Cancel(tokenRef))
<1>1. /\ new \in Nat /\ tokenRef' = new /\ registry' = registry
      /\ given \in Seq(Message) /\ queue' = Append(given, Invoke(new))
  BY RunEffect DEF Run, main
<1>2. /\ queue \in Seq(Message) /\ tokenRef \in Tokens \cup {NoToken} /\ NoToken \notin Tokens
      /\ \A m \in Message : m.op \in {"invoke", "cancel"} /\ m.token \in Tokens
      /\ \A u : Invoke(u).token = u /\ Cancel(u).op = "cancel"
      /\ registry \subseteq Tokens /\ \A u \in Tokens : Cancel(u) \in Message
  BY TokenTypes, MessageTypes DEF TypeOK
<1>3. \/ tokenRef = NoToken /\ given = queue
      \/ /\ tokenRef # NoToken
         /\ given = Append(queue, Cancel(tokenRef))
         /\ DOMAIN given = DOMAIN queue \cup {Len(queue) + 1}
         /\ \A i \in DOMAIN queue : given[i] = queue[i] /\ Len(queue) + 1 > i
         /\ given[Len(queue) + 1] = Cancel(tokenRef)
  BY <1>2, AppendPositions
<1>4. /\ Range(queue) \subseteq Range(given)
      /\ tokenRef # NoToken => Cancel(tokenRef) \in Range(given)
  BY <1>2, <1>3, AppendElements
<1> HIDE DEF given, new
<1>5. given \in Seq(Message \cup {Invoke(new)})
  BY <1>1, WiderQueue
<1>6. /\ Range(queue') = Range(given) \cup {Invoke(new)}
      /\ DOMAIN queue' = DOMAIN given \cup {Len(given) + 1}
      /\ \A i \in DOMAIN given : queue'[i] = given[i]
      /\ queue'[Len(given) + 1] = Invoke(new)
  BY <1>1, <1>5, AppendElements, AppendPositions
<1>7. CancelFollowsInvoke'
  <2> SUFFICES ASSUME NEW i \in DOMAIN queue', queue'[i].op = "invoke",
                      queue'[i].token # tokenRef'
               PROVE  \E j \in DOMAIN queue' : j > i /\ queue'[j] = Cancel(queue'[i].token)
    BY DEF CancelFollowsInvoke, Cancel
  <2>1. i # Len(given) + 1
    BY <1>1, <1>2, <1>6
  <2>2. i \in DOMAIN given /\ queue'[i] = given[i]
    BY <1>6, <2>1
  <2>3. i \in DOMAIN queue /\ given[i] = queue[i]
    BY <1>2, <1>3, <2>2
  <2>4. CASE queue[i].token = tokenRef
    <3>1. tokenRef # NoToken
      BY <1>2, <2>3, <2>4
    <3>2. /\ Len(queue) + 1 \in DOMAIN given /\ Len(queue) + 1 > i
          /\ given[Len(queue) + 1] = Cancel(queue[i].token)
      BY <1>3, <2>3, <2>4, <3>1
    <3> QED
      BY <1>6, <2>2, <2>3, <3>2
  <2>5. CASE queue[i].token # tokenRef
    <3>1. PICK j \in DOMAIN queue : j > i /\ queue[j] = Cancel(queue[i].token)
      BY <2>2, <2>3, <2>5 DEF Cancels, CancelFollowsInvoke
    <3>2. j \in DOMAIN given /\ given[j] = queue[j]
      BY <1>3
    <3> QED
      BY <1>6, <2>2, <2>3, <3>1, <3>2
  <2> QED
    BY <2>4, <2>5
<1>8. SupersededRunsAreCancelled'
  <2> SUFFICES ASSUME NEW u \in registry  PROVE Cancel(u) \in Range(queue')
    BY <1>1 DEF SupersededRunsAreCancelled, Cancel
  <2> QED
    BY <1>2, <1>4, <1>6 DEF Cancels, SupersededRunsAreCancelled
<1> QED
  BY <1>7, <1>8 DEF Cancels

\* What CancelCurrent does, for a view that then waits for nothing.
LEMMA CancelsGivenUp ==
  ASSUME TypeOK, Cancels, CancelCurrent, tokenRef' = NoToken, registry' = registry
  PROVE  Cancels'
<1>1. CASE tokenRef = NoToken
  BY <1>1, CancelCurrentTypes, QuietCancels
<1>2. CASE tokenRef # NoToken
  BY <1>2, CancelCurrentTypes, CancelsOneMore
<1> QED
  BY <1>1, <1>2

\* Every step keeps the cancels of what is superseded.
LEMMA CancelsStep == TypeOK /\ Cancels /\ [Next]_vars => Cancels'
<1> SUFFICES ASSUME TypeOK, Cancels, [Next]_vars PROVE Cancels'
  OBVIOUS
<1> USE DEF hook, main
<1>1. CASE Run
  BY <1>1, CancelsRun
<1>2. CASE Render
  BY <1>2, CancelsGivenUp DEF Render
<1>3. CASE Mount
  BY <1>3, QuietCancels DEF Mount
<1>4. CASE Unmount
  BY <1>4, CancelsGivenUp DEF Unmount
<1>5. CASE ReplyArrives
  BY <1>5, QuietCancels DEF ReplyArrives
<1>6. CASE Publish
  BY <1>6, QuietCancels DEF Publish
<1>7. CASE Escape
  BY <1>7, CancelsOneMore DEF Escape, TypeOK
<1>8. CASE HandleInvoke
  BY <1>8, CancelsOneLess DEF HandleInvoke, Handle
<1>9. CASE HandleCancel
  <2>1. registry' \subseteq registry \ {Head(queue).token}
    BY <1>9 DEF HandleCancel
  <2> QED
    BY <1>9, <2>1, CancelsOneLess DEF HandleCancel, Handle
<1>10. ASSUME NEW t \in procs, CoreReads(t)  PROVE Cancels'
  BY <1>10, QuietCancels DEF CoreReads
<1>11. ASSUME NEW t \in procs, ProcessCloses(t)  PROVE Cancels'
  BY <1>11, QuietCancels DEF ProcessCloses
<1>12. CASE DocumentChanges
  BY <1>12, QuietCancels DEF DocumentChanges, taskVars
<1>13. CASE UNCHANGED vars
  BY <1>13, QuietCancels DEF vars, taskVars
<1> QED
  BY <1>1, <1>2, <1>3, <1>4, <1>5, <1>6, <1>7, <1>8, <1>9, <1>10, <1>11, <1>12, <1>13
     DEF Next, TaskStep

(***************************************************************************)
(* A call is in one place at a time                                        *)
(***************************************************************************)

\* A cancel is not a call.
LEMMA SentCancel ==
  ASSUME TypeOK, InvokeOnce, NEW t \in Tokens, queue' = Append(queue, Cancel(t)),
         Tokens' = Tokens
  PROVE  InvokeOnce' /\ Sent' = Sent
<1>1. queue \in Seq(Message) /\ Cancel(t) \in Message
  BY TokenTypes, MessageTypes
<1>2. \A u : Invoke(u) # Cancel(t) /\ Cancel(t).op # "invoke"
  BY MessageTypes
<1>3. /\ DOMAIN queue' = DOMAIN queue \cup {Len(queue) + 1}
      /\ \A i \in DOMAIN queue : queue'[i] = queue[i]
      /\ queue'[Len(queue) + 1] = Cancel(t)
      /\ Range(queue') = Range(queue) \cup {Cancel(t)}
  BY <1>1, AppendPositions, AppendElements
<1>4. InvokeOnce'
  BY <1>2, <1>3 DEF InvokeOnce
<1>5. Sent' = Sent
  BY <1>2, <1>3 DEF Sent, Invoke
<1> QED
  BY <1>4, <1>5

\* run() sends a call that was never sent.
LEMMA SentRun ==
  ASSUME TypeOK, InvokeOnce, Run
  PROVE  InvokeOnce' /\ Sent' = Sent \cup {lastToken + 1}
<1> DEFINE new == lastToken + 1
<1> DEFINE given == IF tokenRef = NoToken THEN queue ELSE Append(queue, Cancel(tokenRef))
<1>1. /\ Tokens' = Tokens \cup {new} /\ new \notin Tokens
      /\ given \in Seq(Message) /\ queue' = Append(given, Invoke(new))
  BY RunEffect
<1>2. /\ queue \in Seq(Message) /\ tokenRef \in Tokens \cup {NoToken}
      /\ \A m \in Message : m.op \in {"invoke", "cancel"} /\ m.token \in Tokens
      /\ \A u : Invoke(u).token = u /\ Invoke(u).op = "invoke" /\ Cancel(u).op = "cancel"
      /\ \A u \in Tokens : Cancel(u) \in Message
  BY TokenTypes, MessageTypes DEF TypeOK
<1>3. \/ tokenRef = NoToken /\ given = queue
      \/ /\ DOMAIN given = DOMAIN queue \cup {Len(queue) + 1}
         /\ \A i \in DOMAIN queue : given[i] = queue[i]
         /\ given[Len(queue) + 1] = Cancel(tokenRef)
         /\ Range(given) = Range(queue) \cup {Cancel(tokenRef)}
  BY <1>2, AppendPositions, AppendElements
<1>4. /\ \A i, j \in DOMAIN given : given[i].op = "invoke" /\ given[j] = given[i] => i = j
      /\ \A u : Invoke(u) \in Range(given) <=> Invoke(u) \in Range(queue)
      /\ \A i \in DOMAIN given : given[i] \in Message
  <2>1. \A i \in DOMAIN given : given[i] \in Message
    BY <1>1
  <2>2. \A i, j \in DOMAIN given : given[i].op = "invoke" /\ given[j] = given[i] => i = j
    BY <1>2, <1>3 DEF InvokeOnce
  <2>3. \A u : Invoke(u) \in Range(given) <=> Invoke(u) \in Range(queue)
    <3>1. \A u : Invoke(u) # Cancel(tokenRef)
      BY <1>2
    <3> QED
      BY <1>3, <3>1
  <2> QED
    BY <2>1, <2>2, <2>3
<1> HIDE DEF given, new
<1>5. given \in Seq(Message \cup {Invoke(new)})
  BY <1>1, WiderQueue
<1>6. /\ Range(queue') = Range(given) \cup {Invoke(new)}
      /\ DOMAIN queue' = DOMAIN given \cup {Len(given) + 1}
      /\ \A i \in DOMAIN given : queue'[i] = given[i]
      /\ queue'[Len(given) + 1] = Invoke(new)
  BY <1>1, <1>5, AppendElements, AppendPositions
<1>7. \A i \in DOMAIN given : given[i] # Invoke(new)
  BY <1>1, <1>2, <1>4
<1>8. InvokeOnce'
  BY <1>4, <1>6, <1>7 DEF InvokeOnce
<1>9. Sent' = Sent \cup {new}
  <2>1. \A u : Invoke(u) \in Range(queue') <=> Invoke(u) \in Range(queue) \/ u = new
    BY <1>2, <1>4, <1>6
  <2>2. Invoke(new) \notin Range(queue)
    BY <1>4, <1>7 DEF Range
  <2> QED
    BY <1>1, <2>1, <2>2 DEF Sent, Invoke
<1> QED
  BY <1>8, <1>9 DEF new

\* Handling a message takes it out of the queue, and a call is there once.
LEMMA SentHandled ==
  ASSUME TypeOK, InvokeOnce, queue # <<>>, queue' = Tail(queue), Tokens' = Tokens
  PROVE  /\ InvokeOnce'
         /\ Head(queue).token \in Tokens
         /\ Head(queue).op = "cancel" => Sent' = Sent
         /\ Head(queue).op = "invoke" =>
              /\ Head(queue).token \in Sent
              /\ Sent' = Sent \ {Head(queue).token}
<1>1. /\ queue \in Seq(Message)
      /\ \A m \in Message : m.token \in Tokens
      /\ \A m \in Message : m.op = "invoke" => m = Invoke(m.token)
      /\ \A u : Invoke(u).token = u /\ Invoke(u).op = "invoke"
  BY TokenTypes, MessageTypes
<1>2. /\ Head(queue) \in Message /\ Head(queue) = queue[1]
      /\ Len(queue) \in Nat \ {0} /\ DOMAIN queue = 1 .. Len(queue)
      /\ DOMAIN queue' = 1 .. (Len(queue) - 1)
      /\ \A i \in DOMAIN queue' : queue'[i] = queue[i + 1]
  BY <1>1, TailPositions
<1>3. Range(queue) = Range(queue') \cup {Head(queue)}
  BY <1>1, TailElements
<1>4. InvokeOnce'
  <2> SUFFICES ASSUME NEW i \in DOMAIN queue', NEW j \in DOMAIN queue',
                      queue'[i].op = "invoke", queue'[j] = queue'[i]
               PROVE  i = j
    BY DEF InvokeOnce
  <2>1. i + 1 \in DOMAIN queue /\ j + 1 \in DOMAIN queue
    BY <1>2
  <2>2. i + 1 = j + 1
    BY <1>2, <2>1 DEF InvokeOnce
  <2> QED
    BY <1>2, <2>2
<1>5. CASE Head(queue).op = "cancel"
  <2>1. \A u : Invoke(u) # Head(queue)
    BY <1>1, <1>5
  <2>2. \A u \in Tokens : Invoke(u) \in Range(queue') <=> Invoke(u) \in Range(queue)
    BY <1>3, <2>1
  <2>3. Sent' = Sent
    BY <2>2 DEF Sent, Invoke
  <2> QED
    BY <1>1, <1>2, <1>4, <1>5, <2>3
<1>6. CASE Head(queue).op = "invoke"
  <2> DEFINE t == Head(queue).token
  <2>1. t \in Tokens /\ Head(queue) = Invoke(t)
    BY <1>1, <1>2, <1>6
  <2>2. Invoke(t) \notin Range(queue')
    <3> SUFFICES ASSUME NEW i \in DOMAIN queue', queue'[i] = Invoke(t)  PROVE FALSE
      BY DEF Range
    <3>1. i + 1 \in DOMAIN queue /\ 1 \in DOMAIN queue /\ queue[i + 1] = queue[1]
      BY <1>2, <2>1
    <3>2. i + 1 = 1
      BY <1>2, <1>6, <3>1 DEF InvokeOnce
    <3> QED
      BY <1>2, <3>2
  <2>3. \A u \in Tokens :
           Invoke(u) \in Range(queue') <=> Invoke(u) \in Range(queue) /\ u # t
    BY <1>1, <1>3, <2>1, <2>2
  <2>4. t \in Sent /\ Sent' = Sent \ {t}
    BY <1>3, <2>1, <2>3 DEF Sent, Invoke
  <2> QED
    BY <1>4, <1>6, <2>1, <2>4
<1> QED
  BY <1>1, <1>2, <1>4, <1>5, <1>6

\* The steps that neither send a call nor handle one.
NoCall ==
  \/ Render \/ Mount \/ Unmount \/ ReplyArrives \/ Publish \/ Escape \/ HandleCancel
  \/ \E t \in procs : CoreReads(t) \/ ProcessCloses(t)
  \/ DocumentChanges \/ UNCHANGED vars

\* Every step sends a call, handles one or does neither; those that do neither ...
LEMMA NextIsCall == [Next]_vars => Run \/ HandleInvoke \/ NoCall
  BY DEF Next, TaskStep, NoCall

\* ... leave the calls that were sent as they are.
LEMMA SentNoCall ==
  ASSUME TypeOK, InvokeOnce, NoCall
  PROVE  InvokeOnce' /\ Sent' = Sent /\ Tokens' = Tokens
<1> USE DEF hook, main
<1>1. Tokens' = Tokens
  BY DEF NoCall, Tokens, Render, Mount, Unmount, ReplyArrives, Publish, Escape,
     HandleCancel, CoreReads, ProcessCloses, DocumentChanges, vars, taskVars
<1>2. CASE queue' = queue
  BY <1>1, <1>2 DEF InvokeOnce, Sent, Invoke
<1>3. ASSUME CancelCurrent  PROVE InvokeOnce' /\ Sent' = Sent
  <2>1. CASE tokenRef = NoToken
    BY <1>2, <1>3, <2>1, CancelCurrentTypes
  <2>2. CASE tokenRef # NoToken
    BY <1>1, <1>3, <2>2, CancelCurrentTypes, SentCancel
  <2> QED
    BY <2>1, <2>2
<1>4. CASE Render
  BY <1>1, <1>3, <1>4 DEF Render
<1>5. CASE Unmount
  BY <1>1, <1>3, <1>5 DEF Unmount
<1>6. CASE Escape
  BY <1>1, <1>6, SentCancel DEF Escape, TypeOK
<1>7. CASE HandleCancel
  BY <1>1, <1>7, SentHandled DEF HandleCancel, Handle
<1>8. CASE Mount \/ ReplyArrives \/ Publish \/ DocumentChanges \/ UNCHANGED vars
           \/ \E t \in procs : CoreReads(t) \/ ProcessCloses(t)
  BY <1>1, <1>2, <1>8
     DEF Mount, ReplyArrives, Publish, CoreReads, ProcessCloses, DocumentChanges, vars, taskVars
<1> QED
  BY <1>1, <1>4, <1>5, <1>6, <1>7, <1>8 DEF NoCall

\* Every step keeps a call in one place.
LEMMA CallsStep == TypeOK /\ CallsAreOnce /\ [Next]_vars => CallsAreOnce'
<1> SUFFICES ASSUME TypeOK, CallsAreOnce, [Next]_vars PROVE CallsAreOnce'
  OBVIOUS
<1> USE DEF hook, main
<1>1. InvokeOnce /\ \A r \in replies : r.token \in Tokens
  BY DEF CallsAreOnce, TypeOK
<1>2. CASE Run
  <2>1. InvokeOnce' /\ Sent' = Sent \cup {lastToken + 1} /\ lastToken + 1 \notin Tokens
    BY <1>1, <1>2, SentRun, TokenTypes
  <2>2. UNCHANGED <<replies, registry, procs>>
    BY <1>2 DEF Run
  <2> QED
    BY <1>1, <2>1, <2>2 DEF CallsAreOnce, TypeOK
<1>3. CASE HandleInvoke
  <2> DEFINE t == Head(queue).token
  <2>1. InvokeOnce' /\ t \in Sent /\ Sent' = Sent \ {t}
    <3>1. Tokens' = Tokens
      BY <1>3 DEF HandleInvoke, Tokens
    <3> QED
      BY <1>1, <1>3, <3>1, SentHandled DEF HandleInvoke, Handle
  <2>2. t \notin procs /\ t \notin registry /\ \A r \in replies : r.token # t
    BY <2>1 DEF CallsAreOnce
  <2>3. \/ /\ registry' = registry \cup {t} /\ procs' = procs \cup {t}
           /\ UNCHANGED replies
        \/ /\ replies' = replies \cup {[token |-> t, outcome |-> "error"]}
           /\ UNCHANGED <<registry, procs>>
    BY <1>3 DEF HandleInvoke, Answer
  <2> HIDE DEF t
  <2> QED
    BY <2>1, <2>2, <2>3 DEF CallsAreOnce
<1>4. ASSUME NoCall  PROVE InvokeOnce' /\ Sent' = Sent
  BY <1>1, <1>4, SentNoCall
<1>5. ASSUME NEW t, t \in registry,
             registry' = registry \ {t}, procs' \in {procs, procs \ {t}},
             \E outcome : Answer(t, outcome), InvokeOnce', Sent' = Sent
      PROVE  CallsAreOnce'
  <2>1. PICK outcome : replies' = replies \cup {[token |-> t, outcome |-> outcome]}
    BY <1>5 DEF Answer
  <2>2. t \notin Sent
    BY <1>5 DEF CallsAreOnce
  <2>3. \A r \in replies : r.token # t
    BY <1>5 DEF CallsAreOnce
  <2>4. registry' \subseteq procs'
    BY <1>5 DEF CallsAreOnce
  <2> QED
    BY <1>5, <2>1, <2>2, <2>3, <2>4 DEF CallsAreOnce
<1>6. CASE NoCall
  <2>1. ASSUME registry' \subseteq registry, registry' \subseteq procs', procs' \subseteq procs,
               replies' \subseteq replies
        PROVE  CallsAreOnce'
    BY <1>4, <1>6, <2>1 DEF CallsAreOnce
  <2>2. CASE Render \/ Mount \/ Unmount \/ ReplyArrives \/ Publish \/ Escape
             \/ DocumentChanges \/ UNCHANGED vars
    <3>1. registry' = registry /\ procs' = procs /\ replies' \subseteq replies
      BY <2>2 DEF Render, Mount, Unmount, ReplyArrives, Publish, Escape, DocumentChanges,
         vars, taskVars
    <3> QED
      BY <2>1, <3>1 DEF CallsAreOnce
  <2>3. CASE HandleCancel
    <3>1. CASE Head(queue).token \in registry
      <4>1. /\ registry' = registry \ {Head(queue).token} /\ procs' = procs
            /\ Answer(Head(queue).token, "cancelled")
        BY <2>3, <3>1 DEF HandleCancel
      <4> QED
        BY <1>4, <1>5, <1>6, <3>1, <4>1
    <3>2. CASE Head(queue).token \notin registry
      <4>1. UNCHANGED <<registry, procs, replies>>
        BY <2>3, <3>2 DEF HandleCancel
      <4> QED
        BY <2>1, <4>1 DEF CallsAreOnce
    <3> QED
      BY <3>1, <3>2
  <2>4. ASSUME NEW t \in procs, CoreReads(t)  PROVE CallsAreOnce'
    <3>1. UNCHANGED <<registry, procs, replies>>
      BY <2>4 DEF CoreReads
    <3> QED
      BY <2>1, <3>1 DEF CallsAreOnce
  <2>5. ASSUME NEW t \in procs, ProcessCloses(t)  PROVE CallsAreOnce'
    <3>1. registry' = registry \ {t} /\ procs' = procs \ {t}
      BY <2>5 DEF ProcessCloses
    <3>2. CASE t \in registry
      <4>1. \E outcome : Answer(t, outcome)
        BY <2>5, <3>2 DEF ProcessCloses
      <4> QED
        BY <1>4, <1>5, <1>6, <3>1, <3>2, <4>1
    <3>3. CASE t \notin registry
      <4>1. UNCHANGED replies
        BY <2>5, <3>3 DEF ProcessCloses
      <4> QED
        BY <2>1, <3>1, <4>1 DEF CallsAreOnce
    <3> QED
      BY <3>2, <3>3
  <2> QED
    BY <1>6, <2>2, <2>3, <2>4, <2>5 DEF NoCall
<1> QED
  BY <1>2, <1>3, <1>6, NextIsCall

(***************************************************************************)
(* Escape's registry                                                       *)
(***************************************************************************)

\* A call is unsettled while it is sent, registered or answered.
LEMMA UnsettledTokens ==
  TypeOK => \A t \in Tokens :
    Unsettled(t) <=> t \in Sent \/ t \in registry \/ \E r \in replies : r.token = t
  BY DEF Unsettled, Sent

\* An answer adds its token to those that are answered.
LEMMA AnsweredTokens ==
  ASSUME NEW t, NEW outcome, Answer(t, outcome)
  PROVE  {r.token : r \in replies'} = {r.token : r \in replies} \cup {t}
<1> DEFINE a == [token |-> t, outcome |-> outcome]
<1>1. replies' = replies \cup {a} /\ a.token = t
  BY DEF Answer
<1> HIDE DEF a
<1> QED
  BY <1>1

\* Every step keeps in Escape's registry the call the view waits for.
LEMMA InflightStep ==
  TypeOK /\ TypeOK' /\ CallsAreOnce /\ InflightIsUnsettled /\ [Next]_vars => InflightIsUnsettled'
<1> SUFFICES ASSUME TypeOK, TypeOK', CallsAreOnce, InflightIsUnsettled, [Next]_vars
             PROVE  InflightIsUnsettled'
  OBVIOUS
<1> USE DEF hook, main
<1> DEFINE U == Sent \cup registry \cup {r.token : r \in replies}
<1>1. /\ InvokeOnce
      /\ inflight = {t \in {tokenRef} \ {NoToken} : t \in U}
      /\ NoToken \notin Tokens /\ tokenRef \in Tokens \cup {NoToken}
      /\ U \subseteq Tokens
  BY UnsettledTokens, TokenTypes DEF InflightIsUnsettled, CallsAreOnce, TypeOK, Sent
<1>2. ASSUME inflight' = {t \in {tokenRef'} \ {NoToken} : t \in U'}
      PROVE  InflightIsUnsettled'
  <2>1. /\ tokenRef' \in Tokens' \cup {NoToken}
        /\ \A t \in Tokens' : Unsettled(t)' <=> t \in U'
    BY DEF TypeOK, Unsettled, Sent, Invoke
  <2>2. \A t \in {tokenRef'} \ {NoToken} : t \in Tokens'
    BY <2>1
  <2>3. {t \in {tokenRef'} \ {NoToken} : t \in U'} = {t \in {tokenRef'} \ {NoToken} : Unsettled(t)'}
    BY <2>1, <2>2
  <2> QED
    BY <1>2, <2>3 DEF InflightIsUnsettled, Unsettled, Invoke
<1>3. CASE Run
  <2> DEFINE new == lastToken + 1
  <2>1. /\ Sent' = Sent \cup {new} /\ new \in Nat /\ new \notin Tokens
        /\ tokenRef' = new /\ inflight' = (inflight \ {tokenRef}) \cup {new}
    BY <1>1, <1>3, SentRun, RunEffect
  <2>2. new \in U' /\ inflight' = {new} /\ new # NoToken
    BY <1>1, <2>1, NullAssumption
  <2> HIDE DEF U, new
  <2> QED
    BY <1>2, <2>1, <2>2
<1>4. CASE HandleInvoke
  <2> DEFINE t == Head(queue).token
  <2>1. t \in Sent /\ Sent' = Sent \ {t}
    <3>1. Tokens' = Tokens
      BY <1>4 DEF HandleInvoke, Tokens
    <3> QED
      BY <1>1, <1>4, <3>1, SentHandled DEF HandleInvoke, Handle
  <2>2. \/ registry' = registry \cup {t} /\ UNCHANGED replies
        \/ /\ {r.token : r \in replies'} = {r.token : r \in replies} \cup {t}
           /\ UNCHANGED registry
    BY <1>4, AnsweredTokens DEF HandleInvoke
  <2>3. U' = U
    <3> HIDE DEF t
    <3> QED
      BY <2>1, <2>2
  <2>4. UNCHANGED <<inflight, tokenRef>>
    BY <1>4 DEF HandleInvoke
  <2> HIDE DEF U
  <2> QED
    BY <1>1, <1>2, <2>3, <2>4
<1>5. CASE NoCall
  <2>1. Sent' = Sent
    BY <1>1, <1>5, SentNoCall
  <2>2. ASSUME U' = U, UNCHANGED <<inflight, tokenRef>>  PROVE InflightIsUnsettled'
    <3> HIDE DEF U
    <3> QED
      BY <1>1, <1>2, <2>2
  <2>3. CASE Render \/ Unmount
    <3>1. CancelCurrent /\ tokenRef' = NoToken
      BY <2>3 DEF Render, Unmount
    <3>2. inflight' = {}
      <4>1. CASE tokenRef = NoToken
        BY <1>1, <3>1, <4>1 DEF CancelCurrent
      <4>2. CASE tokenRef # NoToken
        BY <1>1, <3>1, <4>2 DEF CancelCurrent
      <4> QED
        BY <4>1, <4>2
    <3> HIDE DEF U
    <3> QED
      BY <1>2, <3>1, <3>2
  <2>4. CASE Mount \/ Publish \/ Escape \/ DocumentChanges \/ UNCHANGED vars
             \/ \E t \in procs : CoreReads(t)
    <3>1. UNCHANGED <<registry, replies, inflight, tokenRef>>
      BY <2>4 DEF Mount, Publish, Escape, DocumentChanges, CoreReads, vars, taskVars
    <3> QED
      BY <2>1, <2>2, <3>1
  <2>5. CASE ReplyArrives
    <3>1. PICK r \in replies :
            /\ replies' = replies \ {r}
            /\ IF Expected(r) THEN inflight' = inflight \ {r.token} ELSE UNCHANGED inflight
            /\ UNCHANGED <<registry, tokenRef>>
      BY <2>5 DEF ReplyArrives
    <3>2. /\ r.token \notin Sent /\ r.token \notin registry
          /\ \A s \in replies : s.token = r.token => s = r
      BY DEF CallsAreOnce
    <3>3. U' = U \ {r.token}
      BY <2>1, <3>1, <3>2
    <3>4. inflight' = {t \in {tokenRef'} \ {NoToken} : t \in U'}
      <4> HIDE DEF U
      <4>1. CASE tokenRef = r.token
        BY <1>1, <3>1, <3>3, <4>1 DEF Expected
      <4>2. CASE tokenRef # r.token
        BY <1>1, <3>1, <3>3, <4>2 DEF Expected
      <4> QED
        BY <4>1, <4>2
    <3> HIDE DEF U
    <3> QED
      BY <1>2, <3>4
  <2>6. ASSUME NEW t, t \in registry, registry' = registry \ {t},
               \E outcome : Answer(t, outcome), UNCHANGED <<inflight, tokenRef>>
        PROVE  InflightIsUnsettled'
    <3>1. {r.token : r \in replies'} = {r.token : r \in replies} \cup {t}
      BY <2>6, AnsweredTokens
    <3>2. U' = U
      BY <2>1, <2>6, <3>1
    <3> QED
      BY <2>2, <2>6, <3>2
  <2>7. CASE HandleCancel
    <3>1. CASE Head(queue).token \in registry
      <4>1. /\ registry' = registry \ {Head(queue).token}
            /\ \E outcome : Answer(Head(queue).token, outcome)
            /\ UNCHANGED <<inflight, tokenRef>>
        BY <2>7, <3>1 DEF HandleCancel
      <4> QED
        BY <2>6, <3>1, <4>1
    <3>2. CASE Head(queue).token \notin registry
      <4>1. UNCHANGED <<registry, replies, inflight, tokenRef>>
        BY <2>7, <3>2 DEF HandleCancel
      <4> QED
        BY <2>1, <2>2, <4>1
    <3> QED
      BY <3>1, <3>2
  <2>8. ASSUME NEW t \in procs, ProcessCloses(t)  PROVE InflightIsUnsettled'
    <3>1. registry' = registry \ {t} /\ UNCHANGED <<inflight, tokenRef>>
      BY <2>8 DEF ProcessCloses
    <3>2. CASE t \in registry
      <4>1. \E outcome : Answer(t, outcome)
        BY <2>8, <3>2 DEF ProcessCloses
      <4> QED
        BY <2>6, <3>1, <3>2, <4>1
    <3>3. CASE t \notin registry
      <4>1. UNCHANGED <<registry, replies>>
        BY <2>8, <3>1, <3>3 DEF ProcessCloses
      <4> QED
        BY <2>1, <2>2, <3>1, <4>1
    <3> QED
      BY <3>2, <3>3
  <2> QED
    BY <1>5, <2>3, <2>4, <2>5, <2>7, <2>8 DEF NoCall
<1> QED
  BY <1>3, <1>4, <1>5, NextIsCall

(***************************************************************************)
(* What is shown and published                                             *)
(***************************************************************************)

\* Every step keeps the state that of the run the view waits for.
LEMMA StateStep ==
  TypeOK /\ TypeOK' /\ StateIsOfTheRun /\ [Next]_vars => StateIsOfTheRun'
<1> SUFFICES ASSUME TypeOK, TypeOK', StateIsOfTheRun, [Next]_vars PROVE StateIsOfTheRun'
  OBVIOUS
<1> USE DEF document, hook, session, main
<1>1. /\ rev \in Nat /\ rendered \in Nat /\ rendered <= rev
      /\ NoToken \notin Tokens /\ NoToken \notin Nat /\ tokenRef \in Tokens \cup {NoToken}
      /\ state.token \in Tokens \cup {NoToken}
  BY TokenTypes, NullAssumption DEF StateIsOfTheRun, TypeOK
<1>2. CASE Run
  <2> DEFINE new == lastToken + 1
  <2>1. /\ new \in 1 .. MaxRuns /\ new \in Nat /\ new \notin Tokens
        /\ Tokens' = Tokens \cup {new} /\ tokenRef' = new
    BY <1>2, RunEffect
  <2>2. /\ startedAt' = [startedAt EXCEPT ![new] = rev]
        /\ state' = [status |-> "running", revision |-> rendered, token |-> new]
        /\ mounted /\ UNCHANGED <<rev, rendered, mounted>>
    BY <1>2 DEF Run
  <2>3. startedAt'[new] = rev /\ \A t \in Tokens : startedAt'[t] = startedAt[t]
    BY <2>1, <2>2 DEF TypeOK
  <2> HIDE DEF new
  <2>4. \A t \in Tokens' : startedAt'[t] \in Nat /\ startedAt'[t] <= rev
    BY <1>1, <2>1, <2>3 DEF StateIsOfTheRun
  <2>5. /\ state'.token = new /\ state'.status = "running" /\ state'.revision = rendered
        /\ new # NoToken
    BY <1>1, <2>1, <2>2
  <2> QED
    BY <1>1, <2>1, <2>2, <2>3, <2>4, <2>5 DEF StateIsOfTheRun
<1>3. ASSUME UNCHANGED lastToken  PROVE Tokens' = Tokens
  BY <1>3 DEF Tokens
<1>4. ASSUME UNCHANGED <<lastToken, startedAt, state>>, rev' \in {rev, rev + 1},
             rendered' \in {rendered, rev}, UNCHANGED <<tokenRef, mounted>> \/ tokenRef' = NoToken
      PROVE  StateIsOfTheRun'
  <2>1. Tokens' = Tokens /\ rendered' <= rev' /\ rev <= rev' /\ rev' \in Nat
    BY <1>1, <1>3, <1>4
  <2>2. \A t \in Tokens : startedAt[t] \in Nat /\ startedAt[t] <= rev'
    BY <1>1, <2>1 DEF StateIsOfTheRun
  <2> QED
    BY <1>4, <2>1, <2>2 DEF StateIsOfTheRun
<1>5. CASE Render
  BY <1>4, <1>5 DEF Render
<1>6. CASE Unmount
  BY <1>4, <1>6 DEF Unmount
<1>7. CASE Mount
  <2>1. tokenRef' = NoToken
    BY <1>7 DEF Mount, StateIsOfTheRun
  <2>2. state'.status = "idle" /\ state'.token = NoToken
    BY <1>7 DEF Mount, Idle
  <2>3. Tokens' = Tokens /\ rendered' = rev /\ UNCHANGED <<rev, startedAt>>
    BY <1>3, <1>7 DEF Mount
  <2> QED
    BY <1>1, <2>1, <2>2, <2>3 DEF StateIsOfTheRun
<1>8. CASE ReplyArrives
  <2>1. PICK r \in replies :
          IF Expected(r) THEN state' = Settled(r) ELSE UNCHANGED state
    BY <1>8 DEF ReplyArrives
  <2>2. /\ UNCHANGED <<rev, rendered, tokenRef, mounted, startedAt>>
        /\ Tokens' = Tokens
    BY <1>3, <1>8 DEF ReplyArrives
  <2>3. CASE Expected(r)
    <3>1. r.token \in Tokens
      BY DEF TypeOK
    <3>2. state'.token = r.token /\ state'.revision = state.revision
      BY <2>1, <2>3 DEF Settled
    <3>3. state.token = r.token /\ r.token # NoToken
      BY <1>1, <2>3, <3>1 DEF Expected, StateIsOfTheRun
    <3> QED
      BY <2>2, <3>2, <3>3 DEF StateIsOfTheRun
  <2>4. CASE ~Expected(r)
    BY <2>1, <2>2, <2>4 DEF StateIsOfTheRun
  <2> QED
    BY <2>3, <2>4
<1>9. CASE Publish \/ Escape \/ HandleInvoke \/ HandleCancel \/ UNCHANGED vars
           \/ \E t \in procs : CoreReads(t) \/ ProcessCloses(t)
  BY <1>4, <1>9 DEF Publish, Escape, HandleInvoke, HandleCancel, CoreReads, ProcessCloses,
     vars, taskVars
<1>10. CASE DocumentChanges
  <2>1. rev' \in {rev, rev + 1}
    BY <1>10 DEF DocumentChanges
  <2> QED
    BY <1>4, <1>10, <2>1 DEF DocumentChanges, taskVars
<1> QED
  BY <1>2, <1>5, <1>6, <1>7, <1>8, <1>9, <1>10 DEF Next, TaskStep

\* A run that is over stays over.
LEMMA DoneStep ==
  ASSUME TypeOK, CallsAreOnce, [Next]_vars, NEW t \in Tokens, Done(t)
  PROVE  Done(t)' /\ t \in Tokens'
<1> USE DEF hook, main
<1>1. InvokeOnce
  BY DEF CallsAreOnce
<1>2. CASE Run
  <2>1. Sent' = Sent \cup {lastToken + 1} /\ Tokens' = Tokens \cup {lastToken + 1}
        /\ lastToken + 1 \notin Tokens
    BY <1>1, <1>2, SentRun, RunEffect
  <2> QED
    BY <1>2, <2>1 DEF Run, Done
<1>3. CASE HandleInvoke
  <2>1. Tokens' = Tokens /\ UNCHANGED readBy
    BY <1>3 DEF HandleInvoke, Tokens
  <2>2. Head(queue).token \in Sent /\ Sent' \subseteq Sent
    BY <1>1, <1>3, <2>1, SentHandled DEF HandleInvoke, Handle
  <2>3. procs' \subseteq procs \cup {Head(queue).token}
    BY <1>3 DEF HandleInvoke
  <2> QED
    BY <2>1, <2>2, <2>3 DEF Done
<1>4. CASE NoCall
  <2>1. Sent' = Sent /\ Tokens' = Tokens
    BY <1>1, <1>4, SentNoCall
  <2>2. procs' \subseteq procs
    BY <1>4 DEF NoCall, Render, Mount, Unmount, ReplyArrives, Publish, Escape, HandleCancel,
       CoreReads, ProcessCloses, DocumentChanges, vars, taskVars
  <2>3. readBy'[t] = readBy[t]
    <3>1. CASE \E u \in procs : CoreReads(u)
      BY <3>1 DEF CoreReads, Done, TypeOK
    <3>2. CASE UNCHANGED readBy
      BY <3>2
    <3> QED
      BY <1>4, <3>1, <3>2 DEF NoCall, Render, Mount, Unmount, ReplyArrives, Publish, Escape,
         HandleCancel, ProcessCloses, DocumentChanges, vars, taskVars
  <2> QED
    BY <2>1, <2>2, <2>3 DEF Done
<1> QED
  BY <1>2, <1>3, <1>4, NextIsCall

\* An answer with a result is that of a run that is over.
LEMMA AnswerIsDone ==
  ASSUME TypeOK, CallsAreOnce, [Next]_vars, NEW r \in replies', r \notin replies, r.outcome = "ok"
  PROVE  Done(r.token)'
<1> USE DEF document, hook, session, main
<1>1. \A t : Answer(t, "error") \/ Answer(t, "cancelled") => r \in replies
  BY DEF Answer
<1>2. ASSUME replies' \subseteq replies  PROVE FALSE
  BY <1>2
<1>3. CASE Run \/ Render \/ Mount \/ Unmount \/ ReplyArrives \/ Publish \/ Escape
           \/ DocumentChanges \/ UNCHANGED vars \/ \E t \in procs : CoreReads(t)
  BY <1>2, <1>3 DEF Run, Render, Mount, Unmount, ReplyArrives, Publish, Escape, DocumentChanges,
     CoreReads, vars, taskVars
<1>4. CASE HandleInvoke \/ HandleCancel
  BY <1>1, <1>2, <1>4 DEF HandleInvoke, HandleCancel
<1>5. ASSUME NEW t \in procs, ProcessCloses(t)  PROVE Done(r.token)'
  <2>1. readBy[t] # NoSource /\ Answer(t, "ok") /\ procs' = procs \ {t} /\ UNCHANGED readBy
    BY <1>1, <1>2, <1>5 DEF ProcessCloses
  <2>2. r.token = t
    BY <2>1 DEF Answer
  <2>3. Sent' = Sent
    BY <1>5, SentNoCall DEF NoCall, CallsAreOnce
  <2>4. t \notin Sent
    BY DEF CallsAreOnce
  <2> QED
    BY <2>1, <2>2, <2>3, <2>4 DEF Done
<1> QED
  BY <1>3, <1>4, <1>5 DEF Next, TaskStep

\* Every step keeps a success that of a run that is over.
LEMMA SuccessStep ==
  TypeOK /\ CallsAreOnce /\ StateIsOfTheRun /\ SuccessIsDone /\ [Next]_vars => SuccessIsDone'
<1> SUFFICES ASSUME TypeOK, CallsAreOnce, StateIsOfTheRun, SuccessIsDone, [Next]_vars
             PROVE  SuccessIsDone'
  OBVIOUS
<1> USE DEF document, hook, session, main
<1>1. \A r \in replies' : r.outcome = "ok" => Done(r.token)'
  <2> SUFFICES ASSUME NEW r \in replies', r.outcome = "ok"  PROVE Done(r.token)'
    OBVIOUS
  <2>1. CASE r \in replies
    <3>1. r.token \in Tokens /\ Done(r.token)
      BY <2>1 DEF TypeOK, SuccessIsDone
    <3> QED
      BY <3>1, DoneStep
  <2>2. CASE r \notin replies
    BY <2>2, AnswerIsDone
  <2> QED
    BY <2>1, <2>2
<1>2. state.status = "success" => state.token \in Tokens /\ Done(state.token)
  BY DEF SuccessIsDone, StateIsOfTheRun, TypeOK
<1>3. state'.status = "success" => Done(state.token)'
  <2> SUFFICES ASSUME state'.status = "success"  PROVE Done(state.token)'
    OBVIOUS
  <2>1. CASE state' = state
    <3>1. Done(state.token) /\ state.token \in Tokens
      BY <1>2, <2>1
    <3>2. PICK t \in Tokens : t = state.token /\ Done(t)
      BY <3>1
    <3>3. Done(t)'
      BY <3>2, DoneStep
    <3> QED
      BY <2>1, <3>2, <3>3 DEF Done
  <2>2. CASE Run \/ Mount
    BY <2>2 DEF Run, Mount, Idle
  <2>3. CASE ReplyArrives
    <3>1. PICK r \in replies :
            IF Expected(r) THEN state' = Settled(r) ELSE UNCHANGED state
      BY <2>3 DEF ReplyArrives
    <3>2. CASE Expected(r)
      <4>1. r.outcome = "ok" /\ state'.token = r.token
        BY <3>1, <3>2 DEF Settled
      <4>2. r.token \in Tokens /\ Done(r.token)
        BY <4>1 DEF TypeOK, SuccessIsDone
      <4>3. Done(r.token)'
        BY <4>2, DoneStep
      <4> QED
        BY <4>1, <4>3 DEF Done
    <3>3. CASE ~Expected(r)
      BY <2>1, <3>1, <3>3
    <3> QED
      BY <3>2, <3>3
  <2>4. CASE Render \/ Unmount \/ Publish \/ Escape \/ HandleInvoke \/ HandleCancel
             \/ DocumentChanges \/ UNCHANGED vars
             \/ \E t \in procs : CoreReads(t) \/ ProcessCloses(t)
    <3>1. state' = state
      BY <2>4 DEF Render, Unmount, Publish, Escape, HandleInvoke, HandleCancel, DocumentChanges,
         CoreReads, ProcessCloses, vars, taskVars
    <3> QED
      BY <2>1, <3>1
  <2> QED
    BY <2>2, <2>3, <2>4 DEF Next, TaskStep
<1>4. ASSUME NEW t \in Tokens, Done(t), NEW e, e <= startedAt[t], evidence' = e,
             UNCHANGED startedAt \/ Run
      PROVE  \E u \in Tokens' : evidence' <= startedAt'[u] /\ Done(u)'
  <2>1. t \in Tokens' /\ Done(t)'
    BY <1>4, DoneStep
  <2>2. startedAt'[t] = startedAt[t]
    <3>1. CASE Run
      <4>1. lastToken + 1 \notin Tokens /\ startedAt' = [startedAt EXCEPT ![lastToken + 1] = rev]
        BY <3>1, TokenTypes DEF Run
      <4> QED
        BY <4>1, TokenTypes DEF TypeOK
    <3> QED
      BY <1>4, <3>1
  <2> QED
    BY <1>4, <2>1, <2>2
<1>5. UNCHANGED startedAt \/ Run
  BY DEF Next, TaskStep, Render, Mount, Unmount, ReplyArrives, Publish, Escape, HandleInvoke,
     HandleCancel, CoreReads, ProcessCloses, DocumentChanges, vars, taskVars
<1>6. evidence' # NoRevision => \E u \in Tokens' : evidence' <= startedAt'[u] /\ Done(u)'
  <2> SUFFICES ASSUME evidence' # NoRevision
               PROVE  \E u \in Tokens' : evidence' <= startedAt'[u] /\ Done(u)'
    OBVIOUS
  <2>1. CASE evidence' = evidence
    <3>1. PICK t \in Tokens : evidence <= startedAt[t] /\ Done(t)
      BY <2>1 DEF SuccessIsDone
    <3> QED
      BY <1>4, <1>5, <2>1, <3>1
  <2>2. CASE Publish /\ IsEvidence
    <3>1. evidence' = state.revision /\ state.status = "success"
      BY <2>2 DEF Publish, IsEvidence
    <3>2. /\ state.token \in Tokens /\ Done(state.token)
          /\ state.revision <= startedAt[state.token]
      BY <1>2, <3>1 DEF StateIsOfTheRun
    <3> QED
      BY <1>4, <1>5, <3>1, <3>2
  <2>3. CASE ~(Publish /\ IsEvidence)
    <3>1. evidence' = evidence
      BY <2>3 DEF Next, TaskStep, Run, Render, Mount, Unmount, ReplyArrives, Publish, Escape,
         HandleInvoke, HandleCancel, CoreReads, ProcessCloses, DocumentChanges, vars, taskVars
    <3> QED
      BY <2>1, <3>1
  <2> QED
    BY <2>2, <2>3
<1> QED
  BY <1>1, <1>3, <1>6 DEF SuccessIsDone

(***************************************************************************)
(* The theorems                                                            *)
(***************************************************************************)

\* Every step keeps the inductive invariant.
LEMMA InvStep == IInv /\ [Next]_vars => IInv'
<1> SUFFICES ASSUME IInv, [Next]_vars PROVE IInv'
  OBVIOUS
<1> USE DEF IInv
<1>1. TypeOK /\ TypeInv' /\ TypeOK'
  BY TypeStep DEF TypeInv
<1>2. CancelFollowsInvoke' /\ SupersededRunsAreCancelled'
  BY <1>1, CancelsStep DEF Cancels
<1> QED
  BY <1>1, <1>2, CallsStep, InflightStep, StateStep, SuccessStep

\* The task begins idle, with no call sent.
LEMMA InvInit == Init => IInv
<1> SUFFICES ASSUME Init PROVE IInv
  OBVIOUS
<1> USE DEF Init, DocumentInit, TaskInit
<1>1. /\ TypeInv /\ queue = <<>> /\ Range(queue) = {} /\ Tokens = {}
      /\ NoToken \notin Nat /\ 0 <= 0
  BY TypeInit, NullAssumption DEF Range, Tokens
<1>2. CancelFollowsInvoke /\ SupersededRunsAreCancelled /\ InvokeOnce
  BY <1>1 DEF CancelFollowsInvoke, SupersededRunsAreCancelled, InvokeOnce
<1>3. CallsAreOnce /\ InflightIsUnsettled
  BY <1>1, <1>2 DEF CallsAreOnce, Sent, InflightIsUnsettled
<1>4. StateIsOfTheRun /\ SuccessIsDone
  BY <1>1 DEF StateIsOfTheRun, SuccessIsDone, Idle
<1> QED
  BY <1>1, <1>2, <1>3, <1>4 DEF IInv

\* So it always holds; the theorems read off its parts.
LEMMA Invariant == Spec => []IInv
  BY InvInit, InvStep, PTL DEF Spec

\* No core process is stranded: a call main holds that the view does not wait
\* for has its cancel behind it in the queue.
THEOREM SupersededAlwaysCancelled == Spec => []SupersededRunsAreCancelled
<1>1. IInv => SupersededRunsAreCancelled
  BY DEF IInv
<1> QED
  BY <1>1, Invariant, PTL

\* Escape's registry is exactly the unsettled call the view waits for.
THEOREM InflightAlwaysUnsettled == Spec => []InflightIsUnsettled
<1>1. IInv => InflightIsUnsettled
  BY DEF IInv
<1> QED
  BY <1>1, Invariant, PTL

\* A result shown as live was computed by a run started at the revision on
\* screen: a run is stamped with a rendered revision, which is never ahead of
\* the document's.
THEOREM LiveResultAlwaysOfThisRevision == Spec => []LiveResultIsOfThisRevision
<1>1. IInv => LiveResultIsOfThisRevision
  <2> SUFFICES ASSUME IInv, mounted, state.status = "success"
               PROVE  /\ state.revision = rev => startedAt[state.token] = rev
                      /\ tokenRef # NoToken => state.token = tokenRef
    BY DEF LiveResultIsOfThisRevision
  <2>1. state.token \in Tokens /\ rev \in Nat
    BY DEF IInv, StateIsOfTheRun, TypeInv, TypeOK
  <2>2. /\ startedAt[state.token] \in Nat /\ startedAt[state.token] <= rev
        /\ state.revision \in Nat /\ state.revision <= startedAt[state.token]
    BY <2>1 DEF IInv, StateIsOfTheRun
  <2> QED
    BY <2>1, <2>2 DEF IInv, StateIsOfTheRun
<1> QED
  BY <1>1, Invariant, PTL

\* Evidence for the current revision is the success of a run that was started
\* at it, read the source and is over.
THEOREM EvidenceAlwaysReal == Spec => []EvidenceIsReal
<1>1. IInv => EvidenceIsReal
  <2> SUFFICES ASSUME IInv, evidence = rev
               PROVE  \E t \in Tokens : startedAt[t] = rev /\ readBy[t] # NoSource /\ t \notin procs
    BY DEF EvidenceIsReal
  <2>1. rev \in Nat /\ evidence # NoRevision
    BY NullAssumption DEF IInv, TypeInv, TypeOK
  <2>2. PICK t \in Tokens : evidence <= startedAt[t] /\ Done(t)
    BY <2>1 DEF IInv, SuccessIsDone
  <2>3. startedAt[t] \in Nat /\ startedAt[t] <= rev
    BY DEF IInv, StateIsOfTheRun
  <2> QED
    BY <2>1, <2>2, <2>3 DEF Done
<1> QED
  BY <1>1, Invariant, PTL
=============================================================================
