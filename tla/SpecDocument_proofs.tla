------------------------ MODULE SpecDocument_proofs ------------------------
(* Proofs about SpecDocument, for any projects and any number of events.   *)
EXTENDS SpecDocument, DataLemmas

(***************************************************************************)
(* Type correctness                                                        *)
(***************************************************************************)

\* The requests the renderer sends, and what main may rely on in them.
LEMMA RequestTypes ==
  /\ [op |-> "currentProject"] \in Request
  /\ \A n \in Nat, b \in BOOLEAN : [op |-> "readSpec", seq |-> n, mark |-> b] \in Request
  /\ \A t \in Text : [op |-> "writeSpec", text |-> t] \in Request
  /\ \A m \in Request : m.op = "readSpec" => m.seq \in Nat /\ m.mark \in BOOLEAN
  /\ \A m \in Request : m.op = "writeSpec" => m.text \in Text
<1> USE DEF Request, ReadRequest, WriteRequest, CurrentRequest
<1>1. /\ [op |-> "currentProject"] \in Request
      /\ \A n \in Nat, b \in BOOLEAN : [op |-> "readSpec", seq |-> n, mark |-> b] \in Request
      /\ \A t \in Text : [op |-> "writeSpec", text |-> t] \in Request
  OBVIOUS
<1>2. \A m \in Request : m.op = "readSpec" => m.seq \in Nat /\ m.mark \in BOOLEAN
  OBVIOUS
<1>3. \A m \in Request : m.op = "writeSpec" => m.text \in Text
  OBVIOUS
<1> QED
  BY <1>1, <1>2, <1>3

\* The messages main sends, and what the renderer may rely on in them.
LEMMA MessageTypes ==
  /\ FileChanged \in Message
  /\ \A p \in Projects : ProjectChanged(p) \in Message
  /\ \A p \in Projects \cup {NoProject} : [event |-> "currentProject", project |-> p] \in Message
  /\ \A m \in Message : m.event \in {"projectChanged", "currentProject"}
                          => m.project \in Projects \cup {NoProject}
<1> USE DEF Message, FileChanged, ProjectChanged
<1>1. /\ FileChanged \in Message
      /\ \A p \in Projects : ProjectChanged(p) \in Message
      /\ \A p \in Projects \cup {NoProject} :
            [event |-> "currentProject", project |-> p] \in Message
  OBVIOUS
<1>2. \A m \in Message : m.event \in {"projectChanged", "currentProject"}
                           => m.project \in Projects \cup {NoProject}
  OBVIOUS
<1> QED
  BY <1>1, <1>2

\* A text is a record of an owner and a version.
LEMMA TextTypes ==
  /\ \A p \in Projects \cup {NoProject}, n \in Nat : [owner |-> p, version |-> n] \in Text
  /\ \A t \in Text : t.owner \in Projects \cup {NoProject} /\ t.version \in Nat
  BY DEF Text

\* Every variable keeps its type through every step.
LEMMA TypeStep == TypeOK /\ [Next]_vars => TypeOK'
<1> SUFFICES ASSUME TypeOK, [Next]_vars PROVE TypeOK'
  OBVIOUS
<1> USE DEF TypeOK, renderer, channels, session, files
<1>a. Author => authored' \in Nat /\ authored' = authored + 1
  BY DEF Author
<1>b. Command => commands' \in Nat
  BY DEF Command
<1>c. \A t \in Text : ApplySpecText(t) => text' \in Text /\ stale' \in BOOLEAN /\ rev' \in Nat
  <2>1. rev + 1 \in Nat
    OBVIOUS
  <2> QED
    BY <2>1 DEF ApplySpecText
<1>1. CASE SetSpecText
  <2>1. authored' \in Nat /\ authored' = authored + 1
    BY <1>1, <1>a DEF SetSpecText
  <2>2. [owner |-> text.owner, version |-> authored + 1] \in Text
    <3>1. text.owner \in Projects \cup {NoProject} /\ authored + 1 \in Nat
      BY TextTypes
    <3> QED
      BY <3>1, TextTypes
  <2>3. text' \in Text /\ pending' \in Text /\ stale' \in BOOLEAN /\ rev' \in Nat
    BY <1>1, <1>c, <2>2 DEF SetSpecText
  <2> QED
    BY <1>1, <2>1, <2>3 DEF SetSpecText
<1>2. CASE WriteTimerFires
  <2>1. toMain' \in Seq(Request)
    BY <1>2, RequestTypes DEF WriteTimerFires
  <2> QED
    BY <1>2, <2>1 DEF WriteTimerFires
<1>3. CASE ReadReplyArrives
  <2>1. text' \in Text /\ stale' \in BOOLEAN /\ rev' \in Nat /\ replies' \subseteq Reply
    <3>1. PICK r \in replies :
            /\ replies' = replies \ {r}
            /\ IF IsCurrent(r) /\ r.text # NoText
                 THEN IF r.mark THEN ApplySpecText(r.text)
                                ELSE text' = r.text /\ UNCHANGED <<stale, rev>>
                 ELSE UNCHANGED <<text, stale, rev>>
      BY <1>3 DEF ReadReplyArrives
    <3>2. r.text \in Text \cup {NoText}
      BY DEF Reply
    <3> QED
      BY <1>c, <3>1, <3>2
  <2> QED
    BY <1>3, <2>1 DEF ReadReplyArrives
<1>4. ReadSpecFromDisk(TRUE) => readSeq' \in Nat /\ toMain' \in Seq(Request)
  <2>1. readSeq + 1 \in Nat
    OBVIOUS
  <2>2. [op |-> "readSpec", seq |-> readSeq + 1, mark |-> TRUE] \in Request
    BY <2>1, RequestTypes
  <2> QED
    BY <2>1, <2>2 DEF ReadSpecFromDisk
<1>5. \A e \in {"projectChanged", "fileChanged", "currentProject"} : Receive(e) =>
        /\ inbox' \in Seq(Message)
        /\ e # "fileChanged" => Head(inbox).project \in Projects \cup {NoProject}
  BY TailElements, MessageTypes DEF Receive
<1>6. CASE OnProjectChanged
  BY <1>4, <1>5, <1>6 DEF OnProjectChanged
<1>7. CASE OnFileChanged
  BY <1>4, <1>5, <1>7 DEF OnFileChanged
<1>8. CASE OnCurrentProject
  BY <1>5, <1>8 DEF OnCurrentProject
<1>9. \A op \in {"readSpec", "writeSpec", "currentProject"} : Handle(op) =>
        /\ toMain' \in Seq(Request)
        /\ Head(toMain) \in Request /\ Head(toMain).op = op
  BY TailElements DEF Handle
<1>10. CASE HandleReadSpec
  <2>1. Head(toMain).seq \in Nat /\ Head(toMain).mark \in BOOLEAN
    BY <1>9, <1>10, RequestTypes DEF HandleReadSpec
  <2> QED
    BY <1>9, <1>10, <2>1 DEF HandleReadSpec, Reply
<1>11. CASE HandleWriteSpec
  <2>1. Head(toMain).text \in Text
    BY <1>9, <1>11, RequestTypes DEF HandleWriteSpec
  <2> QED
    BY <1>9, <1>11, <2>1 DEF HandleWriteSpec, Watched
<1>12. CASE HandleCurrentProject
  <2>1. inbox' \in Seq(Message)
    BY <1>12, MessageTypes DEF HandleCurrentProject
  <2> QED
    BY <1>9, <1>12, <2>1 DEF HandleCurrentProject
<1>13. CASE CloseProject
  BY <1>13, <1>b DEF CloseProject, Close
<1>14. CASE SaveProject
  BY <1>14, <1>b DEF SaveProject
<1>15. Append(inbox, FileChanged) \in Seq(Message)
  BY MessageTypes
<1>16. CASE WatchTimerFires
  BY <1>15, <1>16 DEF WatchTimerFires
<1>17. CASE StrayTimerFires
  BY <1>15, <1>17 DEF StrayTimerFires
<1>18. ASSUME NEW p \in Projects, OpenProject(p) PROVE TypeOK'
  <2>1. opening' \in [Projects -> Nat]
    BY <1>18 DEF OpenProject
  <2> QED
    BY <1>18, <1>b, <2>1 DEF OpenProject, Close
<1>19. \A p \in Projects : Append(inbox, ProjectChanged(p)) \in Seq(Message)
  BY MessageTypes
<1>20. ASSUME NEW p \in Projects, OpenCompletes(p) PROVE TypeOK'
  <2>1. inbox' \in Seq(Message) /\ strays' \in Nat /\ opening' \in [Projects -> Nat]
    BY <1>19, <1>20 DEF OpenCompletes
  <2> QED
    BY <1>20, <2>1 DEF OpenCompletes
<1>21. ASSUME NEW p \in Projects, OpenFails(p) PROVE TypeOK'
  BY <1>21 DEF OpenFails
<1>22. ASSUME NEW p \in Projects, SaveCompletes(p) PROVE TypeOK'
  BY <1>19, <1>22 DEF SaveCompletes
<1>23. ASSUME NEW p \in Projects, SaveFails(p) PROVE TypeOK'
  BY <1>23 DEF SaveFails
<1>24. ASSUME NEW p \in Projects, ExternalStep(p),
              \E t \in Text \cup {NoText} : disk' = [disk EXCEPT ![p] = t] \/ disk' = disk
       PROVE  TypeOK'
  <2>1. disk' \in [Projects -> Text \cup {NoText}]
    BY <1>24
  <2> QED
    BY <1>24, <1>a, <2>1 DEF ExternalStep, Watched
<1>25. ASSUME NEW p \in Projects, ExternalWrite(p) PROVE TypeOK'
  <2>1. [owner |-> p, version |-> authored + 1] \in Text
    BY TextTypes
  <2> QED
    BY <1>24, <1>25, <2>1 DEF ExternalWrite
<1>26. ASSUME NEW p \in Projects, ExternalRemove(p) PROVE TypeOK'
  BY <1>24, <1>26 DEF ExternalRemove
<1>27. ASSUME NEW p \in Projects, ExternalTouch(p) PROVE TypeOK'
  BY <1>24, <1>27 DEF ExternalTouch
<1>28. CASE UNCHANGED vars
  BY <1>28 DEF vars
<1> QED
  BY <1>1, <1>2, <1>3, <1>6, <1>7, <1>8, <1>10, <1>11, <1>12, <1>13, <1>14, <1>16, <1>17,
     <1>18, <1>20, <1>21, <1>22, <1>23, <1>25, <1>26, <1>27, <1>28
     DEF Next, RendererStep, MainStep, UserStep, OutsideStep, AwaitReturns

\* The initial state is well typed.
LEMMA TypeInit == Init => TypeOK
<1> SUFFICES ASSUME Init PROVE TypeOK
  OBVIOUS
<1>1. text \in Text /\ disk \in [Projects -> Text \cup {NoText}]
  BY TextTypes DEF Init, Original
<1>2. toMain \in Seq(Request)
  <2>1. /\ [op |-> "currentProject"] \in Request
        /\ [op |-> "readSpec", seq |-> 1, mark |-> FALSE] \in Request
    BY RequestTypes
  <2> QED
    BY <2>1 DEF Init
<1>3. inbox \in Seq(Message)
  <2>1. CASE inbox = <<>>
    BY <2>1
  <2>2. CASE cur # NoProject /\ inbox = <<ProjectChanged(cur)>>
    BY <2>2, MessageTypes DEF Init
  <2> QED
    BY <2>1, <2>2 DEF Init
<1> QED
  BY <1>1, <1>2, <1>3 DEF Init, TypeOK

\* Every reachable state is well typed.
THEOREM TypeCorrect == Spec => []TypeOK
  BY TypeInit, TypeStep, PTL DEF Spec

(***************************************************************************)
(* The inductive invariant.  A step can break it in three ways only: by    *)
(* changing the file, or which file is open, or the text; by starting a    *)
(* read; and by taking a message off a queue.                              *)
(***************************************************************************)

\* What appending to a queue, or taking its head off, does to the work due.
LEMMA RequestQueued ==
  ASSUME TypeOK, NEW m \in Request, toMain' = Append(toMain, m)
  PROVE  Range(toMain') = Range(toMain) \cup {m}
  BY AppendElements DEF TypeOK

\* An event that is sent is added to those under way.
LEMMA MessageQueued ==
  ASSUME TypeOK, NEW m \in Message, inbox' = Append(inbox, m)
  PROVE  Range(inbox') = Range(inbox) \cup {m}
  BY AppendElements DEF TypeOK

\* Main handles the request at the head of its queue.
LEMMA RequestTaken ==
  ASSUME TypeOK, NEW op, Handle(op)
  PROVE  /\ Head(toMain) \in Request /\ Head(toMain).op = op
         /\ Range(toMain) = Range(toMain') \cup {Head(toMain)}
  BY TailElements DEF TypeOK, Handle

\* The renderer takes the event at the head of its.
LEMMA MessageTaken ==
  ASSUME TypeOK, NEW event, Receive(event)
  PROVE  /\ Head(inbox) \in Message /\ Head(inbox).event = event
         /\ Range(inbox) = Range(inbox') \cup {Head(inbox)}
  BY TailElements DEF TypeOK, Receive

\* No read is started or answered.
KeepsReads ==
  /\ UNCHANGED readSeq
  /\ replies' \subseteq replies
  /\ \A m \in Range(toMain') : m.op = "readSpec" => m \in Range(toMain)

\* A step that leaves the text, the reads, the project and its file alone, and
\* loses no work that is due.
Quiet ==
  /\ UNCHANGED <<text, rev, readSeq, replies, cur>>
  /\ cur # NoProject => disk'[cur] = disk[cur]
  /\ rejected => rejected'
  /\ WorkIsDue => WorkIsDue' \/ rejected'
  /\ \A m \in Range(toMain') : m.op = "readSpec" => m \in Range(toMain)
  /\ \A m \in Range(toMain) : m.op = "readSpec" => m \in Range(toMain')

\* One after which work is due, or there is nothing to agree with.
BringsWork ==
  /\ KeepsReads
  /\ FileIsOpen' /\ ~rejected' => WorkIsDue'

\* Every step is one of these, or is about a read.
StepKind ==
  \/ Quiet
  \/ BringsWork
  \/ ReadSpecFromDisk(TRUE) /\ UNCHANGED replies
  \/ HandleReadSpec
  \/ ReadReplyArrives

\* The first two preserve the invariant.
LEMMA QuietStep ==
  ASSUME IInv, TypeOK', Quiet
  PROVE  IInv'
<1> USE DEF Quiet
<1>1. SeqBound'
  BY DEF IInv, SeqBound
<1>2. FileIsOpen' => FileIsOpen
  BY DEF FileIsOpen
<1>3. AnswerIsFresh'
  BY <1>2 DEF IInv, AnswerIsFresh, FileIsOpen
<1>4. FileIsOpen /\ ReadIsDue => ReadIsDue'
  BY DEF ReadIsDue, FileIsOpen
<1>5. DivergenceIsOwed'
  BY <1>2, <1>4 DEF IInv, DivergenceIsOwed, FileIsOpen
<1> QED
  BY <1>1, <1>3, <1>5 DEF IInv

\* A step that leaves work behind keeps the invariant, whatever it reads or writes.
LEMMA DueStep ==
  ASSUME IInv, TypeOK', BringsWork
  PROVE  IInv'
<1>1. SeqBound'
  BY DEF IInv, SeqBound, BringsWork, KeepsReads
<1> QED
  BY <1>1 DEF BringsWork, IInv, AnswerIsFresh, DivergenceIsOwed

\* So does starting a read.
LEMMA ReadStep ==
  ASSUME IInv, TypeOK', ReadSpecFromDisk(TRUE), UNCHANGED replies
  PROVE  IInv'
<1>1. readSeq \in Nat /\ readSeq' \in Nat /\ readSeq' = readSeq + 1
  BY DEF IInv, TypeOK, ReadSpecFromDisk
<1> DEFINE m == [op |-> "readSpec", seq |-> readSeq + 1, mark |-> TRUE]
<1>2. m \in Request
  <2>1. \A n \in Nat : [op |-> "readSpec", seq |-> n, mark |-> TRUE] \in Request
    BY RequestTypes
  <2> QED
    BY <1>1, <2>1
<1>3. Range(toMain') = Range(toMain) \cup {m}
  BY <1>2, RequestQueued DEF IInv, ReadSpecFromDisk
<1>4. m.op = "readSpec" /\ m.seq = readSeq'
  BY <1>1
<1>5. \A n \in Range(toMain) : n.op = "readSpec" => n.seq <= readSeq /\ n.seq \in Nat
  <2>1. Range(toMain) \subseteq Request
    BY DEF IInv, TypeOK, Range
  <2> QED
    BY <2>1, RequestTypes DEF IInv, SeqBound
<1>6. \A r \in replies : r.seq <= readSeq /\ r.seq \in Nat
  BY DEF IInv, TypeOK, SeqBound, Reply
<1> HIDE DEF m
<1>7. SeqBound'
  BY <1>1, <1>3, <1>4, <1>5, <1>6 DEF SeqBound
<1>8. \A r \in replies' : r.seq # readSeq'
  BY <1>1, <1>6
<1>9. AnswerIsFresh'
  BY <1>8 DEF AnswerIsFresh
<1>10. ReadIsDue'
  BY <1>3, <1>4 DEF ReadIsDue
<1> QED
  BY <1>7, <1>9, <1>10 DEF IInv, DivergenceIsOwed

\* Handling the latest read sends an answer that carries the file.
LEMMA HandleReadStep == IInv /\ HandleReadSpec /\ TypeOK' => IInv'
<1> SUFFICES ASSUME IInv, HandleReadSpec, TypeOK' PROVE IInv'
  OBVIOUS
<1> DEFINE m == Head(toMain)
           r == [seq |-> m.seq, mark |-> m.mark,
                 text |-> IF cur = NoProject THEN NoText ELSE disk[cur]]
<1>1. /\ m.op = "readSpec"
      /\ Range(toMain) = Range(toMain') \cup {m}
  BY RequestTaken DEF IInv, HandleReadSpec
<1>2. /\ replies' = replies \cup {r}
      /\ UNCHANGED <<text, pending, readSeq, inbox, cur, armed, disk, rejected>>
  BY DEF HandleReadSpec, renderer, session, files
<1>3. r.seq = m.seq /\ (FileIsOpen => r.text = disk[cur])
  BY DEF FileIsOpen
<1> HIDE DEF m, r
<1>4. m.seq <= readSeq
  BY <1>1 DEF IInv, SeqBound
<1>5. SeqBound'
  BY <1>1, <1>2, <1>3, <1>4 DEF IInv, SeqBound
<1>6. WorkIsDue <=> WorkIsDue'
  BY <1>1, <1>2 DEF WorkIsDue, WriteIsQueued, NotificationIsDue
<1>7. FileIsOpen <=> FileIsOpen'
  BY <1>2 DEF FileIsOpen
<1>8. AnswerIsFresh'
  BY <1>2, <1>3, <1>6, <1>7 DEF IInv, AnswerIsFresh
<1>9. FileIsOpen /\ ReadIsDue => ReadIsDue'
  BY <1>1, <1>2, <1>3 DEF ReadIsDue, IsCurrent
<1>10. DivergenceIsOwed'
  BY <1>2, <1>6, <1>7, <1>9 DEF IInv, DivergenceIsOwed
<1> QED
  BY <1>5, <1>8, <1>10 DEF IInv

\* An answer that is applied carries the file, or work is due; one that is
\* dropped is late, or an error.
LEMMA ReplyStep == IInv /\ ReadReplyArrives /\ TypeOK' => IInv'
<1> SUFFICES ASSUME IInv, ReadReplyArrives, TypeOK' PROVE IInv'
  OBVIOUS
<1>1. PICK r \in replies :
        /\ replies' = replies \ {r}
        /\ IF r.seq = readSeq /\ r.text # NoText THEN text' = r.text ELSE text' = text
  BY DEF ReadReplyArrives, ApplySpecText, IsCurrent
<1>2. UNCHANGED <<pending, readSeq, toMain, inbox, cur, armed, disk, rejected>>
  BY DEF ReadReplyArrives, session, files
<1>3. SeqBound'
  BY <1>1, <1>2 DEF IInv, SeqBound
<1>4. (WorkIsDue <=> WorkIsDue') /\ (FileIsOpen <=> FileIsOpen')
  BY <1>2 DEF WorkIsDue, WriteIsQueued, NotificationIsDue, FileIsOpen
<1>5. AnswerIsFresh'
  BY <1>1, <1>2, <1>4 DEF IInv, AnswerIsFresh
<1>6. DivergenceIsOwed'
  <2> SUFFICES ASSUME FileIsOpen, ~rejected, ~WorkIsDue, text' # disk[cur]
               PROVE  ReadIsDue'
    BY <1>2, <1>4 DEF DivergenceIsOwed
  <2>1. CASE r.seq = readSeq /\ r.text # NoText
    <3>1. r.text = disk[cur]
      BY <2>1 DEF IInv, AnswerIsFresh
    <3> QED
      BY <1>1, <2>1, <3>1
  <2>2. CASE ~(r.seq = readSeq /\ r.text # NoText)
    <3>1. ReadIsDue
      BY <1>1, <2>2 DEF IInv, DivergenceIsOwed
    <3>2. disk[cur] # NoText
      BY DEF FileIsOpen
    <3> QED
      BY <1>1, <1>2, <2>2, <3>1, <3>2 DEF ReadIsDue
  <2> QED
    BY <2>1, <2>2
<1> QED
  BY <1>3, <1>5, <1>6 DEF IInv

\* Every step is of one of these kinds.
LEMMA StepKinds == TypeOK /\ [Next]_vars => StepKind
<1> SUFFICES ASSUME TypeOK, [Next]_vars PROVE StepKind
  OBVIOUS
<1> USE DEF renderer, channels, session, files
<1>1. TypeOK
  OBVIOUS
<1>2. CASE SetSpecText
  <2>1. pending' # NoText
    <3>1. authored + 1 \in Nat /\ text.owner \in Projects \cup {NoProject}
      BY <1>1, TextTypes DEF TypeOK
    <3>2. pending' \in Text
      BY <1>2, <3>1, TextTypes DEF SetSpecText, ApplySpecText
    <3> QED
      BY <3>2, NoTextAssumption
  <2> QED
    BY <1>2, <2>1 DEF SetSpecText, StepKind, BringsWork, KeepsReads, WorkIsDue
<1>3. CASE WriteTimerFires
  <2> DEFINE m == [op |-> "writeSpec", text |-> pending]
  <2>1. m \in Request /\ m.op = "writeSpec"
    BY <1>1, <1>3, RequestTypes DEF TypeOK, WriteTimerFires
  <2>2. Range(toMain') = Range(toMain) \cup {m}
    BY <1>1, <1>3, <2>1, RequestQueued DEF WriteTimerFires
  <2> HIDE DEF m
  <2>3. KeepsReads
    BY <1>3, <2>1, <2>2 DEF WriteTimerFires, KeepsReads
  <2> QED
    BY <2>1, <2>2, <2>3 DEF StepKind, BringsWork, WorkIsDue, WriteIsQueued
<1>4. CASE ReadReplyArrives
  BY <1>4 DEF StepKind
<1>5. CASE OnProjectChanged
  BY <1>5 DEF OnProjectChanged, StepKind
<1>6. CASE OnFileChanged
  <2>1. CASE pending # NoText
    BY <1>6, <2>1 DEF OnFileChanged, StepKind, BringsWork, KeepsReads, WorkIsDue
  <2>2. CASE pending = NoText
    BY <1>6, <2>2 DEF OnFileChanged, StepKind
  <2> QED
    BY <2>1, <2>2
<1>7. CASE OnCurrentProject
  <2>1. Head(inbox).event = "currentProject" /\ Range(inbox) = Range(inbox') \cup {Head(inbox)}
    BY <1>1, <1>7, MessageTaken DEF OnCurrentProject
  <2>2. UNCHANGED <<text, pending, rev, readSeq, toMain, replies, cur, armed, disk, rejected>>
    BY <1>7 DEF OnCurrentProject
  <2>3. WorkIsDue => WorkIsDue'
    BY <2>1, <2>2 DEF WorkIsDue, WriteIsQueued, NotificationIsDue
  <2> QED
    BY <2>2, <2>3 DEF Quiet, StepKind
<1>8. CASE HandleReadSpec
  BY <1>8 DEF StepKind
<1>9. CASE HandleWriteSpec
  <2>1. Range(toMain) = Range(toMain') \cup {Head(toMain)}
    BY <1>1, <1>9, RequestTaken DEF HandleWriteSpec
  <2>2. KeepsReads
    BY <1>9, <2>1 DEF HandleWriteSpec, KeepsReads
  <2>3. FileIsOpen' /\ ~rejected' => armed'
    BY <1>9 DEF HandleWriteSpec, Watched, FileIsOpen
  <2> QED
    BY <2>2, <2>3 DEF StepKind, BringsWork, WorkIsDue, NotificationIsDue
<1>10. CASE HandleCurrentProject
  <2> DEFINE m == [event |-> "currentProject", project |-> cur]
  <2>1. m \in Message
    BY <1>1, MessageTypes DEF TypeOK
  <2>2. Range(inbox') = Range(inbox) \cup {m}
    BY <1>1, <1>10, <2>1, MessageQueued DEF HandleCurrentProject
  <2> HIDE DEF m
  <2>3. Head(toMain).op = "currentProject" /\ Range(toMain) = Range(toMain') \cup {Head(toMain)}
    BY <1>1, <1>10, RequestTaken DEF HandleCurrentProject
  <2>4. UNCHANGED <<text, pending, rev, readSeq, replies, cur, armed, disk, rejected>>
    BY <1>10 DEF HandleCurrentProject
  <2>5. WorkIsDue => WorkIsDue'
    BY <2>2, <2>3, <2>4 DEF WorkIsDue, WriteIsQueued, NotificationIsDue
  <2> QED
    BY <2>3, <2>4, <2>5 DEF Quiet, StepKind
<1>11. ASSUME UNCHANGED <<readSeq, toMain, replies>>, FileIsOpen' => WorkIsDue'
       PROVE  StepKind
  BY <1>11 DEF StepKind, BringsWork, KeepsReads
<1>12. ASSUME UNCHANGED <<text, pending, rev, readSeq, toMain, replies, inbox, cur, armed,
                          disk, rejected>>
       PROVE  StepKind
  <2>1. WorkIsDue => WorkIsDue'
    BY <1>12 DEF WorkIsDue, WriteIsQueued, NotificationIsDue
  <2> QED
    BY <1>12, <2>1 DEF Quiet, StepKind
<1>13. ASSUME NEW m \in Message, m.event \in {"projectChanged", "fileChanged"},
              inbox' = Append(inbox, m)
       PROVE  WorkIsDue'
  BY <1>1, <1>13, MessageQueued DEF WorkIsDue, NotificationIsDue
<1>14. /\ FileChanged \in Message /\ FileChanged.event = "fileChanged"
       /\ \A p \in Projects : /\ ProjectChanged(p) \in Message
                              /\ ProjectChanged(p).event = "projectChanged"
  BY MessageTypes DEF FileChanged, ProjectChanged
<1>15. CASE CloseProject
  BY <1>11, <1>15 DEF CloseProject, Close, FileIsOpen
<1>16. CASE SaveProject
  BY <1>12, <1>16 DEF SaveProject
<1>17. CASE WatchTimerFires
  BY <1>11, <1>13, <1>14, <1>17 DEF WatchTimerFires
<1>18. CASE StrayTimerFires
  BY <1>11, <1>13, <1>14, <1>18 DEF StrayTimerFires
<1>19. ASSUME NEW p \in Projects, OpenProject(p) PROVE StepKind
  BY <1>11, <1>19 DEF OpenProject, Close, FileIsOpen
<1>20. ASSUME NEW p \in Projects, OpenCompletes(p) PROVE StepKind
  BY <1>11, <1>13, <1>14, <1>20 DEF OpenCompletes
<1>21. ASSUME NEW p \in Projects, OpenFails(p) PROVE StepKind
  BY <1>12, <1>21 DEF OpenFails
<1>22. ASSUME NEW p \in Projects, SaveCompletes(p) PROVE StepKind
  BY <1>11, <1>13, <1>14, <1>22 DEF SaveCompletes
<1>23. ASSUME NEW p \in Projects, SaveFails(p) PROVE StepKind
  BY <1>12, <1>23 DEF SaveFails
<1>24. ASSUME NEW p \in Projects, ExternalStep(p), \A q \in Projects : q # p => disk'[q] = disk[q]
       PROVE  StepKind
  <2>1. UNCHANGED <<text, pending, rev, readSeq, toMain, replies, inbox, cur, rejected>>
    BY <1>24 DEF ExternalStep
  <2>2. armed' = (armed \/ p = cur)
    BY <1>24 DEF ExternalStep, Watched
  <2>3. CASE p = cur
    BY <1>11, <2>1, <2>2, <2>3 DEF WorkIsDue, NotificationIsDue
  <2>4. CASE p # cur
    <3>1. WorkIsDue => WorkIsDue'
      BY <2>1, <2>2 DEF WorkIsDue, WriteIsQueued, NotificationIsDue
    <3>2. cur # NoProject => disk'[cur] = disk[cur]
      BY <1>1, <1>24, <2>4 DEF TypeOK
    <3> QED
      BY <2>1, <3>1, <3>2 DEF Quiet, StepKind
  <2> QED
    BY <2>3, <2>4
<1>25. ASSUME NEW p \in Projects, ExternalWrite(p) PROVE StepKind
  <2>1. \A q \in Projects : q # p => disk'[q] = disk[q]
    BY <1>1, <1>25 DEF ExternalWrite, TypeOK
  <2> QED
    BY <1>24, <1>25, <2>1 DEF ExternalWrite
<1>26. ASSUME NEW p \in Projects, ExternalRemove(p) PROVE StepKind
  <2>1. \A q \in Projects : q # p => disk'[q] = disk[q]
    BY <1>1, <1>26 DEF ExternalRemove, TypeOK
  <2> QED
    BY <1>24, <1>26, <2>1 DEF ExternalRemove
<1>27. ASSUME NEW p \in Projects, ExternalTouch(p) PROVE StepKind
  BY <1>24, <1>27 DEF ExternalTouch
<1>28. CASE UNCHANGED vars
  BY <1>12, <1>28 DEF vars
<1> QED
  BY <1>2, <1>3, <1>4, <1>5, <1>6, <1>7, <1>8, <1>9, <1>10, <1>15, <1>16, <1>17, <1>18,
     <1>19, <1>20, <1>21, <1>22, <1>23, <1>25, <1>26, <1>27, <1>28
     DEF Next, RendererStep, MainStep, UserStep, OutsideStep, AwaitReturns

\* Every step preserves the invariant.
LEMMA InvStep == IInv /\ [Next]_vars => IInv'
<1> SUFFICES ASSUME IInv, [Next]_vars PROVE IInv'
  OBVIOUS
<1>1. TypeOK'
  BY TypeStep DEF IInv
<1>2. StepKind
  BY StepKinds DEF IInv
<1> QED
  BY <1>1, <1>2, QuietStep, DueStep, ReadStep, HandleReadStep, ReplyStep DEF StepKind

\* The mount read is queued, so the initial divergence is owed.
LEMMA InvInit == Init => IInv
<1> SUFFICES ASSUME Init PROVE IInv
  OBVIOUS
<1> DEFINE m == [op |-> "readSpec", seq |-> 1, mark |-> FALSE]
<1>1. toMain = <<[op |-> "currentProject"], m>> /\ readSeq = 1 /\ replies = {}
  BY DEF Init
<1>2. Range(toMain) = {[op |-> "currentProject"], m}
  <2>1. DOMAIN toMain = {1, 2} /\ toMain[1] = [op |-> "currentProject"] /\ toMain[2] = m
    BY <1>1
  <2> QED
    BY <2>1 DEF Range
<1>3. m.op = "readSpec" /\ m.seq = readSeq
  BY <1>1
<1>4. \A n \in Range(toMain) : n.op = "readSpec" => n.seq <= readSeq
  BY <1>1, <1>2
<1> HIDE DEF m
<1>5. SeqBound /\ AnswerIsFresh
  BY <1>1, <1>4 DEF SeqBound, AnswerIsFresh
<1>6. ReadIsDue
  BY <1>2, <1>3 DEF ReadIsDue
<1> QED
  BY <1>5, <1>6, TypeInit DEF IInv, DivergenceIsOwed

\* The editor and the open file differ only while something in flight will
\* reconcile them, whatever is edited, opened, saved or changed outside.
THEOREM DivergenceAlwaysOwed == Spec => []DivergenceIsOwed
<1>1. Spec => []IInv
  BY InvInit, InvStep, PTL DEF Spec
<1>2. IInv => DivergenceIsOwed
  BY DEF IInv
<1> QED
  BY <1>1, <1>2, PTL

(***************************************************************************)
(* The order of the writes.  A step can break it in two ways: by typing a  *)
(* text that is not the newest, or by queueing a write out of turn.        *)
(***************************************************************************)

\* Versions are compared as numbers: a write and a pending text carry one.
LEMMA VersionTypes ==
  ASSUME TypeOK
  PROVE  /\ authored \in Nat
         /\ pending # NoText => pending \in Text /\ pending.version \in Nat
         /\ \A i \in DOMAIN toMain : WriteAt(i) => toMain[i].text.version \in Nat
         /\ DOMAIN toMain \subseteq Nat
<1>1. pending # NoText => pending \in Text /\ pending.version \in Nat
  BY TextTypes DEF TypeOK
<1>2. \A i \in DOMAIN toMain : toMain[i] \in Request /\ i \in Nat
  BY DEF TypeOK
<1>3. ASSUME NEW i \in DOMAIN toMain, WriteAt(i)  PROVE toMain[i].text.version \in Nat
  <2>1. toMain[i].text \in Text
    BY <1>2, <1>3, RequestTypes DEF WriteAt
  <2> QED
    BY <2>1, TextTypes
<1> QED
  BY <1>1, <1>2, <1>3 DEF TypeOK

\* A step that types nothing and queues no write keeps the order: the writes
\* that are left were in the queue, k places further back.
LEMMA NoNewWrite ==
  ASSUME OrderInv, TypeOK', authored <= authored', pending' \in {pending, NoText},
         NEW k \in Nat,
         \A i \in DOMAIN toMain' :
            WriteAt(i)' => i + k \in DOMAIN toMain /\ toMain'[i] = toMain[i + k]
  PROVE  OrderInv'
<1>1. /\ authored \in Nat /\ authored' \in Nat /\ DOMAIN toMain' \subseteq Nat
      /\ pending # NoText => pending.version \in Nat
      /\ \A i \in DOMAIN toMain : WriteAt(i) => toMain[i].text.version \in Nat
  <2>1. authored' \in Nat /\ DOMAIN toMain' \subseteq Nat
    BY DEF TypeOK
  <2> QED
    BY <2>1, VersionTypes DEF OrderInv
<1>2. ASSUME NEW i \in DOMAIN toMain', WriteAt(i)'
      PROVE  i + k \in DOMAIN toMain /\ WriteAt(i + k) /\ toMain'[i] = toMain[i + k]
  BY <1>2 DEF WriteAt
<1>3. ASSUME NEW i \in DOMAIN toMain', NEW j \in DOMAIN toMain',
             i < j, WriteAt(i)', WriteAt(j)'
      PROVE  toMain'[i].text.version < toMain'[j].text.version
  <2>1. i + k < j + k
    BY <1>1, <1>3
  <2> QED
    BY <1>2, <1>3, <2>1 DEF OrderInv, WritesInTypingOrder
<1>4. ASSUME pending' # NoText, NEW i \in DOMAIN toMain', WriteAt(i)'
      PROVE  toMain'[i].text.version < pending'.version
  BY <1>2, <1>4 DEF OrderInv, WritesInTypingOrder
<1>5. pending' # NoText => pending'.version <= authored'
  BY <1>1 DEF OrderInv, WritesAreAuthored
<1>6. ASSUME NEW i \in DOMAIN toMain', WriteAt(i)'
      PROVE  toMain'[i].text.version <= authored'
  <2>1. toMain[i + k].text.version <= authored /\ toMain[i + k].text.version \in Nat
    BY <1>1, <1>2, <1>6 DEF OrderInv, WritesAreAuthored
  <2> QED
    BY <1>1, <1>2, <1>6, <2>1
<1> QED
  BY <1>3, <1>4, <1>5, <1>6 DEF OrderInv, WritesInTypingOrder, WritesAreAuthored

\* Leaving the queue alone, adding another request, and taking one off are
\* steps of that kind.
LEMMA QueueUntouched ==
  ASSUME OrderInv, TypeOK', authored <= authored', pending' \in {pending, NoText},
         UNCHANGED toMain
  PROVE  OrderInv'
<1>1. \A i \in DOMAIN toMain' :
         WriteAt(i)' => i + 0 \in DOMAIN toMain /\ toMain'[i] = toMain[i + 0]
  BY VersionTypes DEF OrderInv
<1> QED
  BY <1>1, NoNewWrite

\* A request that writes nothing does not disturb the order of the writes.
LEMMA OtherRequest ==
  ASSUME OrderInv, TypeOK', authored <= authored', pending' \in {pending, NoText},
         NEW m \in Request, m.op # "writeSpec", toMain' = Append(toMain, m)
  PROVE  OrderInv'
<1>1. /\ DOMAIN toMain' = DOMAIN toMain \cup {Len(toMain) + 1}
      /\ toMain'[Len(toMain) + 1] = m
      /\ \A i \in DOMAIN toMain : toMain'[i] = toMain[i] /\ i \in Nat
  <2>1. toMain \in Seq(Request)
    BY DEF OrderInv, TypeOK
  <2> QED
    BY <2>1, AppendPositions
<1>2. \A i \in DOMAIN toMain' :
         WriteAt(i)' => i + 0 \in DOMAIN toMain /\ toMain'[i] = toMain[i + 0]
  BY <1>1 DEF WriteAt
<1> QED
  BY <1>2, NoNewWrite

\* Nor does main, when it handles the first of them.
LEMMA RequestHandled ==
  ASSUME OrderInv, TypeOK', UNCHANGED <<authored, pending>>, NEW op, Handle(op)
  PROVE  OrderInv'
<1>1. \A i \in DOMAIN toMain' : i + 1 \in DOMAIN toMain /\ toMain'[i] = toMain[i + 1]
  BY TailPositions DEF OrderInv, TypeOK, Handle
<1>2. authored <= authored'
  BY VersionTypes DEF OrderInv
<1> QED
  BY <1>1, <1>2, NoNewWrite

\* A text is typed: it is newer than everything authored before it.
LEMMA TypingStep == OrderInv /\ SetSpecText /\ TypeOK' => OrderInv'
<1> SUFFICES ASSUME OrderInv, SetSpecText, TypeOK' PROVE OrderInv'
  OBVIOUS
<1>1. /\ toMain' = toMain /\ authored' = authored + 1
      /\ pending'.version = authored + 1
  BY DEF SetSpecText, Author, ApplySpecText, channels
<1>2. /\ authored \in Nat
      /\ \A i \in DOMAIN toMain : WriteAt(i) => toMain[i].text.version \in Nat
  BY VersionTypes DEF OrderInv
<1>3. \A i \in DOMAIN toMain' : WriteAt(i)' =>
         /\ toMain'[i].text.version < pending'.version
         /\ toMain'[i].text.version <= authored'
  BY <1>1, <1>2 DEF OrderInv, WritesAreAuthored, WriteAt
<1>4. pending'.version <= authored'
  BY <1>1, <1>2
<1>5. \A i, j \in DOMAIN toMain' :
         i < j /\ WriteAt(i)' /\ WriteAt(j)'
           => toMain'[i].text.version < toMain'[j].text.version
  BY <1>1 DEF OrderInv, WritesInTypingOrder, WriteAt
<1> QED
  BY <1>3, <1>4, <1>5 DEF OrderInv, WritesInTypingOrder, WritesAreAuthored

\* The pending text is queued, behind the writes it is newer than.
LEMMA WritingStep == OrderInv /\ WriteTimerFires /\ TypeOK' => OrderInv'
<1> SUFFICES ASSUME OrderInv, WriteTimerFires, TypeOK' PROVE OrderInv'
  OBVIOUS
<1> DEFINE m == [op |-> "writeSpec", text |-> pending]
           last == Len(toMain) + 1
<1>1. /\ pending # NoText /\ pending' = NoText /\ authored' = authored
      /\ toMain' = Append(toMain, m)
  BY DEF WriteTimerFires
<1>2. /\ authored \in Nat /\ DOMAIN toMain \subseteq Nat
      /\ pending \in Text /\ pending.version \in Nat /\ pending.version <= authored
  BY <1>1, VersionTypes DEF OrderInv, WritesAreAuthored
<1>3. m \in Request /\ m.text = pending
  BY <1>2, RequestTypes
<1>4. /\ DOMAIN toMain' = DOMAIN toMain \cup {last}
      /\ toMain'[last] = m /\ last \in Nat
      /\ \A i \in DOMAIN toMain : toMain'[i] = toMain[i] /\ i < last
  <2>1. toMain \in Seq(Request)
    BY DEF OrderInv, TypeOK
  <2> HIDE DEF m
  <2>2. /\ DOMAIN Append(toMain, m) = DOMAIN toMain \cup {last}
        /\ Append(toMain, m)[last] = m /\ Len(toMain) \in Nat
        /\ \A i \in DOMAIN toMain : Append(toMain, m)[i] = toMain[i]
        /\ \A i \in DOMAIN toMain : i \in Nat /\ last > i
    BY <1>3, <2>1, AppendPositions
  <2> QED
    BY <1>1, <2>2
<1> HIDE DEF m, last
<1>5. \A i \in DOMAIN toMain : (WriteAt(i)' <=> WriteAt(i))
  BY <1>4 DEF WriteAt
<1>6. ASSUME NEW i \in DOMAIN toMain', NEW j \in DOMAIN toMain',
             i < j, WriteAt(i)', WriteAt(j)'
      PROVE  toMain'[i].text.version < toMain'[j].text.version
  <2>1. i \in DOMAIN toMain
    <3>1. CASE i = last
      <4>1. j = last \/ j < last
        BY <1>4
      <4> QED
        BY <1>2, <1>4, <1>6, <3>1, <4>1
    <3> QED
      BY <1>4, <3>1
  <2>2. CASE j \in DOMAIN toMain
    BY <1>4, <1>5, <1>6, <2>1, <2>2 DEF OrderInv, WritesInTypingOrder
  <2>3. CASE j = last
    BY <1>1, <1>3, <1>4, <1>5, <1>6, <2>1, <2>3 DEF OrderInv, WritesInTypingOrder
  <2> QED
    BY <1>4, <2>2, <2>3
<1>7. ASSUME NEW i \in DOMAIN toMain', WriteAt(i)'
      PROVE  toMain'[i].text.version <= authored'
  <2>1. CASE i \in DOMAIN toMain
    BY <1>1, <1>4, <1>5, <1>7, <2>1 DEF OrderInv, WritesAreAuthored
  <2>2. CASE i = last
    BY <1>1, <1>2, <1>3, <1>4, <2>2
  <2> QED
    BY <1>4, <2>1, <2>2
<1> QED
  BY <1>1, <1>6, <1>7 DEF OrderInv, WritesInTypingOrder, WritesAreAuthored

\* Every step keeps the order.
LEMMA OrderStep == OrderInv /\ [Next]_vars => OrderInv'
<1> SUFFICES ASSUME OrderInv, [Next]_vars PROVE OrderInv'
  OBVIOUS
<1> USE DEF renderer, channels, session, files
<1>1. TypeOK /\ TypeOK' /\ authored \in Nat /\ authored <= authored
  <2>1. TypeOK /\ TypeOK'
    BY TypeStep DEF OrderInv
  <2>2. authored \in Nat
    BY <2>1 DEF TypeOK
  <2>3. authored <= authored
    BY <2>2
  <2> QED
    BY <2>1, <2>2, <2>3
<1>2. CASE SetSpecText
  BY <1>1, <1>2, TypingStep
<1>3. CASE WriteTimerFires
  BY <1>1, <1>3, WritingStep
<1>4. ReadSpecFromDisk(TRUE) =>
        \E m \in Request : m.op # "writeSpec" /\ toMain' = Append(toMain, m)
  <2>1. readSeq + 1 \in Nat
    BY <1>1 DEF TypeOK
  <2>2. [op |-> "readSpec", seq |-> readSeq + 1, mark |-> TRUE] \in Request
    BY <2>1, RequestTypes
  <2> QED
    BY <2>2 DEF ReadSpecFromDisk
<1>5. CASE OnProjectChanged
  BY <1>1, <1>4, <1>5, OtherRequest DEF OnProjectChanged
<1>6. CASE OnFileChanged
  <2>1. CASE pending # NoText
    BY <1>1, <1>6, <2>1, QueueUntouched DEF OnFileChanged
  <2>2. CASE pending = NoText
    BY <1>1, <1>4, <1>6, <2>2, OtherRequest DEF OnFileChanged
  <2> QED
    BY <2>1, <2>2
<1>7. CASE HandleReadSpec \/ HandleWriteSpec \/ HandleCurrentProject
  BY <1>1, <1>7, RequestHandled DEF HandleReadSpec, HandleWriteSpec, HandleCurrentProject
<1>8. ASSUME UNCHANGED <<toMain, pending>>, authored <= authored'  PROVE OrderInv'
  BY <1>1, <1>8, QueueUntouched
<1>9. CASE ReadReplyArrives \/ OnCurrentProject \/ WatchTimerFires \/ StrayTimerFires
  BY <1>1, <1>8, <1>9 DEF ReadReplyArrives, OnCurrentProject, WatchTimerFires, StrayTimerFires
<1>10. CASE CloseProject \/ SaveProject \/ \E p \in Projects : OpenProject(p)
  BY <1>1, <1>8, <1>10 DEF CloseProject, SaveProject, OpenProject
<1>11. CASE \E p \in Projects : AwaitReturns(p)
  BY <1>1, <1>8, <1>11 DEF AwaitReturns, OpenCompletes, OpenFails, SaveCompletes, SaveFails
<1>12. CASE OutsideStep
  <2>1. authored' = authored + 1 /\ UNCHANGED <<toMain, pending>>
    BY <1>12 DEF OutsideStep, ExternalWrite, ExternalRemove, ExternalTouch, ExternalStep, Author
  <2> QED
    BY <1>1, <1>8, <2>1
<1>13. CASE UNCHANGED vars
  BY <1>1, <1>8, <1>13 DEF vars
<1> QED
  BY <1>2, <1>3, <1>5, <1>6, <1>7, <1>9, <1>10, <1>11, <1>12, <1>13
     DEF Next, RendererStep, MainStep, UserStep

\* Nothing is written or waits to be at first.
LEMMA OrderInit == Init => OrderInv
<1> SUFFICES ASSUME Init PROVE OrderInv
  OBVIOUS
<1>1. \A i \in DOMAIN toMain : ~WriteAt(i)
  BY DEF Init, WriteAt
<1>2. pending = NoText
  BY DEF Init
<1> QED
  BY <1>1, <1>2, TypeInit DEF OrderInv, WritesInTypingOrder, WritesAreAuthored

\* However typing, writing and switching interleave, main is handed every
\* typed text once and in the order they were typed.
THEOREM WritesAlwaysInOrder == Spec => []WritesInTypingOrder
<1>1. OrderInv => WritesInTypingOrder
  BY DEF OrderInv
<1> QED
  BY <1>1, OrderInit, OrderStep, PTL DEF Spec
=============================================================================
