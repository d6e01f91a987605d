---------------------------- MODULE Delivery_proofs ----------------------------
(* Proofs about what Bridge posts: the messages of a text in their order,    *)
(* each text in the conversation that made its job, and every pending result *)
(* with the run that it belongs to.                                          *)
EXTENDS Bridge_proofs

Active(t) == task[t].at # "none"

(* Runs are appended, and answered once.                                     *)
Grown ==
    \A n \in DOMAIN runs :
        /\ n \in DOMAIN runs'
        /\ runs'[n].job = runs[n].job /\ runs'[n].session = runs[n].session
        /\ runs'[n].open => runs[n].open

LEMMA NewRunAppends ==
    ASSUME TypeInv, NEW s \in Session, NEW j \in Job, NEW open \in BOOLEAN, NewRun(j, s, open)
    PROVE  /\ Grown
           /\ Len(runs') = Len(runs) + 1 /\ Len(runs') \in 1 .. MaxRuns
           /\ DOMAIN runs = 1 .. Len(runs) /\ DOMAIN runs' = 1 .. Len(runs')
           /\ \A n \in DOMAIN runs : n # Len(runs') /\ n < Len(runs') /\ runs'[n] = runs[n]
           /\ runs'[Len(runs')] = [job |-> j, session |-> s, open |-> open]
           /\ runs'[Len(runs')].open = open
  <1> DEFINE run == [job |-> j, session |-> s, open |-> open]
  <1>1. runs \in Seq(RunType) /\ run \in RunType /\ Len(runs) < MaxRuns /\ runs' = Append(runs, run)
    BY DEF TypeInv, TypeOK, RunType, NewRun
  <1> HIDE DEF run
  <1>2. /\ Len(runs') = Len(runs) + 1 /\ DOMAIN runs = 1 .. Len(runs) /\ DOMAIN runs' = 1 .. Len(runs')
        /\ \A n \in 1 .. Len(runs) : runs'[n] = runs[n]
        /\ runs'[Len(runs) + 1] = run
    BY <1>1
  <1>3. Len(runs') \in 1 .. MaxRuns /\ \A n \in DOMAIN runs : n # Len(runs') /\ n < Len(runs') /\ runs'[n] = runs[n]
    BY <1>1, <1>2, BoundAssumption
  <1>4. Grown
    BY <1>2, <1>3 DEF Grown
  <1> QED BY <1>2, <1>3, <1>4 DEF run

(* A delivery is given to a task that has none.                              *)
LEMMA Delivering ==
    ASSUME TypeInv, HasFree, NEW s, NEW key, NEW text, NEW array, Deliver(s, key, text, array)
    PROVE  \E t \in Task : \E d :
               /\ ~Active(t) /\ task' = [task EXCEPT ![t] = d]
               /\ d.at = "send" /\ d.session = s /\ d.key = key /\ d.text = text
               /\ d.chat = Read.jobs[key.job] /\ d.array = array /\ d.part = 1
  <1>1. PICK d : d = [at |-> "send", session |-> s, key |-> key, text |-> text,
                      chat |-> Read.jobs[key.job], array |-> array, part |-> 1, tries |-> 0]
    OBVIOUS
  <1>2. PICK t \in Task : Free(t) /\ task' = [task EXCEPT ![t] = d]
    BY <1>1 DEF Deliver
  <1>3. ~Active(t)
    BY <1>2 DEF Free, HasFree, Active
  <1>4. /\ d.at = "send" /\ d.session = s /\ d.key = key /\ d.text = text
        /\ d.chat = Read.jobs[key.job] /\ d.array = array /\ d.part = 1
    BY <1>1
  <1> QED BY <1>2, <1>3, <1>4

-----------------------------------------------------------------------------
(* The text of a run is delivered once: when the run is answered, by a task  *)
(* of its own; nothing was posted of it before.                              *)
RunsOK ==
    /\ \A t \in Task : Active(t) /\ task[t].text # 0 =>
          task[t].text \in DOMAIN runs /\ ~runs[task[t].text].open
    /\ \A t, u \in Task :
          Active(t) /\ Active(u) /\ task[t].text # 0 /\ task[t].text = task[u].text => t = u
    /\ \A n \in DOMAIN posted : n \notin DOMAIN runs \/ runs[n].open => posted[n] = <<>>

(* What was posted of a text, in order; while it is being sent, up to the    *)
(* part before the next one, which may be there already if its answer was    *)
(* lost.                                                                     *)
InOrder(sent) ==
    \A i \in DOMAIN sent :
        /\ i > 1 => sent[i][2] - sent[i - 1][2] \in {0, 1}
        /\ "lost" \notin lapses => sent[i][2] = i

UpTo(sent, part) ==
    IF Len(sent) = 0 THEN part = 1
    ELSE /\ sent[Len(sent)][2] \in {part - 1, part}
         /\ "lost" \notin lapses => Len(sent) = part - 1

OrderOK ==
    /\ \A n \in DOMAIN posted : InOrder(posted[n])
    /\ \A t \in Task : Active(t) /\ task[t].text # 0 => UpTo(posted[task[t].text], task[t].part)

OrderInv == RunsOK /\ OrderOK

Posts == Seq(Session \X (1 .. CardParts))

LEMMA InitOrderInv == Init => OrderInv
  <1> SUFFICES ASSUME Init PROVE OrderInv
    OBVIOUS
  <1>1. \A t \in Task : ~Active(t)
    BY DEF Init, NoTask, Active
  <1>2. posted = [n \in 1 .. MaxRuns |-> <<>>]
    BY DEF Init
  <1> QED BY <1>1, <1>2 DEF OrderInv, RunsOK, OrderOK, InOrder

(* A step that posts and delivers nothing.                                   *)
LEMMA OrderKept ==
    ASSUME TypeInv, OrderInv, UNCHANGED posted, Grown, lapses \subseteq lapses',
           \A t \in Task : Active(t)' => Active(t) /\ task'[t].text = task[t].text /\ task'[t].part = task[t].part
    PROVE  OrderInv'
  <1>1. RunsOK'
    BY DEF OrderInv, RunsOK, Grown
  <1>2. OrderOK'
    BY DEF OrderInv, OrderOK, InOrder, UpTo
  <1> QED BY <1>1, <1>2 DEF OrderInv

(* The delivery of a text begins.                                            *)
LEMMA OrderDelivered ==
    ASSUME TypeInv, OrderInv, UNCHANGED posted, Grown, lapses \subseteq lapses',
           NEW t \in Task, ~Active(t), NEW d, task' = [task EXCEPT ![t] = d], d.part = 1, d.text \in Text,
           d.text # 0 => /\ d.text \in DOMAIN runs' /\ ~runs'[d.text].open
                         /\ d.text \notin DOMAIN runs \/ runs[d.text].open
    PROVE  OrderInv'
  <1>1. /\ task'[t] = d /\ \A u \in Task \ {t} : task'[u] = task[u]
        /\ posted \in [1 .. MaxRuns -> Posts]
    BY DEF TypeInv, TypeOK, Posts
  <1>2. d.text # 0 => /\ posted[d.text] = <<>>
                      /\ \A u \in Task : Active(u) => task[u].text # d.text
    BY <1>1, BoundAssumption DEF OrderInv, RunsOK, Text
  <1>3. RunsOK'
    <2>1. ASSUME NEW u \in Task, Active(u)', task'[u].text # 0
          PROVE  task'[u].text \in DOMAIN runs' /\ ~runs'[task'[u].text].open
      BY <1>1, <2>1 DEF OrderInv, RunsOK, Grown, Active
    <2>2. ASSUME NEW u \in Task, NEW v \in Task, Active(u)', Active(v)', task'[u].text # 0,
                 task'[u].text = task'[v].text
          PROVE  u = v
      BY <1>1, <1>2, <2>2 DEF OrderInv, RunsOK, Active
    <2>3. \A n \in DOMAIN posted' : n \notin DOMAIN runs' \/ runs'[n].open => posted'[n] = <<>>
      BY DEF OrderInv, RunsOK, Grown
    <2> QED BY <2>1, <2>2, <2>3 DEF RunsOK
  <1>4. OrderOK'
    <2>1. \A n \in DOMAIN posted' : InOrder(posted[n])'
      BY DEF OrderInv, OrderOK, InOrder
    <2>2. ASSUME NEW u \in Task, Active(u)', task'[u].text # 0
          PROVE  UpTo(posted[task[u].text], task[u].part)'
      <3>1. CASE u = t
        BY <1>1, <1>2, <2>2, <3>1 DEF UpTo
      <3>2. CASE u # t
        BY <1>1, <2>2, <3>2 DEF OrderInv, OrderOK, UpTo, Active
      <3> QED BY <3>1, <3>2
    <2> QED BY <2>1, <2>2 DEF OrderOK
  <1> QED BY <1>3, <1>4 DEF OrderInv

LEMMA AppendFacts ==
    ASSUME NEW S, NEW s \in Seq(S), NEW e \in S
    PROVE  /\ Append(s, e) \in Seq(S) /\ Len(s) \in Nat
           /\ DOMAIN s = 1 .. Len(s) /\ DOMAIN Append(s, e) = 1 .. Len(s) + 1
           /\ Len(Append(s, e)) = Len(s) + 1 /\ Append(s, e)[Len(s) + 1] = e
           /\ \A i \in 1 .. Len(s) : s[i] \in S /\ Append(s, e)[i] = s[i]
  OBVIOUS

(* The next message of a text keeps the order.                               *)
LEMMA NextPart ==
    ASSUME NEW sent \in Posts, NEW message \in Session \X (1 .. CardParts), NEW part \in Nat \ {0},
           message[2] = part, InOrder(sent), UpTo(sent, part), lapses \subseteq lapses'
    PROVE  /\ InOrder(Append(sent, message))' /\ UpTo(Append(sent, message), part + 1)'
           /\ "lost" \in lapses' => UpTo(Append(sent, message), part)'
  <1> PICK full : full = Append(sent, message)
    OBVIOUS
  <1>1. /\ DOMAIN sent = 1 .. Len(sent) /\ Len(sent) \in Nat
        /\ DOMAIN full = 1 .. Len(sent) + 1
        /\ Len(full) = Len(sent) + 1
        /\ full[Len(sent) + 1] = message
        /\ \A i \in 1 .. Len(sent) : full[i] = sent[i]
    BY AppendFacts DEF Posts
  <1>2. ASSUME NEW i \in 1 .. Len(sent)
        PROVE  /\ i > 1 => sent[i][2] - sent[i - 1][2] \in {0, 1}
               /\ "lost" \notin lapses' => sent[i][2] = i
    BY <1>1 DEF InOrder
  <1>3. Len(sent) # 0 => part - sent[Len(sent)][2] \in {0, 1}
    <2>1. Len(sent) # 0 => sent[Len(sent)][2] = part - 1 \/ sent[Len(sent)][2] = part
      BY DEF UpTo
    <2> QED BY <2>1
  <1>4. "lost" \notin lapses' => part = Len(sent) + 1
    BY <1>1 DEF UpTo
  <1>5. ASSUME NEW i \in 1 .. Len(sent) + 1
        PROVE  /\ i > 1 => full[i][2] - full[i - 1][2] \in {0, 1}
               /\ "lost" \notin lapses' => full[i][2] = i
    <2>1. CASE i = Len(sent) + 1
      <3>1. full[i][2] = part /\ i - 1 = Len(sent)
        BY <1>1, <2>1
      <3>2. Len(sent) # 0 => full[Len(sent)] = sent[Len(sent)]
        <4>1. Len(sent) # 0 => Len(sent) \in 1 .. Len(sent)
          BY <1>1
        <4> QED BY <1>1, <4>1
      <3>3. i > 1 => Len(sent) # 0
        BY <1>1, <2>1
      <3> QED BY <1>3, <1>4, <2>1, <3>1, <3>2, <3>3
    <2>2. CASE i # Len(sent) + 1
      <3>1. i \in 1 .. Len(sent) /\ (i > 1 => i - 1 \in 1 .. Len(sent))
        BY <1>1, <2>2
      <3>2. full[i] = sent[i] /\ (i > 1 => full[i - 1] = sent[i - 1])
        BY <1>1, <3>1
      <3> QED BY <1>2, <3>1, <3>2
    <2> QED BY <2>1, <2>2
  <1>6. InOrder(full)'
    BY <1>1, <1>5 DEF InOrder
  <1>7. UpTo(full, part + 1)' /\ ("lost" \in lapses' => UpTo(full, part)')
    BY <1>1, <1>4 DEF UpTo
  <1> QED BY <1>6, <1>7

(* Another message of a text is posted; it is the next one unless the answer *)
(* to it gets lost.                                                          *)
LEMMA OrderPosted ==
    ASSUME TypeInv, OrderInv, NEW t \in Task, task[t].at = "send", Post(t), UNCHANGED runs,
           \/ lapses \subseteq lapses' /\ task'[t].part = task[t].part + 1
           \/ lapses \subseteq lapses' /\ "lost" \in lapses' /\ task'[t].part = task[t].part
           \/ lapses \subseteq lapses' /\ ~Active(t)',
           task'[t].text = task[t].text \/ ~Active(t)',
           \A u \in Task \ {t} : task'[u] = task[u]
    PROVE  OrderInv'
  <1> PICK n \in Text : n = task[t].text
    BY DEF TypeInv, TypeOK
  <1> PICK part : part = task[t].part
    OBVIOUS
  <1> PICK message : message = <<task[t].chat, task[t].part>>
    OBVIOUS
  <1>1. posted \in [1 .. MaxRuns -> Posts] /\ Active(t)
    BY DEF TypeInv, TypeOK, Posts, Active
  <1>2. Delivery(task[t])
    BY DEF TypeInv, Deliveries, NoTask
  <1>3. message \in Session \X (1 .. CardParts) /\ part \in Nat \ {0}
    <2>1. task[t].key.job \in Job
      BY <1>2 DEF Delivery, Key
    <2> QED BY <1>2, <2>1, Part, BoundAssumption DEF Delivery
  <1>4. posted' = [k \in 1 .. MaxRuns |-> IF k # n THEN posted[k] ELSE Append(posted[k], message)]
    BY <1>1 DEF Post
  <1>5. n # 0 => n \in 1 .. MaxRuns /\ n \in DOMAIN runs /\ ~runs[n].open
    BY <1>1, <1>2, BoundAssumption DEF OrderInv, RunsOK, Delivery, Text
  <1>6. RunsOK'
    <2>1. ASSUME NEW k \in DOMAIN posted', k \notin DOMAIN runs' \/ runs'[k].open PROVE posted'[k] = <<>>
      <3>1. k # n /\ k \in DOMAIN posted
        BY <1>1, <1>4, <1>5, <2>1
      <3>2. posted'[k] = posted[k]
        BY <1>1, <1>4, <3>1
      <3> QED BY <2>1, <3>1, <3>2 DEF OrderInv, RunsOK
    <2>2. \A u \in Task : Active(u)' => Active(u) /\ task'[u].text = task[u].text
      BY <1>1 DEF Active
    <2> QED BY <2>1, <2>2 DEF OrderInv, RunsOK
  <1>7. CASE n = 0
    <2>1. posted' = posted
      BY <1>1, <1>4, <1>7
    <2>2. \A u \in Task : Active(u)' /\ task'[u].text # 0 => Active(u) /\ task'[u] = task[u]
      BY <1>1, <1>7 DEF Active
    <2>3. OrderOK'
      BY <2>1, <2>2 DEF OrderInv, OrderOK, InOrder, UpTo
    <2> QED BY <1>6, <2>3 DEF OrderInv
  <1>8. CASE n # 0
    <2> PICK sent : sent = posted[n]
      OBVIOUS
    <2>1. /\ sent \in Posts /\ posted'[n] = Append(sent, message) /\ message[2] = task[t].part
          /\ \A k \in 1 .. MaxRuns : k # n => posted'[k] = posted[k]
      BY <1>1, <1>4, <1>5, <1>8
    <2>2. InOrder(sent) /\ UpTo(sent, task[t].part)
      BY <1>1, <1>5, <1>8 DEF OrderInv, OrderOK
    <2>3. /\ InOrder(Append(sent, message))' /\ UpTo(Append(sent, message), part + 1)'
          /\ "lost" \in lapses' => UpTo(Append(sent, message), part)'
      BY <1>3, <2>1, <2>2, NextPart
    <2>4. InOrder(posted[n])'
      BY <2>1, <2>3
    <2>5. Active(t)' => UpTo(posted[task[t].text], task[t].part)'
      BY <2>1, <2>3
    <2>6. ASSUME NEW k \in DOMAIN posted', k # n PROVE InOrder(posted[k])'
      <3>1. k \in 1 .. MaxRuns /\ posted'[k] = posted[k]
        BY <1>1, <1>4, <2>1, <2>6
      <3>2. InOrder(posted[k])
        BY <1>1, <3>1 DEF OrderInv, OrderOK
      <3> QED BY <3>1, <3>2 DEF InOrder
    <2>7. ASSUME NEW u \in Task, u # t, Active(u)', task'[u].text # 0
          PROVE  UpTo(posted[task[u].text], task[u].part)'
      <3>1. task'[u] = task[u] /\ Active(u) /\ task[u].text # n
        BY <1>1, <1>8, <2>7 DEF OrderInv, RunsOK, Active
      <3>2. task[u].text \in 1 .. MaxRuns
        BY <2>7, <3>1, BoundAssumption DEF TypeInv, TypeOK, Text
      <3>3. posted'[task[u].text] = posted[task[u].text]
        BY <2>1, <3>1, <3>2
      <3> QED BY <2>7, <3>1, <3>3 DEF OrderInv, OrderOK, UpTo
    <2>8. OrderOK'
      BY <2>4, <2>5, <2>6, <2>7 DEF OrderOK
    <2> QED BY <1>6, <2>8 DEF OrderInv
  <1> QED BY <1>7, <1>8

(* A request ends, and what else a step can do to a delivery under way.      *)
LEMMA EndedTask ==
    ASSUME TypeInv, NEW t \in Task, Ended(t)
    PROVE  ~Active(t)' /\ \A u \in Task \ {t} : task'[u] = task[u]
  BY DEF Ended, NoTask, Active, TypeInv, TypeOK

(* A step keeps the runs, or appends one, or answers one, or those of a dead *)
(* process are given up.                                                     *)
LEMMA RunsGrow == TypeInv /\ [Next]_vars => Grown /\ lapses \subseteq lapses'
  <1> SUFFICES ASSUME TypeInv, [Next]_vars PROVE Grown /\ lapses \subseteq lapses'
    OBVIOUS
  <1> runs \in Seq(RunType)
    BY DEF TypeInv, TypeOK, RunType
  <1>1. CASE UNCHANGED runs /\ lapses \subseteq lapses'
    BY <1>1 DEF Grown
  <1>2. ASSUME NEW s \in Session, NEW j \in Job, Marker(s, j) \/ \E hasId \in BOOLEAN : Subagent(s, j, hasId)
        PROVE  Grown /\ lapses \subseteq lapses'
    BY <1>2, NewRunAppends DEF Marker, Subagent, Note
  <1>3. ASSUME NEW text, Answer(text) PROVE Grown
    <2>1. \A n \in DOMAIN runs : runs[n] \in RunType
      OBVIOUS
    <2> QED BY <1>3, <2>1 DEF Answer, Grown, RunType
  <1>10. ASSUME NEW s \in Session, Assistant(s, 0) \/ \E n \in Oldest(s) : RunEnds(s, n)
         PROVE  Grown /\ lapses \subseteq lapses'
    <2>1. CASE \E text \in Texts(s) : Assistant(s, text)
      BY <1>3, <2>1 DEF Assistant, Note
    <2>2. CASE \E n \in Oldest(s) : Ignored(s, n)
      BY <1>3, <2>2, IgnoredStep
    <2> QED BY <1>10, <2>1, <2>2, MessageCases
  <1>4. ASSUME NEW p \in Proc, Crash(p) PROVE Grown /\ lapses \subseteq lapses'
    <2>1. runs' = [n \in DOMAIN runs |-> IF Host[runs[n].session] = p
                                      THEN [runs[n] EXCEPT !.open = FALSE] ELSE runs[n]]
      BY <1>4 DEF Crash
    <2>2. \A n \in DOMAIN runs : runs[n] \in RunType
      OBVIOUS
    <2>3. Grown
      BY <2>1, <2>2 DEF Grown, RunType
    <2> QED BY <1>4, <2>3 DEF Crash
  <1>5. ASSUME NEW t \in Task, TaskStep(t) PROVE UNCHANGED runs /\ lapses \subseteq lapses'
    BY <1>5 DEF TaskStep, PartPosted, PartRetried, SendFails, MarkSent, Note
  <1>6. ASSUME NEW p \in Proc, FileStep(p) \/ WriteFails(p) PROVE UNCHANGED runs /\ lapses \subseteq lapses'
    BY <1>6 DEF FileStep, Open, Fill, WriteFails
  <1>7. ASSUME NEW s \in Session, BindConversation(s) PROVE UNCHANGED runs /\ lapses \subseteq lapses'
    BY <1>7 DEF BindConversation, Note
  <1>8. ASSUME NEW j \in Job, AddJob(j) PROVE UNCHANGED runs /\ lapses \subseteq lapses'
    BY <1>8 DEF AddJob, Note
  <1>9. CASE UNCHANGED vars
    BY <1>1, <1>9 DEF vars
  <1> QED BY <1>1, <1>2, <1>4, <1>5, <1>6, <1>7, <1>8, <1>9, <1>10 DEF Next

(* The answer that a session gives, if it is that of a run.                  *)
LEMMA Answering ==
    ASSUME TypeInv, NEW s \in Session, NEW text \in Texts(s), Assistant(s, text)
    PROVE  /\ text \in Text /\ (text = 0 \/ text \in Unanswered(s))
           /\ text # 0 => text \in DOMAIN runs' /\ ~runs'[text].open /\ runs[text].open
           /\ \A n \in DOMAIN runs : n # text => runs'[n] = runs[n]
           /\ DOMAIN runs' = DOMAIN runs
  <1>1. runs \in Seq(RunType) /\ Len(runs) <= MaxRuns /\ DOMAIN runs = 1 .. Len(runs)
    BY DEF TypeInv, TypeOK, RunType, PendingRuns
  <1>2. text = 0 \/ text \in Unanswered(s)
    BY DEF Texts, Oldest
  <1>3. text # 0 => text \in DOMAIN runs /\ runs[text].open /\ text \in 1 .. MaxRuns
    BY <1>1, <1>2, BoundAssumption DEF Unanswered
  <1>4. runs' = IF text = 0 THEN runs ELSE [runs EXCEPT ![text].open = FALSE]
    BY DEF Assistant, Answer
  <1>5. text # 0 => runs[text] \in RunType
    BY <1>1, <1>3
  <1> QED BY <1>1, <1>2, <1>3, <1>4, <1>5, BoundAssumption DEF Text, RunType

LEMMA NextOrderInv == TypeInv /\ OrderInv /\ [Next]_vars => OrderInv'
  <1> SUFFICES ASSUME TypeInv, OrderInv, [Next]_vars PROVE OrderInv'
    OBVIOUS
  <1>0. Grown /\ lapses \subseteq lapses' /\ task \in [Task -> TaskType(Len(arrays))]
    BY RunsGrow DEF TypeInv, TypeOK, TaskType
  <1> USE <1>0
  <1>1. CASE UNCHANGED <<task, posted>>
    BY <1>1, OrderKept DEF Active
  <1>2. ASSUME NEW s \in Session, NEW j \in Job, NEW hasId \in BOOLEAN, Subagent(s, j, hasId) PROVE OrderInv'
    <2>1. UNCHANGED posted /\ NewRun(j, s, FALSE) /\ HasFree
      BY <1>2 DEF Subagent
    <2> DEFINE key == [job |-> j, text |-> IF hasId THEN Len(runs') ELSE None]
    <2>2. UNCHANGED task \/ Deliver(s, key, Len(runs'), 0)
      BY <1>2 DEF Subagent
    <2>3. CASE Deliver(s, key, Len(runs'), 0)
      <3>1. PICK t \in Task : \E d : /\ ~Active(t) /\ task' = [task EXCEPT ![t] = d]
                                     /\ d.text = Len(runs') /\ d.part = 1
        BY <2>1, <2>3, Delivering
      <3>2. \E k : /\ k = Len(runs') /\ k \in 1 .. MaxRuns /\ DOMAIN runs' = 1 .. k /\ ~runs'[k].open
                   /\ \A n \in DOMAIN runs : n # k
        BY <2>1, NewRunAppends
      <3>3. PICK k : /\ k = Len(runs') /\ k \in 1 .. MaxRuns /\ DOMAIN runs' = 1 .. k /\ ~runs'[k].open
                     /\ \A n \in DOMAIN runs : n # k
        BY <3>2
      <3>4. k \in Text /\ k \in DOMAIN runs' /\ k \notin DOMAIN runs /\ ~runs'[k].open
        BY <3>3, BoundAssumption DEF Text
      <3>5. PICK d : ~Active(t) /\ task' = [task EXCEPT ![t] = d] /\ d.text = k /\ d.part = 1
        BY <3>1, <3>3
      <3> QED BY <2>1, <3>4, <3>5, OrderDelivered
    <2> QED BY <1>1, <2>1, <2>2, <2>3
  <1>3. ASSUME NEW s \in Session, NEW text \in Texts(s), Assistant(s, text) PROVE OrderInv'
    <2>1. UNCHANGED posted /\ HasFree
      BY <1>3 DEF Assistant
    <2> DEFINE key == [job |-> runs[NextOf(s)].job, text |-> text]
    <2>2. UNCHANGED task \/ Deliver(s, key, text, pending[s])
      BY <1>3 DEF Assistant
    <2>3. CASE Deliver(s, key, text, pending[s])
      <3>1. PICK t \in Task : \E d : /\ ~Active(t) /\ task' = [task EXCEPT ![t] = d]
                                     /\ d.text = text /\ d.part = 1
        BY <2>1, <2>3, Delivering
      <3>2. text \in Text /\ (text # 0 => text \in DOMAIN runs' /\ ~runs'[text].open /\ runs[text].open)
        BY <1>3, Answering
      <3>3. PICK d : ~Active(t) /\ task' = [task EXCEPT ![t] = d] /\ d.text = text /\ d.part = 1
        BY <3>1
      <3> QED BY <2>1, <3>2, <3>3, OrderDelivered
    <2> QED BY <1>1, <2>1, <2>2, <2>3
  <1>4. ASSUME NEW t \in Task, PartPosted(t) PROVE OrderInv'
    <2>1. /\ task[t].at = "send" /\ Post(t) /\ UNCHANGED runs
          /\ task'[t].part = task[t].part + 1 /\ task'[t].text = task[t].text
          /\ \A u \in Task \ {t} : task'[u] = task[u]
      BY <1>4 DEF PartPosted, TaskType
    <2> QED BY <2>1, OrderPosted
  <1>5. ASSUME NEW t \in Task, PartRetried(t) PROVE OrderInv'
    <2>1. /\ task[t].at = "send" /\ UNCHANGED runs
          /\ task'[t].part = task[t].part /\ task'[t].text = task[t].text /\ task'[t].at = task[t].at
          /\ \A u \in Task \ {t} : task'[u] = task[u]
          /\ UNCHANGED posted \/ (Post(t) /\ "lost" \in lapses')
      BY <1>5 DEF PartRetried, Again, Note, TaskType
    <2>2. CASE UNCHANGED posted
      BY <2>1, <2>2, OrderKept DEF Active
    <2>3. CASE Post(t) /\ "lost" \in lapses'
      BY <2>1, <2>3, OrderPosted
    <2> QED BY <2>1, <2>2, <2>3
  <1>6. ASSUME NEW t \in Task, SendFails(t) PROVE OrderInv'
    <2>1. task[t].at = "send" /\ UNCHANGED runs /\ (UNCHANGED posted \/ Post(t)) /\ Ended(t)
      BY <1>6 DEF SendFails, Settle
    <2>2. ~Active(t)' /\ \A u \in Task \ {t} : task'[u] = task[u]
      BY <2>1, EndedTask
    <2>3. CASE UNCHANGED posted
      BY <2>2, <2>3, OrderKept DEF Active
    <2>4. CASE Post(t)
      BY <2>1, <2>2, <2>4, OrderPosted
    <2> QED BY <2>1, <2>3, <2>4
  <1>7. ASSUME NEW t \in Task, MarkSent(t) PROVE OrderInv'
    <2>1. UNCHANGED posted /\ task[t].at = "mark" /\ task' = [task EXCEPT ![t].at = "marking"]
      BY <1>7 DEF MarkSent, Whole
    <2>2. \A u \in Task : task'[u].text = task[u].text /\ task'[u].part = task[u].part
                          /\ (Active(u)' => Active(u))
      BY <2>1 DEF Active, TaskType
    <2> QED BY <2>1, <2>2, OrderKept
  <1>8. ASSUME NEW p \in Proc, Fill(p) \/ WriteFails(p) PROVE OrderInv'
    <2>1. UNCHANGED posted /\ (UNCHANGED task \/ \E t \in Task : Ended(t))
      BY <1>8 DEF Fill, WriteFails, Settle, TypeInv, TypeOK
    <2>2. CASE \E t \in Task : Ended(t)
      <3>1. \A u \in Task : Active(u)' => task'[u] = task[u]
        BY <2>2, EndedTask
      <3> QED BY <2>1, <3>1, OrderKept DEF Active
    <2> QED BY <1>1, <2>1, <2>2
  <1>9. ASSUME NEW p \in Proc, Crash(p) PROVE OrderInv'
    <2>1. UNCHANGED posted /\ \A u \in Task : task'[u] = NoTask \/ task'[u] = task[u]
      BY <1>9 DEF Crash
    <2> QED BY <2>1, OrderKept DEF Active, NoTask
  <1>10. \/ \E p \in Proc : Fill(p) \/ WriteFails(p) \/ Crash(p)
         \/ \E t \in Task : PartPosted(t) \/ PartRetried(t) \/ SendFails(t) \/ MarkSent(t)
         \/ \E s \in Session : \E text \in Texts(s) : Assistant(s, text)
         \/ \E s \in Session, j \in Job : \E hasId \in BOOLEAN : Subagent(s, j, hasId)
         \/ UNCHANGED <<task, posted>>
    BY MessageCases, IgnoredStep DEF Next, FileStep, TaskStep, BindConversation, AddJob, Open, Marker, vars
  <1> QED BY <1>1, <1>2, <1>3, <1>4, <1>5, <1>6, <1>7, <1>8, <1>9, <1>10

(* The messages of a text are posted in order, each once unless the answer   *)
(* to its request is lost: with any number of parts, retries and deliveries, *)
(* and whatever else goes wrong.                                             *)
THEOREM PostsAreInOrder == Spec => []PostedInOrder
  <1> DEFINE IInv == TypeInv /\ OrderInv
  <1>1. Init => IInv
    BY InitTypeInv, InitOrderInv
  <1>2. IInv /\ [Next]_vars => IInv'
    BY NextTypeInv, NextOrderInv
  <1>3. IInv => PostedInOrder
    BY DEF PostedInOrder, OrderInv, OrderOK, InOrder
  <1> QED BY <1>1, <1>2, <1>3, PTL DEF Spec

-----------------------------------------------------------------------------
(* Every session ended its runs with a text, said nothing else while results *)
(* were pending, nor anything more while one was being sent.                 *)
Orderly == lapses \cap {"overlap", "extra", "silent"} = {}

(* The pending results of a session, and the deliveries of such.             *)
Queue(s) == IF pending[s] = 0 THEN <<>> ELSE arrays[pending[s]]
Sending(s) == {t \in Task : Active(t) /\ task[t].session = s /\ task[t].array # 0}

(* The array of a session holds what it has to answer, in order, behind what *)
(* is being sent, and only one result is.                                    *)
SessionOK(s) ==
    /\ pending[s] # 0 => Queue(s) # <<>>
    /\ \A i, k \in DOMAIN Queue(s) : i < k => Queue(s)[i] < Queue(s)[k]
    /\ \A t, u \in Sending(s) : t = u
    /\ \A t \in Sending(s) : pending[s] = task[t].array /\ task[t].text = Queue(s)[1]
    /\ \A n \in Unanswered(s) : \E i \in DOMAIN Queue(s) : Queue(s)[i] = n
    /\ \A i \in DOMAIN Queue(s) : i > 1 \/ Sending(s) = {} => Queue(s)[i] \in Unanswered(s)

(* No array is of two sessions.                                              *)
Unshared == \A r, s \in Session : pending[r] # 0 /\ pending[r] = pending[s] => r = s

QueueInv == Unshared /\ \A s \in Session : SessionOK(s)

(* What a step leaves to a session that it is not about.                     *)
Untouched(s) ==
    /\ pending'[s] = pending[s]
    /\ pending[s] # 0 => arrays'[pending[s]] = arrays[pending[s]]
    /\ Unanswered(s)' = Unanswered(s)
    /\ Sending(s)' = Sending(s)
    /\ \A t \in Sending(s) : task'[t].array = task[t].array /\ task'[t].text = task[t].text

LEMMA SessionKept == ASSUME NEW s \in Session, SessionOK(s), Untouched(s) PROVE SessionOK(s)'
  <1>1. Queue(s)' = Queue(s)
    BY DEF Untouched, Queue
  <1> QED BY <1>1 DEF SessionOK, Untouched

LEMMA InitQueueInv == Init => QueueInv
  <1> SUFFICES ASSUME Init PROVE QueueInv
    OBVIOUS
  <1>1. \A s \in Session : pending[s] = 0 /\ Queue(s) = <<>> /\ Sending(s) = {} /\ Unanswered(s) = {}
    BY DEF Init, Queue, Sending, Active, NoTask, Unanswered
  <1> QED BY <1>1 DEF QueueInv, Unshared, SessionOK

LEMMA SeqFacts ==
    ASSUME NEW S, NEW q \in Seq(S)
    PROVE  /\ DOMAIN q = 1 .. Len(q) /\ Len(q) \in Nat /\ \A i \in DOMAIN q : q[i] \in S
           /\ (q = <<>>) <=> (Len(q) = 0)
           /\ q # <<>> => 1 \in DOMAIN q /\ Head(q) = q[1]
  <1>1. DOMAIN q = 1 .. Len(q) /\ Len(q) \in Nat /\ \A i \in DOMAIN q : q[i] \in S
    OBVIOUS
  <1>2. (q = <<>>) <=> (Len(q) = 0)
    OBVIOUS
  <1>3. Head(q) = q[1]
    OBVIOUS
  <1> QED BY <1>1, <1>2, <1>3

(* What is known of the array of a session.                                  *)
LEMMA QueueType ==
    ASSUME TypeInv, NEW s \in Session
    PROVE  /\ arrays \in Seq(Seq(1 .. MaxRuns)) /\ pending[s] \in 0 .. Len(arrays)
           /\ pending[s] # 0 => pending[s] \in DOMAIN arrays
           /\ Queue(s) \in Seq(1 .. MaxRuns) /\ DOMAIN Queue(s) = 1 .. Len(Queue(s)) /\ Len(Queue(s)) \in Nat
           /\ \A i \in DOMAIN Queue(s) : Queue(s)[i] \in DOMAIN runs /\ Queue(s)[i] \in 1 .. MaxRuns
           /\ Queue(s) # <<>> => pending[s] # 0 /\ 1 \in DOMAIN Queue(s) /\ Head(Queue(s)) = Queue(s)[1]
  <1>1. arrays \in Seq(Seq(1 .. MaxRuns)) /\ pending[s] \in 0 .. Len(arrays)
    BY DEF TypeInv, TypeOK
  <1>2. pending[s] # 0 => pending[s] \in DOMAIN arrays
    BY <1>1
  <1>3. Queue(s) \in Seq(1 .. MaxRuns)
    <2>1. CASE pending[s] = 0
      BY <2>1 DEF Queue
    <2>2. CASE pending[s] # 0
      <3>1. \A a \in DOMAIN arrays : arrays[a] \in Seq(1 .. MaxRuns)
        BY <1>1
      <3> QED BY <1>2, <2>2, <3>1 DEF Queue
    <2> QED BY <2>1, <2>2
  <1>4. \A i \in DOMAIN Queue(s) : Queue(s)[i] \in DOMAIN runs
    BY <1>2 DEF Queue, TypeInv, PendingRuns
  <1>5. Queue(s) # <<>> => pending[s] # 0
    BY DEF Queue
  <1> PICK q \in Seq(1 .. MaxRuns) : q = Queue(s)
    BY <1>3
  <1>6. /\ DOMAIN q = 1 .. Len(q) /\ Len(q) \in Nat /\ \A i \in DOMAIN q : q[i] \in 1 .. MaxRuns
        /\ q # <<>> => 1 \in DOMAIN q /\ Head(q) = q[1]
    BY SeqFacts
  <1> QED BY <1>1, <1>2, <1>3, <1>4, <1>5, <1>6

LEMMA TailFacts ==
    ASSUME NEW S, NEW q \in Seq(S), q # <<>>
    PROVE  /\ Tail(q) \in Seq(S) /\ Len(Tail(q)) \in Nat /\ Len(q) = Len(Tail(q)) + 1
           /\ DOMAIN q = 1 .. Len(q) /\ DOMAIN Tail(q) = 1 .. Len(Tail(q))
           /\ \A i \in DOMAIN Tail(q) : i + 1 \in DOMAIN q /\ Tail(q)[i] = q[i + 1]
  <1>1. /\ Tail(q) \in Seq(S) /\ Len(Tail(q)) \in Nat /\ Len(q) = Len(Tail(q)) + 1
        /\ DOMAIN q = 1 .. Len(q) /\ DOMAIN Tail(q) = 1 .. Len(Tail(q))
        /\ \A i \in 1 .. Len(Tail(q)) : Tail(q)[i] = q[i + 1]
    OBVIOUS
  <1> QED BY <1>1

(* The first pending result of a session is taken.                           *)
LEMMA Shifted ==
    ASSUME TypeInv, QueueInv, NEW s \in Session, pending[s] # 0, Shift(s, pending[s]),
           Sending(s)' = {}, Unanswered(s)' = Unanswered(s) \ {Queue(s)[1]},
           \A r \in Session \ {s} :
               /\ Unanswered(r)' = Unanswered(r) /\ Sending(r)' = Sending(r)
               /\ \A t \in Sending(r) : task'[t].array = task[t].array /\ task'[t].text = task[t].text
    PROVE  QueueInv'
  <1> PICK q : q = Queue(s)
    OBVIOUS
  <1> PICK a : a = pending[s]
    OBVIOUS
  <1>1. SessionOK(s) /\ q # <<>> /\ q = arrays[a] /\ a \in DOMAIN arrays /\ q \in Seq(1 .. MaxRuns)
    BY QueueType DEF QueueInv, SessionOK, Queue
  <1>2. arrays' = [arrays EXCEPT ![a] = Tail(q)]
    BY <1>1 DEF Shift
  <1>3. arrays'[a] = Tail(q) /\ \A b \in DOMAIN arrays \ {a} : arrays'[b] = arrays[b]
    BY <1>1, <1>2
  <1>4. pending' = [pending EXCEPT ![s] = IF Tail(q) = <<>> THEN 0 ELSE @]
    BY <1>1, <1>3 DEF Shift
  <1>5. /\ pending \in [Session -> 0 .. Len(arrays)]
        /\ pending'[s] = IF Tail(q) = <<>> THEN 0 ELSE a
        /\ \A r \in Session \ {s} : pending'[r] = pending[r]
    BY <1>4 DEF TypeInv, TypeOK
  <1>6. Unshared'
    BY <1>5 DEF QueueInv, Unshared
  <1>7. ASSUME NEW r \in Session \ {s} PROVE SessionOK(r)'
    <2>1. pending[r] # 0 => pending[r] \in DOMAIN arrays /\ pending[r] # a
      BY QueueType DEF QueueInv, Unshared
    <2>2. Untouched(r)
      BY <1>3, <1>5, <2>1 DEF Untouched
    <2> QED BY <2>2, SessionKept DEF QueueInv
  <1>8. SessionOK(s)'
    <2>1. Queue(s)' = Tail(q)
      BY <1>3, <1>5, <1>1 DEF Queue
    <2>2. /\ \A i, k \in DOMAIN q : i < k => q[i] < q[k]
          /\ \A n \in Unanswered(s) : \E i \in DOMAIN q : q[i] = n
          /\ \A i \in DOMAIN q : i > 1 => q[i] \in Unanswered(s)
          /\ \A i \in DOMAIN q : q[i] \in 1 .. MaxRuns
      BY <1>1, QueueType DEF SessionOK
    <2>3. /\ DOMAIN q = 1 .. Len(q) /\ DOMAIN Tail(q) = 1 .. Len(Tail(q))
          /\ Len(q) = Len(Tail(q)) + 1 /\ Len(Tail(q)) \in Nat
          /\ \A i \in DOMAIN Tail(q) : i + 1 \in DOMAIN q /\ Tail(q)[i] = q[i + 1]
      BY <1>1, TailFacts
    <2>4. ASSUME NEW i \in DOMAIN Tail(q), NEW k \in DOMAIN Tail(q), i < k PROVE Tail(q)[i] < Tail(q)[k]
      BY <2>2, <2>3, <2>4
    <2>5. ASSUME NEW i \in DOMAIN Tail(q) PROVE Tail(q)[i] \in Unanswered(s) \ {q[1]}
      <3>1. i + 1 > 1 /\ i + 1 \in DOMAIN q /\ 1 \in DOMAIN q
        BY <2>3
      <3>2. q[1] < q[i + 1] /\ q[1] \in 1 .. MaxRuns /\ q[i + 1] \in 1 .. MaxRuns
        BY <2>2, <3>1
      <3>3. q[i + 1] # q[1]
        BY <3>2, BoundAssumption
      <3> QED BY <2>2, <2>3, <3>1, <3>3
    <2>6. ASSUME NEW n \in Unanswered(s) \ {q[1]} PROVE \E i \in DOMAIN Tail(q) : Tail(q)[i] = n
      <3>1. PICK i \in DOMAIN q : q[i] = n
        BY <2>2
      <3>2. i # 1 /\ i - 1 \in DOMAIN Tail(q) /\ (i - 1) + 1 = i
        BY <2>3, <3>1
      <3> QED BY <2>3, <3>1, <3>2
    <2>7. pending'[s] # 0 => Tail(q) # <<>>
      BY <1>5
    <2> QED BY <2>1, <2>4, <2>5, <2>6, <2>7 DEF SessionOK
  <1> QED BY <1>6, <1>7, <1>8 DEF QueueInv

(* A delivery goes on, or it is of no pending result.                        *)
GoesOn(t) ==
    \/ /\ task'[t].at # "none" <=> task[t].at # "none"
       /\ task'[t].session = task[t].session /\ task'[t].array = task[t].array
       /\ task'[t].text = task[t].text
    \/ task[t].array = 0 /\ task'[t].array = 0

(* A step that leaves every session alone.                                   *)
LEMMA AllUntouched ==
    ASSUME TypeInv, QueueInv, UNCHANGED <<arrays, pending>>,
           \A s \in Session : Unanswered(s)' = Unanswered(s), \A t \in Task : GoesOn(t)
    PROVE  QueueInv'
  <1>1. Unshared'
    BY DEF QueueInv, Unshared
  <1>2. \A s \in Session : Untouched(s)
    BY DEF Untouched, Sending, Active, GoesOn
  <1> QED BY <1>1, <1>2, SessionKept DEF QueueInv

(* What is unanswered when a run is appended.                                *)
LEMMA NewUnanswered ==
    ASSUME TypeInv, NEW s \in Session, NEW j \in Job, NEW open \in BOOLEAN, NewRun(j, s, open)
    PROVE  /\ \A r \in Session \ {s} : Unanswered(r)' = Unanswered(r)
           /\ Unanswered(s)' = Unanswered(s) \cup (IF open THEN {Len(runs')} ELSE {})
  <1> PICK n : n = Len(runs')
    OBVIOUS
  <1>1. /\ n = Len(runs) + 1 /\ \A k \in 1 .. Len(runs) : runs'[k] = runs[k]
        /\ runs'[n] = [job |-> j, session |-> s, open |-> open]
    BY NewRunAppends
  <1>2. runs'[n].session = s /\ runs'[n].open = open
    BY <1>1
  <1>3. 1 .. n = (1 .. Len(runs)) \cup {n} /\ n \notin 1 .. Len(runs)
    <2>1. Len(runs) \in Nat
      BY DEF TypeInv, TypeOK
    <2> QED BY <1>1, <2>1
  <1>4. ASSUME NEW r \in Session
        PROVE  Unanswered(r)' = {k \in 1 .. n : runs'[k].session = r /\ runs'[k].open}
    BY DEF Unanswered
  <1>5. \A k \in 1 .. Len(runs) : runs'[k].session = runs[k].session /\ runs'[k].open = runs[k].open
    BY <1>1
  <1> QED BY <1>2, <1>3, <1>4, <1>5 DEF Unanswered

(* A result becomes pending behind those that are.                           *)
LEMMA QueueMarked ==
    ASSUME TypeInv, QueueInv, NEW s \in Session, NEW j \in Job, Marker(s, j)
    PROVE  QueueInv'
  <1> PICK n : n = Len(runs')
    OBVIOUS
  <1>1. NewRun(j, s, TRUE) /\ UNCHANGED task
    BY DEF Marker
  <1>2. /\ \A r \in Session \ {s} : Unanswered(r)' = Unanswered(r)
        /\ Unanswered(s)' = Unanswered(s) \cup {n}
    BY <1>1, NewUnanswered
  <1>3. n \in 1 .. MaxRuns /\ \A k \in DOMAIN runs : k < n
    BY <1>1, NewRunAppends
  <1>4. \A r \in Session : Sending(r)' = Sending(r)
    BY <1>1 DEF Sending, Active
  <1>5. /\ SessionOK(s) /\ pending \in [Session -> 0 .. Len(arrays)]
        /\ arrays \in Seq(Seq(1 .. MaxRuns)) /\ DOMAIN arrays = 1 .. Len(arrays) /\ Len(arrays) \in Nat
    BY DEF QueueInv, TypeInv, TypeOK
  <1>6. CASE pending[s] = 0
    <2>1. Queue(s) = <<>> /\ Sending(s) = {} /\ Unanswered(s) = {}
      BY <1>5, <1>6 DEF SessionOK, Queue, Sending
    <2> PICK one : one = <<n>>
      OBVIOUS
    <2>2. one \in Seq(1 .. MaxRuns) /\ one # <<>> /\ DOMAIN one = {1} /\ one[1] = n
      BY <1>3
    <2>3. arrays' = Append(arrays, one) /\ pending' = [pending EXCEPT ![s] = Len(arrays')]
      BY <1>6 DEF Marker
    <2>4. /\ Len(arrays') = Len(arrays) + 1 /\ arrays'[Len(arrays) + 1] = one
          /\ \A a \in 1 .. Len(arrays) : arrays'[a] = arrays[a]
      BY <1>5, <2>2, <2>3, AppendFacts
    <2>5. pending'[s] = Len(arrays) + 1 /\ \A r \in Session \ {s} : pending'[r] = pending[r]
      BY <1>5, <2>3, <2>4
    <2>6. Unshared'
      BY <1>5, <2>5 DEF QueueInv, Unshared
    <2>7. ASSUME NEW r \in Session \ {s} PROVE SessionOK(r)'
      <3>1. pending[r] # 0 => pending[r] \in 1 .. Len(arrays)
        BY <1>5
      <3>2. Untouched(r)
        BY <1>1, <1>2, <1>4, <2>4, <2>5, <3>1 DEF Untouched
      <3> QED BY <3>2, SessionKept DEF QueueInv
    <2>8. Queue(s)' = one
      BY <1>5, <2>4, <2>5 DEF Queue
    <2>9. Sending(s)' = {} /\ Unanswered(s)' = {n}
      BY <1>2, <1>4, <2>1
    <2>10. SessionOK(s)'
      BY <2>2, <2>8, <2>9 DEF SessionOK
    <2> QED BY <2>6, <2>7, <2>10 DEF QueueInv
  <1>7. CASE pending[s] # 0
    <2> PICK a \in DOMAIN arrays : a = pending[s]
      BY <1>7, QueueType
    <2> PICK q \in Seq(1 .. MaxRuns) : q = arrays[a]
      BY <1>5
    <2> PICK longer : longer = Append(q, n)
      OBVIOUS
    <2>1. Queue(s) = q /\ q # <<>> /\ \A i \in DOMAIN q : q[i] < n
      BY <1>3, <1>5, <1>7, QueueType DEF SessionOK, Queue
    <2>2. pending' = pending /\ arrays' = [arrays EXCEPT ![a] = longer]
      BY <1>7 DEF Marker
    <2>3. arrays'[a] = longer /\ \A b \in DOMAIN arrays \ {a} : arrays'[b] = arrays[b]
      BY <1>5, <2>2
    <2>4. Unshared'
      BY <2>2 DEF QueueInv, Unshared
    <2>5. ASSUME NEW r \in Session \ {s} PROVE SessionOK(r)'
      <3>1. pending[r] # 0 => pending[r] \in DOMAIN arrays /\ pending[r] # a
        BY QueueType DEF QueueInv, Unshared
      <3>2. Untouched(r)
        BY <1>1, <1>2, <1>4, <2>2, <2>3, <3>1 DEF Untouched
      <3> QED BY <3>2, SessionKept DEF QueueInv
    <2>6. Queue(s)' = longer
      BY <1>7, <2>2, <2>3 DEF Queue
    <2>7. /\ DOMAIN q = 1 .. Len(q) /\ Len(q) \in Nat /\ 1 \in DOMAIN q
          /\ DOMAIN longer = 1 .. Len(q) + 1 /\ longer[Len(q) + 1] = n /\ longer # <<>>
          /\ \A i \in 1 .. Len(q) : longer[i] = q[i] /\ q[i] \in 1 .. MaxRuns
      <3>1. /\ DOMAIN q = 1 .. Len(q) /\ Len(q) \in Nat /\ 1 \in DOMAIN q
            /\ \A i \in 1 .. Len(q) : q[i] \in 1 .. MaxRuns
        BY <2>1, SeqFacts
      <3>2. /\ DOMAIN longer = 1 .. Len(q) + 1 /\ longer[Len(q) + 1] = n
            /\ \A i \in 1 .. Len(q) : longer[i] = q[i]
        BY <1>3, AppendFacts
      <3> QED BY <3>1, <3>2
    <2>8. \A i, k \in DOMAIN longer : i < k => longer[i] < longer[k]
      <3>1. ASSUME NEW i \in DOMAIN longer, NEW k \in DOMAIN longer, i < k PROVE longer[i] < longer[k]
        <4>1. i \in 1 .. Len(q) /\ longer[i] = q[i]
          BY <2>7, <3>1
        <4>2. CASE k = Len(q) + 1
          BY <2>1, <2>7, <4>1, <4>2
        <4>3. CASE k # Len(q) + 1
          BY <1>5, <2>1, <2>7, <3>1, <4>1, <4>3 DEF SessionOK
        <4> QED BY <4>2, <4>3
      <3> QED BY <3>1
    <2>9. \A t \in Sending(s)' : pending'[s] = task'[t].array /\ task'[t].text = longer[1]
      BY <1>1, <1>4, <1>5, <2>1, <2>2, <2>7 DEF SessionOK
    <2>10. \A m \in Unanswered(s)' : \E i \in DOMAIN longer : longer[i] = m
      <3>1. \A m \in Unanswered(s) : \E i \in DOMAIN q : q[i] = m
        BY <1>5, <2>1 DEF SessionOK
      <3>2. n = longer[Len(q) + 1] /\ Len(q) + 1 \in DOMAIN longer /\ \A i \in DOMAIN q : i \in DOMAIN longer
        BY <2>7
      <3> QED BY <1>2, <2>7, <3>1, <3>2
    <2>11. ASSUME NEW i \in DOMAIN longer, i > 1 \/ Sending(s)' = {} PROVE longer[i] \in Unanswered(s)'
      <3>1. CASE i = Len(q) + 1
        BY <1>2, <2>7, <3>1
      <3>2. CASE i # Len(q) + 1
        <4>1. i \in DOMAIN q /\ longer[i] = q[i]
          BY <2>7, <3>2
        <4>2. q[i] \in Unanswered(s)
          BY <1>4, <1>5, <2>1, <2>11, <4>1 DEF SessionOK
        <4> QED BY <1>2, <4>1, <4>2
      <3> QED BY <3>1, <3>2
    <2>12. \A t, u \in Sending(s)' : t = u
      BY <1>4, <1>5 DEF SessionOK
    <2>13. SessionOK(s)'
      BY <2>6, <2>7, <2>8, <2>9, <2>10, <2>11, <2>12 DEF SessionOK
    <2> QED BY <2>4, <2>5, <2>13 DEF QueueInv
  <1> QED BY <1>6, <1>7

(* A session answers the run that has been pending longest.                  *)
LEMMA QueueAnswered ==
    ASSUME TypeInv, QueueInv, NEW s \in Session, NEW text \in Texts(s), Assistant(s, text), Orderly'
    PROVE  QueueInv' /\ text \in Unanswered(s) /\ NextOf(s) = text
  <1>1. Sending(s) = {} /\ text # 0
    <2>1. lapses' = lapses \cup (Race(Host[s]) \cup {l \in {"overlap"} : InFlight(s)} \cup {l \in {"extra"} : text = 0})
      BY DEF Assistant, Note
    <2>2. ~InFlight(s) /\ text # 0
      BY <2>1 DEF Orderly
    <2> QED BY <2>2 DEF InFlight, Sending, Active
  <1> PICK q : q = Queue(s)
    OBVIOUS
  <1>2. /\ pending[s] # 0 /\ q = arrays[pending[s]] /\ q # <<>> /\ Head(q) = q[1]
        /\ DOMAIN q = 1 .. Len(q) /\ Len(q) \in Nat /\ 1 \in DOMAIN q
        /\ \A i \in DOMAIN q : q[i] \in 1 .. MaxRuns
    <2>1. pending[s] # 0 /\ arrays[pending[s]] # <<>>
      BY DEF Assistant, NoHead
    <2>2. q = arrays[pending[s]]
      BY <2>1 DEF Queue
    <2> QED BY <2>1, <2>2, QueueType
  <1>3. text \in Unanswered(s) /\ \A k \in Unanswered(s) : text <= k
    BY <1>1 DEF Texts, Oldest
  <1>4. SessionOK(s)
    BY DEF QueueInv
  <1>5. text = q[1]
    <2>1. q[1] \in Unanswered(s)
      BY <1>1, <1>2, <1>4 DEF SessionOK
    <2>2. PICK i \in DOMAIN q : q[i] = text
      BY <1>3, <1>4 DEF SessionOK
    <2>3. text <= q[1]
      BY <1>3, <2>1
    <2>4. i # 1 => q[1] < text
      BY <1>2, <1>4, <2>2 DEF SessionOK
    <2>5. q[1] \in Nat /\ text \in Nat
      BY <1>2, <2>2, BoundAssumption
    <2> QED BY <2>2, <2>3, <2>4, <2>5
  <1>6. NextOf(s) = text
    BY <1>2, <1>5 DEF NextOf
  <1>7. /\ Unanswered(s)' = Unanswered(s) \ {text}
        /\ \A r \in Session \ {s} : Unanswered(r)' = Unanswered(r)
    <2>1. runs' = [runs EXCEPT ![text].open = FALSE] /\ runs \in Seq(RunType)
      BY <1>1 DEF Assistant, Answer, TypeInv, TypeOK, RunType
    <2>2. text \in 1 .. Len(runs) /\ runs[text].session = s
      BY <1>3 DEF Unanswered
    <2>3. /\ Len(runs') = Len(runs) /\ DOMAIN runs = 1 .. Len(runs)
          /\ \A n \in 1 .. Len(runs) : runs[n] \in RunType
      BY <2>1
    <2>4. /\ \A n \in 1 .. Len(runs) : n # text => runs'[n] = runs[n]
          /\ runs'[text] = [runs[text] EXCEPT !.open = FALSE]
      BY <2>1, <2>2, <2>3
    <2>5. runs'[text].session = s /\ runs'[text].open = FALSE
      BY <2>2, <2>3, <2>4 DEF RunType
    <2> QED BY <2>2, <2>3, <2>4, <2>5 DEF Unanswered
  <1>8. CASE UNCHANGED task
    <2>1. Shift(s, pending[s])
      <3>1. HasFree /\ \/ Shift(s, pending[s])
                       \/ Deliver(s, [job |-> runs[NextOf(s)].job, text |-> text], text, pending[s])
        BY DEF Assistant
      <3>2. CASE Deliver(s, [job |-> runs[NextOf(s)].job, text |-> text], text, pending[s])
        <4>1. PICK t \in Task : \E d : ~Active(t) /\ task' = [task EXCEPT ![t] = d] /\ d.at = "send"
          BY <3>1, <3>2, Delivering
        <4>2. task'[t].at = "send"
          BY <4>1 DEF TypeInv, TypeOK
        <4> QED BY <1>8, <4>1, <4>2 DEF Active
      <3> QED BY <3>1, <3>2
    <2>2. \A r \in Session : Sending(r)' = Sending(r)
      BY <1>8 DEF Sending, Active
    <2> QED BY <1>1, <1>2, <1>3, <1>5, <1>6, <1>7, <1>8, <2>1, <2>2, Shifted
  <1>9. CASE Deliver(s, [job |-> runs[NextOf(s)].job, text |-> text], text, pending[s]) /\ UNCHANGED <<arrays, pending>>
    <2>1. HasFree
      BY DEF Assistant
    <2>2. PICK t \in Task : \E d : /\ ~Active(t) /\ task' = [task EXCEPT ![t] = d]
                                   /\ d.at = "send" /\ d.session = s /\ d.text = text /\ d.array = pending[s]
      BY <1>9, <2>1, Delivering
    <2>3. /\ task'[t].at = "send" /\ task'[t].session = s /\ task'[t].text = text /\ task'[t].array = pending[s]
          /\ \A u \in Task \ {t} : task'[u] = task[u]
      BY <2>2 DEF TypeInv, TypeOK
    <2>4. /\ Sending(s)' = {t}
          /\ \A r \in Session \ {s} : Sending(r)' = Sending(r) /\ Sending(r) \subseteq Task \ {t}
      BY <1>1, <1>2, <2>2, <2>3 DEF Sending, Active
    <2>5. Unshared'
      BY <1>9 DEF QueueInv, Unshared
    <2>6. ASSUME NEW r \in Session \ {s} PROVE SessionOK(r)'
      <3>1. \A u \in Sending(r) : task'[u] = task[u]
        BY <2>3, <2>4
      <3>2. Untouched(r)
        BY <1>7, <1>9, <2>4, <3>1 DEF Untouched
      <3> QED BY <3>2, SessionKept DEF QueueInv
    <2>7. Queue(s)' = q
      BY <1>9 DEF Queue
    <2>8. /\ \A i \in DOMAIN q : i > 1 => q[i] \in Unanswered(s)'
      <3>1. ASSUME NEW i \in DOMAIN q, i > 1 PROVE q[i] \in Unanswered(s) /\ q[1] < q[i]
        BY <1>2, <1>4, <3>1 DEF SessionOK
      <3>2. ASSUME NEW i \in DOMAIN q, i > 1 PROVE q[i] # text
        BY <1>2, <1>5, <3>1, <3>2, BoundAssumption
      <3> QED BY <1>7, <3>1, <3>2
    <2>9. /\ \A i, k \in DOMAIN q : i < k => q[i] < q[k]
          /\ \A n \in Unanswered(s)' : \E i \in DOMAIN q : q[i] = n
      BY <1>4, <1>7 DEF SessionOK
    <2>10. \A u \in Sending(s)' : u = t /\ pending'[s] = task'[t].array /\ task'[t].text = q[1]
      BY <1>5, <1>9, <2>3, <2>4
    <2>11. Sending(s)' # {} /\ \A u, v \in Sending(s)' : u = v
      BY <2>4
    <2>12. SessionOK(s)'
      BY <1>2, <2>7, <2>8, <2>9, <2>10, <2>11 DEF SessionOK
    <2> QED BY <1>3, <1>6, <2>5, <2>6, <2>12 DEF QueueInv
  <1>10. \/ UNCHANGED task
         \/ /\ Deliver(s, [job |-> runs[NextOf(s)].job, text |-> text], text, pending[s])
            /\ UNCHANGED <<arrays, pending>>
    BY DEF Assistant
  <1> QED BY <1>3, <1>6, <1>8, <1>9, <1>10

(* A delivery ends: what it sent was the first pending result of its         *)
(* session.                                                                  *)
LEMMA QueueSettled ==
    ASSUME TypeInv, RunsOK, QueueInv, NEW t \in Task, Settle(t), UNCHANGED runs
    PROVE  QueueInv'
  <1>1. ~Active(t)' /\ task'[t] = NoTask /\ \A u \in Task \ {t} : task'[u] = task[u]
    BY EndedTask DEF Settle, Ended, TypeInv, TypeOK
  <1>2. \A r \in Session : Unanswered(r)' = Unanswered(r)
    BY DEF Unanswered
  <1>3. CASE task[t].array = 0
    <2>1. UNCHANGED <<arrays, pending>>
      BY <1>3 DEF Settle
    <2>2. \A r \in Session : Sending(r)' = Sending(r) /\ Sending(r) \subseteq Task \ {t}
      BY <1>1, <1>3 DEF Sending, Active
    <2>3. \A r \in Session : \A u \in Sending(r) : task'[u] = task[u]
      BY <1>1, <2>2
    <2>4. \A r \in Session : Untouched(r)
      BY <1>2, <2>1, <2>2, <2>3 DEF Untouched
    <2>5. Unshared'
      BY <2>1 DEF QueueInv, Unshared
    <2> QED BY <2>4, <2>5, SessionKept DEF QueueInv
  <1>4. CASE task[t].array # 0
    <2>1. Active(t) /\ Delivery(task[t])
      BY <1>4 DEF TypeInv, Deliveries, NoTask, Active, Delivery
    <2> PICK s \in Session : s = task[t].session
      BY <2>1 DEF Delivery
    <2>2. t \in Sending(s) /\ SessionOK(s)
      BY <1>4, <2>1 DEF Sending, QueueInv
    <2>3. /\ pending[s] = task[t].array /\ task[t].text = Queue(s)[1] /\ Queue(s) # <<>>
          /\ Sending(s) = {t}
      BY <1>4, <2>2 DEF SessionOK
    <2>4. Queue(s)[1] \notin Unanswered(s)
      <3>1. Queue(s)[1] \in 1 .. MaxRuns
        BY <2>3, QueueType
      <3>2. ~runs[task[t].text].open
        BY <2>1, <2>3, <3>1, BoundAssumption DEF RunsOK
      <3> QED BY <2>3, <3>2 DEF Unanswered
    <2>5. Shift(s, pending[s]) /\ pending[s] # 0
      BY <1>4, <2>3 DEF Settle
    <2>6. Sending(s)' = {}
      <3>1. \A u \in Task : u # t => u \notin Sending(s) /\ task'[u] = task[u]
        BY <1>1, <2>3
      <3> QED BY <1>1, <3>1 DEF Sending, Active
    <2>7. \A r \in Session \ {s} : Sending(r)' = Sending(r) /\ Sending(r) \subseteq Task \ {t}
      BY <1>1 DEF Sending, Active
    <2>8. \A r \in Session \ {s} : \A u \in Sending(r) : task'[u].array = task[u].array /\ task'[u].text = task[u].text
      BY <1>1, <2>7
    <2>9. Unanswered(s)' = Unanswered(s) \ {Queue(s)[1]}
      BY <1>2, <2>4
    <2> QED BY <1>2, <2>5, <2>6, <2>7, <2>8, <2>9, Shifted
  <1> QED BY <1>3, <1>4

(* A process dies with what its sessions had pending.                        *)
LEMMA QueueCrashed ==
    ASSUME TypeInv, QueueInv, NEW p \in Proc, Crash(p)
    PROVE  QueueInv'
  <1>1. /\ arrays' = arrays
        /\ \A s \in Session : pending'[s] = IF Host[s] = p THEN 0 ELSE pending[s]
        /\ \A t \in Task : task'[t] = IF Active(t) /\ Host[task[t].session] = p THEN NoTask ELSE task[t]
        /\ DOMAIN runs' = DOMAIN runs
        /\ \A n \in DOMAIN runs : runs'[n] = IF Host[runs[n].session] = p
                                              THEN [runs[n] EXCEPT !.open = FALSE] ELSE runs[n]
    BY DEF Crash, Active
  <1>2. runs \in Seq(RunType)
    BY DEF TypeInv, TypeOK, RunType
  <1>3. /\ DOMAIN runs = 1 .. Len(runs) /\ Len(runs') = Len(runs)
        /\ \A n \in 1 .. Len(runs) : runs[n] \in RunType
    <2>1. DOMAIN runs = 1 .. Len(runs) /\ Len(runs) \in Nat /\ \A n \in 1 .. Len(runs) : runs[n] \in RunType
      BY <1>2
    <2>2. Len(runs') = Len(runs)
      BY <2>1 DEF Crash
    <2> QED BY <2>1, <2>2
  <1>4. \A n \in 1 .. Len(runs) :
          /\ runs'[n].session = runs[n].session
          /\ Host[runs[n].session] = p => ~runs'[n].open
          /\ Host[runs[n].session] # p => runs'[n] = runs[n]
    BY <1>1, <1>3 DEF RunType
  <1>5. ASSUME NEW s \in Session, Host[s] = p PROVE SessionOK(s)'
    <2>1. Queue(s)' = <<>> /\ pending'[s] = 0
      BY <1>1, <1>5 DEF Queue
    <2>2. Unanswered(s)' = {}
      <3>1. ASSUME NEW n \in Unanswered(s)' PROVE FALSE
        <4>1. n \in 1 .. Len(runs') /\ runs'[n].session = s /\ runs'[n].open
          BY DEF Unanswered
        <4> QED BY <1>3, <1>4, <1>5, <4>1
      <3> QED BY <3>1
    <2>3. Sending(s)' = {}
      BY <1>1, <1>5 DEF Sending, Active, NoTask
    <2> QED BY <2>1, <2>2, <2>3 DEF SessionOK
  <1>6. ASSUME NEW s \in Session, Host[s] # p PROVE SessionOK(s)'
    <2>1. Unanswered(s)' = Unanswered(s)
      <3>1. Unanswered(s)' = {n \in 1 .. Len(runs') : runs'[n].session = s /\ runs'[n].open}
        BY DEF Unanswered
      <3>2. ASSUME NEW n \in 1 .. Len(runs)
            PROVE  (runs'[n].session = s /\ runs'[n].open) <=> (runs[n].session = s /\ runs[n].open)
        <4>1. runs'[n].session = runs[n].session /\ (Host[runs[n].session] # p => runs'[n] = runs[n])
          BY <1>4
        <4> QED BY <1>6, <4>1
      <3> QED BY <1>3, <3>1, <3>2 DEF Unanswered
    <2>2. \A t \in Task : \/ task'[t] = task[t]
                          \/ task'[t] = NoTask /\ task[t].session # s
      BY <1>1, <1>6
    <2>3. Sending(s)' = Sending(s) /\ \A t \in Sending(s) : task'[t] = task[t]
      BY <2>2 DEF Sending, Active, NoTask
    <2>4. Untouched(s)
      BY <1>1, <1>6, <2>1, <2>3 DEF Untouched
    <2> QED BY <2>4, SessionKept DEF QueueInv
  <1>7. Unshared'
    BY <1>1 DEF QueueInv, Unshared
  <1> QED BY <1>5, <1>6, <1>7 DEF QueueInv

(* Then no run ends that its session is not waiting for.                     *)
LEMMA NoneIgnored ==
    ASSUME TypeInv, QueueInv, NEW s \in Session, NEW n \in Oldest(s), Orderly'
    PROVE  ~Ignored(s, n)
  <1>1. ~Silent(s, n)
    BY DEF Silent, Note, Orderly
  <1>2. ~NoHead(s)
    <2>1. SessionOK(s) /\ n \in Unanswered(s)
      BY DEF QueueInv, Oldest
    <2>2. PICK i \in DOMAIN Queue(s) : Queue(s)[i] = n
      BY <2>1 DEF SessionOK
    <2>3. Queue(s) # <<>>
      BY <2>2
    <2> QED BY <2>3 DEF Queue, NoHead
  <1> QED BY <1>1, <1>2 DEF Ignored, Unexpected

LEMMA NextQueueInv == TypeInv /\ RunsOK /\ QueueInv /\ [Next]_vars /\ Orderly' => QueueInv'
  <1> SUFFICES ASSUME TypeInv, RunsOK, QueueInv, [Next]_vars, Orderly' PROVE QueueInv'
    OBVIOUS
  <1>0. task \in [Task -> TaskType(Len(arrays))]
    BY DEF TypeInv, TypeOK, TaskType
  <1>1. CASE UNCHANGED <<arrays, pending, task, runs>>
    <2>1. \A s \in Session : Unanswered(s)' = Unanswered(s)
      BY <1>1 DEF Unanswered
    <2>2. \A t \in Task : GoesOn(t)
      BY <1>1 DEF GoesOn
    <2> QED BY <1>1, <2>1, <2>2, AllUntouched
  <1>2. ASSUME NEW s \in Session, NEW j \in Job, Marker(s, j) PROVE QueueInv'
    BY <1>2, QueueMarked
  <1>3. ASSUME NEW s \in Session, NEW j \in Job, NEW hasId \in BOOLEAN, Subagent(s, j, hasId) PROVE QueueInv'
    <2>1. UNCHANGED <<arrays, pending>> /\ NewRun(j, s, FALSE) /\ HasFree
      BY <1>3 DEF Subagent
    <2>2. \A r \in Session : Unanswered(r)' = Unanswered(r)
      BY <2>1, NewUnanswered
    <2> DEFINE key == [job |-> j, text |-> IF hasId THEN Len(runs') ELSE None]
    <2>3. UNCHANGED task \/ Deliver(s, key, Len(runs'), 0)
      BY <1>3 DEF Subagent
    <2>4. CASE UNCHANGED task
      <3>1. \A t \in Task : GoesOn(t)
        BY <2>4 DEF GoesOn
      <3> QED BY <2>1, <2>2, <3>1, AllUntouched
    <2>5. CASE Deliver(s, key, Len(runs'), 0)
      <3>1. PICK t \in Task : \E d : ~Active(t) /\ task' = [task EXCEPT ![t] = d] /\ d.array = 0
        BY <2>1, <2>5, Delivering
      <3>2. task'[t].array = 0 /\ \A u \in Task \ {t} : task'[u] = task[u]
        BY <1>0, <3>1
      <3>3. task[t].array = 0
        BY <3>1 DEF TypeInv, Deliveries, Delivery, NoTask, Active
      <3>4. \A u \in Task : GoesOn(u)
        BY <3>2, <3>3 DEF GoesOn
      <3> QED BY <2>1, <2>2, <3>4, AllUntouched
    <2> QED BY <2>3, <2>4, <2>5
  <1>4. ASSUME NEW s \in Session, NEW text \in Texts(s), Assistant(s, text) PROVE QueueInv'
    BY <1>4, QueueAnswered
  <1>5. ASSUME NEW t \in Task, PartPosted(t) \/ PartRetried(t) \/ MarkSent(t) PROVE QueueInv'
    <2>1. UNCHANGED <<arrays, pending, runs>>
      BY <1>5 DEF PartPosted, PartRetried, MarkSent
    <2>2. /\ task[t].at # "none" /\ task'[t].at # "none" /\ task'[t].text = task[t].text
          /\ task'[t].session = task[t].session /\ task'[t].array = task[t].array
      <3>1. CASE PartPosted(t)
        BY <1>0, <3>1 DEF PartPosted, TaskType
      <3>2. CASE PartRetried(t)
        BY <1>0, <3>2 DEF PartRetried, Again, TaskType
      <3>3. CASE MarkSent(t)
        BY <1>0, <3>3 DEF MarkSent, Whole, TaskType
      <3> QED BY <1>5, <3>1, <3>2, <3>3
    <2>3. \A u \in Task \ {t} : task'[u] = task[u]
      BY <1>0, <1>5 DEF PartPosted, PartRetried, Again, MarkSent
    <2>4. \A u \in Task : GoesOn(u)
      BY <2>2, <2>3 DEF GoesOn
    <2>5. \A s \in Session : Unanswered(s)' = Unanswered(s)
      BY <2>1 DEF Unanswered
    <2> QED BY <2>1, <2>4, <2>5, AllUntouched
  <1>6. ASSUME NEW t \in Task, SendFails(t) PROVE QueueInv'
    BY <1>6, QueueSettled DEF SendFails
  <1>7. ASSUME NEW p \in Proc, Fill(p) \/ WriteFails(p) PROVE QueueInv'
    <2>1. op[p].task \in Task \cup {None} /\ UNCHANGED runs
      BY <1>7 DEF Fill, WriteFails, TypeInv, TypeOK
    <2>2. UNCHANGED <<arrays, pending, task>> \/ (op[p].task \in Task /\ Settle(op[p].task))
      BY <1>7, <2>1 DEF Fill, WriteFails
    <2> QED BY <1>1, <2>1, <2>2, QueueSettled
  <1>8. ASSUME NEW p \in Proc, Crash(p) PROVE QueueInv'
    BY <1>8, QueueCrashed
  <1>9. \/ \E p \in Proc : Fill(p) \/ WriteFails(p) \/ Crash(p)
        \/ \E t \in Task : PartPosted(t) \/ PartRetried(t) \/ SendFails(t) \/ MarkSent(t)
        \/ \E s \in Session : \E text \in Texts(s) : Assistant(s, text)
        \/ \E s \in Session, j \in Job : Marker(s, j) \/ \E hasId \in BOOLEAN : Subagent(s, j, hasId)
        \/ UNCHANGED <<arrays, pending, task, runs>>
    BY MessageCases, NoneIgnored DEF Next, FileStep, TaskStep, BindConversation, AddJob, Open, vars
  <1> QED BY <1>1, <1>2, <1>3, <1>4, <1>5, <1>6, <1>7, <1>8, <1>9

(* The pending results of a session are what it has not answered, and what   *)
(* is being sent, in order: with any number of sessions, processes and runs, *)
(* whichever process dies and whatever becomes of the file, as long as every *)
(* run ends with a text and nothing else is said meanwhile.                  *)
THEOREM PendingIsExact == Spec => []PendingExact
  <1> DEFINE IInv == TypeInv /\ OrderInv /\ (Orderly => QueueInv)
  <1>1. Init => IInv
    BY InitTypeInv, InitOrderInv, InitQueueInv
  <1>2. IInv /\ [Next]_vars => IInv'
    <2>1. TypeInv /\ [Next]_vars /\ Orderly' => Orderly
      BY RunsGrow DEF Orderly
    <2> QED BY <2>1, NextTypeInv, NextOrderInv, NextQueueInv DEF OrderInv
  <1>3. IInv => PendingExact
    <2> SUFFICES ASSUME TypeInv, Orderly, QueueInv, NEW s \in Session
                 PROVE  LET queue == IF pending[s] = 0 THEN <<>> ELSE arrays[pending[s]]
                            sending == {task[t].text : t \in {u \in Task : task[u].at # "none"
                                                /\ task[u].session = s /\ task[u].array # 0}} IN
                        /\ {queue[i] : i \in DOMAIN queue} = Unanswered(s) \cup sending
                        /\ \A i \in DOMAIN queue : i > 1 => queue[i - 1] < queue[i]
      BY DEF PendingExact, Orderly
    <2> PICK q : q = Queue(s)
      OBVIOUS
    <2>1. /\ SessionOK(s) /\ DOMAIN q = 1 .. Len(q) /\ Len(q) \in Nat
          /\ q # <<>> => 1 \in DOMAIN q
      BY QueueType DEF QueueInv
    <2>2. {q[i] : i \in DOMAIN q} = Unanswered(s) \cup {task[t].text : t \in Sending(s)}
      <3>1. \A n \in Unanswered(s) : \E i \in DOMAIN q : q[i] = n
        BY <2>1 DEF SessionOK
      <3>2. \A t \in Sending(s) : task[t].text = q[1] /\ 1 \in DOMAIN q
        BY <2>1 DEF SessionOK, Sending
      <3>3. ASSUME NEW i \in DOMAIN q
            PROVE  q[i] \in Unanswered(s) \/ \E t \in Sending(s) : q[i] = task[t].text
        <4>1. CASE i > 1 \/ Sending(s) = {}
          BY <2>1, <4>1 DEF SessionOK
        <4>2. CASE i = 1 /\ Sending(s) # {}
          BY <3>2, <4>2
        <4> QED BY <2>1, <4>1, <4>2
      <3> QED BY <3>1, <3>2, <3>3
    <2>3. \A i \in DOMAIN q : i > 1 => q[i - 1] < q[i]
      <3>1. \A i \in DOMAIN q : i > 1 => i - 1 \in DOMAIN q /\ i - 1 < i
        BY <2>1
      <3> QED BY <2>1, <3>1 DEF SessionOK
    <2> QED BY <2>2, <2>3 DEF Queue, Sending, Active
  <1> QED BY <1>1, <1>2, <1>3, PTL DEF Spec

-----------------------------------------------------------------------------
(* The text of a run goes to the conversation that made its job.             *)
ChatOK ==
    /\ \A t \in Task : Active(t) /\ task[t].text # 0 => task[t].chat = Home[runs[task[t].text].job]
    /\ \A n \in DOMAIN posted : n \in DOMAIN runs =>
          \A i \in DOMAIN posted[n] : posted[n][i][1] = Home[runs[n].job]

LEMMA InitChatOK == Init => ChatOK
  BY DEF Init, ChatOK, Active, NoTask

(* What was posted stays where it belongs.                                   *)
LEMMA PostedKept ==
    ASSUME RunsOK, ChatOK, Grown, NEW n \in DOMAIN posted, n \in DOMAIN runs', posted'[n] = posted[n]
    PROVE  \A i \in DOMAIN posted'[n] : posted'[n][i][1] = Home[runs'[n].job]
  <1>1. CASE n \in DOMAIN runs
    BY <1>1 DEF ChatOK, Grown
  <1>2. CASE n \notin DOMAIN runs
    <2>1. posted[n] = <<>>
      BY <1>2 DEF RunsOK
    <2> QED BY <2>1
  <1> QED BY <1>1, <1>2

(* A step that posts nothing, and delivers nothing or to the right           *)
(* conversation.                                                             *)
LEMMA ChatKept ==
    ASSUME TypeInv, RunsOK, ChatOK, Grown, UNCHANGED posted,
           \A t \in Task : Active(t)' /\ task'[t].text # 0 =>
               \/ Active(t) /\ task'[t].text = task[t].text /\ task'[t].chat = task[t].chat
               \/ task'[t].chat = Home[runs'[task'[t].text].job]
    PROVE  ChatOK'
  <1>1. ASSUME NEW t \in Task, Active(t)', task'[t].text # 0
        PROVE  task'[t].chat = Home[runs'[task'[t].text].job]
    BY <1>1 DEF ChatOK, RunsOK, Grown
  <1> QED BY <1>1, PostedKept DEF ChatOK

(* Another message of a text is posted, where the others were.               *)
LEMMA ChatPosted ==
    ASSUME TypeInv, RunsOK, ChatOK, NEW t \in Task, task[t].at = "send", Post(t), UNCHANGED runs,
           Active(t)' => task'[t].text = task[t].text /\ task'[t].chat = task[t].chat,
           \A u \in Task \ {t} : task'[u] = task[u]
    PROVE  ChatOK'
  <1> PICK n \in Text : n = task[t].text
    BY DEF TypeInv, TypeOK
  <1> PICK message : message = <<task[t].chat, task[t].part>>
    OBVIOUS
  <1>1. Active(t) /\ Grown /\ posted \in [1 .. MaxRuns -> Posts]
    BY DEF TypeInv, TypeOK, Posts, Active, Grown
  <1>2. message \in Session \X (1 .. CardParts)
    <2>1. Delivery(task[t])
      BY DEF TypeInv, Deliveries, NoTask
    <2>2. task[t].key.job \in Job
      BY <2>1 DEF Delivery, Key
    <2> QED BY <2>1, <2>2, Part, BoundAssumption DEF Delivery
  <1>3. posted' = [k \in 1 .. MaxRuns |-> IF k # n THEN posted[k] ELSE Append(posted[k], message)]
    BY <1>1 DEF Post
  <1>4. ASSUME NEW u \in Task, Active(u)', task'[u].text # 0
        PROVE  task'[u].chat = Home[runs'[task'[u].text].job]
    <2>1. Active(u) /\ task'[u].text = task[u].text /\ task'[u].chat = task[u].chat
      BY <1>1, <1>4 DEF Active
    <2> QED BY <1>4, <2>1 DEF ChatOK
  <1>5. ASSUME NEW k \in DOMAIN posted', k \in DOMAIN runs'
        PROVE  \A i \in DOMAIN posted'[k] : posted'[k][i][1] = Home[runs'[k].job]
    <2>1. k \in 1 .. MaxRuns /\ k \in DOMAIN posted
      BY <1>1, <1>3
    <2>2. CASE k # n
      BY <1>1, <1>3, <1>5, <2>1, <2>2, PostedKept
    <2>3. CASE k = n
      <3> PICK sent \in Posts : sent = posted[k]
        BY <1>1, <2>1
      <3> PICK home : home = Home[runs[k].job]
        OBVIOUS
      <3>1. \A i \in DOMAIN sent : sent[i][1] = home
        BY <1>5, <2>1 DEF ChatOK
      <3>2. message[1] = home
        BY <1>1, <2>1, <2>3, BoundAssumption DEF ChatOK
      <3>3. \A i \in DOMAIN Append(sent, message) : Append(sent, message)[i][1] = home
        <4>1. /\ DOMAIN sent = 1 .. Len(sent) /\ DOMAIN Append(sent, message) = 1 .. Len(sent) + 1
              /\ Len(sent) \in Nat /\ Append(sent, message)[Len(sent) + 1] = message
              /\ \A i \in 1 .. Len(sent) : Append(sent, message)[i] = sent[i]
          BY <1>2, AppendFacts DEF Posts
        <4> QED BY <3>1, <3>2, <4>1
      <3>4. posted'[k] = Append(sent, message)
        BY <1>3, <2>1, <2>3
      <3> QED BY <3>3, <3>4
    <2> QED BY <2>2, <2>3
  <1> QED BY <1>4, <1>5 DEF ChatOK

(* The conversation that is read for a job is its own.                       *)
LEMMA ReadHome == RoutesOK => \A j \in Job : Read.jobs[j] # None => Read.jobs[j] = Home[j]
  BY DEF RoutesOK, Read, NoFile

LEMMA NextChatOK ==
    TypeInv /\ RunsOK /\ RoutesOK /\ QueueInv /\ ChatOK /\ [Next]_vars /\ Orderly' => ChatOK'
  <1> SUFFICES ASSUME TypeInv, RunsOK, RoutesOK, QueueInv, ChatOK, [Next]_vars, Orderly' PROVE ChatOK'
    OBVIOUS
  <1>0. Grown /\ task \in [Task -> TaskType(Len(arrays))] /\ runs \in Seq(RunType)
    BY RunsGrow DEF TypeInv, TypeOK, TaskType, RunType
  <1>1. CASE UNCHANGED <<task, posted>>
    <2>1. \A t \in Task : Active(t)' <=> Active(t)
      BY <1>1 DEF Active
    <2> QED BY <1>0, <1>1, <2>1, ChatKept
  <1>2. ASSUME NEW s \in Session, NEW j \in Job, NEW hasId \in BOOLEAN, Subagent(s, j, hasId) PROVE ChatOK'
    <2>1. UNCHANGED posted /\ NewRun(j, s, FALSE) /\ HasFree /\ Read.jobs[j] # None
      BY <1>2 DEF Subagent
    <2>2. PICK key : /\ UNCHANGED task \/ Deliver(s, key, Len(runs'), 0)
                     /\ key.job = j
      <3>1. UNCHANGED task \/ Deliver(s, [job |-> j, text |-> IF hasId THEN Len(runs') ELSE None], Len(runs'), 0)
        BY <1>2 DEF Subagent
      <3> QED BY <3>1
    <2>3. CASE Deliver(s, key, Len(runs'), 0)
      <3>1. PICK t \in Task : \E d : /\ ~Active(t) /\ task' = [task EXCEPT ![t] = d]
                                     /\ d.text = Len(runs') /\ d.chat = Read.jobs[key.job]
        BY <2>1, <2>3, Delivering
      <3>2. /\ task'[t].text = Len(runs') /\ task'[t].chat = Home[j]
            /\ \A u \in Task \ {t} : task'[u] = task[u]
        BY <1>0, <2>1, <2>2, <3>1, ReadHome
      <3>3. runs'[Len(runs')].job = j
        <4>1. runs'[Len(runs')] = [job |-> j, session |-> s, open |-> FALSE]
          BY <2>1, NewRunAppends
        <4> QED BY <4>1
      <3>4. task'[t].chat = Home[runs'[task'[t].text].job]
        BY <3>2, <3>3
      <3>5. \A u \in Task \ {t} : Active(u)' <=> Active(u)
        BY <3>2 DEF Active
      <3> QED BY <1>0, <2>1, <3>2, <3>4, <3>5, ChatKept
    <2> QED BY <1>1, <2>1, <2>2, <2>3
  <1>3. ASSUME NEW s \in Session, NEW text \in Texts(s), Assistant(s, text) PROVE ChatOK'
    <2>1. UNCHANGED posted /\ HasFree
      BY <1>3 DEF Assistant
    <2>2. text \in Unanswered(s) /\ NextOf(s) = text
      BY <1>3, QueueAnswered
    <2>3. text \in DOMAIN runs /\ runs[text].job \in Job
      <3>1. text \in 1 .. Len(runs)
        BY <2>2 DEF Unanswered
      <3>2. text \in DOMAIN runs /\ runs[text] \in RunType
        BY <1>0, <3>1
      <3> QED BY <3>2 DEF RunType
    <2>4. PICK key : /\ UNCHANGED task \/ (Deliver(s, key, text, pending[s]) /\ Read.jobs[key.job] # None)
                     /\ key.job = runs[text].job
      <3>1. \/ UNCHANGED task
            \/ /\ Deliver(s, [job |-> runs[NextOf(s)].job, text |-> text], text, pending[s])
               /\ Read.jobs[runs[NextOf(s)].job] # None
        BY <1>3 DEF Assistant
      <3> QED BY <2>2, <3>1
    <2>5. CASE Deliver(s, key, text, pending[s]) /\ Read.jobs[key.job] # None
      <3>1. PICK t \in Task : \E d : /\ ~Active(t) /\ task' = [task EXCEPT ![t] = d]
                                     /\ d.text = text /\ d.chat = Read.jobs[key.job]
        BY <2>1, <2>5, Delivering
      <3>2. /\ task'[t].text = text /\ task'[t].chat = Home[runs[text].job]
            /\ \A u \in Task \ {t} : task'[u] = task[u]
        BY <1>0, <2>3, <2>4, <2>5, <3>1, ReadHome
      <3>3. task'[t].chat = Home[runs'[task'[t].text].job]
        BY <1>0, <2>3, <3>2 DEF Grown
      <3>4. \A u \in Task \ {t} : Active(u)' <=> Active(u)
        BY <3>2 DEF Active
      <3> QED BY <1>0, <2>1, <3>2, <3>3, <3>4, ChatKept
    <2> QED BY <1>1, <2>1, <2>4, <2>5
  <1>4. ASSUME NEW t \in Task, PartPosted(t) PROVE ChatOK'
    <2>1. /\ task[t].at = "send" /\ Post(t) /\ UNCHANGED runs
          /\ task'[t].chat = task[t].chat /\ task'[t].text = task[t].text
          /\ \A u \in Task \ {t} : task'[u] = task[u]
      BY <1>0, <1>4 DEF PartPosted, TaskType
    <2> QED BY <2>1, ChatPosted
  <1>5. ASSUME NEW t \in Task, PartRetried(t) PROVE ChatOK'
    <2>1. /\ task[t].at = "send" /\ UNCHANGED runs /\ (UNCHANGED posted \/ Post(t))
          /\ task'[t].chat = task[t].chat /\ task'[t].text = task[t].text
          /\ \A u \in Task \ {t} : task'[u] = task[u]
      BY <1>0, <1>5 DEF PartRetried, Again, TaskType
    <2>2. CASE UNCHANGED posted
      BY <1>0, <2>1, <2>2, ChatKept DEF Active
    <2>3. CASE Post(t)
      BY <2>1, <2>3, ChatPosted
    <2> QED BY <2>1, <2>2, <2>3
  <1>6. ASSUME NEW t \in Task, SendFails(t) PROVE ChatOK'
    <2>1. task[t].at = "send" /\ UNCHANGED runs /\ (UNCHANGED posted \/ Post(t)) /\ Ended(t)
      BY <1>6 DEF SendFails, Settle
    <2>2. ~Active(t)' /\ \A u \in Task \ {t} : task'[u] = task[u]
      BY <2>1, EndedTask
    <2>3. CASE UNCHANGED posted
      BY <1>0, <2>2, <2>3, ChatKept DEF Active
    <2>4. CASE Post(t)
      BY <2>1, <2>2, <2>4, ChatPosted
    <2> QED BY <2>1, <2>3, <2>4
  <1>7. ASSUME NEW t \in Task, MarkSent(t) PROVE ChatOK'
    <2>1. UNCHANGED posted /\ task[t].at = "mark" /\ task' = [task EXCEPT ![t].at = "marking"]
      BY <1>7 DEF MarkSent, Whole
    <2>2. \A u \in Task : task'[u].text = task[u].text /\ task'[u].chat = task[u].chat /\ (Active(u)' => Active(u))
      BY <1>0, <2>1 DEF Active, TaskType
    <2> QED BY <1>0, <2>1, <2>2, ChatKept
  <1>8. ASSUME NEW p \in Proc, Fill(p) \/ WriteFails(p) PROVE ChatOK'
    <2>1. UNCHANGED posted /\ (UNCHANGED task \/ \E t \in Task : Ended(t))
      BY <1>8 DEF Fill, WriteFails, Settle, TypeInv, TypeOK
    <2>2. CASE \E t \in Task : Ended(t)
      <3>1. \A u \in Task : Active(u)' => task'[u] = task[u]
        BY <2>2, EndedTask
      <3> QED BY <1>0, <2>1, <3>1, ChatKept DEF Active
    <2> QED BY <1>1, <2>1, <2>2
  <1>9. ASSUME NEW p \in Proc, Crash(p) PROVE ChatOK'
    <2>1. UNCHANGED posted /\ \A u \in Task : task'[u] = NoTask \/ task'[u] = task[u]
      BY <1>9 DEF Crash
    <2> QED BY <1>0, <2>1, ChatKept DEF Active, NoTask
  <1>10. \/ \E p \in Proc : Fill(p) \/ WriteFails(p) \/ Crash(p)
         \/ \E t \in Task : PartPosted(t) \/ PartRetried(t) \/ SendFails(t) \/ MarkSent(t)
         \/ \E s \in Session : \E text \in Texts(s) : Assistant(s, text)
         \/ \E s \in Session, j \in Job : \E hasId \in BOOLEAN : Subagent(s, j, hasId)
         \/ UNCHANGED <<task, posted>>
    BY MessageCases, IgnoredStep DEF Next, FileStep, TaskStep, BindConversation, AddJob, Open, Marker, vars
  <1> QED BY <1>1, <1>2, <1>3, <1>4, <1>5, <1>6, <1>7, <1>8, <1>9, <1>10

(* A result is posted in the conversation that made its job, whichever       *)
(* process found it, and whatever becomes of the file and of the processes,  *)
(* as long as a session ends its runs with a text and says nothing else      *)
(* while results are pending.                                                *)
THEOREM ResultsReachTheirChat == Spec => []ResultToItsChat
  <1> DEFINE IInv == TypeInv /\ OrderInv /\ RoutesOK /\ (Apart => WriterOK) /\ (Orderly => QueueInv /\ ChatOK)
  <1>1. Init => IInv
    BY InitTypeInv, InitOrderInv, InitRoutes, InitQueueInv, InitChatOK
  <1>2. IInv /\ [Next]_vars => IInv'
    <2>1. TypeInv /\ [Next]_vars /\ Orderly' => Orderly
      BY RunsGrow DEF Orderly
    <2> QED BY <2>1, NextTypeInv, NextOrderInv, NextRoutes, NextQueueInv, NextChatOK DEF OrderInv
  <1>3. IInv => ResultToItsChat
    <2> SUFFICES ASSUME TypeInv, Orderly, ChatOK, NEW n \in 1 .. Len(runs)
                 PROVE  \A i \in DOMAIN posted[n] : posted[n][i][1] = Home[runs[n].job]
      BY DEF ResultToItsChat, Orderly
    <2>1. n \in DOMAIN runs /\ n \in 1 .. MaxRuns /\ DOMAIN posted = 1 .. MaxRuns
      <3>1. runs \in Seq(RunType) /\ Len(runs) <= MaxRuns /\ DOMAIN posted = 1 .. MaxRuns
        BY DEF TypeInv, TypeOK, RunType, PendingRuns
      <3> QED BY <3>1, BoundAssumption
    <2> QED BY <2>1 DEF ChatOK
  <1> QED BY <1>1, <1>2, <1>3, PTL DEF Spec
=============================================================================
