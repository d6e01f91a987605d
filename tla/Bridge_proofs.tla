---------------------------- MODULE Bridge_proofs ----------------------------
(* Proofs about Bridge, for any number of jobs, sessions, processes and      *)
(* deliveries, whatever goes wrong how often.                                *)
EXTENDS Bridge, TLAPS

(* A delivery under way: it has parts left to send or has sent them all, and *)
(* it is known by the run whose text it sends, if by any.                    *)
Delivery(d) ==
    /\ d.session \in Session /\ d.key \in Key /\ d.text \in Text /\ d.chat \in Session
    /\ d.key.text \in 1 .. MaxRuns => d.text = d.key.text
    /\ d.at \in {"send", "mark", "marking"}
    /\ d.at = "send" => d.part \in 1 .. Parts(d.key.job)
    /\ d.at # "send" => d.part = Parts(d.key.job) + 1

Deliveries == \A t \in Task : task[t] = NoTask \/ Delivery(task[t])

(* Pending results belong to runs.                                           *)
PendingRuns ==
    /\ Len(runs) <= MaxRuns
    /\ \A a \in DOMAIN arrays : \A i \in DOMAIN arrays[a] : arrays[a][i] \in DOMAIN runs

TypeInv == TypeOK /\ Deliveries /\ PendingRuns

LEMMA Part == \A j \in Job : Parts(j) \in 1 .. CardParts
  BY BoundAssumption DEF Parts

LEMMA NoFileType == NoFile \in File
  BY DEF NoFile, File

LEMMA ReadType == TypeOK => Read \in File
  BY NoFileType DEF Read, TypeOK

LEMMA InitTypeInv == Init => TypeInv
  <1> SUFFICES ASSUME Init PROVE TypeInv
    OBVIOUS
  <1>1. NoOp \in [at : {"none", "open", "fill"}, data : File, task : Task \cup {None}]
    BY NoFileType DEF NoOp
  <1>2. TypeOK
    <2>1. file \in File /\ op \in [Proc -> [at : {"none", "open", "fill"}, data : File, task : Task \cup {None}]]
      BY <1>1, NoFileType DEF Init
    <2>2. arrays \in Seq(Seq(1 .. MaxRuns)) /\ Len(arrays) = 0 /\ runs \in Seq([job : Job, session : Session, open : BOOLEAN])
      BY DEF Init
    <2>3. pending \in [Session -> 0 .. Len(arrays)]
      BY <2>2 DEF Init
    <2>4. posted \in [1 .. MaxRuns -> Seq(Session \X (1 .. CardParts))]
      BY DEF Init
    <2>6. task \in [Task -> [at : {"none", "send", "mark", "marking"}, session : Session \cup {None},
                          key : Key \cup {None}, text : Text, chat : Session \cup {None},
                          array : 0 .. Len(arrays), part : 1 .. CardParts + 1, tries : 0 .. MaxRetries]]
      BY <2>2, BoundAssumption DEF Init, NoTask, Text
    <2> QED BY <2>1, <2>2, <2>3, <2>4, <2>6 DEF Init, TypeOK
  <1>3. Deliveries /\ PendingRuns
    BY BoundAssumption DEF Init, Deliveries, PendingRuns
  <1> QED BY <1>2, <1>3 DEF TypeInv

(* A write of data begins.                                                   *)
LEMMA WriteType ==
    ASSUME TypeOK, NEW p \in Proc, NEW data \in File, NEW t \in Task \cup {None}, Write(p, data, t)
    PROVE  op' \in [Proc -> [at : {"none", "open", "fill"}, data : File, task : Task \cup {None}]]
  BY DEF TypeOK, Write

LEMMA NoteType ==
    ASSUME TypeOK, NEW lapse, Note(lapse), UNCHANGED may
    PROVE  lapses' \subseteq may' \cup {"torn"}
  BY DEF TypeOK, Note

(* The entry of a result is taken from the pending ones.                     *)
LEMMA ShiftType ==
    ASSUME TypeInv, NEW s, NEW a \in DOMAIN arrays, Shift(s, a), UNCHANGED runs
    PROVE  /\ arrays' \in Seq(Seq(1 .. MaxRuns)) /\ Len(arrays') = Len(arrays)
           /\ pending' \in [Session -> 0 .. Len(arrays')]
           /\ PendingRuns'
  <1> DEFINE rest == IF arrays[a] = <<>> THEN <<>> ELSE Tail(arrays[a])
  <1>1. arrays \in Seq(Seq(1 .. MaxRuns)) /\ arrays[a] \in Seq(1 .. MaxRuns)
    BY DEF TypeInv, TypeOK
  <1>2. rest \in Seq(1 .. MaxRuns) /\ \A i \in DOMAIN rest : rest[i] \in DOMAIN runs
    <2>1. CASE arrays[a] = <<>>
      BY <2>1
    <2>2. CASE arrays[a] # <<>>
      <3>1. /\ rest = Tail(arrays[a]) /\ rest \in Seq(1 .. MaxRuns) /\ DOMAIN rest = 1 .. Len(rest)
            /\ Len(rest) = Len(arrays[a]) - 1 /\ DOMAIN arrays[a] = 1 .. Len(arrays[a])
            /\ \A i \in 1 .. Len(rest) : rest[i] = arrays[a][i + 1]
        BY <1>1, <2>2
      <3>2. \A i \in DOMAIN arrays[a] : arrays[a][i] \in DOMAIN runs
        BY DEF TypeInv, PendingRuns
      <3>3. \A i \in DOMAIN rest : i + 1 \in DOMAIN arrays[a] /\ rest[i] = arrays[a][i + 1]
        BY <1>1, <3>1
      <3> QED BY <3>1, <3>2, <3>3
    <2> QED BY <2>1, <2>2
  <1>3. arrays' = [arrays EXCEPT ![a] = rest]
    BY <1>1 DEF Shift
  <1> HIDE DEF rest
  <1>4. arrays' \in Seq(Seq(1 .. MaxRuns)) /\ Len(arrays') = Len(arrays)
    BY <1>1, <1>2, <1>3
  <1>5. pending' \in [Session -> 0 .. Len(arrays')]
    <2>1. pending \in [Session -> 0 .. Len(arrays)] /\ 0 \in 0 .. Len(arrays) /\ Len(arrays') = Len(arrays)
      BY <1>1, <1>4 DEF TypeInv, TypeOK
    <2>2. pending' = [pending EXCEPT ![s] = 0] \/ pending' = pending
      BY <2>1 DEF Shift
    <2> QED BY <2>1, <2>2
  <1>6. PendingRuns'
    BY <1>1, <1>2, <1>3 DEF TypeInv, PendingRuns
  <1> QED BY <1>4, <1>5, <1>6

TaskType(n) ==
    [at : {"none", "send", "mark", "marking"}, session : Session \cup {None}, key : Key \cup {None},
     text : Text, chat : Session \cup {None}, array : 0 .. n, part : 1 .. CardParts + 1, tries : 0 .. MaxRetries]

(* A free task is given a delivery.                                          *)
LEMMA DeliverType ==
    ASSUME TypeInv, NEW s \in Session, NEW key \in Key, NEW text \in Text, NEW array \in 0 .. Len(arrays),
           Read.jobs[key.job] # None, key.text \in 1 .. MaxRuns => text = key.text, Deliver(s, key, text, array)
    PROVE  task' \in [Task -> TaskType(Len(arrays))] /\ Deliveries'
  <1>1. PICK t \in Task : task' = [task EXCEPT ![t] =
           [at |-> "send", session |-> s, key |-> key, text |-> text, chat |-> Read.jobs[key.job],
            array |-> array, part |-> 1, tries |-> 0]]
    BY DEF Deliver
  <1>2. task \in [Task -> TaskType(Len(arrays))]
    BY DEF TypeInv, TypeOK, TaskType
  <1>3. key.job \in Job /\ Read.jobs[key.job] \in Session
    BY ReadType DEF TypeInv, Key, File
  <1>4. 1 \in 1 .. CardParts + 1 /\ 0 \in 0 .. MaxRetries /\ 1 \in 1 .. Parts(key.job)
    BY <1>3, BoundAssumption, Part
  <1>5. task'[t] \in TaskType(Len(arrays)) /\ Delivery(task'[t])
    BY <1>1, <1>2, <1>3, <1>4 DEF TaskType, Delivery
  <1>6. \A u \in Task \ {t} : task'[u] = task[u]
    BY <1>1, <1>2
  <1>7. task' \in [Task -> TaskType(Len(arrays))]
    BY <1>1, <1>2, <1>5, <1>6
  <1>8. Deliveries'
    BY <1>5, <1>6 DEF TypeInv, Deliveries
  <1> QED BY <1>7, <1>8

(* A delivery is over.                                                       *)
LEMMA SettleType ==
    ASSUME TypeInv, NEW t \in Task, Settle(t), UNCHANGED runs
    PROVE  /\ task' \in [Task -> TaskType(Len(arrays'))] /\ Deliveries'
           /\ arrays' \in Seq(Seq(1 .. MaxRuns)) /\ pending' \in [Session -> 0 .. Len(arrays')]
           /\ PendingRuns'
  <1>1. arrays \in Seq(Seq(1 .. MaxRuns)) /\ task \in [Task -> TaskType(Len(arrays))]
        /\ pending \in [Session -> 0 .. Len(arrays)]
    BY DEF TypeInv, TypeOK, TaskType
  <1>2. NoTask \in TaskType(Len(arrays))
    BY <1>1, BoundAssumption DEF NoTask, TaskType, Text
  <1>3. task' = [task EXCEPT ![t] = NoTask]
    BY DEF Settle, Ended
  <1>4. task' \in [Task -> TaskType(Len(arrays))] /\ Deliveries'
    BY <1>1, <1>2, <1>3 DEF TypeInv, Deliveries
  <1>5. CASE UNCHANGED <<arrays, pending>>
    BY <1>1, <1>4, <1>5 DEF TypeInv, PendingRuns
  <1>6. CASE task[t].array # 0 /\ Shift(task[t].session, task[t].array)
    <2>1. task[t].array \in DOMAIN arrays
      BY <1>1, <1>6 DEF TaskType
    <2> QED BY <1>4, <1>6, <2>1, ShiftType
  <1> QED BY <1>5, <1>6 DEF Settle

(* Another message of a text is posted.                                      *)
LEMMA PostType ==
    ASSUME TypeInv, NEW t \in Task, task[t].at = "send", Post(t)
    PROVE  /\ posted' \in [1 .. MaxRuns -> Seq(Session \X (1 .. CardParts))]
           /\ \A n \in 1 .. MaxRuns : \A i \in DOMAIN posted[n] : i \in DOMAIN posted'[n] /\ posted'[n][i] = posted[n][i]
           /\ task[t].text \in 1 .. MaxRuns =>
                 \E i \in DOMAIN posted'[task[t].text] : posted'[task[t].text][i][2] = task[t].part
  <1> DEFINE n == task[t].text
             message == <<task[t].chat, task[t].part>>
  <1>1. posted \in [1 .. MaxRuns -> Seq(Session \X (1 .. CardParts))]
    BY DEF TypeInv, TypeOK
  <1>2. Delivery(task[t])
    BY DEF TypeInv, Deliveries, NoTask
  <1>3. message \in Session \X (1 .. CardParts)
    <2>1. task[t].key.job \in Job
      BY <1>2 DEF Delivery, Key
    <2> QED BY <1>2, <2>1, Part, BoundAssumption DEF Delivery
  <1>4. posted' = [k \in 1 .. MaxRuns |-> IF k # n THEN posted[k] ELSE Append(posted[k], message)]
    BY <1>1 DEF Post
  <1> HIDE DEF n, message
  <1>5. ASSUME NEW k \in 1 .. MaxRuns
        PROVE  /\ Append(posted[k], message) \in Seq(Session \X (1 .. CardParts))
               /\ \A i \in DOMAIN posted[k] : i \in DOMAIN Append(posted[k], message)
                                             /\ Append(posted[k], message)[i] = posted[k][i]
               /\ Len(posted[k]) + 1 \in DOMAIN Append(posted[k], message)
               /\ Append(posted[k], message)[Len(posted[k]) + 1] = message
    <2>1. posted[k] \in Seq(Session \X (1 .. CardParts))
      BY <1>1
    <2> QED BY <1>3, <2>1
  <1>6. posted' \in [1 .. MaxRuns -> Seq(Session \X (1 .. CardParts))]
    BY <1>1, <1>4, <1>5
  <1>7. ASSUME NEW k \in 1 .. MaxRuns, NEW i \in DOMAIN posted[k]
        PROVE  i \in DOMAIN posted'[k] /\ posted'[k][i] = posted[k][i]
    <2>1. CASE k = n
      BY <1>4, <1>5, <2>1
    <2>2. CASE k # n
      BY <1>4, <2>2
    <2> QED BY <2>1, <2>2
  <1>8. ASSUME n \in 1 .. MaxRuns PROVE \E i \in DOMAIN posted'[n] : posted'[n][i][2] = task[t].part
    <2>1. posted'[n] = Append(posted[n], message)
      BY <1>4, <1>8
    <2> QED BY <1>5, <1>8, <2>1 DEF message
  <1> QED BY <1>6, <1>7, <1>8 DEF n

(* A delivery begins or changes its place in the work.                       *)
LEMMA MoveType ==
    ASSUME TypeInv, NEW t \in Task, NEW d \in TaskType(Len(arrays)), d = NoTask \/ Delivery(d),
           task' = [task EXCEPT ![t] = d]
    PROVE  task' \in [Task -> TaskType(Len(arrays))] /\ Deliveries'
  <1>1. task \in [Task -> TaskType(Len(arrays))]
    BY DEF TypeInv, TypeOK, TaskType
  <1> QED BY <1>1 DEF TypeInv, Deliveries

RunType == [job : Job, session : Session, open : BOOLEAN]
OpType == [at : {"none", "open", "fill"}, data : File, task : Task \cup {None}]

(* A message that is worth looking at: of the oldest run, or of none.        *)
Texts(s) == Oldest(s) \cup {0}

(* A run is answered.                                                        *)
LEMMA AnswerType ==
    ASSUME TypeInv, NEW s \in Session, NEW n \in Texts(s), Answer(n)
    PROVE  /\ n \in Text /\ (n = 0 \/ n \in 1 .. Len(runs))
           /\ runs' \in Seq(RunType) /\ Len(runs') = Len(runs) /\ DOMAIN runs' = DOMAIN runs
           /\ \A k \in DOMAIN runs : runs'[k].job = runs[k].job
  <1>1. runs \in Seq(RunType) /\ Len(runs) <= MaxRuns
    BY DEF TypeInv, TypeOK, PendingRuns, RunType
  <1>2. n \in Text /\ (n = 0 \/ n \in 1 .. Len(runs))
    BY <1>1, BoundAssumption DEF Texts, Oldest, Unanswered, Text
  <1>3. CASE n = 0
    BY <1>1, <1>2, <1>3 DEF Answer
  <1>4. CASE n # 0
    <2>1. n \in 1 .. Len(runs) /\ runs[n] \in RunType
      BY <1>1, <1>2, <1>4
    <2>2. [runs[n] EXCEPT !.open = FALSE] \in RunType /\ [runs[n] EXCEPT !.open = FALSE].job = runs[n].job
      BY <2>1 DEF RunType
    <2>3. runs' = [runs EXCEPT ![n] = [runs[n] EXCEPT !.open = FALSE]]
      BY <1>4 DEF Answer
    <2> HIDE DEF RunType
    <2> QED BY <1>1, <1>2, <2>1, <2>2, <2>3
  <1> QED BY <1>3, <1>4

(* A run ends, and what was pending stays so.                                *)
Ignored(s, n) == Silent(s, n) \/ Unexpected(s, n)

LEMMA MessageCases ==
    ASSUME NEW s \in Session, Assistant(s, 0) \/ \E n \in Oldest(s) : RunEnds(s, n)
    PROVE  \/ \E text \in Texts(s) : Assistant(s, text)
           \/ \E n \in Oldest(s) : Ignored(s, n)
  BY Zenon DEF Texts, RunEnds, Ignored

LEMMA IgnoredStep ==
    ASSUME NEW s \in Session, NEW n \in Oldest(s), Ignored(s, n)
    PROVE  /\ UNCHANGED <<file, torn, op, arrays, pending, task, added, posted, may>>
           /\ Answer(n) /\ n \in Texts(s)
           /\ lapses \subseteq lapses' /\ (TypeOK => lapses' \subseteq may' \cup {"torn"})
  <1>1. CASE Silent(s, n)
    BY <1>1, NoteType DEF Silent, Note, Texts
  <1>2. CASE Unexpected(s, n)
    BY <1>2 DEF Unexpected, Texts, TypeOK
  <1> QED BY <1>1, <1>2 DEF Ignored

(* Every action keeps the types.                                             *)
LEMMA NextTypeInv == TypeInv /\ [Next]_vars => TypeInv'
  <1> SUFFICES ASSUME TypeInv, [Next]_vars PROVE TypeInv'
    OBVIOUS
  <1>0. /\ TypeOK /\ Deliveries /\ PendingRuns /\ Read \in File
        /\ task \in [Task -> TaskType(Len(arrays))] /\ op \in [Proc -> OpType]
        /\ runs \in Seq(RunType)
    BY ReadType DEF TypeInv, TypeOK, TaskType, OpType, RunType
  <1> USE <1>0
  <1>1. ASSUME NEW s \in Session, BindConversation(s) PROVE TypeInv'
    <2>1. WithRoute(s) \in File
      BY DEF WithRoute, File
    <2>2. op' \in [Proc -> OpType]
      BY <1>1, <2>1, WriteType, HostAssumption DEF BindConversation, OpType
    <2>3. lapses' \subseteq may' \cup {"torn"}
      BY <1>1, NoteType DEF BindConversation
    <2> QED BY <1>1, <2>2, <2>3 DEF BindConversation, TypeInv, TypeOK, Deliveries, PendingRuns, OpType
  <1>2. ASSUME NEW j \in Job, AddJob(j) PROVE TypeInv'
    <2>1. [Read EXCEPT !.jobs[j] = Home[j]] \in File
      BY HomeAssumption DEF File
    <2>2. op' \in [Proc -> OpType]
      BY <1>2, <2>1, WriteType, HostAssumption DEF AddJob, OpType
    <2>3. lapses' \subseteq may' \cup {"torn"}
      BY <1>2, NoteType DEF AddJob
    <2> QED BY <1>2, <2>2, <2>3 DEF AddJob, TypeInv, TypeOK, Deliveries, PendingRuns, OpType
  <1>3. ASSUME NEW p \in Proc, Open(p) PROVE TypeInv'
    <2>1. op' \in [Proc -> OpType]
      BY <1>3 DEF Open, OpType
    <2> QED BY <1>3, <2>1 DEF Open, TypeInv, TypeOK, Deliveries, PendingRuns, OpType
  <1>4. ASSUME NEW s \in Session, NEW j \in Job, NEW open \in BOOLEAN, NewRun(j, s, open)
        PROVE  /\ runs' \in Seq(RunType)
               /\ Len(runs') = Len(runs) + 1 /\ Len(runs') \in 1 .. MaxRuns
               /\ Len(runs') \in DOMAIN runs' /\ DOMAIN runs \subseteq DOMAIN runs'
    <2>1. Len(runs) < MaxRuns
      BY <1>4 DEF NewRun
    <2>2. [job |-> j, session |-> s, open |-> open] \in RunType
      BY DEF RunType
    <2>3. runs' = Append(runs, [job |-> j, session |-> s, open |-> open])
      BY <1>4 DEF NewRun
    <2> QED BY <2>1, <2>2, <2>3, BoundAssumption
  <1>5. ASSUME NEW s \in Session, NEW j \in Job, Marker(s, j) PROVE TypeInv'
    <2>1. /\ runs' \in Seq(RunType)
          /\ Len(runs') \in 1 .. MaxRuns
          /\ Len(runs') \in DOMAIN runs' /\ DOMAIN runs \subseteq DOMAIN runs'
      BY <1>4, <1>5 DEF Marker
    <2>2. arrays \in Seq(Seq(1 .. MaxRuns)) /\ pending \in [Session -> 0 .. Len(arrays)]
      BY DEF TypeOK
    <2>3. /\ arrays' \in Seq(Seq(1 .. MaxRuns)) /\ Len(arrays) <= Len(arrays')
          /\ pending' \in [Session -> 0 .. Len(arrays')]
          /\ \A a \in DOMAIN arrays' : \A i \in DOMAIN arrays'[a] : arrays'[a][i] \in DOMAIN runs'
      <3>1. CASE pending[s] = 0
        <4>1. arrays' = Append(arrays, <<Len(runs')>>) /\ pending' = [pending EXCEPT ![s] = Len(arrays')]
          BY <1>5, <3>1 DEF Marker
        <4>2. <<Len(runs')>> \in Seq(1 .. MaxRuns)
          BY <2>1
        <4>3. arrays' \in Seq(Seq(1 .. MaxRuns)) /\ Len(arrays') = Len(arrays) + 1
              /\ \A a \in DOMAIN arrays' : (a \in DOMAIN arrays /\ arrays'[a] = arrays[a]) \/ arrays'[a] = <<Len(runs')>>
          BY <2>2, <4>1, <4>2
        <4>4. pending' \in [Session -> 0 .. Len(arrays')]
          BY <2>2, <4>1, <4>3
        <4>5. ASSUME NEW a \in DOMAIN arrays', NEW i \in DOMAIN arrays'[a] PROVE arrays'[a][i] \in DOMAIN runs'
          <5>1. CASE a \in DOMAIN arrays /\ arrays'[a] = arrays[a]
            BY <2>1, <4>5, <5>1 DEF PendingRuns
          <5>2. CASE arrays'[a] = <<Len(runs')>>
            BY <2>1, <4>5, <5>2
          <5> QED BY <4>3, <5>1, <5>2
        <4> QED BY <2>2, <4>3, <4>4, <4>5
      <3>2. CASE pending[s] # 0
        <4>1. arrays' = [arrays EXCEPT ![pending[s]] = Append(@, Len(runs'))] /\ pending' = pending
          BY <1>5, <3>2 DEF Marker
        <4>2. pending[s] \in DOMAIN arrays /\ arrays[pending[s]] \in Seq(1 .. MaxRuns)
          BY <2>2, <3>2
        <4>3. /\ Append(arrays[pending[s]], Len(runs')) \in Seq(1 .. MaxRuns)
              /\ \A i \in DOMAIN Append(arrays[pending[s]], Len(runs')) :
                    \/ i \in DOMAIN arrays[pending[s]] /\ Append(arrays[pending[s]], Len(runs'))[i] = arrays[pending[s]][i]
                    \/ Append(arrays[pending[s]], Len(runs'))[i] = Len(runs')
          BY <2>1, <4>2
        <4>4. arrays' \in Seq(Seq(1 .. MaxRuns)) /\ Len(arrays') = Len(arrays) /\ DOMAIN arrays' = DOMAIN arrays
              /\ \A a \in DOMAIN arrays : arrays'[a] = IF a = pending[s] THEN Append(arrays[a], Len(runs')) ELSE arrays[a]
          BY <2>2, <4>1, <4>2, <4>3
        <4>5. ASSUME NEW a \in DOMAIN arrays', NEW i \in DOMAIN arrays'[a] PROVE arrays'[a][i] \in DOMAIN runs'
          <5>1. CASE a = pending[s]
            BY <2>1, <4>2, <4>3, <4>4, <4>5, <5>1 DEF PendingRuns
          <5>2. CASE a # pending[s]
            BY <2>1, <4>4, <4>5, <5>2 DEF PendingRuns
          <5> QED BY <5>1, <5>2
        <4> QED BY <2>2, <4>1, <4>4, <4>5
      <3> QED BY <3>1, <3>2
    <2>4. lapses' \subseteq may' \cup {"torn"}
      BY <1>5, NoteType DEF Marker
    <2>5. task' \in [Task -> TaskType(Len(arrays'))] /\ UNCHANGED task
      <3>1. Len(arrays) \in Nat /\ Len(arrays') \in Nat
        BY <2>2, <2>3
      <3>2. \A i \in 0 .. Len(arrays) : i \in 0 .. Len(arrays')
        BY <2>3, <3>1
      <3>3. \A d \in TaskType(Len(arrays)) : d \in TaskType(Len(arrays'))
        BY <3>2 DEF TaskType
      <3>4. UNCHANGED task
        BY <1>5 DEF Marker
      <3> QED BY <3>3, <3>4
    <2>6. TypeOK'
      BY <1>5, <2>1, <2>3, <2>4, <2>5 DEF Marker, TypeOK, TaskType, RunType
    <2>7. Deliveries' /\ PendingRuns'
      <3>1. Len(runs') <= MaxRuns
        BY <2>1, BoundAssumption
      <3> QED BY <2>3, <2>5, <3>1 DEF Deliveries, PendingRuns
    <2> QED BY <2>6, <2>7 DEF TypeInv
  <1>6. ASSUME NEW s \in Session, NEW j \in Job, NEW hasId \in BOOLEAN, Subagent(s, j, hasId) PROVE TypeInv'
    <2>1. /\ runs' \in Seq(RunType)
          /\ Len(runs') \in 1 .. MaxRuns /\ DOMAIN runs \subseteq DOMAIN runs'
      BY <1>4, <1>6 DEF Subagent
    <2> DEFINE key == [job |-> j, text |-> IF hasId THEN Len(runs') ELSE None]
    <2>2. key \in Key /\ Len(runs') \in Text /\ (key.text \in 1 .. MaxRuns => Len(runs') = key.text)
      BY <2>1, NoneAssumption, BoundAssumption DEF Key, Text
    <2>3. task' \in [Task -> TaskType(Len(arrays))] /\ Deliveries'
      <3>1. CASE UNCHANGED task
        BY <3>1 DEF Deliveries
      <3>2. CASE Deliver(s, key, Len(runs'), 0)
        <4>1. Read.jobs[key.job] # None /\ 0 \in 0 .. Len(arrays)
          BY <1>6 DEF Subagent, TypeOK
        <4> HIDE DEF key
        <4> QED BY <2>2, <3>2, <4>1, DeliverType
      <3> QED BY <1>6, <3>1, <3>2 DEF Subagent
    <2>4. lapses' \subseteq may' \cup {"torn"}
      BY <1>6, NoteType DEF Subagent
    <2>5. PendingRuns'
      BY <1>6, <2>1, BoundAssumption DEF Subagent, PendingRuns
    <2>6. TypeOK'
      BY <1>6, <2>1, <2>3, <2>4 DEF Subagent, TypeOK, TaskType, RunType
    <2> QED BY <2>3, <2>5, <2>6 DEF TypeInv
  <1>7. ASSUME NEW s \in Session, NEW text \in Texts(s), Assistant(s, text) PROVE TypeInv'
    <2>1. /\ pending[s] \in DOMAIN arrays /\ arrays[pending[s]] \in Seq(1 .. MaxRuns) /\ arrays[pending[s]] # <<>>
          /\ runs \in Seq(RunType) /\ Len(runs) <= MaxRuns
      BY <1>7 DEF Assistant, NoHead, TypeOK, PendingRuns
    <2>2. text \in Text /\ (text = 0 \/ text \in 1 .. Len(runs))
      BY <1>7, AnswerType DEF Assistant
    <2>3. runs' \in Seq(RunType) /\ Len(runs') = Len(runs) /\ DOMAIN runs' = DOMAIN runs
          /\ \A n \in DOMAIN runs : runs'[n].job = runs[n].job
      BY <1>7, AnswerType DEF Assistant
    <2>4. lapses' \subseteq may' \cup {"torn"}
      BY <1>7, NoteType DEF Assistant
    <2> DEFINE job == runs[NextOf(s)].job
               key == [job |-> job, text |-> text]
    <2>5. job \in Job
      <3>1. NextOf(s) = arrays[pending[s]][1] /\ 1 \in DOMAIN arrays[pending[s]]
        BY <2>1 DEF NextOf
      <3>2. NextOf(s) \in DOMAIN runs
        BY <2>1, <3>1 DEF PendingRuns
      <3>3. runs[NextOf(s)] \in RunType
        BY <2>1, <3>2
      <3> QED BY <3>3 DEF RunType
    <2> HIDE DEF job
    <2>6. CASE Shift(s, pending[s]) /\ UNCHANGED task
      <3>1. /\ arrays' \in Seq(Seq(1 .. MaxRuns)) /\ Len(arrays') = Len(arrays)
            /\ pending' \in [Session -> 0 .. Len(arrays')]
            /\ PendingRuns'
        <4>1. arrays \in Seq(Seq(1 .. MaxRuns)) /\ arrays[pending[s]] \in Seq(1 .. MaxRuns) /\ Tail(arrays[pending[s]]) \in Seq(1 .. MaxRuns)
              /\ Len(Tail(arrays[pending[s]])) = Len(arrays[pending[s]]) - 1
          BY <2>1 DEF TypeOK
        <4>2. arrays' = [arrays EXCEPT ![pending[s]] = Tail(arrays[pending[s]])]
          BY <2>1, <2>6 DEF Shift
        <4>3. arrays' \in Seq(Seq(1 .. MaxRuns)) /\ Len(arrays') = Len(arrays) /\ DOMAIN arrays' = DOMAIN arrays
          BY <2>1, <4>1, <4>2
        <4>4. pending \in [Session -> 0 .. Len(arrays)] /\ (pending' = pending \/ pending' = [pending EXCEPT ![s] = 0])
          BY <2>6 DEF Shift, TypeOK
        <4>5. pending' \in [Session -> 0 .. Len(arrays')]
          <5>1. 0 \in 0 .. Len(arrays)
            BY <4>1
          <5> QED BY <4>3, <4>4, <5>1
        <4>6. ASSUME NEW a \in DOMAIN arrays', NEW i \in DOMAIN arrays'[a] PROVE arrays'[a][i] \in DOMAIN runs'
          <5>1. CASE a = pending[s]
            <6>1. arrays'[a] = Tail(arrays[a])
              BY <2>1, <4>1, <4>2, <5>1
            <6>2. i + 1 \in DOMAIN arrays[a] /\ Tail(arrays[a])[i] = arrays[a][i + 1]
              BY <2>1, <4>1, <4>6, <5>1, <6>1
            <6> QED BY <2>1, <2>3, <5>1, <6>1, <6>2 DEF PendingRuns
          <5>2. CASE a # pending[s]
            BY <2>1, <2>3, <4>1, <4>2, <4>3, <4>6, <5>2 DEF PendingRuns
          <5> QED BY <5>1, <5>2
        <4> QED BY <2>1, <2>3, <4>3, <4>5, <4>6 DEF PendingRuns
      <3>2. TypeOK'
        BY <1>7, <2>3, <2>4, <2>6, <3>1 DEF Assistant, TypeOK, TaskType, RunType
      <3> QED BY <2>6, <3>1, <3>2 DEF TypeInv, Deliveries
    <2>7. CASE Read.jobs[job] # None /\ Deliver(s, key, text, pending[s]) /\ UNCHANGED <<arrays, pending>>
      <3>1. key \in Key /\ pending[s] \in 0 .. Len(arrays) /\ Read.jobs[key.job] # None
            /\ (key.text \in 1 .. MaxRuns => text = key.text)
        BY <2>2, <2>5, <2>7 DEF Key, TypeOK
      <3> HIDE DEF key
      <3>2. task' \in [Task -> TaskType(Len(arrays))] /\ Deliveries'
        BY <2>2, <2>7, <3>1, DeliverType
      <3>3. TypeOK'
        BY <1>7, <2>3, <2>4, <2>7, <3>2 DEF Assistant, TypeOK, TaskType, RunType
      <3>4. PendingRuns'
        BY <2>3, <2>7 DEF PendingRuns
      <3> QED BY <3>2, <3>3, <3>4 DEF TypeInv
    <2> QED BY <1>7, <2>6, <2>7 DEF Assistant, job
  <1>8. ASSUME NEW t \in Task, PartPosted(t) PROVE TypeInv'
    <2>1. task[t].at = "send" /\ Delivery(task[t]) /\ task[t] \in TaskType(Len(arrays))
      BY <1>8 DEF PartPosted, Deliveries, NoTask
    <2> DEFINE d == [task[t] EXCEPT !.part = @ + 1, !.tries = 0,
                                    !.at = IF task[t].part = Parts(task[t].key.job) THEN "mark" ELSE "send"]
    <2>2. task[t].key.job \in Job /\ task[t].part \in 1 .. Parts(task[t].key.job) /\ Parts(task[t].key.job) \in 1 .. CardParts
      BY <2>1, Part DEF Delivery, Key
    <2>3. d \in TaskType(Len(arrays))
      <3> DEFINE next == task[t].part + 1
                 place == IF task[t].part = Parts(task[t].key.job) THEN "mark" ELSE "send"
      <3>1. next \in 1 .. CardParts + 1 /\ 0 \in 0 .. MaxRetries /\ place \in {"none", "send", "mark", "marking"}
        BY <2>2, BoundAssumption
      <3>2. d = [task[t] EXCEPT !.part = next, !.tries = 0, !.at = place]
        OBVIOUS
      <3> HIDE DEF next, place, d
      <3>3. [task[t] EXCEPT !.part = next, !.tries = 0, !.at = place] \in TaskType(Len(arrays))
        BY <2>1, <3>1 DEF TaskType
      <3> QED BY <3>2, <3>3
    <2>4. Delivery(d)
      BY <2>1, <2>2, BoundAssumption DEF Delivery, TaskType
    <2>5. task' \in [Task -> TaskType(Len(arrays))] /\ Deliveries'
      <3>1. task' = [task EXCEPT ![t] = d]
        BY <1>8 DEF PartPosted
      <3> HIDE DEF d
      <3> QED BY <2>3, <2>4, <3>1, MoveType
    <2>6. posted' \in [1 .. MaxRuns -> Seq(Session \X (1 .. CardParts))]
      BY <1>8, <2>1, PostType DEF PartPosted
    <2> QED BY <1>8, <2>5, <2>6 DEF PartPosted, TypeInv, TypeOK, TaskType, PendingRuns
  <1>9. ASSUME NEW t \in Task, PartRetried(t) PROVE TypeInv'
    <2>1. task[t].at = "send" /\ Delivery(task[t]) /\ task[t] \in TaskType(Len(arrays)) /\ task[t].tries < MaxRetries
      BY <1>9 DEF PartRetried, Retriable, Deliveries, NoTask
    <2> DEFINE d == [task[t] EXCEPT !.tries = @ + 1]
    <2>2. d \in TaskType(Len(arrays)) /\ Delivery(d)
      <3>1. task[t].tries + 1 \in 0 .. MaxRetries
        BY <2>1, BoundAssumption DEF TaskType
      <3>2. d \in TaskType(Len(arrays))
        BY <2>1, <3>1 DEF TaskType
      <3>3. d.at = task[t].at /\ d.part = task[t].part /\ d.session = task[t].session
            /\ d.key = task[t].key /\ d.text = task[t].text /\ d.chat = task[t].chat
        BY <2>1 DEF TaskType
      <3> HIDE DEF d
      <3> QED BY <2>1, <3>2, <3>3 DEF Delivery
    <2>3. task' \in [Task -> TaskType(Len(arrays))] /\ Deliveries'
      <3>1. task' = [task EXCEPT ![t] = d]
        BY <1>9 DEF PartRetried, Again
      <3> HIDE DEF d
      <3> QED BY <2>2, <3>1, MoveType
    <2>4. posted' \in [1 .. MaxRuns -> Seq(Session \X (1 .. CardParts))]
      BY <1>9, <2>1, PostType DEF PartRetried, TypeOK
    <2>5. lapses' \subseteq may' \cup {"torn"}
      BY <1>9, NoteType DEF PartRetried, TypeOK
    <2> QED BY <1>9, <2>3, <2>4, <2>5 DEF PartRetried, TypeInv, TypeOK, TaskType, PendingRuns
  <1>10. ASSUME NEW t \in Task, SendFails(t) PROVE TypeInv'
    <2>1. /\ task' \in [Task -> TaskType(Len(arrays'))] /\ Deliveries'
          /\ arrays' \in Seq(Seq(1 .. MaxRuns)) /\ pending' \in [Session -> 0 .. Len(arrays')]
          /\ PendingRuns'
      BY <1>10, SettleType DEF SendFails
    <2>2. posted' \in [1 .. MaxRuns -> Seq(Session \X (1 .. CardParts))]
      BY <1>10, PostType DEF SendFails, TypeOK
    <2>3. lapses' \subseteq may' \cup {"torn"}
      BY <1>10, NoteType DEF SendFails
    <2> QED BY <1>10, <2>1, <2>2, <2>3 DEF SendFails, TypeInv, TypeOK, TaskType
  <1>11. ASSUME NEW t \in Task, MarkSent(t) PROVE TypeInv'
    <2>1. task[t].at = "mark" /\ Delivery(task[t]) /\ task[t] \in TaskType(Len(arrays))
      BY <1>11 DEF MarkSent, Whole, Deliveries, NoTask
    <2> DEFINE d == [task[t] EXCEPT !.at = "marking"]
    <2>2. d \in TaskType(Len(arrays)) /\ Delivery(d)
      BY <2>1 DEF TaskType, Delivery
    <2>3. task' \in [Task -> TaskType(Len(arrays))] /\ Deliveries'
      <3>1. task' = [task EXCEPT ![t] = d]
        BY <1>11 DEF MarkSent
      <3> HIDE DEF d
      <3> QED BY <2>2, <3>1, MoveType
    <2>4. [Read EXCEPT !.sent = @ \cup {task[t].key}] \in File
      BY <2>1 DEF File, Delivery
    <2>5. op' \in [Proc -> OpType]
      BY <1>11, <2>1, <2>4, WriteType, HostAssumption DEF MarkSent, OpType, Delivery
    <2>6. lapses' \subseteq may' \cup {"torn"}
      BY <1>11, NoteType DEF MarkSent
    <2> QED BY <1>11, <2>3, <2>5, <2>6 DEF MarkSent, TypeInv, TypeOK, TaskType, OpType, PendingRuns
  <1>12. ASSUME NEW p \in Proc, Fill(p) PROVE TypeInv'
    <2>1. file' \in File /\ op' \in [Proc -> OpType] /\ added' \subseteq Job
      BY <1>12, NoFileType DEF Fill, OpType, NoOp, TypeOK
    <2>2. /\ task' \in [Task -> TaskType(Len(arrays'))] /\ Deliveries'
          /\ arrays' \in Seq(Seq(1 .. MaxRuns)) /\ pending' \in [Session -> 0 .. Len(arrays')]
          /\ PendingRuns'
      <3>1. CASE UNCHANGED <<task, arrays, pending>>
        BY <1>12, <3>1 DEF Fill, TypeOK, Deliveries, PendingRuns
      <3>2. CASE op[p].task # None /\ Settle(op[p].task)
        BY <1>12, <3>2, SettleType DEF Fill, OpType
      <3> QED BY <1>12, <3>1, <3>2 DEF Fill
    <2> QED BY <1>12, <2>1, <2>2 DEF Fill, TypeInv, TypeOK, TaskType, OpType
  <1>13. ASSUME NEW p \in Proc, Crash(p) PROVE TypeInv'
    <2>1. op' \in [Proc -> OpType]
      BY <1>13, NoFileType DEF Crash, OpType, NoOp
    <2>2. NoTask \in TaskType(Len(arrays))
      BY BoundAssumption DEF NoTask, TaskType, Text, TypeOK
    <2>3. task' \in [Task -> TaskType(Len(arrays))] /\ Deliveries'
      BY <1>13, <2>2 DEF Crash, Deliveries
    <2>4. pending' \in [Session -> 0 .. Len(arrays)]
      BY <1>13 DEF Crash, TypeOK
    <2>5. runs' \in Seq(RunType) /\ Len(runs') = Len(runs) /\ DOMAIN runs' = DOMAIN runs
      <3>2. runs' = [n \in 1 .. Len(runs) |-> IF Host[runs[n].session] = p THEN [runs[n] EXCEPT !.open = FALSE] ELSE runs[n]]
        BY <1>13 DEF Crash
      <3>3. \A n \in 1 .. Len(runs) : runs[n] \in RunType
        OBVIOUS
      <3>4. \A n \in 1 .. Len(runs) : runs'[n] \in RunType
        BY <3>2, <3>3 DEF RunType
      <3> QED BY <3>2, <3>4
    <2>6. lapses' \subseteq may' \cup {"torn"}
      BY <1>13 DEF Crash, TypeOK
    <2> QED BY <1>13, <2>1, <2>3, <2>4, <2>5, <2>6 DEF Crash, TypeInv, TypeOK, TaskType, OpType, RunType, PendingRuns
  <1>14. CASE UNCHANGED vars
    BY <1>14 DEF vars, TypeInv, TypeOK, Deliveries, PendingRuns
  <1>15. ASSUME NEW p \in Proc, WriteFails(p) PROVE TypeInv'
    <2>1. op' \in [Proc -> OpType] /\ lapses' \subseteq may' \cup {"torn"}
      BY <1>15, NoFileType DEF WriteFails, OpType, NoOp, TypeOK
    <2>2. /\ task' \in [Task -> TaskType(Len(arrays'))] /\ Deliveries'
          /\ arrays' \in Seq(Seq(1 .. MaxRuns)) /\ pending' \in [Session -> 0 .. Len(arrays')]
          /\ PendingRuns'
      <3>1. CASE UNCHANGED <<task, arrays, pending>>
        BY <1>15, <3>1 DEF WriteFails, TypeOK, Deliveries, PendingRuns
      <3>2. CASE op[p].task # None /\ Settle(op[p].task)
        BY <1>15, <3>2, SettleType DEF WriteFails, OpType
      <3> QED BY <1>15, <3>1, <3>2 DEF WriteFails
    <2> QED BY <1>15, <2>1, <2>2 DEF WriteFails, TypeInv, TypeOK, TaskType, OpType
  <1>16. ASSUME NEW s \in Session, NEW n \in Oldest(s), Ignored(s, n) PROVE TypeInv'
    <2>1. runs' \in Seq(RunType) /\ Len(runs') = Len(runs) /\ DOMAIN runs' = DOMAIN runs
      BY <1>16, IgnoredStep, AnswerType
    <2>2. TypeOK'
      BY <1>16, <2>1, IgnoredStep DEF TypeOK, RunType
    <2>3. Deliveries' /\ PendingRuns'
      BY <1>16, <2>1, IgnoredStep DEF Deliveries, PendingRuns
    <2> QED BY <2>2, <2>3 DEF TypeInv
  <1> QED BY <1>1, <1>2, <1>3, <1>5, <1>6, <1>7, <1>8, <1>9, <1>10, <1>11, <1>12, <1>13, <1>14, <1>15, <1>16,
             MessageCases
          DEF Next, FileStep, TaskStep

(* The variables keep their declared types.                                  *)
THEOREM TypeCorrect == Spec => []TypeOK
  <1>1. TypeInv => TypeOK
    BY DEF TypeInv
  <1> QED BY <1>1, InitTypeInv, NextTypeInv, PTL DEF Spec

-----------------------------------------------------------------------------
(* The last part of the text that a key names was posted; a key without an   *)
(* id names none.                                                            *)
IsPosted(k) ==
    k.text \in 1 .. MaxRuns => \E i \in DOMAIN posted[k.text] : posted[k.text][i][2] = Parts(k.job)

(* So it is for the keys that are recorded, that are being recorded, and     *)
(* that a delivery is about to record.                                       *)
SentInv ==
    /\ \A k \in file.sent : IsPosted(k)
    /\ \A p \in Proc : \A k \in op[p].data.sent : IsPosted(k)
    /\ \A t \in Task : task[t].at \in {"mark", "marking"} => IsPosted(task[t].key)

LEMMA InitSentInv == Init => SentInv
  BY DEF Init, SentInv, NoFile, NoOp, NoTask

(* What is posted stays posted.                                              *)
LEMMA PostedStays ==
    ASSUME NEW k, IsPosted(k),
           \A n \in 1 .. MaxRuns : \A i \in DOMAIN posted[n] : i \in DOMAIN posted'[n] /\ posted'[n][i] = posted[n][i]
    PROVE  IsPosted(k)'
  BY DEF IsPosted

(* A step that posts, or does not, and that starts no write of new marks and *)
(* completes no text.                                                        *)
LEMMA SentKept ==
    ASSUME SentInv,
           \A n \in 1 .. MaxRuns : \A i \in DOMAIN posted[n] : i \in DOMAIN posted'[n] /\ posted'[n][i] = posted[n][i],
           \A k \in file'.sent : k \in file.sent \/ \E p \in Proc : k \in op[p].data.sent,
           \A p \in Proc : \A k \in op'[p].data.sent :
               \/ k \in file.sent \/ k \in op[p].data.sent
               \/ \E t \in Task : task[t].at = "mark" /\ k = task[t].key,
           \A t \in Task : task'[t].at \in {"mark", "marking"} =>
               \/ task[t].at \in {"mark", "marking"} /\ task'[t].key = task[t].key
               \/ IsPosted(task[t].key)'
    PROVE  SentInv'
  <1>1. \A k \in file'.sent : IsPosted(k)'
    BY PostedStays DEF SentInv
  <1>2. ASSUME NEW p \in Proc, NEW k \in op'[p].data.sent PROVE IsPosted(k)'
    BY <1>2, PostedStays DEF SentInv
  <1>3. ASSUME NEW t \in Task, task'[t].at \in {"mark", "marking"} PROVE IsPosted(task[t].key)'
    <2>1. CASE task[t].at \in {"mark", "marking"} /\ task'[t].key = task[t].key
      <3>1. IsPosted(task[t].key)
        BY <2>1 DEF SentInv
      <3> QED BY <2>1, <3>1 DEF IsPosted
    <2> QED BY <1>3, <2>1
  <1> QED BY <1>1, <1>2, <1>3 DEF SentInv

(* A write begins with what is read, and perhaps one more mark.              *)
LEMMA WrittenMarks ==
    ASSUME TypeInv, NEW p \in Proc, NEW data, NEW t, Write(p, data, t)
    PROVE  \A q \in Proc : op'[q].data.sent = IF q = p THEN data.sent ELSE op[q].data.sent
  BY DEF Write, TypeInv, TypeOK

(* Every action keeps the invariant, whatever goes wrong.                    *)
LEMMA NextSentInv == TypeInv /\ SentInv /\ [Next]_vars => SentInv'
  <1> SUFFICES ASSUME TypeInv, SentInv, [Next]_vars PROVE SentInv'
    OBVIOUS
  <1>0. /\ TypeOK /\ Deliveries /\ Read \in File /\ Read.sent \subseteq file.sent /\ file \in File
        /\ task \in [Task -> TaskType(Len(arrays))] /\ op \in [Proc -> OpType]
    BY ReadType DEF TypeInv, TypeOK, TaskType, OpType, Read, NoFile
  <1> USE <1>0
  <1>1. ASSUME NEW s \in Session, BindConversation(s) PROVE SentInv'
    <2>1. \A q \in Proc : op'[q].data.sent = IF q = Gateway THEN Read.sent ELSE op[q].data.sent
      <3>1. WithRoute(s).sent = Read.sent
        BY DEF WithRoute, File
      <3> QED BY <1>1, <3>1, WrittenMarks, HostAssumption DEF BindConversation
    <2>2. UNCHANGED <<file, task, posted>>
      BY <1>1 DEF BindConversation
    <2> QED BY <2>1, <2>2, SentKept
  <1>2. ASSUME NEW j \in Job, AddJob(j) PROVE SentInv'
    <2>1. \A q \in Proc : op'[q].data.sent = IF q = Gateway THEN Read.sent ELSE op[q].data.sent
      <3>1. [Read EXCEPT !.jobs[j] = Home[j]].sent = Read.sent
        BY DEF File
      <3> QED BY <1>2, <3>1, WrittenMarks, HostAssumption DEF AddJob
    <2>2. UNCHANGED <<file, task, posted>>
      BY <1>2 DEF AddJob
    <2> QED BY <2>1, <2>2, SentKept
  <1>3. ASSUME NEW p \in Proc, Open(p) PROVE SentInv'
    <2>1. \A q \in Proc : op'[q].data = op[q].data
      BY <1>3 DEF Open, OpType
    <2>2. UNCHANGED <<file, task, posted>>
      BY <1>3 DEF Open
    <2> QED BY <2>1, <2>2, SentKept
  <1>4. ASSUME NEW s \in Session, NEW j \in Job, Marker(s, j) PROVE SentInv'
    BY <1>4, SentKept DEF Marker
  <1>5. ASSUME UNCHANGED <<file, op, posted>>,
               UNCHANGED task \/ \E s, key, text, array : Deliver(s, key, text, array)
        PROVE  SentInv'
    <2>1. \A t \in Task : task'[t].at \in {"mark", "marking"} => task'[t] = task[t]
      BY <1>5 DEF Deliver
    <2> QED BY <1>5, <2>1, SentKept
  <1>6. ASSUME NEW s \in Session, NEW j \in Job, NEW hasId \in BOOLEAN, Subagent(s, j, hasId) PROVE SentInv'
    BY <1>5, <1>6 DEF Subagent
  <1>7. ASSUME NEW s \in Session, NEW text \in Texts(s), Assistant(s, text) PROVE SentInv'
    BY <1>5, <1>7 DEF Assistant
  <1>8. ASSUME NEW t \in Task, PartPosted(t) PROVE SentInv'
    <2>1. task[t].at = "send" /\ Delivery(task[t]) /\ task[t] \in TaskType(Len(arrays)) /\ Post(t)
      BY <1>8 DEF PartPosted, Deliveries, NoTask
    <2>2. task'[t].key = task[t].key /\ (task'[t].at # "send" => task[t].part = Parts(task[t].key.job))
          /\ \A u \in Task \ {t} : task'[u] = task[u]
      BY <1>8 DEF PartPosted, TaskType
    <2>3. task'[t].at # "send" => IsPosted(task[t].key)'
      <3>1. task[t].text \in 1 .. MaxRuns =>
              \E i \in DOMAIN posted'[task[t].text] : posted'[task[t].text][i][2] = task[t].part
        BY <2>1, PostType
      <3>2. task[t].key.text \in 1 .. MaxRuns => task[t].text = task[t].key.text
        BY <2>1 DEF Delivery
      <3> QED BY <2>2, <3>1, <3>2 DEF IsPosted
    <2>4. UNCHANGED <<file, op>>
      BY <1>8 DEF PartPosted
    <2> QED BY <2>1, <2>2, <2>3, <2>4, PostType, SentKept
  <1>9. ASSUME NEW t \in Task, PartRetried(t) PROVE SentInv'
    <2>1. task[t].at = "send" /\ (UNCHANGED posted \/ Post(t)) /\ UNCHANGED <<file, op>>
      BY <1>9 DEF PartRetried
    <2>2. \A u \in Task : task'[u].at = task[u].at /\ task'[u].key = task[u].key
      BY <1>9 DEF PartRetried, Again, TaskType
    <2> QED BY <2>1, <2>2, PostType, SentKept
  <1>10. ASSUME NEW t \in Task, Ended(t) PROVE \A u \in Task : task'[u] = task[u] \/ task'[u].at = "none"
    BY <1>10 DEF Ended, NoTask
  <1>11. ASSUME NEW t \in Task, SendFails(t) PROVE SentInv'
    <2>1. task[t].at = "send" /\ (UNCHANGED posted \/ Post(t)) /\ UNCHANGED <<file, op>>
      BY <1>11 DEF SendFails
    <2>2. \A u \in Task : task'[u] = task[u] \/ task'[u].at = "none"
      BY <1>10, <1>11 DEF SendFails, Settle
    <2> QED BY <2>1, <2>2, PostType, SentKept
  <1>12. ASSUME NEW t \in Task, MarkSent(t) PROVE SentInv'
    <2>1. task[t].at = "mark" /\ Delivery(task[t]) /\ UNCHANGED <<file, posted>>
      BY <1>12 DEF MarkSent, Whole, Deliveries, NoTask
    <2>2. \A q \in Proc : op'[q].data.sent = IF q = Host[task[t].session] THEN Read.sent \cup {task[t].key} ELSE op[q].data.sent
      <3>1. [Read EXCEPT !.sent = @ \cup {task[t].key}].sent = Read.sent \cup {task[t].key}
        BY DEF File
      <3>2. Host[task[t].session] \in Proc
        BY <2>1, HostAssumption DEF Delivery
      <3>3. Write(Host[task[t].session], [Read EXCEPT !.sent = @ \cup {task[t].key}], t)
        BY <1>12 DEF MarkSent
      <3> QED BY <3>1, <3>2, <3>3, WrittenMarks
    <2>3. \A u \in Task : task'[u].key = task[u].key /\ (task'[u].at # "send" => task[u].at # "send") /\ (task'[u].at # "none" => task[u].at # "none")
      BY <1>12, <2>1 DEF MarkSent, TaskType
    <2>4. \A u \in Task : task[u].at \in {"none", "send", "mark", "marking"}
      BY DEF TaskType
    <2> QED BY <2>1, <2>2, <2>3, <2>4, SentKept
  <1>13. ASSUME NEW p \in Proc, Fill(p) PROVE SentInv'
    <2>1. file' = op[p].data /\ UNCHANGED posted
      BY <1>13 DEF Fill
    <2>2. \A q \in Proc : \A k \in op'[q].data.sent : k \in op[q].data.sent
      BY <1>13 DEF Fill, NoOp, NoFile
    <2>3. \A u \in Task : task'[u] = task[u] \/ task'[u].at = "none"
      BY <1>10, <1>13 DEF Fill, Settle, OpType
    <2> QED BY <2>1, <2>2, <2>3, SentKept
  <1>14. ASSUME NEW p \in Proc, Crash(p) PROVE SentInv'
    <2>1. UNCHANGED <<file, posted>>
      BY <1>14 DEF Crash
    <2>2. \A q \in Proc : \A k \in op'[q].data.sent : k \in op[q].data.sent
      BY <1>14 DEF Crash, NoOp, NoFile
    <2>3. \A u \in Task : task'[u] = task[u] \/ task'[u].at = "none"
      BY <1>14 DEF Crash, NoTask
    <2> QED BY <2>1, <2>2, <2>3, SentKept
  <1>15. CASE UNCHANGED vars
    BY <1>15 DEF vars, SentInv, IsPosted
  <1>16. ASSUME NEW p \in Proc, WriteFails(p) PROVE SentInv'
    <2>1. UNCHANGED <<file, posted>>
      BY <1>16 DEF WriteFails
    <2>2. \A q \in Proc : \A k \in op'[q].data.sent : k \in op[q].data.sent
      BY <1>16 DEF WriteFails, NoOp, NoFile
    <2>3. \A u \in Task : task'[u] = task[u] \/ task'[u].at = "none"
      BY <1>10, <1>16 DEF WriteFails, Settle, OpType
    <2> QED BY <2>1, <2>2, <2>3, SentKept
  <1>17. ASSUME NEW s \in Session, NEW n \in Oldest(s), Ignored(s, n) PROVE SentInv'
    BY <1>17, IgnoredStep, SentKept
  <1> QED BY <1>1, <1>2, <1>3, <1>4, <1>6, <1>7, <1>8, <1>9, <1>11, <1>12, <1>13, <1>14, <1>15, <1>16, <1>17,
             MessageCases
          DEF Next, FileStep, TaskStep

(* A result that is recorded as sent, and so never sent again, was posted to *)
(* its last part: whatever fails, is lost or dies, and whoever writes at     *)
(* once.                                                                     *)
THEOREM SentMeansPosted == Spec => []SentIsPosted
  <1> DEFINE IInv == TypeInv /\ SentInv
  <1>1. Init => IInv
    BY InitTypeInv, InitSentInv
  <1>2. IInv /\ [Next]_vars => IInv'
    BY NextTypeInv, NextSentInv
  <1>3. IInv => SentIsPosted
    BY DEF SentIsPosted, SentInv, IsPosted
  <1> QED BY <1>1, <1>2, <1>3, PTL DEF Spec

-----------------------------------------------------------------------------
(* Nobody wrote while another process did, and no write was cut off.         *)
Apart == lapses \cap {"race", "torn"} = {}

(* A job has the route to its conversation or none, in the file and in what  *)
(* is being written.                                                         *)
RoutesOK ==
    /\ \A j \in Job : file.jobs[j] \in {None, Home[j]}
    /\ \A p \in Proc : \A j \in Job : op[p].data.jobs[j] \in {None, Home[j]}

(* One process writes at a time, and it keeps the routes.                    *)
WriterOK ==
    /\ \A p, q \in Proc : Busy(p) /\ Busy(q) => p = q
    /\ torn => \E p \in Proc : op[p].at = "fill"
    /\ \A j \in added : file.jobs[j] = Home[j]
    /\ \A p \in Proc : Busy(p) => \A j \in added : op[p].data.jobs[j] = Home[j]

LEMMA InitRoutes == Init => RoutesOK /\ WriterOK
  BY DEF Init, RoutesOK, WriterOK, NoFile, NoOp, Busy

(* What is read has the routes of the file, and all of them if the reader is *)
(* alone.                                                                    *)
LEMMA ReadRoutes ==
    ASSUME TypeInv, RoutesOK, NEW p \in Proc, ~Busy(p), Note(Race(p))
    PROVE  /\ \A j \in Job : Read.jobs[j] \in {None, Home[j]}
           /\ (Apart => WriterOK) /\ Apart' => Apart /\ Read = file /\ \A q \in Proc : ~Busy(q)
  <1>1. \A j \in Job : Read.jobs[j] \in {None, Home[j]}
    BY DEF Read, RoutesOK, NoFile
  <1>2. ASSUME Apart => WriterOK, Apart' PROVE Apart /\ Read = file /\ \A q \in Proc : ~Busy(q)
    <2>1. Apart /\ WriterOK
      BY <1>2 DEF Apart, Note
    <2>2. \A q \in Proc : ~Busy(q)
      BY <1>2 DEF Apart, Note, Race
    <2>3. ~torn
      BY <2>1, <2>2 DEF WriterOK, Busy
    <2> QED BY <2>1, <2>2, <2>3 DEF Read
  <1> QED BY <1>1, <1>2

(* A process that is alone begins to write routes that are no fewer.         *)
LEMMA RoutesWritten ==
    ASSUME TypeInv, RoutesOK, Apart => WriterOK, NEW p \in Proc, ~Busy(p), Note(Race(p)),
           NEW data \in File, NEW t, Write(p, data, t), UNCHANGED <<file, torn, added>>,
           \A j \in Job : data.jobs[j] \in {Read.jobs[j], Home[j]}
    PROVE  RoutesOK' /\ (Apart' => WriterOK')
  <1>1. op \in [Proc -> OpType] /\ added \subseteq Job
    BY DEF TypeInv, TypeOK, OpType
  <1>2. op'[p] = [at |-> "open", data |-> data, task |-> t] /\ \A q \in Proc \ {p} : op'[q] = op[q]
    BY <1>1 DEF Write
  <1>3. \A j \in Job : data.jobs[j] \in {None, Home[j]}
    BY ReadRoutes
  <1>4. RoutesOK'
    BY <1>2, <1>3 DEF RoutesOK
  <1>5. ASSUME Apart' PROVE WriterOK'
    <2>1. Apart /\ Read = file /\ \A q \in Proc : ~Busy(q)
      BY <1>5, ReadRoutes
    <2>2. \A q \in Proc \ {p} : ~Busy(q)'
      BY <1>2, <2>1 DEF Busy
    <2>3. ~torn'
      BY <2>1 DEF WriterOK, Busy
    <2>4. \A j \in added : data.jobs[j] = Home[j]
      BY <1>1, <2>1 DEF WriterOK
    <2> QED BY <1>2, <2>1, <2>2, <2>3, <2>4 DEF WriterOK
  <1> QED BY <1>4, <1>5

(* A step that does not write.                                               *)
LEMMA RoutesKept ==
    ASSUME RoutesOK, Apart => WriterOK, UNCHANGED <<file, torn, op, added>>, lapses \subseteq lapses'
    PROVE  RoutesOK' /\ (Apart' => WriterOK')
  BY DEF RoutesOK, WriterOK, Apart, Busy

LEMMA NextRoutes == TypeInv /\ RoutesOK /\ (Apart => WriterOK) /\ [Next]_vars => RoutesOK' /\ (Apart' => WriterOK')
  <1> SUFFICES ASSUME TypeInv, RoutesOK, Apart => WriterOK, [Next]_vars PROVE RoutesOK' /\ (Apart' => WriterOK')
    OBVIOUS
  <1>0. /\ TypeOK /\ Deliveries /\ Read \in File /\ op \in [Proc -> OpType] /\ added \subseteq Job
    BY ReadType DEF TypeInv, TypeOK, OpType
  <1> USE <1>0
  <1>1. ASSUME NEW s \in Session, BindConversation(s) PROVE RoutesOK' /\ (Apart' => WriterOK')
    <2>1. WithRoute(s) \in File /\ WithRoute(s).jobs = Read.jobs
      BY DEF WithRoute, File
    <2> QED BY <1>1, <2>1, RoutesWritten, HostAssumption DEF BindConversation
  <1>2. ASSUME NEW j \in Job, AddJob(j) PROVE RoutesOK' /\ (Apart' => WriterOK')
    <2> DEFINE data == [Read EXCEPT !.jobs[j] = Home[j]]
    <2>1. data \in File /\ \A i \in Job : data.jobs[i] \in {Read.jobs[i], Home[i]}
      BY HomeAssumption DEF File
    <2>2. Write(Gateway, data, None) /\ ~Busy(Gateway) /\ Note(Race(Gateway)) /\ UNCHANGED <<file, torn, added>>
      BY <1>2 DEF AddJob
    <2> HIDE DEF data
    <2> QED BY <2>1, <2>2, RoutesWritten, HostAssumption
  <1>3. ASSUME NEW p \in Proc, Open(p) PROVE RoutesOK' /\ (Apart' => WriterOK')
    <2>1. UNCHANGED <<file, added, lapses>> /\ op[p].at = "open" /\ op'[p].at = "fill" /\ op'[p].data = op[p].data
          /\ \A q \in Proc \ {p} : op'[q] = op[q]
      BY <1>3 DEF Open, OpType
    <2>2. RoutesOK'
      BY <2>1 DEF RoutesOK
    <2>3. Apart' => WriterOK'
      BY <2>1 DEF Apart, WriterOK, Busy
    <2> QED BY <2>2, <2>3
  <1>4. ASSUME NEW s \in Session, NEW j \in Job, Marker(s, j) \/ \E hasId \in BOOLEAN : Subagent(s, j, hasId)
        PROVE RoutesOK' /\ (Apart' => WriterOK')
    BY <1>4, RoutesKept DEF Marker, Subagent, Note
  <1>5. ASSUME NEW s \in Session, NEW text \in Texts(s), Assistant(s, text) PROVE RoutesOK' /\ (Apart' => WriterOK')
    BY <1>5, RoutesKept DEF Assistant, Note
  <1>6. ASSUME NEW t \in Task, PartPosted(t) \/ PartRetried(t) \/ SendFails(t) PROVE RoutesOK' /\ (Apart' => WriterOK')
    BY <1>6, RoutesKept DEF PartPosted, PartRetried, SendFails, Note
  <1>7. ASSUME NEW t \in Task, MarkSent(t) PROVE RoutesOK' /\ (Apart' => WriterOK')
    <2>1. Delivery(task[t])
      BY <1>7 DEF MarkSent, Whole, Deliveries, NoTask
    <2> DEFINE data == [Read EXCEPT !.sent = @ \cup {task[t].key}]
    <2>2. data \in File /\ data.jobs = Read.jobs
      BY <2>1 DEF File, Delivery
    <2>3. Host[task[t].session] \in Proc /\ Write(Host[task[t].session], data, t) /\ ~Busy(Host[task[t].session])
          /\ Note(Race(Host[task[t].session])) /\ UNCHANGED <<file, torn, added>>
      BY <1>7, <2>1, HostAssumption DEF MarkSent, Delivery
    <2> HIDE DEF data
    <2> QED BY <2>2, <2>3, RoutesWritten
  <1>8. ASSUME NEW p \in Proc, Fill(p) PROVE RoutesOK' /\ (Apart' => WriterOK')
    <2>1. /\ op[p].at = "fill" /\ file' = op[p].data /\ ~torn' /\ UNCHANGED lapses
          /\ op'[p] = NoOp /\ \A q \in Proc \ {p} : op'[q] = op[q]
          /\ added' = added \cup {j \in Job : op[p].data.jobs[j] # None}
      BY <1>8 DEF Fill
    <2>2. RoutesOK'
      BY <2>1 DEF RoutesOK, NoOp, NoFile
    <2>3. ASSUME Apart' PROVE WriterOK'
      <3>1. WriterOK
        BY <2>1, <2>3 DEF Apart
      <3>2. \A q \in Proc : ~Busy(q)'
        BY <2>1, <3>1 DEF WriterOK, Busy, NoOp
      <3>3. \A j \in added' : file'.jobs[j] = Home[j]
        BY <2>1, <3>1 DEF WriterOK, RoutesOK, Busy
      <3> QED BY <2>1, <3>2, <3>3 DEF WriterOK
    <2> QED BY <2>2, <2>3
  <1>9. ASSUME NEW p \in Proc, Crash(p) PROVE RoutesOK' /\ (Apart' => WriterOK')
    <2>1. /\ UNCHANGED <<file, torn, added>> /\ lapses \subseteq lapses' /\ (op[p].at = "fill" => "torn" \in lapses')
          /\ op'[p] = NoOp /\ \A q \in Proc \ {p} : op'[q] = op[q]
      BY <1>9 DEF Crash
    <2>2. RoutesOK'
      BY <2>1 DEF RoutesOK, NoOp, NoFile
    <2>3. Apart' => WriterOK'
      BY <2>1 DEF Apart, WriterOK, Busy, NoOp
    <2> QED BY <2>2, <2>3
  <1>10. CASE UNCHANGED vars
    BY <1>10, RoutesKept DEF vars
  <1>11. ASSUME NEW p \in Proc, WriteFails(p) PROVE RoutesOK' /\ (Apart' => WriterOK')
    <2>1. /\ UNCHANGED <<file, torn, added>> /\ lapses \subseteq lapses' /\ (op[p].at = "fill" => "torn" \in lapses')
          /\ op'[p] = NoOp /\ \A q \in Proc \ {p} : op'[q] = op[q]
      BY <1>11 DEF WriteFails
    <2>2. RoutesOK'
      BY <2>1 DEF RoutesOK, NoOp, NoFile
    <2>3. Apart' => WriterOK'
      BY <2>1 DEF Apart, WriterOK, Busy, NoOp
    <2> QED BY <2>2, <2>3
  <1>12. ASSUME NEW s \in Session, NEW n \in Oldest(s), Ignored(s, n) PROVE RoutesOK' /\ (Apart' => WriterOK')
    BY <1>12, IgnoredStep, RoutesKept
  <1> QED BY <1>1, <1>2, <1>3, <1>4, <1>5, <1>6, <1>7, <1>8, <1>9, <1>10, <1>11, <1>12, MessageCases
          DEF Next, FileStep, TaskStep

(* A job that was made in a conversation keeps its route unless two          *)
(* processes write at once or one dies while it writes.                      *)
THEOREM JobRoutesAreKept == Spec => []JobsKept
  <1> DEFINE IInv == TypeInv /\ RoutesOK /\ (Apart => WriterOK)
  <1>1. Init => IInv
    BY InitTypeInv, InitRoutes
  <1>2. IInv /\ [Next]_vars => IInv'
    BY NextTypeInv, NextRoutes
  <1>3. IInv => JobsKept
    BY DEF JobsKept, Apart, WriterOK
  <1> QED BY <1>1, <1>2, <1>3, PTL DEF Spec
=============================================================================
