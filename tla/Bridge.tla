------------------------------- MODULE Bridge -------------------------------
(***************************************************************************)
(* The way of a scheduled job's results back to the conversation in which  *)
(* the job was made: bridge-runtime.ts, bridge-store.ts, and the sending   *)
(* of delivery.ts and transport.ts with the retries of retry.ts.           *)
(*                                                                         *)
(* Every Pi process runs a bridge: the gateway for the conversations'      *)
(* sessions, any other for its own.  They share bridge.json, which is read *)
(* and rewritten as a whole without a lock.  A run is one execution of a   *)
(* job; runs are numbered, and the text of a run has its number.  Text 0   *)
(* is an assistant message that is no run's result: an interim remark, or  *)
(* the answer to a message of a user.                                      *)
(***************************************************************************)
EXTENDS Naturals, FiniteSets, Sequences

CONSTANTS
    Job, Session, Proc, Task, None,
    Host,         \* the process of each session
    Home,         \* the conversation in which each job is made
    Where,        \* bound: the sessions in which each job may run
    Mode,         \* chooseMessageMode of each job's texts
    Gateway,      \* the process that holds the transport
    CardParts,    \* bound: the number of cards a long text takes
    MaxRetries,   \* sendMaxRetries
    MaxRuns,      \* bound: runs of jobs
    Scenarios     \* bound: the sets of things that may go wrong in a behaviour

ASSUME HostAssumption == Host \in [Session -> Proc] /\ Gateway \in Proc
ASSUME HomeAssumption == Home \in [Job -> Session] /\ \A j \in Job : Host[Home[j]] = Gateway
ASSUME WhereAssumption == Where \in [Job -> SUBSET Session]
ASSUME ModeAssumption == Mode \in [Job -> {"text", "post", "interactive"}]
ASSUME BoundAssumption == CardParts \in Nat \ {0} /\ MaxRetries \in Nat /\ MaxRuns \in Nat
ASSUME NoneAssumption == None \notin Session \cup Task \cup 0 .. MaxRuns

(* A session says something while a result is being sent, says something    *)
(* besides its results, or ends a run without a text; two processes write   *)
(* the file at once; a process dies; a write is cut off or fails; the       *)
(* answer to a request is lost, or it fails for good.                       *)
Lapses == {"overlap", "extra", "silent", "race", "crash", "torn", "write", "lost", "failed"}
ASSUME ScenariosAssumption == Scenarios \subseteq SUBSET Lapses

VARIABLES
    file,      \* bridge.json: routes, jobs and sent
    torn,      \* has it been opened for writing and not been written?
    op,        \* what a process is writing to it
    arrays,    \* every array of pending results that was made
    pending,   \* pendingBySession: the index of a session's array, or 0
    task,      \* the deliveries
    runs,      \* history: the runs, with job, session and whether answered
    added,     \* history: jobs made in their conversation
    posted,    \* history: of each run's text, the messages posted, <<conversation, part>>
    may,       \* bound: what may go wrong
    lapses     \* history: what went wrong

vars == <<file, torn, op, arrays, pending, task, runs, added, posted, may, lapses>>

Text == 0 .. MaxRuns
Key == [job : Job, text : Text] \cup [job : Job, text : {None}]
File == [routes : SUBSET Session, jobs : [Job -> Session \cup {None}], sent : SUBSET Key]
NoFile == [routes |-> {}, jobs |-> [j \in Job |-> None], sent |-> {}]
NoOp == [at |-> "none", data |-> NoFile, task |-> None]
NoTask == [at |-> "none", session |-> None, key |-> None, text |-> 0, chat |-> None,
           array |-> 0, part |-> 1, tries |-> 0]

TypeOK ==
    /\ file \in File
    /\ torn \in BOOLEAN
    /\ op \in [Proc -> [at : {"none", "open", "fill"}, data : File, task : Task \cup {None}]]
    /\ arrays \in Seq(Seq(1 .. MaxRuns))
    /\ pending \in [Session -> 0 .. Len(arrays)]
    /\ task \in [Task -> [at : {"none", "send", "mark", "marking"}, session : Session \cup {None},
                          key : Key \cup {None}, text : Text, chat : Session \cup {None},
                          array : 0 .. Len(arrays), part : 1 .. CardParts + 1, tries : 0 .. MaxRetries]]
    /\ runs \in Seq([job : Job, session : Session, open : BOOLEAN])
    /\ added \subseteq Job
    /\ posted \in [1 .. MaxRuns -> Seq(Session \X (1 .. CardParts))]
    /\ may \in Scenarios
    /\ lapses \subseteq may \cup {"torn"}

Init ==
    /\ file = NoFile /\ torn = FALSE
    /\ op = [p \in Proc |-> NoOp]
    /\ arrays = <<>> /\ pending = [s \in Session |-> 0]
    /\ task = [t \in Task |-> NoTask]
    /\ runs = <<>> /\ added = {} /\ posted = [n \in 1 .. MaxRuns |-> <<>>]
    /\ may \in Scenarios /\ lapses = {}

-----------------------------------------------------------------------------
(* bridge-store.ts.                                                         *)

(* A process does one thing at a time: it reads, changes and writes the     *)
(* file without letting go.                                                 *)
Busy(p) == op[p].at # "none"

(* A file that does not parse counts as empty.                              *)
Read == IF torn THEN NoFile ELSE file

(* Named bound: a thing goes wrong once.                                    *)
Note(lapse) == lapse \subseteq may \ lapses /\ lapses' = lapses \cup lapse

(* The lapse of a process that reads while another one is writing.          *)
Race(p) == {l \in {"race"} : \E q \in Proc \ {p} : Busy(q)}

Write(p, data, t) == op' = [op EXCEPT ![p] = [at |-> "open", data |-> data, task |-> t]]

(* Mutant of WithRoute: only the routes are kept.                           *)
WithRouteAlone(s) == [NoFile EXCEPT !.routes = Read.routes \cup {s}]

WithRoute(s) == [Read EXCEPT !.routes = @ \cup {s}]

(* bindConversation: a message reaches the conversation.  Named bound: a    *)
(* conversation that has a route is bound again where two may write at once.*)
BindConversation(s) ==
    /\ Host[s] = Gateway /\ ~Busy(Gateway)
    /\ s \in Read.routes => "race" \in may
    /\ Write(Gateway, WithRoute(s), None)
    /\ Note(Race(Gateway))
    /\ UNCHANGED <<file, torn, arrays, pending, task, runs, added, posted, may>>

(* captureCreatedJobs and bindJob: a job is made while the conversation's   *)
(* message is worked on.                                                    *)
AddJob(j) ==
    /\ ~Busy(Gateway) /\ j \notin added
    /\ Home[j] \in Read.routes
    /\ Write(Gateway, [Read EXCEPT !.jobs[j] = Home[j]], None)
    /\ Note(Race(Gateway))
    /\ UNCHANGED <<file, torn, arrays, pending, task, runs, added, posted, may>>

(* writeJson empties the file, then writes it.                              *)
Open(p) ==
    /\ op[p].at = "open"
    /\ op' = [op EXCEPT ![p].at = "fill"]
    /\ torn' = TRUE
    /\ UNCHANGED <<file, arrays, pending, task, runs, added, posted, may, lapses>>

-----------------------------------------------------------------------------
(* bridge-runtime.ts.                                                       *)

(* Named bound: a delivery that no task is left for waits.                  *)
Free(t) == t = CHOOSE u \in Task : task[u].at = "none"
HasFree == \E t \in Task : task[t].at = "none"

NewRun(j, s, open) ==
    /\ Len(runs) < MaxRuns /\ s \in Where[j]
    /\ runs' = Append(runs, [job |-> j, session |-> s, open |-> open])

(* handleScheduledMarker, a job with a route starts in a session: its       *)
(* result becomes pending, in a new array if the session has none.          *)
Marker(s, j) ==
    /\ ~Busy(Host[s])
    /\ Read.jobs[j] # None
    /\ NewRun(j, s, TRUE)
    /\ IF pending[s] = 0
       THEN /\ arrays' = Append(arrays, <<Len(runs')>>)
            /\ pending' = [pending EXCEPT ![s] = Len(arrays')]
       ELSE /\ arrays' = [arrays EXCEPT ![pending[s]] = Append(@, Len(runs'))]
            /\ UNCHANGED pending
    /\ Note(Race(Host[s]))
    /\ UNCHANGED <<file, torn, op, task, added, posted, may>>

Deliver(s, key, text, array) ==
    \E t \in Task :
        /\ Free(t)
        /\ task' = [task EXCEPT ![t] = [at |-> "send", session |-> s, key |-> key, text |-> text,
                                        chat |-> Read.jobs[key.job], array |-> array,
                                        part |-> 1, tries |-> 0]]

(* handleScheduledMarker, subagent_done and subagent_error: the result      *)
(* comes with the marker, and is sent unless it was sent before.  Without   *)
(* an id it is known by its output, and outputs of one job may be alike.    *)
Subagent(s, j, hasId) ==
    /\ ~Busy(Host[s]) /\ HasFree
    /\ Read.jobs[j] # None
    /\ NewRun(j, s, FALSE)
    /\ LET key == [job |-> j, text |-> IF hasId THEN Len(runs') ELSE None] IN
       IF key \in Read.sent THEN UNCHANGED task ELSE Deliver(s, key, Len(runs'), 0)
    /\ Note(Race(Host[s]))
    /\ UNCHANGED <<file, torn, op, arrays, pending, added, posted, may>>

Unanswered(s) == {n \in 1 .. Len(runs) : runs[n].session = s /\ runs[n].open}

(* A session ends its runs in the order in which they started.              *)
Oldest(s) == {n \in Unanswered(s) : \A k \in Unanswered(s) : n <= k}

(* Mutant of Shift: the entry is deleted with its first result.             *)
ShiftAll(s, a) ==
    /\ arrays' = [arrays EXCEPT ![a] = IF @ = <<>> THEN @ ELSE Tail(@)]
    /\ pending' = [pending EXCEPT ![s] = 0]

(* shift, and delete when the array is empty: the session's entry, whatever *)
(* array it holds by now.                                                   *)
Shift(s, a) ==
    /\ arrays' = [arrays EXCEPT ![a] = IF @ = <<>> THEN @ ELSE Tail(@)]
    /\ pending' = [pending EXCEPT ![s] = IF arrays'[a] = <<>> THEN 0 ELSE @]

InFlight(s) == \E t \in Task : task[t].at # "none" /\ task[t].session = s /\ task[t].array # 0

(* Mutant of NextOf: the latest result is taken.                            *)
NextOfLast(s) == arrays[pending[s]][Len(arrays[pending[s]])]

NextOf(s) == Head(arrays[pending[s]])

(* A message answers its run, whatever becomes of the result.               *)
Answer(n) == runs' = IF n = 0 THEN runs ELSE [runs EXCEPT ![n].open = FALSE]

NoHead(s) == pending[s] # 0 => arrays[pending[s]] = <<>>

(* handleAssistantResult up to its await: the text counts as the result     *)
(* that has been pending longest; the result stays pending meanwhile.  The  *)
(* text is looked at only if the job has a route.                           *)
Assistant(s, text) ==
    /\ ~Busy(Host[s]) /\ HasFree
    /\ ~NoHead(s)
    /\ Answer(text)
    /\ LET job == runs[NextOf(s)].job
           key == [job |-> job, text |-> text] IN
       IF Read.jobs[job] = None \/ key \in Read.sent
       THEN Shift(s, pending[s]) /\ UNCHANGED task
       ELSE Deliver(s, key, text, pending[s]) /\ UNCHANGED <<arrays, pending>>
    /\ Note(Race(Host[s]) \cup {l \in {"overlap"} : InFlight(s)} \cup {l \in {"extra"} : text = 0})
    /\ UNCHANGED <<file, torn, op, added, posted, may>>

(* A run ends with a message without text, of an error or of tools: it is   *)
(* ignored, and what was pending stays so.                                  *)
Silent(s, n) ==
    /\ ~Busy(Host[s])
    /\ ~NoHead(s) /\ Read.jobs[runs[NextOf(s)].job] # None
    /\ Answer(n)
    /\ Note(Race(Host[s]) \cup {"silent"})
    /\ UNCHANGED <<file, torn, op, arrays, pending, task, added, posted, may>>

(* A run ends when no result is pending any more.                           *)
Unexpected(s, n) ==
    /\ ~Busy(Host[s])
    /\ NoHead(s)
    /\ Answer(n)
    /\ UNCHANGED <<file, torn, op, arrays, pending, task, added, posted, may, lapses>>

RunEnds(s, n) == Assistant(s, n) \/ Silent(s, n) \/ Unexpected(s, n)

-----------------------------------------------------------------------------
(* delivery.ts and transport.ts.                                            *)

(* chooseMessageMode turns a text that needs several messages into cards.   *)
Parts(job) == IF Mode[job] = "interactive" THEN CardParts ELSE 1

(* The transport's posts are not retried, those of delivery.ts are.         *)
Retried(t) == Mode[task[t].key.job] # "post" \/ Host[task[t].session] # Gateway

Post(t) ==
    posted' = [n \in DOMAIN posted |-> IF n # task[t].text THEN posted[n]
                                       ELSE Append(posted[n], <<task[t].chat, task[t].part>>)]

PartPosted(t) ==
    /\ task[t].at = "send" /\ ~Busy(Host[task[t].session])
    /\ Post(t)
    /\ task' = [task EXCEPT ![t].part = @ + 1, ![t].tries = 0,
                            ![t].at = IF task[t].part = Parts(task[t].key.job) THEN "mark" ELSE "send"]
    /\ UNCHANGED <<file, torn, op, arrays, pending, runs, added, may, lapses>>

(* Mutant of Again: the whole text is sent again.                           *)
AgainAll(t) == task' = [task EXCEPT ![t].tries = @ + 1, ![t].part = 1]

Again(t) == task' = [task EXCEPT ![t].tries = @ + 1]

(* Mutant of Retriable: one try more.                                       *)
RetriableMore(t) == Retried(t) /\ task[t].tries <= MaxRetries

Retriable(t) == Retried(t) /\ task[t].tries < MaxRetries

(* withRetry: a request that may be tried again failed, or was done and its *)
(* answer was lost.  Named bound: requests fail where they may get lost or  *)
(* fail for good.                                                           *)
PartRetried(t) ==
    /\ task[t].at = "send" /\ ~Busy(Host[task[t].session])
    /\ may \cap {"lost", "failed"} # {}
    /\ Retriable(t)
    /\ Again(t)
    /\ \/ UNCHANGED <<posted, lapses>>
       \/ Post(t) /\ Note({"lost"})
    /\ UNCHANGED <<file, torn, op, arrays, pending, runs, added, may>>

Ended(t) == task' = [task EXCEPT ![t] = NoTask]

(* What is left to do once deliverOnce is over.                             *)
Settle(t) ==
    /\ Ended(t)
    /\ IF task[t].array = 0 THEN UNCHANGED <<arrays, pending>>
       ELSE Shift(task[t].session, task[t].array)

(* The request fails for good, done or not: deliverOnce only logs it.       *)
SendFails(t) ==
    /\ task[t].at = "send" /\ ~Busy(Host[task[t].session])
    /\ Settle(t)
    /\ UNCHANGED posted \/ Post(t)
    /\ Note({"failed"})
    /\ UNCHANGED <<file, torn, op, runs, added, may>>

(* Mutant of Whole: the text counts as sent with its first part.            *)
WholeSoon(t) == task[t].at \in {"send", "mark"} /\ task[t].part > 1

Whole(t) == task[t].at = "mark"

(* markSent reads the file...                                               *)
MarkSent(t) ==
    /\ Whole(t) /\ ~Busy(Host[task[t].session])
    /\ Write(Host[task[t].session], [Read EXCEPT !.sent = @ \cup {task[t].key}], t)
    /\ task' = [task EXCEPT ![t].at = "marking"]
    /\ Note(Race(Host[task[t].session]))
    /\ UNCHANGED <<file, torn, arrays, pending, runs, added, posted, may>>

(* ... and writes it; the delivery that asked for it goes on at once.       *)
Fill(p) ==
    /\ op[p].at = "fill"
    /\ file' = op[p].data
    /\ torn' = FALSE
    /\ op' = [op EXCEPT ![p] = NoOp]
    /\ added' = added \cup {j \in Job : op[p].data.jobs[j] # None}
    /\ IF op[p].task = None THEN UNCHANGED <<task, arrays, pending>> ELSE Settle(op[p].task)
    /\ UNCHANGED <<runs, posted, may, lapses>>

(* The file cannot be opened, or not be written once it is empty.  A mark   *)
(* that fails is only logged; what else fails is the matter of its caller.  *)
WriteFails(p) ==
    /\ Busy(p)
    /\ "write" \in may \ lapses
    /\ op' = [op EXCEPT ![p] = NoOp]
    /\ IF op[p].task = None THEN UNCHANGED <<task, arrays, pending>> ELSE Settle(op[p].task)
    /\ lapses' = lapses \cup {"write"} \cup {l \in {"torn"} : op[p].at = "fill"}
    /\ UNCHANGED <<file, torn, runs, added, posted, may>>

(* A process dies, with everything it had pending; it may be started again. *)
Crash(p) ==
    /\ "crash" \in may \ lapses
    /\ op' = [op EXCEPT ![p] = NoOp]
    /\ pending' = [s \in Session |-> IF Host[s] = p THEN 0 ELSE pending[s]]
    /\ task' = [t \in Task |-> IF task[t].at # "none" /\ Host[task[t].session] = p
                               THEN NoTask ELSE task[t]]
    /\ runs' = [n \in DOMAIN runs |-> IF Host[runs[n].session] = p
                                      THEN [runs[n] EXCEPT !.open = FALSE] ELSE runs[n]]
    /\ lapses' = lapses \cup {"crash"} \cup {l \in {"torn"} : op[p].at = "fill"}
    /\ UNCHANGED <<file, torn, arrays, added, posted, may>>

TaskStep(t) == PartPosted(t) \/ PartRetried(t) \/ SendFails(t) \/ MarkSent(t)
FileStep(p) == Open(p) \/ Fill(p)

Next ==
    \/ \E p \in Proc : FileStep(p) \/ WriteFails(p) \/ Crash(p)
    \/ \E t \in Task : TaskStep(t)
    \/ \E s \in Session : BindConversation(s) \/ Assistant(s, 0) \/ \E n \in Oldest(s) : RunEnds(s, n)
    \/ \E j \in Job : AddJob(j)
    \/ \E s \in Session, j \in Job : Marker(s, j) \/ \E hasId \in BOOLEAN : Subagent(s, j, hasId)

Spec == Init /\ [][Next]_vars

(* Node runs what is ready, requests end, and a session answers its runs.   *)
FairSpec ==
    /\ Spec
    /\ \A p \in Proc : WF_vars(FileStep(p))
    /\ SF_vars(\E t \in Task : TaskStep(t))
    /\ SF_vars(\E s \in Session : \E n \in Oldest(s) : RunEnds(s, n))

-----------------------------------------------------------------------------
(* A job that was made in a conversation keeps its route, whatever else is  *)
(* written to the shared file, unless two processes write at once or one    *)
(* dies while it writes.                                                    *)
JobsKept ==
    lapses \cap {"race", "torn"} = {} =>
        \A j \in added : file.jobs[j] = Home[j]

(* The text of a run is posted in the conversation that made its job, as    *)
(* long as a session ends each run with a text, says nothing else while     *)
(* results are pending and nothing more while one is being sent.            *)
ResultToItsChat ==
    lapses \cap {"overlap", "extra", "silent"} = {} => \A n \in 1 .. Len(runs) :
        \A i \in DOMAIN posted[n] : posted[n][i][1] = Home[runs[n].job]

(* The messages of a text are posted in order and, unless the answer to a   *)
(* request was lost, once.                                                  *)
PostedInOrder ==
    \A n \in DOMAIN posted : \A i \in DOMAIN posted[n] :
        IF "lost" \notin lapses THEN posted[n][i][2] = i
        ELSE i > 1 => posted[n][i][2] - posted[n][i - 1][2] \in {0, 1}

(* A result that counts as sent, and would not be sent again, was posted    *)
(* to its last part.                                                        *)
SentIsPosted ==
    \A k \in file.sent : k.text \in 1 .. MaxRuns =>
        \E i \in DOMAIN posted[k.text] : posted[k.text][i][2] = Parts(k.job)

(* The pending results of a session are those it has not answered, in       *)
(* order, behind the one that is being sent: none is forgotten and none is  *)
(* kept, also when processes die and the file is torn or overwritten, as    *)
(* long as a session ends each run with a text, says nothing else while     *)
(* results are pending and nothing more while one is being sent.            *)
PendingExact ==
    lapses \cap {"overlap", "extra", "silent"} = {} => \A s \in Session :
        LET queue == IF pending[s] = 0 THEN <<>> ELSE arrays[pending[s]]
            sending == {task[t].text : t \in {u \in Task : task[u].at # "none"
                                                /\ task[u].session = s /\ task[u].array # 0}} IN
        /\ {queue[i] : i \in DOMAIN queue} = Unanswered(s) \cup sending
        /\ \A i \in DOMAIN queue : i > 1 => queue[i - 1] < queue[i]

(* Every run whose result was pending is, in the end, sent and recorded as  *)
(* sent, under whatever job, also if answers to requests are lost, unless   *)
(* a request or a write fails for good, the session says something else     *)
(* meanwhile or ends a run without a text, two processes write at once or   *)
(* one dies.                                                                *)
ResultsArrive ==
    \A n \in 1 .. MaxRuns :
        n \in DOMAIN runs /\ runs[n].open
            ~> lapses \ {"lost", "overlap"} # {} \/ \E k \in file.sent : k.text = n
=============================================================================
