---------------------------- MODULE Conversation ----------------------------
(***************************************************************************)
(* ConversationManager of .pi/extensions/feishu/conversation-manager.ts    *)
(* with the part of ReplyCard it drives and the stop-button callback of    *)
(* index.ts: the promise queue of every conversation key, the cache of Pi  *)
(* sessions, the registry of active runs, and the persisted choice of      *)
(* session file, workspace and model.                                      *)
(*                                                                         *)
(* Everything runs on one JavaScript thread: an action is the code between *)
(* two awaits, and an await is a value of pc (or stopPc) at which any      *)
(* other action may come first.  Turns are numbered in the order in which  *)
(* they were queued; the session a turn creates carries the turn's number, *)
(* and a session file that of the session that created it.                 *)
(***************************************************************************)
EXTENDS Naturals

CONSTANTS
    Keys,              \* conversation keys
    Kinds,             \* the requests that are queued: prompts and commands
    MaxTurns,          \* bound: turns that are ever queued
    MaxStatus,         \* bound: sessions created by /status, outside the queue
    MaxStops,          \* bound: /stop commands and clicks on a stop button
    Workspaces, DefaultWorkspace,
    Models, DefaultModel,
    QueueTimeouts,     \* may the wait for the previous turn time out?
    PromptTimeouts     \* may a prompt outlast promptTimeoutMs?

ASSUME KeysAssumption == Keys # {}
ASSUME KindsAssumption == Kinds \subseteq {"prompt", "new", "workspace", "model", "resume"}
ASSUME MaxTurnsAssumption == MaxTurns \in Nat
ASSUME MaxStatusAssumption == MaxStatus \in Nat
ASSUME MaxStopsAssumption == MaxStops \in Nat
ASSUME DefaultsAssumption == DefaultWorkspace \in Workspaces /\ DefaultModel \in Models
ASSUME TimeoutsAssumption == QueueTimeouts \in BOOLEAN /\ PromptTimeouts \in BOOLEAN

Turns == 1 .. MaxTurns
Sessions == 1 .. (MaxTurns + MaxStatus)
Stops == 1 .. MaxStops
None == 0

VARIABLES
    arrived,     \* number of turns queued so far
    key, kind,   \* of a turn
    pc,          \* where the asynchronous function of a turn stands
    prev,        \* the turn it found at the tail of its queue
    sess,        \* the session it awaits or uses
    arg,         \* the session file a "resume" turn has found
    queues,      \* the tail of each key's queue
    activeRuns,  \* the registered run of each key: a turn or None
    sessions,    \* the cached session of each key
    sState, sWorkspace, sModel, sFile,   \* of a session
    file, workspaces, models,                  \* state.json
    written,      \* the session files that exist on disk
    feishuInput,  \* the bridge's set of sessions that answer Feishu
    stopped,      \* run.stopped
    pi,           \* the prompt as Pi sees it
    card,         \* ReplyCard.status
    body,         \* ReplyCard's text: as streamed, or as ensureFinal left it
    mixed,        \* the turns whose card text holds another turn's deltas
    shown,        \* what the reader of the card sees
    stopPc, stopRun, stopTarget, stopResult    \* of a stop request

turnVars == <<key, kind, prev, arrived, queues>>
stepVars == <<pc, sess, arg>>
sessionVars == <<sState, sWorkspace, sModel, sFile, sessions>>
stateVars == <<file, workspaces, models>>
runVars == <<activeRuns, feishuInput, stopped, pi, written>>
cardVars == <<card, body, mixed, shown>>
stopVars == <<stopPc, stopRun, stopTarget, stopResult>>
vars == <<turnVars, stepVars, sessionVars, stateVars, runVars, cardVars, stopVars>>

PcValues == {"idle", "waiting", "lookup", "session", "prompting",
             "dispose", "replying", "closing", "done"}

TypeOK ==
    /\ arrived \in 0 .. MaxTurns
    /\ key \in [Turns -> Keys]
    /\ kind \in [Turns -> Kinds \cup {"prompt"}]
    /\ pc \in [Turns -> PcValues]
    /\ prev \in [Turns -> Turns \cup {None}]
    /\ sess \in [Turns -> Sessions \cup {None}]
    /\ arg \in [Turns -> Sessions \cup {None}]
    /\ queues \in [Keys -> Turns \cup {None}]
    /\ activeRuns \in [Keys -> Turns \cup {None}]
    /\ sessions \in [Keys -> Sessions \cup {None}]
    /\ sState \in [Sessions -> {"free", "creating", "ready", "failed", "disposed"}]
    /\ sWorkspace \in [Sessions -> Workspaces]
    /\ sModel \in [Sessions -> Models]
    /\ sFile \in [Sessions -> Sessions]
    /\ file \in [Keys -> Sessions \cup {None}]
    /\ workspaces \in [Keys -> Workspaces]
    /\ models \in [Keys -> Models]
    /\ written \subseteq Sessions
    /\ feishuInput \subseteq Sessions
    /\ stopped \in [Turns -> BOOLEAN]
    /\ pi \in [Turns -> {"none", "running", "aborted", "over"}]
    /\ card \in [Turns -> {"running", "done", "failed", "stopped"}]
    /\ body \in [Turns -> {"streamed", "answer", "error"}]
    /\ mixed \subseteq Turns
    /\ shown \in [Turns -> {"running", "answer", "error", "stopped", "notice"}]
    /\ stopPc \in [Stops -> {"idle", "closing", "abort", "respond", "done"}]
    /\ stopRun \in [Stops -> Turns \cup {None}]
    /\ stopTarget \in [Stops -> Turns \cup {None}]
    /\ stopResult \in [Stops -> {"none", "stopped", "not_running", "stale", "failed", "error"}]

Init ==
    /\ arrived = 0
    /\ key = [t \in Turns |-> CHOOSE k \in Keys : TRUE]   \* set when queued
    /\ kind = [t \in Turns |-> "prompt"]                  \* set when queued
    /\ pc = [t \in Turns |-> "idle"]
    /\ prev = [t \in Turns |-> None]
    /\ sess = [t \in Turns |-> None]
    /\ arg = [t \in Turns |-> None]
    /\ queues = [k \in Keys |-> None]
    /\ activeRuns = [k \in Keys |-> None]
    /\ sessions = [k \in Keys |-> None]
    /\ sState = [s \in Sessions |-> "free"]
    /\ sWorkspace = [s \in Sessions |-> DefaultWorkspace]
    /\ sModel = [s \in Sessions |-> DefaultModel]
    /\ sFile = [s \in Sessions |-> s]
    /\ file = [k \in Keys |-> None]
    /\ workspaces = [k \in Keys |-> DefaultWorkspace]
    /\ models = [k \in Keys |-> DefaultModel]
    /\ written = {}
    /\ feishuInput = {}
    /\ stopped = [t \in Turns |-> FALSE]
    /\ pi = [t \in Turns |-> "none"]
    /\ card = [t \in Turns |-> "running"]
    /\ body = [t \in Turns |-> "streamed"]
    /\ mixed = {}
    /\ shown = [t \in Turns |-> "running"]
    /\ stopPc = [i \in Stops |-> "idle"]
    /\ stopRun = [i \in Stops |-> None]
    /\ stopTarget = [i \in Stops |-> None]
    /\ stopResult = [i \in Stops |-> "none"]

-----------------------------------------------------------------------------
(* Queueing: previousTurn reads the tail of the key's queue, and the new    *)
(* turn becomes the tail in the same synchronous stretch.  /resume refuses  *)
(* at once while a run of the key is registered.                            *)
Enqueue(k, kd) ==
    LET t == arrived + 1 IN
    /\ t \in Turns
    /\ kd = "resume" => activeRuns[k] = None
    /\ arrived' = t
    /\ key' = [key EXCEPT ![t] = k]
    /\ kind' = [kind EXCEPT ![t] = kd]
    /\ prev' = [prev EXCEPT ![t] = queues[k]]
    /\ queues' = [queues EXCEPT ![k] = t]
    /\ pc' = [pc EXCEPT ![t] = "waiting"]
    /\ UNCHANGED <<sess, arg, sessionVars, stateVars, runVars, cardVars, stopVars>>

(* Mutants of Settled: the reply is not awaited; the queue moves on without *)
(* the stopped turn; it moves on only after a success; it does not wait.    *)
SettledBeforeReply(t) == prev[t] # None => pc[prev[t]] \in {"closing", "replying", "done"}
SettledWhenStopped(t) == prev[t] # None => pc[prev[t]] = "done" \/ stopped[prev[t]]
SettledBySuccess(t) == prev[t] # None => pc[prev[t]] = "done" /\ card[prev[t]] # "failed"
SettledAtOnce(t) == TRUE

Settled(t) == prev[t] # None => pc[prev[t]] = "done"

(* Mutant of MayStart: the wait has no timeout.                             *)
MayStartSettled(t) == pc[t] = "waiting" /\ Settled(t)

(* withTimeout in previousTurn: the previous turn has settled, or the wait  *)
(* for it has timed out and the turn goes ahead without it.                 *)
MayStart(t) == pc[t] = "waiting" /\ (Settled(t) \/ QueueTimeouts)

Goto(t, step) == pc' = [pc EXCEPT ![t] = step]

(* getSession's cache miss: what createSession reads before its first await *)
(* (a file that was never written is not reopened).                         *)
CreateSession(s, k) ==
    /\ sessions' = [sessions EXCEPT ![k] = s]
    /\ sState' = [sState EXCEPT ![s] = "creating"]
    /\ sWorkspace' = [sWorkspace EXCEPT ![s] = workspaces[k]]
    /\ sModel' = [sModel EXCEPT ![s] = models[k]]
    /\ sFile' = [sFile EXCEPT ![s] = IF file[k] \in written THEN file[k] ELSE s]

(* The end of createSession: the session's file becomes the key's file.     *)
SessionCreated(k) ==
    LET s == sessions[k] IN
    /\ s # None
    /\ sState[s] = "creating"
    /\ sState' = [sState EXCEPT ![s] = "ready"]
    /\ file' = [file EXCEPT ![k] = sFile[s]]
    /\ UNCHANGED <<turnVars, stepVars, sWorkspace, sModel, sFile, sessions,
                   workspaces, models, runVars, cardVars, stopVars>>

(* createSession throws; the rejected promise stays in the cache.           *)
SessionFailed(k) ==
    LET s == sessions[k] IN
    /\ s # None
    /\ sState[s] = "creating"
    /\ sState' = [sState EXCEPT ![s] = "failed"]
    /\ UNCHANGED <<turnVars, stepVars, sWorkspace, sModel, sFile, sessions,
                   stateVars, runVars, cardVars, stopVars>>

(* /status asks for the session outside the queue, and creates it if there  *)
(* is none.                                                                 *)
Status(k) ==
    /\ sessions[k] = None
    /\ \E s \in MaxTurns + 1 .. MaxTurns + MaxStatus :
        /\ sState[s] = "free"
        /\ \A r \in MaxTurns + 1 .. s - 1 : sState[r] # "free"
        /\ CreateSession(s, k)
    /\ UNCHANGED <<turnVars, stepVars, stateVars, runVars, cardVars, stopVars>>

-----------------------------------------------------------------------------
(* A prompt, from the end of its wait to the end of its card.               *)

StartPrompt(t) ==
    /\ MayStart(t)
    /\ kind[t] = "prompt"
    /\ Goto(t, "session")
    /\ IF sessions[key[t]] # None
       THEN /\ sess' = [sess EXCEPT ![t] = sessions[key[t]]]
            /\ UNCHANGED sessionVars
       ELSE /\ sess' = [sess EXCEPT ![t] = t]
            /\ CreateSession(t, key[t])
    /\ UNCHANGED <<turnVars, arg, stateVars, runVars, cardVars, stopVars>>

(* The run is registered and handed to Pi.                                  *)
RunPrompt(t) ==
    /\ pc[t] = "session"
    /\ sState[sess[t]] \in {"ready", "disposed"}
    /\ Goto(t, "prompting")
    /\ activeRuns' = [activeRuns EXCEPT ![key[t]] = t]
    /\ feishuInput' = feishuInput \cup {sess[t]}
    /\ pi' = [pi EXCEPT ![t] = "running"]
    /\ UNCHANGED <<turnVars, sess, arg, sessionVars, stateVars, stopped, written,
                   cardVars, stopVars>>

(* ensureFinal, which has no guard: the text becomes the answer or the      *)
(* error, also that of a card which somebody else is closing.               *)
EnsureFinal(t, status) ==
    body' = [body EXCEPT ![t] = IF status = "done" THEN "answer" ELSE "error"]

(* Mutants of Conclude: no check of the status; a check that does not       *)
(* return early.                                                            *)
ConcludeAlways(t, status) ==
    /\ EnsureFinal(t, status)
    /\ card' = [card EXCEPT ![t] = status]
    /\ Goto(t, "closing")
ConcludeAndClose(t, status) ==
    /\ EnsureFinal(t, status)
    /\ card' = [card EXCEPT ![t] = IF @ = "running" THEN status ELSE @]
    /\ Goto(t, "closing")

(* completeWithAnswer, or ensureFinal and finish after an error: a card     *)
(* that is no longer running keeps its status, though not its text; closing *)
(* a running one is awaited.                                                *)
Conclude(t, status) ==
    /\ EnsureFinal(t, status)
    /\ IF card[t] = "running"
       THEN card' = [card EXCEPT ![t] = status] /\ Goto(t, "closing")
       ELSE UNCHANGED card /\ Goto(t, "done")

SessionRejected(t) ==
    /\ pc[t] = "session"
    /\ sState[sess[t]] = "failed"
    /\ Conclude(t, "failed")
    /\ UNCHANGED <<turnVars, sess, arg, sessionVars, stateVars, runVars, mixed, shown, stopVars>>

(* The subscription of createSession: a delta of turn t's prompt goes to    *)
(* the card of whichever run is registered for the key, unless that run has *)
(* been stopped or its card is final.                                       *)
Receives(r) == r # None /\ ~stopped[r] /\ card[r] = "running"

Delta(t) ==
    LET r == activeRuns[key[t]] IN
    /\ pi[t] = "running"
    /\ sState[sess[t]] = "ready"
    /\ Receives(r)
    /\ mixed' = IF r = t THEN mixed ELSE mixed \cup {r}
    /\ UNCHANGED <<turnVars, stepVars, sessionVars, stateVars, runVars, card, body, shown, stopVars>>

(* Mutants of Unregister: nothing is undone; the key's run is deleted       *)
(* whoever registered it.                                                   *)
UnregisterNothing(t) == activeRuns' = activeRuns /\ feishuInput' = feishuInput \ {sess[t]}
UnregisterAnyRun(t) ==
    /\ activeRuns' = [activeRuns EXCEPT ![key[t]] = None]
    /\ feishuInput' = feishuInput \ {sess[t]}

(* The inner finally block: the entry goes only if it is this run's.        *)
Unregister(t) ==
    /\ activeRuns' = IF activeRuns[key[t]] = t
                     THEN [activeRuns EXCEPT ![key[t]] = None] ELSE activeRuns
    /\ feishuInput' = feishuInput \ {sess[t]}

(* Mutant of EndRun: a failed prompt ends without a word.                   *)
EndRunQuietly(t, status) ==
    IF stopped[t] \/ status = "failed"
    THEN Goto(t, "done") /\ UNCHANGED <<card, body>>
    ELSE Conclude(t, status)

(* After the finally block: a stopped run just ends, another one concludes  *)
(* its card.                                                                *)
EndRun(t, status) ==
    IF stopped[t]
    THEN Goto(t, "done") /\ UNCHANGED <<card, body>>
    ELSE Conclude(t, status)

(* session.prompt settles, with an answer or an error.                      *)
PromptReturns(t) ==
    /\ pc[t] = "prompting"
    /\ pi' = [pi EXCEPT ![t] = "over"]
    /\ Unregister(t)
    /\ \E ok \in BOOLEAN :
        /\ written' = IF ok THEN written \cup {sFile[sess[t]]} ELSE written
        /\ EndRun(t, IF ok THEN "done" ELSE "failed")
    /\ UNCHANGED <<turnVars, sess, arg, sessionVars, stateVars, stopped, mixed, shown, stopVars>>

(* withTimeout rejects first; nothing tells Pi, which goes on with the      *)
(* prompt.                                                                  *)
PromptTimeout(t) ==
    /\ PromptTimeouts
    /\ pc[t] = "prompting"
    /\ pi[t] = "running"
    /\ Unregister(t)
    /\ EndRun(t, "failed")
    /\ UNCHANGED <<turnVars, sess, arg, sessionVars, stateVars, stopped, pi, written,
                   mixed, shown, stopVars>>

(* Pi ends a prompt nobody waits for any more.                              *)
OrphanEnds(t) ==
    /\ pc[t] # "prompting"
    /\ pi[t] \in {"running", "aborted"}
    /\ pi' = [pi EXCEPT ![t] = "over"]
    /\ UNCHANGED <<turnVars, stepVars, sessionVars, stateVars, activeRuns, feishuInput,
                   stopped, written, cardVars, stopVars>>

(* The card's last request succeeds, or throws: then the error is swallowed *)
(* (the card is already final) or ends in the handler; the turn is over.    *)
CardClosed(t) ==
    /\ pc[t] = "closing"
    /\ Goto(t, "done")
    /\ \/ shown' = [shown EXCEPT ![t] = body[t]]
       \/ UNCHANGED shown
    /\ UNCHANGED <<turnVars, sess, arg, sessionVars, stateVars, runVars, card, body, mixed,
                   stopVars>>

-----------------------------------------------------------------------------
(* /new, /workspace, the model card and the resume card: queued like a      *)
(* prompt, they dispose the cached session and change state.json, so that   *)
(* the next prompt creates a session from the new choice.                   *)

(* Mutant of Apply: /workspace keeps the old workspace's session file.      *)
ApplyKeepsFile(t) ==
    LET k == key[t] IN
    CASE kind[t] = "new" ->
            file' = [file EXCEPT ![k] = None] /\ UNCHANGED workspaces
      [] kind[t] = "workspace" ->
            \E w \in Workspaces : workspaces' = [workspaces EXCEPT ![k] = w] /\ UNCHANGED file
      [] kind[t] = "resume" ->
            /\ file' = [file EXCEPT ![k] = arg[t]]
            /\ workspaces' = [workspaces EXCEPT ![k] = sWorkspace[arg[t]]]
      [] OTHER -> UNCHANGED <<file, workspaces>>

(* What the command writes once the old session is gone.                    *)
Apply(t) ==
    LET k == key[t] IN
    CASE kind[t] = "new" ->
            file' = [file EXCEPT ![k] = None] /\ UNCHANGED workspaces
      [] kind[t] = "workspace" ->
            /\ file' = [file EXCEPT ![k] = None]
            /\ \E w \in Workspaces : workspaces' = [workspaces EXCEPT ![k] = w]
      [] kind[t] = "resume" ->
            /\ file' = [file EXCEPT ![k] = arg[t]]
            /\ workspaces' = [workspaces EXCEPT ![k] = sWorkspace[arg[t]]]
      [] OTHER -> UNCHANGED <<file, workspaces>>

(* With a cached session the command awaits it before disposing it;         *)
(* without one it applies the change at once.                               *)
DisposeCached(t) ==
    LET s == sessions[key[t]] IN
    IF s = None
    THEN Apply(t) /\ Goto(t, "replying") /\ UNCHANGED <<sess, sessionVars>>
    ELSE /\ Goto(t, "dispose")
         /\ sess' = [sess EXCEPT ![t] = s]
         /\ UNCHANGED <<sessionVars, file, workspaces>>

(* An invalid workspace or model is only answered.                          *)
RefuseCommand(t) ==
    /\ Goto(t, "replying")
    /\ UNCHANGED <<sess, sessionVars, stateVars>>

StartCommand(t) ==
    /\ MayStart(t)
    /\ \/ kind[t] \in {"new", "workspace"} /\ DisposeCached(t) /\ UNCHANGED models
       \/ kind[t] \in {"workspace", "model"} /\ RefuseCommand(t)
       \/ /\ kind[t] = "model"
          /\ \E m \in Models : models' = [models EXCEPT ![key[t]] = m]
          /\ DisposeCached(t)
    /\ UNCHANGED <<turnVars, arg, runVars, cardVars, stopVars>>

StartResume(t) ==
    /\ MayStart(t)
    /\ kind[t] = "resume"
    /\ Goto(t, "lookup")
    /\ UNCHANGED <<turnVars, sess, arg, sessionVars, stateVars, runVars, cardVars, stopVars>>

(* findSessionInfo answers: the chosen file is gone; or it is the key's own *)
(* file, whose workspace is restored; or the key moves to it.               *)
LookedUp(t) ==
    LET k == key[t] IN
    /\ pc[t] = "lookup"
    /\ \/ RefuseCommand(t) /\ UNCHANGED arg
       \/ /\ file[k] \in written
          /\ workspaces' = [workspaces EXCEPT ![k] = sWorkspace[file[k]]]
          /\ Goto(t, "replying")
          /\ UNCHANGED <<sess, arg, sessionVars, file, models>>
       \/ \E f \in written \ {file[k]} :
          /\ arg' = [arg EXCEPT ![t] = f]
          /\ LET s == sessions[k] IN
             IF s = None
             THEN /\ file' = [file EXCEPT ![k] = f]
                  /\ workspaces' = [workspaces EXCEPT ![k] = sWorkspace[f]]
                  /\ Goto(t, "replying")
                  /\ UNCHANGED <<sess, sessionVars, models>>
             ELSE /\ Goto(t, "dispose")
                  /\ sess' = [sess EXCEPT ![t] = s]
                  /\ UNCHANGED <<sessionVars, stateVars>>
    /\ UNCHANGED <<turnVars, runVars, cardVars, stopVars>>

(* Mutant of Forget: the disposed session stays cached.                     *)
ForgetNothing(k) == sessions' = sessions

Forget(k) == sessions' = [sessions EXCEPT ![k] = None]

(* The awaited session is there (or was never created: the rejection is     *)
(* swallowed); it is disposed and forgotten.                                *)
Dispose(t) ==
    /\ pc[t] = "dispose"
    /\ sState[sess[t]] # "creating"
    /\ sState' = [sState EXCEPT ![sess[t]] = IF @ = "ready" THEN "disposed" ELSE @]
    /\ Forget(key[t])
    /\ Apply(t)
    /\ Goto(t, "replying")
    /\ UNCHANGED <<turnVars, sess, arg, sWorkspace, sModel, sFile, models, runVars,
                   cardVars, stopVars>>

Replied(t) ==
    /\ pc[t] = "replying"
    /\ Goto(t, "done")
    /\ UNCHANGED <<turnVars, sess, arg, sessionVars, stateVars, runVars, cardVars, stopVars>>

-----------------------------------------------------------------------------
(* stopConversation.  Request i comes from a command (r = None) or from the *)
(* button of turn r's card.                                                 *)

StopGoto(i, step) == stopPc' = [stopPc EXCEPT ![i] = step]

(* The guard that protects a newer run from an older card's button.         *)
Stale(a, r) == r # None /\ a # r

StopRequest(i, k, r) ==
    LET a == activeRuns[k] IN
    /\ stopPc[i] = "idle"
    /\ r # None => kind[r] = "prompt" /\ pc[r] # "idle" /\ key[r] = k /\ shown[r] = "running"
    /\ stopRun' = [stopRun EXCEPT ![i] = r]
    /\ IF a = None \/ Stale(a, r)
       THEN /\ stopResult' = [stopResult EXCEPT
                    ![i] = IF a = None THEN "not_running" ELSE "stale"]
            /\ StopGoto(i, "respond")
            /\ UNCHANGED <<stopTarget, stopped, card>>
       ELSE /\ stopTarget' = [stopTarget EXCEPT ![i] = a]
            /\ stopped' = [stopped EXCEPT ![a] = TRUE]
            /\ IF card[a] = "running"
               THEN card' = [card EXCEPT ![a] = "stopped"] /\ StopGoto(i, "closing")
               ELSE UNCHANGED card /\ StopGoto(i, "abort")
            /\ UNCHANGED stopResult
    /\ UNCHANGED <<turnVars, stepVars, sessionVars, stateVars, activeRuns, feishuInput,
                   pi, written, body, mixed, shown>>

(* stopImmediately has closed the card, with the text as it was when the    *)
(* stop came or, since close reads the text again for every request, as     *)
(* ensureFinal has left it meanwhile; if it throws, stopConversation throws *)
(* too, outside its try, with the run already marked as stopped.            *)
StopCardClosed(i) ==
    LET a == stopTarget[i] IN
    /\ stopPc[i] = "closing"
    /\ \/ /\ \E text \in {"stopped"} \cup ({body[a]} \ {"streamed"}) :
             shown' = [shown EXCEPT ![a] = text]
          /\ StopGoto(i, "abort")
          /\ UNCHANGED stopResult
       \/ /\ StopGoto(i, "done")
          /\ stopResult' = [stopResult EXCEPT ![i] = "error"]
          /\ UNCHANGED shown
    /\ UNCHANGED <<turnVars, stepVars, sessionVars, stateVars, runVars, card, body, mixed,
                   stopRun, stopTarget>>

(* session.abort(): it ends whatever the target's session is working on, or *)
(* throws, and then the run counts as not stopped again.                    *)
StopAbort(i) ==
    LET a == stopTarget[i] IN
    /\ stopPc[i] = "abort"
    /\ StopGoto(i, "respond")
    /\ \/ /\ pi' = [t \in Turns |-> IF sess[t] = sess[a] /\ pi[t] = "running"
                                    THEN "aborted" ELSE pi[t]]
          /\ stopResult' = [stopResult EXCEPT ![i] = "stopped"]
          /\ UNCHANGED stopped
       \/ /\ stopped' = [stopped EXCEPT ![a] = FALSE]
          /\ stopResult' = [stopResult EXCEPT ![i] = "failed"]
          /\ UNCHANGED pi
    /\ UNCHANGED <<turnVars, stepVars, sessionVars, stateVars, activeRuns, feishuInput,
                   written, cardVars, stopRun, stopTarget>>

(* The result reaches the user; for a button the callback's card replaces   *)
(* the clicked card, with the text written so far only if the stop worked.  *)
StopRespond(i) ==
    LET r == stopRun[i] IN
    /\ stopPc[i] = "respond"
    /\ StopGoto(i, "done")
    /\ shown' = IF r = None THEN shown
                ELSE [shown EXCEPT ![r] =
                        IF stopResult[i] = "stopped" THEN "stopped" ELSE "notice"]
    /\ UNCHANGED <<turnVars, stepVars, sessionVars, stateVars, runVars, card, body, mixed,
                   stopRun, stopTarget, stopResult>>

-----------------------------------------------------------------------------
TurnStep(t) ==
    \/ StartPrompt(t) \/ StartCommand(t) \/ StartResume(t)
    \/ LookedUp(t) \/ Dispose(t) \/ Replied(t)
    \/ RunPrompt(t) \/ SessionRejected(t)
    \/ PromptReturns(t) \/ PromptTimeout(t) \/ CardClosed(t)

Next ==
    \/ \E k \in Keys :
        \/ \E kd \in Kinds : Enqueue(k, kd)
        \/ SessionCreated(k)
        \/ SessionFailed(k)
        \/ Status(k)
    \/ \E t \in Turns : TurnStep(t) \/ Delta(t) \/ OrphanEnds(t)
    \/ \E i \in Stops :
        \/ \E k \in Keys, r \in Turns \cup {None} : StopRequest(i, k, r)
        \/ StopCardClosed(i)
        \/ StopAbort(i)
        \/ StopRespond(i)

Spec == Init /\ [][Next]_vars

(* The event loop runs every callback that is due, the timers fire, and the *)
(* requests to Feishu, to the disk and for a new Pi session settle.  Pi     *)
(* itself need not end a prompt if prompts time out.                        *)
FairSpec ==
    /\ Spec
    /\ \A t \in Turns : WF_vars(TurnStep(t))
    /\ \A k \in Keys : WF_vars(SessionCreated(k) \/ SessionFailed(k))

(* Only the timers of previousTurn are sure to fire: everything a turn      *)
(* awaits after its wait may hang.                                          *)
TimerSpec ==
    /\ Spec
    /\ \A t \in Turns : WF_vars(StartPrompt(t) \/ StartCommand(t) \/ StartResume(t))

-----------------------------------------------------------------------------
(* Properties of the queue without timeouts.                                *)

(* Turns of one conversation run in the order in which they were queued,    *)
(* one at a time: when a turn has started, every earlier one is over, its   *)
(* card and reply included (the promise chain of previousTurn / queues).    *)
TurnsInOrder ==
    \A t, u \in Turns :
        (u < t /\ t <= arrived /\ key[u] = key[t] /\ pc[t] # "waiting") => pc[u] = "done"

(* The registry names exactly the turn that is being prompted, so /stop     *)
(* always finds the running one and never a finished one; and the bridge    *)
(* knows exactly the sessions that are being prompted as ones that answer   *)
(* Feishu (begin- and endFeishuInput do not count their callers).           *)
RegistryExact ==
    /\ \A t \in Turns : pc[t] = "prompting" <=> activeRuns[key[t]] = t
    /\ feishuInput = {sess[t] : t \in {u \in Turns : pc[u] = "prompting"}}

(* A session that a turn prompts is the cached one, and no /new, /workspace,*)
(* /resume or model change disposes it under the turn.                      *)
PromptedSessionLive ==
    \A t \in Turns : pc[t] = "prompting" =>
        sess[t] = sessions[key[t]] /\ sState[sess[t]] = "ready"

(* A turn prompts a session that was created for the workspace and the      *)
(* model now chosen, even when /status created it in the middle of the      *)
(* change.                                                                  *)
PromptUsesChoice ==
    \A t \in Turns : pc[t] = "prompting" =>
        /\ sWorkspace[sess[t]] = workspaces[key[t]]
        /\ sModel[sess[t]] = models[key[t]]

(* The persisted file always belongs to the persisted workspace: after a    *)
(* restart the conversation reopens its file in the directory it was        *)
(* created in.                                                              *)
FileInWorkspace ==
    \A k \in Keys : file[k] # None => sWorkspace[file[k]] = workspaces[k]

(* The text streamed into a card is the text of its own turn: "the current  *)
(* turn's streaming callback" (ActiveRun.onDelta).                          *)
OwnDeltas == mixed = {}

(* The queue implements the abstract one: a turn runs from the end of its    *)
(* wait until its last reply.                                               *)
TurnState(t) ==
    CASE pc[t] \in {"idle", "waiting", "done"} -> pc[t]
      [] OTHER -> "running"

TQ == INSTANCE TurnQueue WITH state <- [t \in Turns |-> TurnState(t)]

ImplementsTurnQueue == TQ!Spec

(* Every queued turn ends, whatever fails or is stopped before it.          *)
EveryTurnEnds == \A t \in Turns : pc[t] = "waiting" ~> pc[t] = "done"

-----------------------------------------------------------------------------
(* Properties that timeouts leave in force.                                 *)

(* What is registered is a turn of that key which is being prompted: a turn *)
(* that ends, in whatever way, takes its registration with it.              *)
RegisteredIsPrompting ==
    \A k \in Keys : activeRuns[k] # None =>
        /\ pc[activeRuns[k]] = "prompting"
        /\ key[activeRuns[k]] = k

(* No turn removes another's registration: a registered run is replaced by  *)
(* a newer one, or removed when its own prompt ends.                        *)
OwnRegistration ==
    [][\A k \in Keys :
        activeRuns[k] # None /\ activeRuns'[k] # activeRuns[k] =>
            activeRuns'[k] # None \/ pc'[activeRuns[k]] # "prompting"]_vars

(* No prompt leaves a spinning card behind: when a prompt turn is over, by  *)
(* an answer, an error, a timeout or a stop in any order, its card has a    *)
(* final status.                                                            *)
NoCardLeftRunning ==
    \A t \in Turns : kind[t] = "prompt" /\ pc[t] = "done" => card[t] # "running"

(* A final status is final: finish, stopImmediately and completeWithAnswer  *)
(* race, and the first one wins.                                            *)
FirstConclusionWins ==
    [][\A t \in Turns : card[t] # "running" => card'[t] = card[t]]_vars

(* A stop that hits a run alone decides what its card says: the answer or   *)
(* an error never follows, not even when the abort fails and the prompt     *)
(* goes on.  Only a second stop of the same run can bring them onto the     *)
(* stopped card: its failing abort lifts the first one's mark while that    *)
(* one is still closing the card.                                           *)
StoppedStaysStopped ==
    \A t \in Turns : card[t] = "stopped" /\ shown[t] \in {"answer", "error"} =>
        \E i, j \in Stops :
            i # j /\ stopTarget[i] = t /\ stopTarget[j] = t /\ stopResult[i] = "failed"

(* A turn that hangs for ever (a prompt, a request, a Pi session that is    *)
(* never created) does not block the turns behind it: with queue timeouts   *)
(* every queued turn gets to start.                                         *)
NeverBlocked == \A t \in Turns : pc[t] = "waiting" ~> pc[t] # "waiting"

-----------------------------------------------------------------------------
(* What texts of the repository say and the code does not do.               *)

(* "/stop - stop the current generation": an abort ends the prompt of the   *)
(* run that the request found, and no other turn's.                         *)
StopAbortsOnlyItsRun ==
    [][\A i \in Stops, t \in Turns :
        StopAbort(i) /\ pi[t] # "aborted" /\ pi'[t] = "aborted" => t = stopTarget[i]]_vars

=============================================================================
