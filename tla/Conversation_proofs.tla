------------------------ MODULE Conversation_proofs ------------------------
(***************************************************************************)
(* Proofs about Conversation, for any keys, numbers of turns and stop      *)
(* requests, workspaces and models, and with or without timeouts.          *)
(***************************************************************************)
EXTENDS Conversation, TLAPS

(* What the steps after an await rely on: the turn has its session, a       *)
(* /resume the file it found, and a card that is being closed its text.     *)
LocalsOK ==
    \A t \in Turns :
        /\ pc[t] \in {"session", "prompting", "dispose"} => sess[t] \in Sessions
        /\ pc[t] = "dispose" /\ kind[t] = "resume" => arg[t] \in Sessions
        /\ pc[t] = "closing" => body[t] # "streamed"

TypeInv == TypeOK /\ LocalsOK

(* Facts about the constants that the steps need.                           *)
LEMMA ConstantFacts ==
    /\ Turns \subseteq Sessions
    /\ Turns \subseteq Nat /\ Sessions \subseteq Nat
    /\ None \notin Turns /\ None \notin Sessions
    /\ None \in Nat
  BY MaxTurnsAssumption, MaxStatusAssumption DEF Turns, Sessions, None

(* The initial state has the declared types.                                *)
LEMMA InitTypeInv == Init => TypeInv
  <1> SUFFICES ASSUME Init PROVE TypeInv
    OBVIOUS
  <1>1. (CHOOSE k \in Keys : TRUE) \in Keys
    BY KeysAssumption
  <1>2. TypeOK
    <2>1. arrived \in 0 .. MaxTurns /\ key \in [Turns -> Keys] /\ kind \in [Turns -> Kinds \cup {"prompt"}]
      <3>1. arrived \in 0 .. MaxTurns BY MaxTurnsAssumption DEF Init, None
      <3> QED BY <1>1, <3>1 DEF Init
    <2>2. /\ workspaces \in [Keys -> Workspaces] /\ models \in [Keys -> Models]
          /\ sWorkspace \in [Sessions -> Workspaces] /\ sModel \in [Sessions -> Models]
      BY DefaultsAssumption DEF Init
    <2>3. /\ sess \in [Turns -> Sessions \cup {None}] /\ arg \in [Turns -> Sessions \cup {None}]
          /\ sessions \in [Keys -> Sessions \cup {None}] /\ file \in [Keys -> Sessions \cup {None}]
          /\ sFile \in [Sessions -> Sessions]
      BY DEF Init
    <2> QED BY <2>1, <2>2, <2>3 DEF Init, TypeOK, PcValues
  <1>3. LocalsOK
    BY DEF Init, LocalsOK
  <1> QED BY <1>2, <1>3 DEF TypeInv

(* Apply writes a file or none, and a workspace.                            *)
LEMMA ApplyTypes ==
    ASSUME TypeOK, NEW t \in Turns, Apply(t),
           kind[t] = "resume" => arg[t] \in Sessions
    PROVE  file' \in [Keys -> Sessions \cup {None}] /\ workspaces' \in [Keys -> Workspaces]
  <1>1. CASE kind[t] = "new" BY <1>1 DEF Apply, TypeOK
  <1>2. CASE kind[t] = "workspace" BY <1>2 DEF Apply, TypeOK
  <1>3. CASE kind[t] = "resume" BY <1>3 DEF Apply, TypeOK
  <1>4. CASE kind[t] \notin {"new", "workspace", "resume"} BY <1>4 DEF Apply, TypeOK
  <1> QED BY <1>1, <1>2, <1>3, <1>4

(* Every action keeps the types, and gives a turn its session and file      *)
(* before the step that uses them.                                          *)
LEMMA NextTypeInv == TypeInv /\ [Next]_vars => TypeInv'
  <1> SUFFICES ASSUME TypeInv, [Next]_vars PROVE TypeInv'
    OBVIOUS
  <1> USE ConstantFacts
      DEF TypeInv, Goto, StopGoto, turnVars, stepVars, sessionVars, stateVars,
          runVars, cardVars, stopVars
  <1>1. ASSUME NEW k \in Keys, NEW kd \in Kinds, Enqueue(k, kd) PROVE TypeInv'
    <2>1. TypeOK' BY <1>1 DEF TypeOK, LocalsOK, PcValues, Enqueue, Turns
    <2>2. LocalsOK' BY <1>1 DEF TypeOK, LocalsOK, Enqueue, Turns
    <2> QED BY <2>1, <2>2
  <1>2. ASSUME NEW k \in Keys, SessionCreated(k) PROVE TypeInv'
    <2>1. TypeOK'
      <3>1. sessions[k] \in Sessions BY <1>2 DEF TypeOK, SessionCreated
      <3>2. sState' \in [Sessions -> {"free", "creating", "ready", "failed", "disposed"}]
        BY <1>2 DEF TypeOK, SessionCreated
      <3>3. file' \in [Keys -> Sessions \cup {None}]
        <4>1. sFile[sessions[k]] \in Sessions BY <3>1 DEF TypeOK
        <4>2. file' = [file EXCEPT ![k] = sFile[sessions[k]]] BY <1>2 DEF SessionCreated
        <4> QED BY <4>1, <4>2 DEF TypeOK
      <3> QED BY <1>2, <3>2, <3>3 DEF TypeOK, PcValues, SessionCreated
    <2>2. LocalsOK' BY <1>2 DEF TypeOK, LocalsOK, SessionCreated
    <2> QED BY <2>1, <2>2
  <1>3. ASSUME NEW k \in Keys, SessionFailed(k) PROVE TypeInv'
    <2>1. TypeOK' BY <1>3 DEF TypeOK, LocalsOK, PcValues, SessionFailed
    <2>2. LocalsOK' BY <1>3 DEF TypeOK, LocalsOK, SessionFailed
    <2> QED BY <2>1, <2>2
  <1>4. ASSUME NEW k \in Keys, Status(k) PROVE TypeInv'
    <2>1. TypeOK'
      <3>1. PICK s \in MaxTurns + 1 .. MaxTurns + MaxStatus : CreateSession(s, k)
        BY <1>4 DEF Status
      <3>2. s \in Sessions
        BY MaxTurnsAssumption, MaxStatusAssumption DEF Sessions
      <3>3. sessions' \in [Keys -> Sessions \cup {None}]
        BY <3>1, <3>2 DEF TypeOK, CreateSession
      <3>4. sState' \in [Sessions -> {"free", "creating", "ready", "failed", "disposed"}]
        BY <3>1 DEF TypeOK, CreateSession
      <3>5. /\ sWorkspace' \in [Sessions -> Workspaces] /\ sModel' \in [Sessions -> Models]
            /\ sFile' \in [Sessions -> Sessions]
        BY <3>1, <3>2 DEF TypeOK, CreateSession
      <3> QED BY <1>4, <3>3, <3>4, <3>5 DEF TypeOK, PcValues, Status
    <2>2. LocalsOK' BY <1>4 DEF TypeOK, LocalsOK, Status, CreateSession, Sessions
    <2> QED BY <2>1, <2>2
  <1>5. ASSUME NEW t \in Turns, StartPrompt(t) PROVE TypeInv'
    <2>1. TypeOK' BY <1>5 DEF TypeOK, LocalsOK, PcValues, StartPrompt, CreateSession
    <2>2. LocalsOK' BY <1>5 DEF TypeOK, LocalsOK, StartPrompt, CreateSession
    <2> QED BY <2>1, <2>2
  <1>6. ASSUME NEW t \in Turns, StartCommand(t) PROVE TypeInv'
    <2>1. TypeOK'
      <3>1. models' \in [Keys -> Models]
        BY <1>6 DEF TypeOK, StartCommand, RefuseCommand
      <3>2. kind[t] # "resume"
        BY <1>6 DEF StartCommand
      <3>3. /\ file' \in [Keys -> Sessions \cup {None}] /\ workspaces' \in [Keys -> Workspaces]
            /\ sess' \in [Turns -> Sessions \cup {None}] /\ pc' \in [Turns -> PcValues]
            /\ UNCHANGED sessionVars
        <4>1. CASE RefuseCommand(t)
          BY <4>1 DEF TypeOK, RefuseCommand, PcValues
        <4>2. CASE DisposeCached(t) /\ sessions[key[t]] = None
          <5>1. file' \in [Keys -> Sessions \cup {None}]
            BY <4>2, <3>2, ApplyTypes DEF TypeOK, DisposeCached
          <5> QED BY <4>2, <3>2, <5>1, ApplyTypes DEF TypeOK, DisposeCached, PcValues
        <4>3. CASE DisposeCached(t) /\ sessions[key[t]] # None
          BY <4>3 DEF TypeOK, DisposeCached, PcValues
        <4> QED BY <1>6, <4>1, <4>2, <4>3 DEF StartCommand
      <3> QED BY <1>6, <3>1, <3>3 DEF TypeOK, StartCommand
    <2>2. LocalsOK' BY <1>6 DEF TypeOK, LocalsOK, StartCommand, DisposeCached, RefuseCommand, Apply
    <2> QED BY <2>1, <2>2
  <1>7. ASSUME NEW t \in Turns, StartResume(t) PROVE TypeInv'
    <2>1. TypeOK' BY <1>7 DEF TypeOK, LocalsOK, PcValues, StartResume
    <2>2. LocalsOK' BY <1>7 DEF TypeOK, LocalsOK, StartResume
    <2> QED BY <2>1, <2>2
  <1>8. ASSUME NEW t \in Turns, LookedUp(t) PROVE TypeInv'
    <2>1. TypeOK'
      <3>1. /\ arg' \in [Turns -> Sessions \cup {None}] /\ sess' \in [Turns -> Sessions \cup {None}]
            /\ pc' \in [Turns -> PcValues]
        BY <1>8 DEF TypeOK, LookedUp, RefuseCommand, PcValues
      <3>2. file' \in [Keys -> Sessions \cup {None}] /\ workspaces' \in [Keys -> Workspaces]
        <4>1. \A f \in written : sWorkspace[f] \in Workspaces /\ f \in Sessions
          BY DEF TypeOK
        <4>2. \/ file' = file /\ workspaces' = workspaces
              \/ file' = file /\ file[key[t]] \in written
                 /\ workspaces' = [workspaces EXCEPT ![key[t]] = sWorkspace[file[key[t]]]]
              \/ \E f \in written :
                    /\ file' = [file EXCEPT ![key[t]] = f]
                    /\ workspaces' = [workspaces EXCEPT ![key[t]] = sWorkspace[f]]
          BY <1>8 DEF LookedUp, RefuseCommand
        <4>3. file \in [Keys -> Sessions \cup {None}] /\ workspaces \in [Keys -> Workspaces]
          BY DEF TypeOK
        <4> QED BY <4>1, <4>2, <4>3
      <3>3. UNCHANGED <<turnVars, sessionVars, models, runVars, cardVars, stopVars>>
        BY <1>8 DEF LookedUp, RefuseCommand
      <3> QED BY <3>1, <3>2, <3>3 DEF TypeOK
    <2>2. LocalsOK' BY <1>8 DEF TypeOK, LocalsOK, LookedUp, RefuseCommand
    <2> QED BY <2>1, <2>2
  <1>9. ASSUME NEW t \in Turns, Dispose(t) PROVE TypeInv'
    <2>1. TypeOK'
      <3>1. file' \in [Keys -> Sessions \cup {None}] /\ workspaces' \in [Keys -> Workspaces]
        BY <1>9, ApplyTypes DEF TypeOK, LocalsOK, Dispose
      <3>2. sState' \in [Sessions -> {"free", "creating", "ready", "failed", "disposed"}]
        BY <1>9 DEF TypeOK, LocalsOK, Dispose
      <3>3. sessions' \in [Keys -> Sessions \cup {None}] /\ pc' \in [Turns -> PcValues]
        BY <1>9 DEF TypeOK, Dispose, Forget, PcValues
      <3> QED BY <1>9, <3>1, <3>2, <3>3 DEF TypeOK, Dispose
    <2>2. LocalsOK' BY <1>9 DEF TypeOK, LocalsOK, Dispose, Forget, Apply
    <2> QED BY <2>1, <2>2
  <1>10. ASSUME NEW t \in Turns, Replied(t) PROVE TypeInv'
    <2>1. TypeOK' BY <1>10 DEF TypeOK, LocalsOK, PcValues, Replied
    <2>2. LocalsOK' BY <1>10 DEF TypeOK, LocalsOK, Replied
    <2> QED BY <2>1, <2>2
  <1>11. ASSUME NEW t \in Turns, RunPrompt(t) PROVE TypeInv'
    <2>1. TypeOK'
      <3>1. /\ activeRuns' \in [Keys -> Turns \cup {None}] /\ pc' \in [Turns -> PcValues]
            /\ pi' \in [Turns -> {"none", "running", "aborted", "over"}]
        BY <1>11 DEF TypeOK, RunPrompt, PcValues
      <3>2. feishuInput' \subseteq Sessions
        <4>1. sess[t] \in Sessions BY <1>11 DEF LocalsOK, RunPrompt
        <4>2. feishuInput' = feishuInput \cup {sess[t]} BY <1>11 DEF RunPrompt
        <4>3. feishuInput \subseteq Sessions BY DEF TypeOK
        <4> QED BY <4>1, <4>2, <4>3
      <3> QED BY <1>11, <3>1, <3>2 DEF TypeOK, RunPrompt
    <2>2. LocalsOK' BY <1>11 DEF TypeOK, LocalsOK, RunPrompt
    <2> QED BY <2>1, <2>2
  <1>12. ASSUME NEW t \in Turns, SessionRejected(t) PROVE TypeInv'
    <2>1. TypeOK' BY <1>12 DEF TypeOK, LocalsOK, PcValues, SessionRejected, Conclude, EnsureFinal
    <2>2. LocalsOK' BY <1>12 DEF TypeOK, LocalsOK, SessionRejected, Conclude, EnsureFinal
    <2> QED BY <2>1, <2>2
  <1>13. ASSUME NEW t \in Turns, PromptReturns(t) PROVE TypeInv'
    <2>1. TypeOK'
      <3>1. written' \subseteq Sessions
        <4>1. sess[t] \in Sessions BY <1>13 DEF LocalsOK, PromptReturns
        <4>2. sFile[sess[t]] \in Sessions BY <4>1 DEF TypeOK
        <4>3. written' = written \/ written' = written \cup {sFile[sess[t]]}
          BY <1>13 DEF PromptReturns
        <4>4. written \subseteq Sessions BY DEF TypeOK
        <4> QED BY <4>2, <4>3, <4>4
      <3>2. activeRuns' \in [Keys -> Turns \cup {None}] /\ feishuInput' \subseteq Sessions
        BY <1>13 DEF TypeOK, PromptReturns, Unregister
      <3>3. /\ pc' \in [Turns -> PcValues]
            /\ card' \in [Turns -> {"running", "done", "failed", "stopped"}]
            /\ body' \in [Turns -> {"streamed", "answer", "error"}]
        BY <1>13 DEF TypeOK, PromptReturns, EndRun, Conclude, EnsureFinal, PcValues
      <3>4. pi' \in [Turns -> {"none", "running", "aborted", "over"}]
        BY <1>13 DEF TypeOK, PromptReturns
      <3> QED BY <1>13, <3>1, <3>2, <3>3, <3>4 DEF TypeOK, PromptReturns
    <2>2. LocalsOK' BY <1>13 DEF TypeOK, LocalsOK, PromptReturns, Unregister, EndRun, Conclude, EnsureFinal
    <2> QED BY <2>1, <2>2
  <1>14. ASSUME NEW t \in Turns, PromptTimeout(t) PROVE TypeInv'
    <2>1. TypeOK'
      <3>1. activeRuns' \in [Keys -> Turns \cup {None}] /\ feishuInput' \subseteq Sessions
        BY <1>14 DEF TypeOK, PromptTimeout, Unregister
      <3>2. /\ pc' \in [Turns -> PcValues]
            /\ card' \in [Turns -> {"running", "done", "failed", "stopped"}]
            /\ body' \in [Turns -> {"streamed", "answer", "error"}]
        BY <1>14 DEF TypeOK, PromptTimeout, EndRun, Conclude, EnsureFinal, PcValues
      <3> QED BY <1>14, <3>1, <3>2 DEF TypeOK, PromptTimeout
    <2>2. LocalsOK' BY <1>14 DEF TypeOK, LocalsOK, PromptTimeout, Unregister, EndRun, Conclude, EnsureFinal
    <2> QED BY <2>1, <2>2
  <1>15. ASSUME NEW t \in Turns, CardClosed(t) PROVE TypeInv'
    <2>1. TypeOK' BY <1>15 DEF TypeOK, LocalsOK, PcValues, CardClosed
    <2>2. LocalsOK' BY <1>15 DEF TypeOK, LocalsOK, CardClosed
    <2> QED BY <2>1, <2>2
  <1>16. ASSUME NEW t \in Turns, Delta(t) PROVE TypeInv'
    <2>1. TypeOK'
      <3>1. mixed' \subseteq Turns
        <4>1. activeRuns[key[t]] \in Turns BY <1>16 DEF TypeOK, Delta, Receives
        <4>2. mixed' = mixed \/ mixed' = mixed \cup {activeRuns[key[t]]}
          BY <1>16 DEF Delta
        <4>3. mixed \subseteq Turns BY DEF TypeOK
        <4> QED BY <4>1, <4>2, <4>3
      <3> QED BY <1>16, <3>1 DEF TypeOK, Delta
    <2>2. LocalsOK' BY <1>16 DEF TypeOK, LocalsOK, Delta, Receives
    <2> QED BY <2>1, <2>2
  <1>17. ASSUME NEW t \in Turns, OrphanEnds(t) PROVE TypeInv'
    <2>1. TypeOK' BY <1>17 DEF TypeOK, LocalsOK, PcValues, OrphanEnds
    <2>2. LocalsOK' BY <1>17 DEF TypeOK, LocalsOK, OrphanEnds
    <2> QED BY <2>1, <2>2
  <1>18. ASSUME NEW i \in Stops, NEW k \in Keys, NEW r \in Turns \cup {None}, StopRequest(i, k, r) PROVE TypeInv'
    <2>1. TypeOK'
      <3>1. /\ stopPc' \in [Stops -> {"idle", "closing", "abort", "respond", "done"}]
            /\ stopResult' \in [Stops -> {"none", "stopped", "not_running", "stale", "failed", "error"}]
        BY <1>18 DEF TypeOK, StopRequest
      <3>2. /\ stopRun' \in [Stops -> Turns \cup {None}]
            /\ stopTarget' \in [Stops -> Turns \cup {None}]
        <4>1. activeRuns[k] \in Turns \cup {None} BY DEF TypeOK
        <4>2. stopRun' = [stopRun EXCEPT ![i] = r] BY <1>18 DEF StopRequest
        <4>3. stopTarget' = stopTarget \/ stopTarget' = [stopTarget EXCEPT ![i] = activeRuns[k]]
          BY <1>18 DEF StopRequest
        <4>4. /\ stopRun \in [Stops -> Turns \cup {None}]
              /\ stopTarget \in [Stops -> Turns \cup {None}]
          BY DEF TypeOK
        <4> QED BY <4>1, <4>2, <4>3, <4>4
      <3>3. /\ stopped' \in [Turns -> BOOLEAN]
            /\ card' \in [Turns -> {"running", "done", "failed", "stopped"}]
        <4>1. /\ stopped' = stopped \/ stopped' = [stopped EXCEPT ![activeRuns[k]] = TRUE]
              /\ card' = card \/ card' = [card EXCEPT ![activeRuns[k]] = "stopped"]
          BY <1>18 DEF StopRequest
        <4>2. stopped' \in [Turns -> BOOLEAN] BY <4>1 DEF TypeOK
        <4>3. card' \in [Turns -> {"running", "done", "failed", "stopped"}] BY <4>1 DEF TypeOK
        <4> QED BY <4>2, <4>3
      <3> QED BY <1>18, <3>1, <3>2, <3>3 DEF TypeOK, StopRequest
    <2>2. LocalsOK' BY <1>18 DEF TypeOK, LocalsOK, StopRequest, Stale
    <2> QED BY <2>1, <2>2
  <1>19. ASSUME NEW i \in Stops, StopCardClosed(i) PROVE TypeInv'
    <2>1. TypeOK'
      <3>1. shown' \in [Turns -> {"running", "answer", "error", "stopped", "notice"}]
        <4> DEFINE a == stopTarget[i]
        <4>1. CASE shown' = shown
          BY <4>1 DEF TypeOK
        <4>2. ASSUME NEW text \in {"stopped"} \cup ({body[a]} \ {"streamed"}),
                     shown' = [shown EXCEPT ![a] = text]
              PROVE  shown' \in [Turns -> {"running", "answer", "error", "stopped", "notice"}]
          <5>1. a \in Turns => text \in {"answer", "error", "stopped"}
            BY <4>2 DEF TypeOK
          <5>2. shown' = [t \in Turns |-> IF t = a THEN text ELSE shown[t]]
            BY <4>2 DEF TypeOK
          <5> HIDE DEF a
          <5> QED BY <5>1, <5>2 DEF TypeOK
        <4> QED BY <1>19, <4>1, <4>2 DEF StopCardClosed
      <3> QED BY <1>19, <3>1 DEF TypeOK, StopCardClosed
    <2>2. LocalsOK' BY <1>19 DEF TypeOK, LocalsOK, StopCardClosed
    <2> QED BY <2>1, <2>2
  <1>20. ASSUME NEW i \in Stops, StopAbort(i) PROVE TypeInv'
    <2>1. TypeOK'
      <3>1. /\ stopPc' \in [Stops -> {"idle", "closing", "abort", "respond", "done"}]
            /\ stopResult' \in [Stops -> {"none", "stopped", "not_running", "stale", "failed", "error"}]
        BY <1>20 DEF TypeOK, StopAbort
      <3>2. stopped' \in [Turns -> BOOLEAN]
        BY <1>20 DEF TypeOK, StopAbort
      <3>3. pi' \in [Turns -> {"none", "running", "aborted", "over"}]
        BY <1>20 DEF TypeOK, StopAbort
      <3> QED BY <1>20, <3>1, <3>2, <3>3 DEF TypeOK, StopAbort
    <2>2. LocalsOK' BY <1>20 DEF TypeOK, LocalsOK, StopAbort
    <2> QED BY <2>1, <2>2
  <1>21. ASSUME NEW i \in Stops, StopRespond(i) PROVE TypeInv'
    <2>1. TypeOK' BY <1>21 DEF TypeOK, LocalsOK, PcValues, StopRespond
    <2>2. LocalsOK' BY <1>21 DEF TypeOK, LocalsOK, StopRespond
    <2> QED BY <2>1, <2>2
  <1>22. CASE UNCHANGED vars
    BY <1>22 DEF vars, TypeOK, LocalsOK
  <1> QED
    BY <1>1, <1>2, <1>3, <1>4, <1>5, <1>6, <1>7, <1>8, <1>9, <1>10, <1>11, <1>12, <1>13, <1>14, <1>15, <1>16, <1>17, <1>18, <1>19, <1>20, <1>21, <1>22
    DEF Next, TurnStep

(* Every reachable state has the declared types.                            *)
THEOREM TypeCorrect == Spec => []TypeOK
  <1>1. Init => TypeInv BY InitTypeInv
  <1>2. TypeInv /\ [Next]_vars => TypeInv' BY NextTypeInv
  <1>3. TypeInv => TypeOK BY DEF TypeInv
  <1> QED BY <1>1, <1>2, <1>3, PTL DEF Spec

-----------------------------------------------------------------------------
(* The queue's promise chain: the tail of a key's queue is its last turn,   *)
(* and every turn waits for the last turn of its key before it.             *)
ChainOK ==
    /\ \A t \in Turns : pc[t] = "idle" <=> t > arrived
    /\ \A k \in Keys :
        /\ queues[k] <= arrived
        /\ queues[k] # None => key[queues[k]] = k
        /\ \A t \in Turns : t <= arrived /\ key[t] = k => t <= queues[k]
    /\ \A t \in Turns : t <= arrived =>
        /\ prev[t] < t
        /\ prev[t] # None => key[prev[t]] = key[t]
        /\ \A u \in Turns : u < t /\ key[u] = key[t] => u <= prev[t]

(* The step of a turn that goes from a to b and queues nothing.             *)
Moves(t, a, b) ==
    /\ UNCHANGED turnVars
    /\ pc[t] = a
    /\ pc' = [pc EXCEPT ![t] = b]

(* How any step of the system moves the program counters.                   *)
Progress ==
    \/ \E k \in Keys, kd \in Kinds : Enqueue(k, kd)
    \/ UNCHANGED turnVars /\ UNCHANGED pc
    \/ \E t \in Turns : \E b \in PcValues \ {"idle", "waiting"} :
        \/ MayStart(t) /\ b # "done" /\ Moves(t, "waiting", b)
        \/ \E a \in PcValues \ {"idle", "waiting", "done"} : Moves(t, a, b)

(* Every step queues a turn, moves one, or leaves the queue alone.          *)
LEMMA StepProgress == TypeOK /\ [Next]_vars => Progress
  <1> SUFFICES ASSUME TypeOK, [Next]_vars PROVE Progress
    OBVIOUS
  <1> USE DEF Goto, turnVars, stepVars
  <1>1. ASSUME NEW k \in Keys, NEW kd \in Kinds, Enqueue(k, kd) PROVE Progress
    BY <1>1 DEF Progress
  <1>2. ASSUME NEW k \in Keys, SessionCreated(k) \/ SessionFailed(k) \/ Status(k)
        PROVE Progress
    BY <1>2 DEF Progress, SessionCreated, SessionFailed, Status
  <1>3. ASSUME NEW t \in Turns, StartPrompt(t) \/ StartCommand(t) \/ StartResume(t)
        PROVE Progress
    <2>1. PICK b \in {"session", "replying", "dispose", "lookup"} :
            MayStart(t) /\ Moves(t, "waiting", b)
      BY <1>3 DEF Moves, MayStart, StartPrompt, StartCommand, StartResume,
                  DisposeCached, RefuseCommand
    <2> QED BY <2>1 DEF Progress, PcValues
  <1>4. ASSUME NEW t \in Turns, LookedUp(t) \/ Dispose(t) \/ Replied(t) PROVE Progress
    <2>1. PICK a \in {"lookup", "dispose", "replying"}, b \in {"replying", "dispose", "done"} :
            Moves(t, a, b)
      BY <1>4 DEF Moves, LookedUp, RefuseCommand, Dispose, Replied
    <2> QED BY <2>1 DEF Progress, PcValues
  <1>5. ASSUME NEW t \in Turns, RunPrompt(t) \/ SessionRejected(t) \/ CardClosed(t)
        PROVE Progress
    <2>1. PICK a \in {"session", "closing"}, b \in {"prompting", "closing", "done"} :
            Moves(t, a, b)
      BY <1>5 DEF Moves, RunPrompt, SessionRejected, Conclude, CardClosed
    <2> QED BY <2>1 DEF Progress, PcValues
  <1>6. ASSUME NEW t \in Turns, PromptReturns(t) \/ PromptTimeout(t) PROVE Progress
    <2>1. PICK b \in {"closing", "done"} : Moves(t, "prompting", b)
      BY <1>6 DEF Moves, PromptReturns, PromptTimeout, EndRun, Conclude
    <2> QED BY <2>1 DEF Progress, PcValues
  <1>7. ASSUME NEW t \in Turns, Delta(t) \/ OrphanEnds(t) PROVE Progress
    BY <1>7 DEF Progress, Delta, OrphanEnds
  <1>8. ASSUME NEW i \in Stops, \/ \E k \in Keys, r \in Turns \cup {None} : StopRequest(i, k, r)
                                \/ StopCardClosed(i) \/ StopAbort(i) \/ StopRespond(i)
        PROVE Progress
    BY <1>8 DEF Progress, StopRequest, StopCardClosed, StopAbort, StopRespond
  <1>9. CASE UNCHANGED vars
    BY <1>9 DEF vars, Progress
  <1> QED
    BY <1>1, <1>2, <1>3, <1>4, <1>5, <1>6, <1>7, <1>8, <1>9 DEF Next, TurnStep

(* The chain holds with timeouts, too.                                      *)
LEMMA NextChainOK == TypeOK /\ ChainOK /\ Progress => ChainOK'
  <1> SUFFICES ASSUME TypeOK, ChainOK, Progress PROVE ChainOK'
    OBVIOUS
  <1> USE ConstantFacts
  <1>1. ASSUME NEW k \in Keys, NEW kd \in Kinds, Enqueue(k, kd) PROVE ChainOK'
    <2> DEFINE n == arrived + 1
    <2>1. /\ n \in Turns /\ arrived' = n /\ n \in Nat /\ arrived \in Nat
          /\ key' = [key EXCEPT ![n] = k] /\ prev' = [prev EXCEPT ![n] = queues[k]]
          /\ queues' = [queues EXCEPT ![k] = n] /\ pc' = [pc EXCEPT ![n] = "waiting"]
      BY <1>1 DEF Enqueue, TypeOK
    <2>2. \A j \in Keys : queues[j] \in Nat
      <3>1. \A j \in Keys : queues[j] \in Turns \cup {None} BY DEF TypeOK
      <3> QED BY <3>1
    <2>3. \A t \in Turns : prev[t] \in Nat
      <3>1. \A t \in Turns : prev[t] \in Turns \cup {None} BY DEF TypeOK
      <3> QED BY <3>1
    <2>4. \A t \in Turns : pc'[t] = "idle" <=> t > arrived'
      BY <2>1 DEF ChainOK, TypeOK
    <2>5. ASSUME NEW j \in Keys
          PROVE  /\ queues'[j] <= arrived'
                 /\ queues'[j] # None => key'[queues'[j]] = j
                 /\ \A t \in Turns : t <= arrived' /\ key'[t] = j => t <= queues'[j]
      BY <2>1, <2>2 DEF ChainOK, TypeOK
    <2>6. ASSUME NEW t \in Turns, t <= arrived'
          PROVE  /\ prev'[t] < t
                 /\ prev'[t] # None => key'[prev'[t]] = key'[t]
                 /\ \A u \in Turns : u < t /\ key'[u] = key'[t] => u <= prev'[t]
      <3>1. CASE t = n
        BY <2>1, <2>2, <3>1 DEF ChainOK, TypeOK
      <3>2. CASE t # n
        <4>1. t <= arrived /\ prev'[t] = prev[t] /\ prev[t] # n
          BY <2>1, <2>3, <2>6, <3>2 DEF ChainOK, TypeOK
        <4>2. \A u \in Turns : u < t => u # n
          BY <2>1, <4>1
        <4> QED BY <2>1, <2>3, <4>1, <4>2 DEF ChainOK, TypeOK
      <3> QED BY <3>1, <3>2
    <2> QED BY <2>4, <2>5, <2>6 DEF ChainOK
  <1>2. CASE UNCHANGED turnVars /\ UNCHANGED pc
    BY <1>2 DEF turnVars, ChainOK
  <1>3. ASSUME NEW t \in Turns, NEW a \in PcValues \ {"idle"},
               NEW b \in PcValues \ {"idle", "waiting"}, Moves(t, a, b)
        PROVE  ChainOK'
    <2>1. \A u \in Turns : pc'[u] = "idle" <=> pc[u] = "idle"
      BY <1>3 DEF Moves, TypeOK
    <2> QED BY <1>3, <2>1 DEF Moves, turnVars, ChainOK
  <1> QED
    BY <1>1, <1>2, <1>3 DEF Progress, PcValues

LEMMA InitChainOK == Init => ChainOK /\ TurnsInOrder
  <1> SUFFICES ASSUME Init PROVE ChainOK /\ TurnsInOrder
    OBVIOUS
  <1>1. arrived = 0 /\ \A t \in Turns : pc[t] = "idle" /\ t \in Nat /\ t > 0
    BY MaxTurnsAssumption DEF Init, Turns
  <1>2. \A k \in Keys : queues[k] = 0
    BY DEF Init, None
  <1> QED BY <1>1, <1>2 DEF ChainOK, TurnsInOrder, None

(* Without queue timeouts no turn overtakes another of its conversation.    *)
LEMMA NextTurnsInOrder ==
    ASSUME ~QueueTimeouts, TypeOK, ChainOK, TurnsInOrder, Progress
    PROVE  TurnsInOrder'
  <1> USE ConstantFacts
  <1>1. ASSUME NEW k \in Keys, NEW kd \in Kinds, Enqueue(k, kd) PROVE TurnsInOrder'
    <2> DEFINE n == arrived + 1
    <2>1. /\ n \in Turns /\ arrived' = n /\ n \in Nat /\ arrived \in Nat
          /\ key' = [key EXCEPT ![n] = k] /\ pc' = [pc EXCEPT ![n] = "waiting"]
      BY <1>1 DEF Enqueue, TypeOK
    <2> SUFFICES ASSUME NEW t \in Turns, NEW u \in Turns, u < t, t <= arrived',
                        key'[u] = key'[t], pc'[t] # "waiting"
                 PROVE  pc'[u] = "done"
      BY DEF TurnsInOrder
    <2>2. t # n /\ u # n /\ t <= arrived
      BY <2>1 DEF TypeOK
    <2> QED BY <2>1, <2>2 DEF TurnsInOrder, TypeOK
  <1>2. CASE UNCHANGED turnVars /\ UNCHANGED pc
    BY <1>2 DEF turnVars, TurnsInOrder
  <1>3. ASSUME NEW t \in Turns, NEW b \in PcValues \ {"idle", "waiting"},
               MayStart(t), Moves(t, "waiting", b)
        PROVE  TurnsInOrder'
    <2>1. t <= arrived /\ prev[t] \in Nat
      BY <1>3 DEF ChainOK, Moves, TypeOK, Turns
    <2>2. ASSUME NEW u \in Turns, u < t, key[u] = key[t] PROVE pc[u] = "done"
      <3>1. u <= prev[t] /\ prev[t] # None /\ prev[t] \in Turns
        BY <2>1, <2>2 DEF ChainOK, TypeOK, Turns, None
      <3>2. pc[prev[t]] = "done" /\ key[prev[t]] = key[t] /\ prev[t] <= arrived
        BY <1>3, <2>1, <3>1 DEF MayStart, Settled, ChainOK, Turns, TypeOK
      <3>3. CASE u = prev[t]
        BY <3>2, <3>3
      <3>4. CASE u # prev[t]
        BY <2>2, <3>1, <3>2, <3>4 DEF TurnsInOrder, Turns
      <3> QED BY <3>3, <3>4
    <2>3. ASSUME NEW u \in Turns, t < u, u <= arrived, key[u] = key[t] PROVE pc[u] = "waiting"
      BY <1>3, <2>3 DEF TurnsInOrder, Moves
    <2> QED BY <1>3, <2>2, <2>3 DEF TurnsInOrder, Moves, turnVars, TypeOK
  <1>4. ASSUME NEW t \in Turns, NEW a \in PcValues \ {"idle", "waiting", "done"},
               NEW b \in PcValues \ {"idle", "waiting"}, Moves(t, a, b)
        PROVE  TurnsInOrder'
    BY <1>4 DEF TurnsInOrder, Moves, turnVars, TypeOK
  <1> QED
    BY <1>1, <1>2, <1>3, <1>4 DEF Progress

(* The turns of one conversation run one at a time, in the order in which   *)
(* they were queued, as long as no wait for a previous turn times out;      *)
(* prompts may time out.                                                    *)
THEOREM ConversationsAreSerial == ASSUME ~QueueTimeouts PROVE Spec => []TurnsInOrder
  <1> DEFINE IInv == TypeInv /\ ChainOK /\ TurnsInOrder
  <1>1. Init => IInv
    <2> SUFFICES ASSUME Init PROVE IInv
      OBVIOUS
    <2>1. TypeInv BY InitTypeInv
    <2>2. ChainOK /\ TurnsInOrder BY InitChainOK
    <2> QED BY <2>1, <2>2
  <1>2. IInv /\ [Next]_vars => IInv'
    BY NextTypeInv, StepProgress, NextChainOK, NextTurnsInOrder DEF TypeInv
  <1>3. IInv => TurnsInOrder
    OBVIOUS
  <1> QED BY <1>1, <1>2, <1>3, PTL DEF Spec

-----------------------------------------------------------------------------
(* The abstract queue: what TurnState makes of the steps of a turn.          *)
States == [t \in Turns |-> TurnState(t)]

LEMMA MappedMove ==
    ASSUME TypeOK, NEW t \in Turns, NEW a, NEW b, Moves(t, a, b)
    PROVE  /\ UNCHANGED key
           /\ States[t] = (IF a \in {"idle", "waiting", "done"} THEN a ELSE "running")
           /\ States' = [States EXCEPT ![t] = IF b \in {"idle", "waiting", "done"} THEN b ELSE "running"]
  <1>1. UNCHANGED key /\ pc[t] = a /\ pc'[t] = b /\ \A u \in Turns \ {t} : pc'[u] = pc[u]
    BY DEF Moves, turnVars, TypeOK
  <1>2. States[t] = IF a \in {"idle", "waiting", "done"} THEN a ELSE "running"
    BY <1>1 DEF States, TurnState
  <1>3. States'[t] = IF b \in {"idle", "waiting", "done"} THEN b ELSE "running"
    BY <1>1 DEF States, TurnState
  <1>4. \A u \in Turns \ {t} : States'[u] = States[u]
    BY <1>1 DEF States, TurnState
  <1>5. States \in [Turns -> {TurnState(u) : u \in Turns}] /\ States' = [u \in Turns |-> States'[u]]
    BY DEF States
  <1> QED BY <1>1, <1>2, <1>3, <1>4, <1>5

LEMMA MappedInit == Init => TQ!Init
  <1> SUFFICES ASSUME Init PROVE TQ!Init
    OBVIOUS
  <1>1. key \in [Turns -> Keys] /\ \A t \in Turns : pc[t] = "idle"
    BY InitTypeInv DEF Init, TypeInv, TypeOK
  <1>2. \A t \in Turns : TurnState(t) = "idle"
    BY <1>1 DEF TurnState
  <1> QED BY <1>1, <1>2 DEF TQ!Init, TQ!Turns, Turns

(* Every step is a step of the abstract queue or leaves it as it is.         *)
LEMMA MappedStep ==
    ASSUME TypeOK, ChainOK, Progress, TurnsInOrder'
    PROVE  [TQ!Next]_(TQ!vars)
  <1> USE ConstantFacts
  <1>0. Turns = TQ!Turns /\ TQ!vars = <<key, States>> /\ TQ!vars' = <<key', States'>>
    BY DEF TQ!Turns, Turns, TQ!vars, States
  <1>1. ASSUME NEW k \in Keys, NEW kd \in Kinds, Enqueue(k, kd) PROVE TQ!Next
    <2> DEFINE n == arrived + 1
    <2>1. /\ n \in Turns /\ n \in Nat /\ arrived \in Nat
          /\ key' = [key EXCEPT ![n] = k] /\ pc' = [pc EXCEPT ![n] = "waiting"]
      BY <1>1 DEF Enqueue, TypeOK
    <2>2. pc[n] = "idle" /\ \A u \in 1 .. n - 1 : u \in Turns /\ pc[u] # "idle"
      <3>1. pc[n] = "idle"
        BY <2>1 DEF ChainOK
      <3>2. ASSUME NEW u \in 1 .. n - 1 PROVE u \in Turns /\ ~(u > arrived)
        BY <2>1, <3>2, MaxTurnsAssumption DEF Turns
      <3> QED BY <3>1, <3>2 DEF ChainOK
    <2>3. States[n] = "idle" /\ \A u \in 1 .. n - 1 : States[u] # "idle"
      BY <2>1, <2>2 DEF States, TurnState
    <2>4. States' = [States EXCEPT ![n] = "waiting"]
      <3>1. pc'[n] = "waiting" /\ \A u \in Turns \ {n} : pc'[u] = pc[u]
        BY <2>1 DEF TypeOK
      <3>2. States'[n] = "waiting" /\ \A u \in Turns \ {n} : States'[u] = States[u]
        BY <2>1, <3>1 DEF States, TurnState
      <3>3. States \in [Turns -> {TurnState(u) : u \in Turns}] /\ States' = [u \in Turns |-> States'[u]]
        BY DEF States
      <3> QED BY <2>1, <3>2, <3>3
    <2>5. TQ!Accept(n, k)
      BY <2>1, <2>3, <2>4 DEF TQ!Accept, States
    <2> QED BY <1>0, <2>1, <2>5 DEF TQ!Next
  <1>2. ASSUME UNCHANGED turnVars /\ UNCHANGED pc PROVE UNCHANGED TQ!vars
    BY <1>2 DEF turnVars, TQ!vars, TurnState
  <1>3. ASSUME NEW t \in Turns, NEW b \in PcValues \ {"idle", "waiting", "done"}, Moves(t, "waiting", b)
        PROVE  TQ!Next
    <2>1. UNCHANGED key /\ States[t] = "waiting" /\ States' = [States EXCEPT ![t] = "running"]
      BY <1>3, MappedMove
    <2>2. ASSUME NEW u \in 1 .. t - 1, key[u] = key[t] PROVE States[u] = "done"
      <3>1. u \in Turns /\ u < t /\ u # t
        BY <2>2, MaxTurnsAssumption DEF Turns
      <3>2. t <= arrived' /\ pc'[t] # "waiting" /\ pc'[u] = pc[u] /\ UNCHANGED <<key, arrived>>
        BY <1>3, <3>1 DEF ChainOK, Moves, turnVars, TypeOK, Turns
      <3>3. pc[u] = "done"
        BY <2>2, <3>1, <3>2 DEF TurnsInOrder
      <3> QED BY <3>1, <3>3 DEF States, TurnState
    <2>3. TQ!Start(t)
      BY <2>1, <2>2 DEF TQ!Start, States
    <2> QED BY <1>0, <2>3 DEF TQ!Next
  <1>4. ASSUME NEW t \in Turns, NEW a \in PcValues \ {"idle", "waiting", "done"},
               NEW b \in PcValues \ {"idle", "waiting"}, Moves(t, a, b)
        PROVE  [TQ!Next]_(TQ!vars)
    <2>1. CASE b = "done"
      <3>1. UNCHANGED key /\ States[t] = "running" /\ States' = [States EXCEPT ![t] = "done"]
        BY <1>4, <2>1, MappedMove
      <3>2. TQ!Finish(t)
        BY <3>1 DEF TQ!Finish, States
      <3> QED BY <1>0, <3>2 DEF TQ!Next
    <2>2. CASE b # "done"
      <3>1. UNCHANGED key /\ States[t] = "running" /\ States' = [States EXCEPT ![t] = "running"]
        BY <1>4, <2>2, MappedMove
      <3>2. States' = States
        BY <3>1 DEF States
      <3> QED BY <1>0, <3>1, <3>2
    <2> QED BY <2>1, <2>2
  <1> QED BY <1>1, <1>2, <1>3, <1>4 DEF Progress

(* Without queue timeouts the manager implements the abstract queue, as far  *)
(* as what it may do is concerned; that turns end is ImplementsTurnQueue,    *)
(* which the runs check.                                                     *)
THEOREM QueueRefinesTurnQueue ==
    ASSUME ~QueueTimeouts PROVE Spec => TQ!Init /\ [][TQ!Next]_(TQ!vars)
  <1> DEFINE IInv == TypeInv /\ ChainOK /\ TurnsInOrder
  <1>1. Init => IInv /\ TQ!Init
    BY InitTypeInv, InitChainOK, MappedInit
  <1>2. IInv /\ [Next]_vars => IInv' /\ [TQ!Next]_(TQ!vars)
    BY NextTypeInv, StepProgress, NextChainOK, NextTurnsInOrder, MappedStep DEF TypeInv
  <1> QED BY <1>1, <1>2, PTL DEF Spec

-----------------------------------------------------------------------------
(* How a step changes the registry: a turn enters it when its prompt        *)
(* starts, leaves it when its prompt ends, and no other step touches it.    *)
Registration ==
    \/ UNCHANGED activeRuns /\ \A u \in Turns : pc'[u] = "prompting" <=> pc[u] = "prompting"
    \/ \E t \in Turns : Moves(t, "session", "prompting")
                        /\ activeRuns' = [activeRuns EXCEPT ![key[t]] = t]
    \/ \E t \in Turns, b \in {"closing", "done"} :
          /\ Moves(t, "prompting", b)
          /\ activeRuns' = IF activeRuns[key[t]] = t
                           THEN [activeRuns EXCEPT ![key[t]] = None] ELSE activeRuns

LEMMA StepRegistration == TypeOK /\ ChainOK /\ [Next]_vars => Registration
  <1> SUFFICES ASSUME TypeOK, ChainOK, [Next]_vars PROVE Registration
    OBVIOUS
  <1> USE DEF Goto, turnVars, stepVars, runVars
  <1>1. ASSUME NEW k \in Keys, NEW kd \in Kinds, Enqueue(k, kd) PROVE Registration
    <2>1. arrived + 1 \in Turns /\ pc[arrived + 1] = "idle"
      BY <1>1, MaxTurnsAssumption DEF Enqueue, ChainOK, TypeOK, Turns
    <2> QED BY <1>1, <2>1 DEF Enqueue, Registration, TypeOK
  <1>2. ASSUME NEW k \in Keys, SessionCreated(k) \/ SessionFailed(k) \/ Status(k)
        PROVE  Registration
    BY <1>2 DEF SessionCreated, SessionFailed, Status, Registration
  <1>3. ASSUME NEW t \in Turns, UNCHANGED activeRuns, pc[t] # "prompting",
               NEW b \in PcValues \ {"prompting"}, pc' = [pc EXCEPT ![t] = b]
        PROVE  Registration
    BY <1>3 DEF Registration, TypeOK
  <1>4. ASSUME NEW t \in Turns, StartPrompt(t) \/ StartCommand(t) \/ StartResume(t)
        PROVE  Registration
    <2>1. UNCHANGED activeRuns /\ pc[t] = "waiting"
          /\ \E b \in {"session", "replying", "dispose", "lookup"} : pc' = [pc EXCEPT ![t] = b]
      BY <1>4 DEF StartPrompt, StartCommand, StartResume, DisposeCached, RefuseCommand, MayStart
    <2> QED BY <1>3, <2>1 DEF PcValues
  <1>5. ASSUME NEW t \in Turns, \/ LookedUp(t) \/ Dispose(t) \/ Replied(t)
                                \/ SessionRejected(t) \/ CardClosed(t)
        PROVE  Registration
    <2>1. UNCHANGED activeRuns /\ pc[t] # "prompting"
          /\ \E b \in {"replying", "dispose", "closing", "done"} : pc' = [pc EXCEPT ![t] = b]
      BY <1>5 DEF LookedUp, RefuseCommand, Dispose, Replied, SessionRejected, Conclude, CardClosed
    <2> QED BY <1>3, <2>1 DEF PcValues
  <1>6. ASSUME NEW t \in Turns, RunPrompt(t) PROVE Registration
    BY <1>6 DEF RunPrompt, Registration, Moves
  <1>7. ASSUME NEW t \in Turns, PromptReturns(t) \/ PromptTimeout(t) PROVE Registration
    <2>1. \E b \in {"closing", "done"} : Moves(t, "prompting", b)
      BY <1>7 DEF Moves, PromptReturns, PromptTimeout, EndRun, Conclude
    <2>2. Unregister(t)
      BY <1>7 DEF PromptReturns, PromptTimeout
    <2> QED BY <2>1, <2>2 DEF Unregister, Registration
  <1>8. ASSUME NEW t \in Turns, Delta(t) \/ OrphanEnds(t) PROVE Registration
    BY <1>8 DEF Registration, Delta, OrphanEnds
  <1>9. ASSUME NEW i \in Stops, \/ \E k \in Keys, r \in Turns \cup {None} : StopRequest(i, k, r)
                                \/ StopCardClosed(i) \/ StopAbort(i) \/ StopRespond(i)
        PROVE  Registration
    BY <1>9 DEF Registration, StopRequest, StopCardClosed, StopAbort, StopRespond
  <1>10. CASE UNCHANGED vars
    BY <1>10 DEF vars, Registration
  <1> QED
    BY <1>1, <1>2, <1>4, <1>5, <1>6, <1>7, <1>8, <1>9, <1>10 DEF Next, TurnStep

(* A registered turn has been queued, so that queueing a turn does not      *)
(* change its key.                                                          *)
LEMMA NextRegistered ==
    ASSUME TypeOK, ChainOK, RegisteredIsPrompting, Registration, Progress
    PROVE  RegisteredIsPrompting'
  <1> USE ConstantFacts
  <1>1. ASSUME NEW t \in Turns, pc[t] = "prompting" PROVE key'[t] = key[t]
    <2>1. CASE \E k \in Keys, kd \in Kinds : Enqueue(k, kd)
      <3>1. t # arrived + 1
        BY <1>1 DEF ChainOK, TypeOK
      <3> QED BY <2>1, <3>1 DEF Enqueue, TypeOK
    <2>2. CASE UNCHANGED turnVars
      BY <2>2 DEF turnVars
    <2> QED BY <2>1, <2>2 DEF Progress, Moves
  <1>2. CASE UNCHANGED activeRuns /\ \A u \in Turns : pc'[u] = "prompting" <=> pc[u] = "prompting"
    <2>1. ASSUME NEW k \in Keys, activeRuns'[k] # None
          PROVE  pc'[activeRuns'[k]] = "prompting" /\ key'[activeRuns'[k]] = k
      <3>1. activeRuns'[k] = activeRuns[k] /\ activeRuns[k] \in Turns
        BY <1>2, <2>1 DEF TypeOK
      <3> QED BY <1>1, <1>2, <2>1, <3>1 DEF RegisteredIsPrompting
    <2> QED BY <2>1 DEF RegisteredIsPrompting
  <1>3. ASSUME NEW t \in Turns, Moves(t, "session", "prompting"),
               activeRuns' = [activeRuns EXCEPT ![key[t]] = t]
        PROVE  RegisteredIsPrompting'
    BY <1>3 DEF RegisteredIsPrompting, TypeOK, Moves, turnVars
  <1>4. ASSUME NEW t \in Turns, NEW b \in {"closing", "done"}, Moves(t, "prompting", b),
               activeRuns' = IF activeRuns[key[t]] = t
                             THEN [activeRuns EXCEPT ![key[t]] = None] ELSE activeRuns
        PROVE  RegisteredIsPrompting'
    BY <1>4 DEF RegisteredIsPrompting, TypeOK, Moves, turnVars
  <1> QED BY <1>2, <1>3, <1>4 DEF Registration

(* The registry never names a turn that is not being prompted, with or      *)
(* without timeouts: /stop cannot hit a run that is over.                   *)
THEOREM RegistryIsSound == Spec => []RegisteredIsPrompting
  <1> DEFINE IInv == TypeInv /\ ChainOK /\ RegisteredIsPrompting
  <1>1. Init => IInv
    <2>1. Init => RegisteredIsPrompting BY DEF Init, RegisteredIsPrompting
    <2> QED BY <2>1, InitTypeInv, InitChainOK
  <1>2. IInv /\ [Next]_vars => IInv'
    BY NextTypeInv, StepProgress, StepRegistration, NextChainOK, NextRegistered DEF TypeInv
  <1>3. IInv => RegisteredIsPrompting
    OBVIOUS
  <1> QED BY <1>1, <1>2, <1>3, PTL DEF Spec

(* A registered run is replaced by a newer one, or leaves with its own      *)
(* prompt: nobody takes another's registration away, overlapping turns and  *)
(* prompts that time out included.                                          *)
THEOREM RegistrationsAreKept == Spec => OwnRegistration
  <1> DEFINE IInv == TypeInv /\ ChainOK /\ RegisteredIsPrompting
             Kept == \A k \in Keys :
                        activeRuns[k] # None /\ activeRuns'[k] # activeRuns[k] =>
                            activeRuns'[k] # None \/ pc'[activeRuns[k]] # "prompting"
  <1>1. Init => IInv
    <2>1. Init => RegisteredIsPrompting BY DEF Init, RegisteredIsPrompting
    <2> QED BY <2>1, InitTypeInv, InitChainOK
  <1>2. IInv /\ [Next]_vars => IInv'
    BY NextTypeInv, StepProgress, StepRegistration, NextChainOK, NextRegistered DEF TypeInv
  <1>3. IInv /\ [Next]_vars => Kept
    <2> SUFFICES ASSUME IInv, [Next]_vars, NEW k \in Keys,
                        activeRuns[k] # None, activeRuns'[k] # activeRuns[k]
                 PROVE  activeRuns'[k] # None \/ pc'[activeRuns[k]] # "prompting"
      OBVIOUS
    <2>1. TypeOK /\ Registration
      BY StepRegistration DEF TypeInv
    <2>2. ASSUME NEW t \in Turns, activeRuns' = [activeRuns EXCEPT ![key[t]] = t]
          PROVE  activeRuns'[k] # None
      BY <2>1, <2>2, ConstantFacts DEF TypeOK
    <2>3. ASSUME NEW t \in Turns, NEW b \in {"closing", "done"}, Moves(t, "prompting", b),
                 activeRuns' = IF activeRuns[key[t]] = t
                               THEN [activeRuns EXCEPT ![key[t]] = None] ELSE activeRuns
          PROVE  pc'[activeRuns[k]] # "prompting"
      <3>1. activeRuns[k] = t
        BY <2>1, <2>3 DEF TypeOK
      <3> QED BY <2>1, <2>3, <3>1 DEF TypeOK, Moves
    <2> QED BY <2>1, <2>2, <2>3 DEF Registration
  <1>4. IInv /\ [Next]_vars => [Kept]_vars
    BY <1>3
  <1> QED BY <1>1, <1>2, <1>4, PTL DEF Spec, OwnRegistration

-----------------------------------------------------------------------------
(* The cards: a stopped run has a final card, a card that is being closed   *)
(* was closed by its own turn, and a turn that has not begun its prompt has *)
(* a running card.                                                          *)
CardInv ==
    \A t \in Turns :
        /\ stopped[t] => card[t] # "running"
        /\ pc[t] = "closing" => card[t] \in {"done", "failed"}
        /\ kind[t] = "prompt" /\ pc[t] = "done" => card[t] # "running"
        /\ pc[t] \in {"lookup", "dispose", "replying"} => kind[t] # "prompt"
        /\ pc[t] \in {"idle", "waiting", "session"} => card[t] = "running"

LEMMA InitCardInv == Init => CardInv
  BY DEF Init, CardInv

(* The races of the card's conclusions: every action keeps CardInv.         *)
LEMMA NextCardInv ==
    TypeOK /\ ChainOK /\ RegisteredIsPrompting /\ CardInv /\ [Next]_vars => CardInv'
  <1> SUFFICES ASSUME TypeOK, ChainOK, RegisteredIsPrompting, CardInv, [Next]_vars PROVE CardInv'
    OBVIOUS
  <1> USE DEF TypeOK, CardInv, Goto, StopGoto, turnVars, stepVars, sessionVars,
              stateVars, runVars, cardVars, stopVars
  <1>1. ASSUME NEW k \in Keys, NEW kd \in Kinds, Enqueue(k, kd) PROVE CardInv'
    <2>1. arrived + 1 \in Turns /\ pc[arrived + 1] = "idle"
      BY <1>1, MaxTurnsAssumption DEF Enqueue, ChainOK, Turns
    <2>2. card[arrived + 1] = "running"
      BY <2>1
    <2> QED BY <1>1, <2>1, <2>2 DEF Enqueue
  <1>2. ASSUME NEW k \in Keys, SessionCreated(k) \/ SessionFailed(k) \/ Status(k)
        PROVE  CardInv'
    BY <1>2 DEF SessionCreated, SessionFailed, Status
  <1>3. ASSUME NEW t \in Turns, StartPrompt(t) \/ StartResume(t) \/ RunPrompt(t)
        PROVE  CardInv'
    BY <1>3 DEF StartPrompt, StartResume, RunPrompt, MayStart
  <1>4. ASSUME NEW t \in Turns, StartCommand(t) PROVE CardInv'
    <2>1. kind[t] # "prompt" /\ UNCHANGED <<turnVars, runVars, cardVars>>
      BY <1>4 DEF StartCommand
    <2>2. pc' = [pc EXCEPT ![t] = "replying"] \/ pc' = [pc EXCEPT ![t] = "dispose"]
      BY <1>4 DEF StartCommand, DisposeCached, RefuseCommand
    <2> QED BY <2>1, <2>2
  <1>5. ASSUME NEW t \in Turns, LookedUp(t) PROVE CardInv'
    <2>1. pc[t] = "lookup" /\ UNCHANGED <<turnVars, runVars, cardVars>>
      BY <1>5 DEF LookedUp
    <2>2. pc' = [pc EXCEPT ![t] = "replying"] \/ pc' = [pc EXCEPT ![t] = "dispose"]
      BY <1>5 DEF LookedUp, RefuseCommand
    <2> QED BY <2>1, <2>2
  <1>6. ASSUME NEW t \in Turns, Dispose(t) \/ Replied(t) PROVE CardInv'
    BY <1>6 DEF Dispose, Replied
  <1>7. ASSUME NEW t \in Turns, SessionRejected(t) PROVE CardInv'
    BY <1>7 DEF SessionRejected, Conclude
  <1>8. ASSUME NEW t \in Turns, PromptReturns(t) PROVE CardInv'
    BY <1>8 DEF PromptReturns, EndRun, Conclude
  <1>9. ASSUME NEW t \in Turns, PromptTimeout(t) PROVE CardInv'
    BY <1>9 DEF PromptTimeout, EndRun, Conclude
  <1>10. ASSUME NEW t \in Turns, CardClosed(t) PROVE CardInv'
    BY <1>10 DEF CardClosed
  <1>11. ASSUME NEW t \in Turns, Delta(t) \/ OrphanEnds(t) PROVE CardInv'
    BY <1>11 DEF Delta, OrphanEnds
  <1>12. ASSUME NEW i \in Stops, NEW k \in Keys, NEW r \in Turns \cup {None},
                StopRequest(i, k, r)
         PROVE  CardInv'
    <2>1. UNCHANGED <<turnVars, pc>>
      BY <1>12 DEF StopRequest
    <2>2. \/ UNCHANGED <<stopped, card>>
          \/ /\ activeRuns[k] # None
             /\ stopped' = [stopped EXCEPT ![activeRuns[k]] = TRUE]
             /\ IF card[activeRuns[k]] = "running"
                THEN card' = [card EXCEPT ![activeRuns[k]] = "stopped"] ELSE UNCHANGED card
      BY <1>12 DEF StopRequest
    <2>3. activeRuns[k] # None => pc[activeRuns[k]] = "prompting"
      BY DEF RegisteredIsPrompting
    <2> QED BY <2>1, <2>2, <2>3
  <1>13. ASSUME NEW i \in Stops, StopCardClosed(i) PROVE CardInv'
    BY <1>13 DEF StopCardClosed
  <1>14. ASSUME NEW i \in Stops, StopAbort(i) PROVE CardInv'
    <2>1. UNCHANGED <<turnVars, pc, cardVars>>
          /\ (stopped' = stopped \/ stopped' = [stopped EXCEPT ![stopTarget[i]] = FALSE])
      BY <1>14 DEF StopAbort
    <2> QED BY <2>1
  <1>15. ASSUME NEW i \in Stops, StopRespond(i) PROVE CardInv'
    BY <1>15 DEF StopRespond
  <1>16. CASE UNCHANGED vars
    BY <1>16 DEF vars
  <1> QED
    BY <1>1, <1>2, <1>3, <1>4, <1>5, <1>6, <1>7, <1>8, <1>9, <1>10, <1>11, <1>12,
       <1>13, <1>14, <1>15, <1>16
    DEF Next, TurnStep

-----------------------------------------------------------------------------
(* Stop requests: a request has neither target nor result before its time.  *)
StopsOK ==
    \A i \in Stops :
        /\ stopPc[i] = "idle" => stopTarget[i] = None
        /\ stopPc[i] \in {"idle", "closing", "abort"} => stopResult[i] = "none"

FailedStop(i, t) == stopTarget[i] = t /\ stopResult[i] = "failed"

(* The text of a card is final only if its status is; on a stopped card the *)
(* text, and the stop's mark, can change only after another stop's abort    *)
(* has failed, and the reader sees it only if two stops hit the run.        *)
TextOK ==
    \A t \in Turns :
        /\ card[t] = "running" => body[t] = "streamed" /\ shown[t] \notin {"answer", "error"}
        /\ card[t] = "stopped" /\ (~stopped[t] \/ body[t] # "streamed") =>
                \E i \in Stops : FailedStop(i, t)
        /\ card[t] = "stopped" /\ shown[t] \in {"answer", "error"} =>
                \E i, j \in Stops : i # j /\ stopTarget[j] = t /\ FailedStop(i, t)

LEMMA NextStopsOK == TypeOK /\ StopsOK /\ [Next]_vars => StopsOK'
  <1> SUFFICES ASSUME TypeOK, StopsOK, [Next]_vars PROVE StopsOK'
    OBVIOUS
  <1> USE DEF TypeOK, StopsOK, StopGoto, stopVars
  <1>1. CASE UNCHANGED stopVars
    BY <1>1
  <1>2. ASSUME NEW i \in Stops, NEW k \in Keys, NEW r \in Turns \cup {None}, StopRequest(i, k, r)
        PROVE  StopsOK'
    BY <1>2 DEF StopRequest
  <1>3. ASSUME NEW i \in Stops, StopCardClosed(i) \/ StopAbort(i) \/ StopRespond(i)
        PROVE  StopsOK'
    BY <1>3 DEF StopCardClosed, StopAbort, StopRespond
  <1>4. ASSUME NEW k \in Keys, \/ \E kd \in Kinds : Enqueue(k, kd)
                               \/ SessionCreated(k) \/ SessionFailed(k) \/ Status(k)
        PROVE  UNCHANGED stopVars
    BY <1>4 DEF Enqueue, SessionCreated, SessionFailed, Status
  <1>5. ASSUME NEW t \in Turns, TurnStep(t) \/ Delta(t) \/ OrphanEnds(t)
        PROVE  UNCHANGED stopVars
    BY <1>5 DEF TurnStep, StartPrompt, StartCommand, StartResume, LookedUp, Dispose, Replied,
                RunPrompt, SessionRejected, PromptReturns, PromptTimeout, CardClosed, Delta, OrphanEnds
  <1>6. CASE UNCHANGED vars
    BY <1>6 DEF vars
  <1> QED BY <1>1, <1>2, <1>3, <1>4, <1>5, <1>6 DEF Next

(* How a turn's conclusion changes its card: the text always, the status    *)
(* only if it was running.                                                  *)
Concludes(t, status) ==
    /\ UNCHANGED <<stopped, shown, stopVars>>
    /\ body' = [body EXCEPT ![t] = IF status = "done" THEN "answer" ELSE "error"]
    /\ IF card[t] = "running" THEN card' = [card EXCEPT ![t] = status] ELSE UNCHANGED card

LEMMA ConcludesTextOK ==
    ASSUME TypeOK, TextOK, NEW t \in Turns, NEW status \in {"done", "failed"},
           Concludes(t, status), ~stopped[t]
    PROVE  TextOK'
  <1>1. ASSUME NEW u \in Turns, u # t
        PROVE  card'[u] = card[u] /\ body'[u] = body[u] /\ shown'[u] = shown[u]
               /\ stopped'[u] = stopped[u]
    BY <1>1 DEF Concludes, TypeOK
  <1>2. CASE card[t] = "running"
    <2>1. card'[t] = status
      BY <1>2 DEF Concludes, TypeOK
    <2> QED BY <1>1, <2>1 DEF TextOK, FailedStop, Concludes, stopVars
  <1>3. CASE card[t] # "running"
    <2>1. UNCHANGED <<card, shown, stopped, stopVars>>
      BY <1>3 DEF Concludes
    <2> QED BY <1>1, <1>3, <2>1 DEF TextOK, FailedStop, stopVars
  <1> QED BY <1>2, <1>3

LEMMA NextTextOK ==
    ASSUME TypeOK, RegisteredIsPrompting, CardInv, StopsOK, TextOK, [Next]_vars
    PROVE  TextOK'
  <1> USE ConstantFacts
  <1>0. ASSUME UNCHANGED <<stopTarget, stopResult>>
        PROVE  \A i \in Stops, t \in Turns : FailedStop(i, t) => FailedStop(i, t)'
    BY <1>0 DEF FailedStop
  <1>1. CASE UNCHANGED <<stopped, card, body, shown, stopVars>>
    <2>1. \A i \in Stops, t \in Turns : FailedStop(i, t) => FailedStop(i, t)'
      BY <1>0, <1>1 DEF stopVars
    <2> QED BY <1>1, <2>1 DEF TextOK, stopVars
  <1>2. ASSUME NEW t \in Turns, SessionRejected(t) PROVE TextOK'
    <2>1. ~stopped[t] /\ Concludes(t, "failed")
      BY <1>2 DEF SessionRejected, CardInv, Concludes, Conclude, EnsureFinal, runVars, TypeOK
    <2> QED BY <2>1, ConcludesTextOK
  <1>3. ASSUME NEW t \in Turns, PromptReturns(t) \/ PromptTimeout(t) PROVE TextOK'
    <2>1. PICK status \in {"done", "failed"} : EndRun(t, status)
      BY <1>3 DEF PromptReturns, PromptTimeout
    <2>2. UNCHANGED <<stopped, shown, stopVars>>
      BY <1>3 DEF PromptReturns, PromptTimeout
    <2>3. CASE stopped[t]
      BY <1>1, <2>1, <2>2, <2>3 DEF EndRun
    <2>4. CASE ~stopped[t]
      <3>1. Concludes(t, status)
        BY <2>1, <2>2, <2>4 DEF EndRun, Conclude, EnsureFinal, Concludes
      <3> QED BY <2>4, <3>1, ConcludesTextOK
    <2> QED BY <2>3, <2>4
  <1>4. ASSUME NEW t \in Turns, CardClosed(t) PROVE TextOK'
    <2>1. card[t] \in {"done", "failed"} /\ UNCHANGED <<stopped, card, body, stopVars>>
      BY <1>4 DEF CardClosed, CardInv, runVars
    <2>2. \A u \in Turns : u # t => shown'[u] = shown[u]
      BY <1>4 DEF CardClosed, TypeOK
    <2>3. \A i \in Stops, u \in Turns : FailedStop(i, u) => FailedStop(i, u)'
      BY <1>0, <2>1 DEF stopVars
    <2> QED BY <2>1, <2>2, <2>3 DEF TextOK, stopVars
  <1>5. ASSUME NEW i \in Stops, NEW k \in Keys, NEW r \in Turns \cup {None}, StopRequest(i, k, r)
        PROVE  TextOK'
    <2> DEFINE a == activeRuns[k]
    <2>1. /\ UNCHANGED <<body, shown>>
          /\ stopTarget[i] = None /\ stopResult[i] = "none"
          /\ \A j \in Stops : j # i => stopTarget'[j] = stopTarget[j] /\ stopResult'[j] = stopResult[j]
      BY <1>5 DEF StopRequest, StopsOK, TypeOK
    <2>2. \A t \in Turns, j \in Stops : /\ stopTarget[j] = t => stopTarget'[j] = t
                                        /\ FailedStop(j, t) => FailedStop(j, t)'
      BY <2>1 DEF FailedStop
    <2>3. \/ UNCHANGED <<stopped, card>>
          \/ /\ stopped' = [stopped EXCEPT ![a] = TRUE]
             /\ IF card[a] = "running"
                THEN card' = [card EXCEPT ![a] = "stopped"] ELSE UNCHANGED card
      BY <1>5 DEF StopRequest
    <2>4. ASSUME NEW t \in Turns
          PROVE  \/ stopped'[t] = stopped[t] /\ card'[t] = card[t]
                 \/ stopped'[t] = TRUE /\ card'[t] = card[t]
                 \/ stopped'[t] = TRUE /\ card[t] = "running" /\ card'[t] = "stopped"
      <3>1. CASE t = a
        BY <2>3, <3>1 DEF TypeOK
      <3>2. CASE t # a
        BY <2>3, <3>2 DEF TypeOK
      <3> QED BY <3>1, <3>2
    <2>5. ASSUME NEW t \in Turns
          PROVE  /\ card'[t] = "running" => body'[t] = "streamed" /\ shown'[t] \notin {"answer", "error"}
                 /\ card'[t] = "stopped" /\ (~stopped'[t] \/ body'[t] # "streamed") =>
                        \E j \in Stops : FailedStop(j, t)'
                 /\ card'[t] = "stopped" /\ shown'[t] \in {"answer", "error"} =>
                        \E p, j \in Stops : p # j /\ stopTarget'[j] = t /\ FailedStop(p, t)'
      <3>1. CASE stopped'[t] = stopped[t] /\ card'[t] = card[t]
        <4>1. (stopped'[t] <=> stopped[t]) /\ body'[t] = body[t] /\ shown'[t] = shown[t]
          BY <2>1, <3>1, Zenon
        <4>2. /\ (\E j \in Stops : FailedStop(j, t)) => \E j \in Stops : FailedStop(j, t)'
              /\ (\E p, j \in Stops : p # j /\ stopTarget[j] = t /\ FailedStop(p, t)) =>
                    \E p, j \in Stops : p # j /\ stopTarget'[j] = t /\ FailedStop(p, t)'
          BY <2>2
        <4> QED BY <3>1, <4>1, <4>2, Zenon DEF TextOK
      <3>2. CASE stopped'[t] = TRUE /\ card'[t] = card[t]
        BY <2>1, <2>2, <3>2 DEF TextOK
      <3>3. CASE stopped'[t] = TRUE /\ card[t] = "running" /\ card'[t] = "stopped"
        BY <2>1, <2>2, <3>3 DEF TextOK
      <3> QED BY <2>4, <3>1, <3>2, <3>3
    <2> QED BY <2>5 DEF TextOK
  <1>6. ASSUME NEW i \in Stops, StopCardClosed(i) PROVE TextOK'
    <2> DEFINE a == stopTarget[i]
    <2>1. UNCHANGED <<stopped, card, body, stopTarget>> /\ stopResult[i] = "none"
          /\ \A j \in Stops : j # i => stopResult'[j] = stopResult[j]
      BY <1>6 DEF StopCardClosed, StopsOK, runVars, TypeOK
    <2>2. \A t \in Turns, j \in Stops : FailedStop(j, t) => FailedStop(j, t)'
      BY <2>1 DEF FailedStop
    <2>3. ASSUME NEW t \in Turns, shown'[t] # shown[t]
          PROVE  a = t /\ (shown'[t] = "stopped" \/ (shown'[t] = body[t] /\ body[t] # "streamed"))
      <3>1. PICK text \in {"stopped"} \cup ({body[a]} \ {"streamed"}) :
              shown' = [shown EXCEPT ![a] = text]
        BY <1>6, <2>3 DEF StopCardClosed
      <3>2. shown'[t] = IF t = a THEN text ELSE shown[t]
        BY <3>1 DEF TypeOK
      <3>3. text = "stopped" \/ (text = body[a] /\ body[a] # "streamed")
        OBVIOUS
      <3> HIDE DEF a
      <3> QED BY <2>3, <3>2, <3>3
    <2>4. ASSUME NEW t \in Turns, card[t] = "running" PROVE shown'[t] \notin {"answer", "error"}
      BY <2>3, <2>4 DEF TextOK
    <2>5. ASSUME NEW t \in Turns, card[t] = "stopped", shown'[t] \in {"answer", "error"}
          PROVE  \E p, j \in Stops : p # j /\ stopTarget[j] = t /\ FailedStop(p, t)
      <3>1. CASE shown'[t] = shown[t]
        BY <2>5, <3>1 DEF TextOK
      <3>2. CASE shown'[t] # shown[t]
        <4>1. a = t /\ body[t] # "streamed"
          BY <2>3, <2>5, <3>2
        <4>2. PICK p \in Stops : FailedStop(p, t)
          BY <2>5, <4>1 DEF TextOK
        <4>3. p # i
          BY <2>1, <4>2 DEF FailedStop
        <4> QED BY <4>1, <4>2, <4>3
      <3> QED BY <3>1, <3>2
    <2>6. ASSUME NEW t \in Turns, card[t] = "stopped", ~stopped[t] \/ body[t] # "streamed"
          PROVE  \E p \in Stops : FailedStop(p, t)'
      BY <2>2, <2>6 DEF TextOK
    <2>7. ASSUME NEW t \in Turns, card[t] = "stopped", shown'[t] \in {"answer", "error"}
          PROVE  \E p, j \in Stops : p # j /\ stopTarget'[j] = t /\ FailedStop(p, t)'
      BY <2>1, <2>2, <2>5, <2>7
    <2> QED BY <2>1, <2>4, <2>6, <2>7 DEF TextOK
  <1>7. ASSUME NEW i \in Stops, StopAbort(i) PROVE TextOK'
    <2>1. UNCHANGED <<card, body, shown, stopTarget>> /\ stopResult[i] = "none"
          /\ \A j \in Stops : j # i => stopResult'[j] = stopResult[j]
      BY <1>7 DEF StopAbort, StopsOK, cardVars, TypeOK
    <2>2. \A t \in Turns, j \in Stops : FailedStop(j, t) => FailedStop(j, t)'
      BY <2>1 DEF FailedStop
    <2>3. ASSUME NEW t \in Turns, stopped[t], ~stopped'[t] PROVE FailedStop(i, t)'
      BY <1>7, <2>3 DEF StopAbort, FailedStop, TypeOK
    <2> QED BY <2>1, <2>2, <2>3 DEF TextOK, TypeOK
  <1>8. ASSUME NEW i \in Stops, StopRespond(i) PROVE TextOK'
    <2>1. UNCHANGED <<stopped, card, body, stopTarget, stopResult>>
      BY <1>8 DEF StopRespond, runVars
    <2>2. \A t \in Turns : shown'[t] # shown[t] => shown'[t] \in {"stopped", "notice"}
      BY <1>8 DEF StopRespond, TypeOK
    <2>3. \A j \in Stops, t \in Turns : FailedStop(j, t) => FailedStop(j, t)'
      BY <1>0, <2>1
    <2> QED BY <2>1, <2>2, <2>3 DEF TextOK
  <1>9. ASSUME NEW k \in Keys, \/ \E kd \in Kinds : Enqueue(k, kd)
                               \/ SessionCreated(k) \/ SessionFailed(k) \/ Status(k)
        PROVE  TextOK'
    BY <1>1, <1>9 DEF Enqueue, SessionCreated, SessionFailed, Status, runVars, cardVars
  <1>10. ASSUME NEW t \in Turns, \/ StartPrompt(t) \/ StartCommand(t) \/ StartResume(t)
                                 \/ LookedUp(t) \/ Dispose(t) \/ Replied(t) \/ RunPrompt(t)
                                 \/ Delta(t) \/ OrphanEnds(t)
        PROVE  TextOK'
    BY <1>1, <1>10 DEF StartPrompt, StartCommand, StartResume, LookedUp, Dispose, Replied, RunPrompt,
                       Delta, OrphanEnds, runVars, cardVars
  <1>11. CASE UNCHANGED vars
    BY <1>1, <1>11 DEF vars, runVars, cardVars
  <1> QED
    BY <1>2, <1>3, <1>4, <1>5, <1>6, <1>7, <1>8, <1>9, <1>10, <1>11 DEF Next, TurnStep

(* The invariant of the cards holds throughout.                             *)
CardsInv == TypeInv /\ ChainOK /\ RegisteredIsPrompting /\ CardInv /\ StopsOK /\ TextOK

LEMMA CardsConclude == Spec => []CardsInv
  <1>1. Init => CardsInv
    <2> SUFFICES ASSUME Init PROVE CardsInv
      OBVIOUS
    <2>1. RegisteredIsPrompting BY DEF Init, RegisteredIsPrompting
    <2>2. StopsOK /\ TextOK BY DEF Init, StopsOK, TextOK
    <2> QED BY <2>1, <2>2, InitTypeInv, InitChainOK, InitCardInv DEF CardsInv
  <1>2. CardsInv /\ [Next]_vars => CardsInv'
    <2> SUFFICES ASSUME CardsInv, [Next]_vars PROVE CardsInv'
      OBVIOUS
    <2> USE DEF CardsInv
    <2>1. TypeInv' /\ ChainOK' /\ RegisteredIsPrompting'
      BY NextTypeInv, StepProgress, StepRegistration, NextChainOK, NextRegistered DEF TypeInv
    <2>2. CardInv' /\ StopsOK' /\ TextOK'
      BY NextCardInv, NextStopsOK, NextTextOK DEF TypeInv
    <2> QED BY <2>1, <2>2
  <1> QED BY <1>1, <1>2, PTL DEF Spec

(* However answers, errors, timeouts and stops race, a prompt that is over  *)
(* has a card with a final status.                                          *)
THEOREM NoCardSpins == Spec => []NoCardLeftRunning
  <1>1. CardsInv => NoCardLeftRunning
    BY DEF CardsInv, CardInv, NoCardLeftRunning
  <1> QED BY <1>1, CardsConclude, PTL

(* The card of a run that one stop hit never shows an answer or an error,   *)
(* not even when the abort failed and the prompt went on; it takes a second *)
(* stop of the same run whose abort fails.                                  *)
THEOREM StoppedCardsStand == Spec => []StoppedStaysStopped
  <1>1. CardsInv => StoppedStaysStopped
    BY DEF CardsInv, TextOK, FailedStop, StoppedStaysStopped
  <1> QED BY <1>1, CardsConclude, PTL

(* Of answer, error, timeout and stop, the first that gives the card a       *)
(* status decides it: no step changes a final one.                          *)
LEMMA StepConclusion ==
    TypeOK /\ [Next]_vars => \A t \in Turns : card[t] # "running" => card'[t] = card[t]
  <1> SUFFICES ASSUME TypeOK, [Next]_vars, NEW t \in Turns, card[t] # "running"
               PROVE  card'[t] = card[t]
    OBVIOUS
  <1> USE DEF cardVars
  <1>1. CASE UNCHANGED card
    BY <1>1
  <1>2. ASSUME NEW u \in Turns, NEW status \in {"done", "failed"}, Conclude(u, status)
        PROVE  card'[t] = card[t]
    BY <1>2 DEF Conclude, TypeOK
  <1>3. ASSUME NEW u \in Turns, SessionRejected(u) PROVE card'[t] = card[t]
    BY <1>2, <1>3 DEF SessionRejected
  <1>4. ASSUME NEW u \in Turns, PromptReturns(u) \/ PromptTimeout(u) PROVE card'[t] = card[t]
    <2>1. \E status \in {"done", "failed"} : EndRun(u, status)
      BY <1>4 DEF PromptReturns, PromptTimeout
    <2> QED BY <1>1, <1>2, <2>1 DEF EndRun
  <1>5. ASSUME NEW i \in Stops, NEW k \in Keys, NEW r \in Turns \cup {None}, StopRequest(i, k, r)
        PROVE  card'[t] = card[t]
    <2>1. \/ UNCHANGED card
          \/ card[activeRuns[k]] = "running"
             /\ card' = [card EXCEPT ![activeRuns[k]] = "stopped"]
      BY <1>5 DEF StopRequest
    <2> QED BY <2>1 DEF TypeOK
  <1>6. ASSUME NEW k \in Keys, \/ \E kd \in Kinds : Enqueue(k, kd)
                               \/ SessionCreated(k) \/ SessionFailed(k) \/ Status(k)
        PROVE  UNCHANGED card
    BY <1>6 DEF Enqueue, SessionCreated, SessionFailed, Status
  <1>7. ASSUME NEW u \in Turns, \/ StartPrompt(u) \/ StartCommand(u) \/ StartResume(u)
                                \/ LookedUp(u) \/ Dispose(u) \/ Replied(u) \/ RunPrompt(u)
                                \/ CardClosed(u) \/ Delta(u) \/ OrphanEnds(u)
        PROVE  UNCHANGED card
    BY <1>7 DEF StartPrompt, StartCommand, StartResume, LookedUp, Dispose, Replied, RunPrompt,
                CardClosed, Delta, OrphanEnds
  <1>8. ASSUME NEW i \in Stops, StopCardClosed(i) \/ StopAbort(i) \/ StopRespond(i)
        PROVE  UNCHANGED card
    BY <1>8 DEF StopCardClosed, StopAbort, StopRespond
  <1>9. CASE UNCHANGED vars
    BY <1>9 DEF vars
  <1> QED
    BY <1>1, <1>3, <1>4, <1>5, <1>6, <1>7, <1>8, <1>9 DEF Next, TurnStep

(* A final status of a card is final, however its conclusions race.         *)
THEOREM ConclusionsAreFinal == Spec => FirstConclusionWins
  <1> DEFINE Wins == \A t \in Turns : card[t] # "running" => card'[t] = card[t]
  <1>1. Init => TypeInv BY InitTypeInv
  <1>2. TypeInv /\ [Next]_vars => TypeInv' BY NextTypeInv
  <1>3. TypeInv /\ [Next]_vars => [Wins]_vars
    BY StepConclusion DEF TypeInv
  <1> QED BY <1>1, <1>2, <1>3, PTL DEF Spec, FirstConclusionWins

=============================================================================
