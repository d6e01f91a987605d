--------------------------- MODULE Session_proofs ---------------------------
(***************************************************************************)
(* Proofs about the Pi sessions of Conversation: as long as no wait for a  *)
(* previous turn times out, a prompt runs in the live cached session, made *)
(* for the workspace and the model now chosen, the stored file lies in the *)
(* stored workspace, and the registry and the bridge name exactly the      *)
(* turns that are being prompted.                                          *)
(***************************************************************************)
EXTENDS Conversation_proofs

(* A session belongs to one conversation, in whose cache it lies from its   *)
(* creation until it is disposed, and a turn uses the one in the cache.     *)
CacheOK ==
    /\ \A t \in Turns : pc[t] \in {"idle", "waiting"} => sState[t] = "free"
    /\ \A k \in Keys : sessions[k] # None => sState[sessions[k]] \notin {"free", "disposed"}
    /\ \A k, j \in Keys : sessions[k] # None /\ sessions[k] = sessions[j] => k = j
    /\ \A t \in Turns :
        /\ pc[t] \in {"session", "prompting", "dispose"} => sess[t] = sessions[key[t]]
        /\ pc[t] = "prompting" => sState[sess[t]] = "ready"

(* Whatever is stored as a file is one that some session has created or     *)
(* reopened, in the directory of that session.                              *)
FilesOK ==
    /\ \A k \in Keys : file[k] # None => sState[file[k]] # "free"
    /\ \A f \in written : sState[f] # "free"
    /\ \A t \in Turns : arg[t] # None => sState[arg[t]] # "free"
    /\ \A s \in Sessions : sState[s] # "free" =>
        sState[sFile[s]] # "free" /\ sWorkspace[sFile[s]] = sWorkspace[s]

(* The cached session is one for the current choice, but for a model that   *)
(* was changed by a turn that is about to dispose it.                       *)
ChoiceOK ==
    \A k \in Keys : sessions[k] # None =>
        /\ sWorkspace[sessions[k]] = workspaces[k]
        /\ \/ sModel[sessions[k]] = models[k]
           \/ \E t \in Turns : key[t] = k /\ pc[t] = "dispose"

(* Both registers name every turn that is being prompted, and nothing else. *)
RegisterOK ==
    /\ \A t \in Turns : pc[t] = "prompting" => activeRuns[key[t]] = t
    /\ feishuInput = {sess[t] : t \in {u \in Turns : pc[u] = "prompting"}}

SessionInv == CacheOK /\ FilesOK /\ FileInWorkspace /\ ChoiceOK /\ RegisterOK

(* What the steps start from.                                               *)
Busy(t) == pc[t] \notin {"idle", "waiting", "done"}
Alone == \A t, u \in Turns : key[t] = key[u] /\ Busy(t) /\ Busy(u) => t = u
Before == TypeInv /\ ChainOK /\ Alone /\ SessionInv

(* At most one turn of a conversation is under way.                         *)
LEMMA OneAtATime == TypeOK /\ ChainOK /\ TurnsInOrder => Alone
  <1> SUFFICES ASSUME TypeOK, ChainOK, TurnsInOrder, NEW t \in Turns, NEW u \in Turns,
                      key[t] = key[u], Busy(t), Busy(u)
               PROVE  t = u
    BY DEF Alone
  <1>1. t \in Nat /\ u \in Nat /\ t <= arrived /\ u <= arrived
    BY ConstantFacts DEF ChainOK, Busy, TypeOK, Turns
  <1>2. ~(u < t) /\ ~(t < u)
    BY <1>1 DEF TurnsInOrder, Busy
  <1> QED BY <1>1, <1>2

LEMMA InitSessionInv == Init => SessionInv
  <1> SUFFICES ASSUME Init PROVE SessionInv
    OBVIOUS
  <1>1. Turns \subseteq Sessions
    BY ConstantFacts
  <1>2. CacheOK /\ FilesOK /\ FileInWorkspace /\ ChoiceOK
    BY <1>1 DEF Init, CacheOK, FilesOK, FileInWorkspace, ChoiceOK
  <1>3. RegisterOK
    BY DEF Init, RegisterOK
  <1> QED BY <1>2, <1>3 DEF SessionInv

(* The registers stay exact when nothing that prompts changes.              *)
LEMMA RegistersKept ==
    ASSUME RegisterOK, UNCHANGED <<activeRuns, feishuInput>>,
           \A t \in Turns : /\ pc'[t] = "prompting" <=> pc[t] = "prompting"
                            /\ pc[t] = "prompting" => key'[t] = key[t] /\ sess'[t] = sess[t]
    PROVE  RegisterOK'
  <1>1. {u \in Turns : pc'[u] = "prompting"} = {u \in Turns : pc[u] = "prompting"}
    OBVIOUS
  <1>2. {sess'[t] : t \in {u \in Turns : pc[u] = "prompting"}}
          = {sess[t] : t \in {u \in Turns : pc[u] = "prompting"}}
    OBVIOUS
  <1> QED BY <1>1, <1>2 DEF RegisterOK

(* Steps that leave sessions, choices and registers alone, and take no turn *)
(* into or out of its prompt.                                               *)
LEMMA QuietSteps ==
    ASSUME Before,
           UNCHANGED <<sessionVars, stateVars, sess, arg, written, activeRuns, feishuInput>>,
           \A t \in Turns :
              \/ key'[t] = key[t] /\ pc'[t] = pc[t]
              \/ pc[t] = "idle" /\ pc'[t] = "waiting"
              \/ /\ key'[t] = key[t]
                 /\ pc[t] \in {"waiting", "lookup", "session", "replying", "closing"}
                 /\ pc'[t] \in {"lookup", "replying", "closing", "done"}
    PROVE  SessionInv'
  <1> USE DEF Before, SessionInv, sessionVars, stateVars
  <1>1. CacheOK'
    <2>1. UNCHANGED <<sState, sessions, sess>> /\ CacheOK
      OBVIOUS
    <2>2. ASSUME NEW t \in Turns
          PROVE  /\ pc'[t] \in {"idle", "waiting"} => sState'[t] = "free"
                 /\ pc'[t] \in {"session", "prompting", "dispose"} => sess'[t] = sessions'[key'[t]]
                 /\ pc'[t] = "prompting" => sState'[sess'[t]] = "ready"
      <3>1. CASE key'[t] = key[t] /\ pc'[t] = pc[t]
        BY <2>1, <3>1 DEF CacheOK
      <3>2. CASE pc'[t] # pc[t]
        BY <2>1, <3>2 DEF CacheOK
      <3> QED BY <3>1, <3>2
    <2> QED BY <2>1, <2>2 DEF CacheOK
  <1>2. FilesOK' /\ FileInWorkspace'
    BY DEF FilesOK, FileInWorkspace
  <1>3. ChoiceOK'
    BY DEF ChoiceOK
  <1>4. RegisterOK'
    <2>1. \A t \in Turns : /\ pc'[t] = "prompting" <=> pc[t] = "prompting"
                           /\ pc[t] = "prompting" => key'[t] = key[t] /\ sess'[t] = sess[t]
      OBVIOUS
    <2> QED BY <2>1, RegistersKept
  <1> QED BY <1>1, <1>2, <1>3, <1>4

(* A new session, created for the current choice by a turn or by /status.   *)
LEMMA CreatingSteps ==
    ASSUME Before, NEW k \in Keys, NEW s \in Sessions, sessions[k] = None, sState[s] = "free",
           CreateSession(s, k), UNCHANGED <<turnVars, stateVars, runVars, arg>>,
           \/ UNCHANGED <<pc, sess>> /\ s \notin Turns
           \/ s \in Turns /\ pc[s] = "waiting" /\ key[s] = k
              /\ Goto(s, "session") /\ sess' = [sess EXCEPT ![s] = s]
    PROVE  SessionInv'
  <1> USE ConstantFacts
      DEF Before, SessionInv, TypeInv, TypeOK, CreateSession, Goto, turnVars, stateVars, runVars
  <1>1. /\ s # None /\ sessions' = [sessions EXCEPT ![k] = s]
        /\ \A j \in Keys : sessions[j] # s /\ file[j] # s
        /\ \A t \in Turns : pc[t] \in {"session", "prompting", "dispose"} =>
              sess[t] = sessions[key[t]] /\ sess[t] # s /\ sess[t] \in Sessions /\ key[t] # k
    BY DEF CacheOK, FilesOK, LocalsOK
  <1>2. CacheOK'
    <2>1. \A r \in Sessions : sState'[r] = IF r = s THEN "creating" ELSE sState[r]
      OBVIOUS
    <2>2. ASSUME NEW t \in Turns
          PROVE  /\ pc'[t] \in {"idle", "waiting"} => sState'[t] = "free"
                 /\ pc'[t] \in {"session", "prompting", "dispose"} => sess'[t] = sessions'[key'[t]]
                 /\ pc'[t] = "prompting" => sState'[sess'[t]] = "ready"
      BY <1>1, <2>1 DEF CacheOK
    <2>3. ASSUME NEW j \in Keys, sessions'[j] # None
          PROVE  /\ sState'[sessions'[j]] \notin {"free", "disposed"}
                 /\ \A l \in Keys : sessions'[l] = sessions'[j] => l = j
      BY <1>1, <2>1, <2>3 DEF CacheOK
    <2> QED BY <2>2, <2>3 DEF CacheOK
  <1>3. FilesOK' /\ FileInWorkspace'
    BY <1>1 DEF FilesOK, FileInWorkspace
  <1>4. ChoiceOK'
    BY <1>1 DEF ChoiceOK
  <1>5. RegisterOK'
    <2>1. UNCHANGED key /\ \A t \in Turns : /\ pc'[t] = "prompting" <=> pc[t] = "prompting"
                                            /\ pc[t] = "prompting" => sess'[t] = sess[t]
      OBVIOUS
    <2> QED BY <2>1, RegistersKept
  <1> QED BY <1>2, <1>3, <1>4, <1>5

(* A creation settles: the file of the session becomes the key's file.      *)
LEMMA CreationSettles ==
    ASSUME Before, NEW k \in Keys, SessionCreated(k) \/ SessionFailed(k)
    PROVE  SessionInv'
  <1> DEFINE s == sessions[k]
  <1> USE DEF Before, SessionInv, TypeInv, TypeOK, turnVars, stepVars, runVars, stateVars
  <1>1. /\ s \in Sessions /\ sState[s] = "creating"
        /\ UNCHANGED <<key, pc, sess, arg, activeRuns, feishuInput, written, sessions,
                       sWorkspace, sModel, sFile, workspaces, models>>
        /\ \/ sState' = [sState EXCEPT ![s] = "ready"]
           \/ sState' = [sState EXCEPT ![s] = "failed"]
        /\ file' = file \/ file' = [file EXCEPT ![k] = sFile[s]]
    BY DEF SessionCreated, SessionFailed
  <1>2. /\ sState'[s] \in {"ready", "failed"}
        /\ \A r \in Sessions \ {s} : sState'[r] = sState[r]
        /\ \A j \in Keys : file'[j] # file[j] => j = k /\ file'[j] = sFile[s]
    BY <1>1
  <1>3. CacheOK'
    <2>1. ASSUME NEW t \in Turns
          PROVE  /\ pc[t] = "prompting" => sess[t] \in Sessions \ {s}
                 /\ pc[t] \in {"idle", "waiting"} => t \in Sessions \ {s}
      BY <1>1, ConstantFacts DEF CacheOK, LocalsOK
    <2>2. \A j \in Keys : sessions[j] # None => sessions[j] \in Sessions
      OBVIOUS
    <2>3. CacheOK /\ UNCHANGED <<pc, sess, key, sessions>>
      BY <1>1
    <2> HIDE DEF TypeOK, Before
    <2> QED BY <1>2, <2>1, <2>2, <2>3 DEF CacheOK
  <1>4. FilesOK' /\ FileInWorkspace'
    <2>1. \A r \in Sessions : sState'[r] = "free" <=> sState[r] = "free"
      BY <1>1, <1>2
    <2>2. sState[sFile[s]] # "free" /\ sWorkspace[sFile[s]] = workspaces[k]
      <3>1. s # None /\ sWorkspace[s] = workspaces[k]
        BY <1>1, ConstantFacts DEF ChoiceOK
      <3> QED BY <1>1, <3>1 DEF FilesOK
    <2>3. FilesOK'
      BY <1>1, <1>2, <2>1, <2>2 DEF FilesOK
    <2>4. FileInWorkspace'
      BY <1>1, <1>2, <2>2 DEF FileInWorkspace
    <2> QED BY <2>3, <2>4
  <1>5. ChoiceOK' /\ RegisterOK'
    BY <1>1, RegistersKept DEF ChoiceOK
  <1> QED BY <1>3, <1>4, <1>5

(* A run is registered: no other turn of its conversation is prompted.      *)
LEMMA PromptStarts ==
    ASSUME Before, NEW t \in Turns, RunPrompt(t)
    PROVE  SessionInv'
  <1> USE DEF Before, SessionInv, TypeInv, TypeOK, turnVars, sessionVars, stateVars, Goto, RunPrompt
  <1>1. /\ pc[t] = "session" /\ pc' = [pc EXCEPT ![t] = "prompting"] /\ sess[t] \in Sessions
        /\ sess[t] = sessions[key[t]] /\ sState[sess[t]] = "ready"
    BY ConstantFacts DEF CacheOK, LocalsOK
  <1>2. CacheOK'
    BY <1>1 DEF CacheOK
  <1>3. FilesOK' /\ FileInWorkspace' /\ ChoiceOK'
    BY <1>1 DEF FilesOK, FileInWorkspace, ChoiceOK
  <1>4. RegisterOK'
    <2>1. \A u \in Turns : u # t /\ pc[u] = "prompting" => key[u] # key[t]
      BY <1>1 DEF Alone, Busy
    <2>2. {u \in Turns : pc'[u] = "prompting"} = {u \in Turns : pc[u] = "prompting"} \cup {t}
      BY <1>1
    <2> QED BY <1>1, <2>1, <2>2 DEF RegisterOK
  <1> QED BY <1>2, <1>3, <1>4

(* It is unregistered: no other conversation's prompt uses its session, so  *)
(* the bridge forgets the one that is over and no other.                    *)
LEMMA PromptEnds ==
    ASSUME Before, NEW t \in Turns, PromptReturns(t) \/ PromptTimeout(t)
    PROVE  SessionInv'
  <1> USE DEF Before, SessionInv, TypeInv, TypeOK, turnVars, sessionVars, stateVars
  <1>1. /\ pc[t] = "prompting" /\ Unregister(t)
        /\ \E b \in {"closing", "done"} : pc' = [pc EXCEPT ![t] = b]
        /\ UNCHANGED <<key, sess, arg, sessions, sState, sWorkspace, sModel, sFile,
                       file, workspaces, models>>
        /\ written' \subseteq written \cup {sFile[sess[t]]}
    BY DEF PromptReturns, PromptTimeout, EndRun, Conclude, Goto
  <1>2. /\ sess[t] \in Sessions /\ sState[sess[t]] = "ready" /\ sess[t] = sessions[key[t]]
        /\ pc'[t] \in {"closing", "done"} /\ \A u \in Turns \ {t} : pc'[u] = pc[u]
    BY <1>1 DEF CacheOK, LocalsOK
  <1>3. CacheOK'
    BY <1>1, <1>2 DEF CacheOK
  <1>4. FilesOK' /\ FileInWorkspace' /\ ChoiceOK'
    <2>1. ChoiceOK' /\ FileInWorkspace'
      BY <1>1, <1>2 DEF FileInWorkspace, ChoiceOK
    <2>2. \A f \in written' : sState[f] # "free"
      BY <1>1, <1>2 DEF FilesOK
    <2> QED BY <1>1, <2>1, <2>2 DEF FilesOK
  <1>5. RegisterOK'
    <2>1. ASSUME NEW u \in Turns, u # t, pc[u] = "prompting"
          PROVE  key[u] # key[t] /\ sess[u] # sess[t]
      <3>1. key[u] # key[t]
        BY <1>1, <2>1 DEF Alone, Busy
      <3> QED BY <1>2, <2>1, <3>1, ConstantFacts DEF CacheOK, LocalsOK
    <2>2. {u \in Turns : pc'[u] = "prompting"} = {u \in Turns : pc[u] = "prompting"} \ {t}
      BY <1>2
    <2>3. feishuInput' = {sess'[u] : u \in {v \in Turns : pc'[v] = "prompting"}}
      BY <1>1, <2>1, <2>2 DEF Unregister, RegisterOK
    <2>4. \A u \in Turns : pc'[u] = "prompting" => activeRuns'[key'[u]] = u
      BY <1>1, <1>2, <2>1 DEF Unregister, RegisterOK
    <2> QED BY <2>3, <2>4 DEF RegisterOK
  <1> QED BY <1>3, <1>4, <1>5

(* A command's choice: it touches one key, and keeps file and workspace     *)
(* together.                                                                *)
Chosen(k) ==
    /\ \A j \in Keys \ {k} : /\ file'[j] = file[j]
                             /\ workspaces'[j] = workspaces[j]
                             /\ models'[j] = models[j]
    /\ file'[k] # None =>
        file'[k] \in Sessions /\ sState[file'[k]] # "free" /\ sWorkspace[file'[k]] = workspaces'[k]

LEMMA ApplyChooses ==
    ASSUME Before, NEW t \in Turns, Apply(t), \A j \in Keys \ {key[t]} : models'[j] = models[j]
    PROVE  Chosen(key[t])
  <1> USE DEF Before, SessionInv, TypeInv, TypeOK
  <1>1. CASE kind[t] = "new"
    BY <1>1 DEF Apply, Chosen
  <1>2. CASE kind[t] = "workspace"
    BY <1>2 DEF Apply, Chosen
  <1>3. CASE kind[t] = "resume"
    BY <1>3 DEF Apply, Chosen, FilesOK
  <1>4. CASE kind[t] \notin {"new", "workspace", "resume"}
    BY <1>4 DEF Apply, Chosen, FilesOK, FileInWorkspace
  <1> QED BY <1>1, <1>2, <1>3, <1>4

(* It is made at once when no session is cached.                            *)
LEMMA ChoosingSteps ==
    ASSUME Before, NEW t \in Turns, pc[t] \in {"waiting", "lookup"}, sessions[key[t]] = None,
           Chosen(key[t]), Goto(t, "replying"), UNCHANGED <<turnVars, sess, sessionVars, runVars>>,
           \A u \in Turns : arg'[u] # None => sState[arg'[u]] # "free"
    PROVE  SessionInv'
  <1> USE DEF Before, SessionInv, TypeInv, TypeOK, turnVars, sessionVars, runVars, Goto
  <1>1. \A u \in Turns : pc'[u] = (IF u = t THEN "replying" ELSE pc[u])
    OBVIOUS
  <1>2. CacheOK'
    BY <1>1 DEF CacheOK
  <1>3. FilesOK' /\ FileInWorkspace'
    BY DEF FilesOK, FileInWorkspace, Chosen
  <1>4. ChoiceOK'
    BY <1>1 DEF ChoiceOK, Chosen
  <1>5. RegisterOK'
    BY <1>1, RegistersKept
  <1> QED BY <1>2, <1>3, <1>4, <1>5

(* With one it first goes to dispose it.                                    *)
LEMMA DisposingSteps ==
    ASSUME Before, NEW t \in Turns, pc[t] \in {"waiting", "lookup"}, sessions[key[t]] # None,
           Goto(t, "dispose"), sess' = [sess EXCEPT ![t] = sessions[key[t]]],
           UNCHANGED <<turnVars, sessionVars, runVars, file, workspaces>>,
           \A j \in Keys \ {key[t]} : models'[j] = models[j],
           \A u \in Turns : arg'[u] # None => sState[arg'[u]] # "free"
    PROVE  SessionInv'
  <1> USE DEF Before, SessionInv, TypeInv, TypeOK, turnVars, sessionVars, runVars, Goto
  <1>1. \A u \in Turns : /\ pc'[u] = (IF u = t THEN "dispose" ELSE pc[u])
                         /\ sess'[u] = (IF u = t THEN sessions[key[t]] ELSE sess[u])
    OBVIOUS
  <1>2. CacheOK'
    BY <1>1 DEF CacheOK
  <1>3. FilesOK' /\ FileInWorkspace'
    BY DEF FilesOK, FileInWorkspace
  <1>4. ChoiceOK'
    <2>1. ASSUME NEW j \in Keys, j # key[t], \E u \in Turns : key[u] = j /\ pc[u] = "dispose"
          PROVE  \E u \in Turns : key[u] = j /\ pc'[u] = "dispose"
      BY <1>1, <2>1
    <2>2. key'[t] = key[t] /\ pc'[t] = "dispose"
      BY <1>1
    <2> QED BY <2>1, <2>2 DEF ChoiceOK
  <1>5. RegisterOK'
    BY <1>1, RegistersKept
  <1> QED BY <1>2, <1>3, <1>4, <1>5

(* The session is disposed and leaves the cache as the choice is made.      *)
LEMMA DisposedSteps ==
    ASSUME Before, NEW t \in Turns, Dispose(t)
    PROVE  SessionInv'
  <1> USE DEF Before, SessionInv, TypeInv, TypeOK, turnVars, runVars, Goto
  <1> DEFINE s == sess[t]
  <1>1. /\ pc[t] = "dispose" /\ s \in Sessions /\ s = sessions[key[t]] /\ sState[s] # "free"
        /\ sState' = [sState EXCEPT ![s] = IF @ = "ready" THEN "disposed" ELSE @]
        /\ sessions' = [sessions EXCEPT ![key[t]] = None]
        /\ pc' = [pc EXCEPT ![t] = "replying"]
        /\ UNCHANGED <<key, sess, arg, sWorkspace, sModel, sFile, models, activeRuns,
                       feishuInput, written>>
    BY ConstantFacts DEF Dispose, Forget, CacheOK, LocalsOK
  <1>2. Chosen(key[t])
    BY <1>1, ApplyChooses DEF Dispose
  <1>3. /\ \A r \in Sessions \ {s} : sState'[r] = sState[r]
        /\ \A r \in Sessions : sState'[r] = "free" <=> sState[r] = "free"
        /\ \A u \in Turns : pc'[u] = (IF u = t THEN "replying" ELSE pc[u])
    BY <1>1
  <1>4. \A u \in Turns : u # t /\ Busy(u) => key[u] # key[t]
    BY <1>1 DEF Alone, Busy
  <1>5. CacheOK'
    <2>1. ASSUME NEW u \in Turns
          PROVE  /\ pc'[u] \in {"idle", "waiting"} => sState'[u] = "free"
                 /\ pc'[u] \in {"session", "prompting", "dispose"} => sess'[u] = sessions'[key'[u]]
                 /\ pc'[u] = "prompting" => sState'[sess'[u]] = "ready"
      <3>1. CASE pc'[u] \in {"idle", "waiting"}
        BY <1>1, <1>3, <3>1, ConstantFacts DEF CacheOK
      <3>2. CASE pc'[u] \in {"session", "prompting", "dispose"}
        <4>1. u # t /\ pc'[u] = pc[u] /\ key[u] # key[t]
          BY <1>3, <1>4, <3>2 DEF Busy
        <4>2. sess[u] \in Sessions /\ sess[u] = sessions[key[u]] /\ sess[u] # s
          BY <1>1, <3>2, <4>1, ConstantFacts DEF CacheOK, LocalsOK
        <4> QED BY <1>1, <1>3, <3>2, <4>1, <4>2 DEF CacheOK
      <3> QED BY <3>1, <3>2
    <2>2. ASSUME NEW j \in Keys, sessions'[j] # None
          PROVE  /\ sState'[sessions'[j]] \notin {"free", "disposed"}
                 /\ \A l \in Keys : sessions'[l] = sessions'[j] => l = j
      <3>1. j # key[t] /\ sessions'[j] = sessions[j] /\ sessions[j] \in Sessions \ {s}
        BY <1>1, <2>2 DEF CacheOK
      <3> QED BY <1>1, <1>3, <2>2, <3>1 DEF CacheOK
    <2> QED BY <2>1, <2>2 DEF CacheOK
  <1>6. FilesOK' /\ FileInWorkspace'
    BY <1>1, <1>2, <1>3 DEF FilesOK, FileInWorkspace, Chosen
  <1>7. ChoiceOK'
    <2>1. ASSUME NEW j \in Keys, sessions'[j] # None
          PROVE  j # key[t] /\ sessions'[j] = sessions[j] /\ workspaces'[j] = workspaces[j]
      BY <1>1, <1>2, <2>1 DEF Chosen
    <2>2. ASSUME NEW j \in Keys, j # key[t], \E u \in Turns : key[u] = j /\ pc[u] = "dispose"
          PROVE  \E u \in Turns : key[u] = j /\ pc'[u] = "dispose"
      BY <1>3, <2>2
    <2> QED BY <1>1, <2>1, <2>2 DEF ChoiceOK
  <1>8. RegisterOK'
    BY <1>1, <1>3, RegistersKept
  <1> QED BY <1>5, <1>6, <1>7, <1>8

(* The commands: refused, applied at once, or on their way to dispose.      *)
LEMMA CommandSteps ==
    ASSUME Before, NEW t \in Turns, StartCommand(t) \/ LookedUp(t)
    PROVE  SessionInv'
  <1> USE DEF turnVars, runVars, Goto
  <1>1. ASSUME pc[t] \in {"waiting", "lookup"}, RefuseCommand(t), UNCHANGED <<turnVars, arg, runVars>>
        PROVE  SessionInv'
    <2>1. \A u \in Turns : pc'[u] = (IF u = t THEN "replying" ELSE pc[u])
      BY <1>1 DEF RefuseCommand, Before, TypeInv, TypeOK
    <2> QED BY <1>1, <2>1, QuietSteps DEF RefuseCommand
  <1>2. \A u \in Turns : arg[u] # None => sState[arg[u]] # "free"
    BY DEF Before, SessionInv, FilesOK
  <1>3. ASSUME pc[t] = "waiting", DisposeCached(t), UNCHANGED <<turnVars, arg, runVars>>,
               \A j \in Keys \ {key[t]} : models'[j] = models[j]
        PROVE  SessionInv'
    <2>1. CASE sessions[key[t]] = None
      BY <1>2, <1>3, <2>1, ApplyChooses, ChoosingSteps DEF DisposeCached
    <2>2. CASE sessions[key[t]] # None
      BY <1>2, <1>3, <2>2, DisposingSteps DEF DisposeCached
    <2> QED BY <2>1, <2>2
  <1>4. CASE StartCommand(t)
    <2>1. pc[t] = "waiting" /\ UNCHANGED <<turnVars, arg, runVars>>
      BY <1>4 DEF StartCommand, MayStart
    <2>2. \/ RefuseCommand(t)
          \/ DisposeCached(t) /\ \A j \in Keys \ {key[t]} : models'[j] = models[j]
      BY <1>4 DEF StartCommand, Before, TypeInv, TypeOK
    <2> QED BY <1>1, <1>3, <2>1, <2>2
  <1>5. CASE LookedUp(t)
    <2> DEFINE k == key[t]
    <2>1. pc[t] = "lookup" /\ UNCHANGED <<turnVars, runVars>> /\ TypeOK /\ FilesOK /\ FileInWorkspace
      BY <1>5 DEF LookedUp, Before, TypeInv, SessionInv
    <2>2. CASE RefuseCommand(t) /\ UNCHANGED arg
      BY <1>1, <2>1, <2>2
    <2>3. ASSUME file[k] \in written, workspaces' = [workspaces EXCEPT ![k] = sWorkspace[file[k]]],
                 Goto(t, "replying"), UNCHANGED <<sess, arg, sessionVars, file, models>>
          PROVE  SessionInv'
      <3>1. file[k] # None /\ workspaces' = workspaces
        BY <2>1, <2>3, ConstantFacts DEF TypeOK, FileInWorkspace
      <3>2. \A u \in Turns : pc'[u] = (IF u = t THEN "replying" ELSE pc[u])
        BY <2>1, <2>3 DEF TypeOK
      <3> QED BY <2>1, <2>3, <3>1, <3>2, QuietSteps DEF stateVars
    <2>4. ASSUME NEW f \in written \ {file[k]}, arg' = [arg EXCEPT ![t] = f]
          PROVE  /\ f \in Sessions /\ sState[f] # "free"
                 /\ \A u \in Turns : arg'[u] # None => sState[arg'[u]] # "free"
      BY <2>1, <2>4, <1>2 DEF TypeOK, FilesOK
    <2>5. ASSUME NEW f \in written \ {file[k]}, arg' = [arg EXCEPT ![t] = f], sessions[k] = None,
                 file' = [file EXCEPT ![k] = f], workspaces' = [workspaces EXCEPT ![k] = sWorkspace[f]],
                 Goto(t, "replying"), UNCHANGED <<sess, sessionVars, models>>
          PROVE  SessionInv'
      <3>1. k \in Keys /\ file \in [Keys -> Sessions \cup {None}] /\ workspaces \in [Keys -> Workspaces]
        BY <2>1 DEF TypeOK
      <3>2. Chosen(k)
        BY <2>4, <2>5, <3>1 DEF Chosen
      <3>3. UNCHANGED <<turnVars, sess, sessionVars, runVars>>
        BY <2>1, <2>5
      <3> QED BY <2>1, <2>4, <2>5, <3>2, <3>3, ChoosingSteps
    <2>6. ASSUME NEW f \in written \ {file[k]}, arg' = [arg EXCEPT ![t] = f], sessions[k] # None,
                 Goto(t, "dispose"), sess' = [sess EXCEPT ![t] = sessions[k]],
                 UNCHANGED <<sessionVars, stateVars>>
          PROVE  SessionInv'
      BY <2>1, <2>4, <2>6, DisposingSteps DEF stateVars
    <2> QED BY <1>5, <2>2, <2>3, <2>5, <2>6 DEF LookedUp
  <1> QED BY <1>4, <1>5

(* A prompt that starts takes the cached session or creates its own.        *)
LEMMA PromptTakesSession ==
    ASSUME Before, NEW t \in Turns, StartPrompt(t)
    PROVE  SessionInv'
  <1>1. pc[t] = "waiting" /\ Goto(t, "session") /\ UNCHANGED <<turnVars, arg, stateVars, runVars>>
    BY DEF StartPrompt, MayStart
  <1>2. CASE sessions[key[t]] # None
    <2> USE DEF Before, SessionInv, TypeInv, TypeOK, turnVars, sessionVars, stateVars, runVars, Goto
    <2>1. /\ UNCHANGED sessionVars
          /\ \A u \in Turns : /\ pc'[u] = (IF u = t THEN "session" ELSE pc[u])
                              /\ sess'[u] = (IF u = t THEN sessions[key[t]] ELSE sess[u])
      BY <1>1, <1>2 DEF StartPrompt
    <2>2. CacheOK'
      BY <1>1, <2>1 DEF CacheOK
    <2>3. FilesOK' /\ FileInWorkspace' /\ ChoiceOK'
      BY <1>1, <2>1 DEF FilesOK, FileInWorkspace, ChoiceOK
    <2>4. RegisterOK'
      BY <1>1, <2>1, RegistersKept
    <2> QED BY <2>2, <2>3, <2>4
  <1>3. CASE sessions[key[t]] = None
    <2>1. /\ t \in Sessions /\ key[t] \in Keys /\ sState[t] = "free"
          /\ sess' = [sess EXCEPT ![t] = t] /\ CreateSession(t, key[t])
      BY <1>1, <1>3, ConstantFacts DEF StartPrompt, Before, SessionInv, CacheOK, TypeInv, TypeOK
    <2> QED BY <1>1, <1>3, <2>1, CreatingSteps
  <1> QED BY <1>2, <1>3

(* Every step keeps the sessions in order.                                  *)
LEMMA NextSessionInv == Before /\ [Next]_vars => SessionInv'
  <1> SUFFICES ASSUME Before, [Next]_vars PROVE SessionInv'
    OBVIOUS
  <1> USE DEF turnVars, stepVars, runVars
  <1>1. ASSUME NEW k \in Keys, NEW kd \in Kinds, Enqueue(k, kd) PROVE SessionInv'
    <2>1. arrived + 1 \in Turns /\ pc[arrived + 1] = "idle"
      BY <1>1, ConstantFacts DEF Before, TypeInv, TypeOK, Enqueue, ChainOK, Turns
    <2>2. \A t \in Turns : \/ key'[t] = key[t] /\ pc'[t] = pc[t]
                           \/ pc[t] = "idle" /\ pc'[t] = "waiting"
      BY <1>1, <2>1 DEF Enqueue, Before, TypeInv, TypeOK
    <2> QED BY <1>1, <2>2, QuietSteps DEF Enqueue
  <1>2. ASSUME NEW k \in Keys, Status(k) PROVE SessionInv'
    <2>1. PICK s \in MaxTurns + 1 .. MaxTurns + MaxStatus : sState[s] = "free" /\ CreateSession(s, k)
      BY <1>2 DEF Status
    <2>2. s \in Sessions /\ s \notin Turns
      BY <2>1, MaxTurnsAssumption, MaxStatusAssumption DEF Sessions, Turns
    <2> QED BY <1>2, <2>1, <2>2, CreatingSteps DEF Status
  <1>3. ASSUME NEW t \in Turns, NEW b \in {"lookup", "closing", "done"},
               pc[t] \in {"waiting", "session", "replying", "closing"}, pc' = [pc EXCEPT ![t] = b],
               UNCHANGED <<turnVars, sessionVars, stateVars, sess, arg, runVars>>
        PROVE  SessionInv'
    <2>1. \A u \in Turns : pc'[u] = (IF u = t THEN b ELSE pc[u])
      BY <1>3 DEF Before, TypeInv, TypeOK
    <2> QED BY <1>3, <2>1, QuietSteps
  <1>4. ASSUME NEW t \in Turns, StartResume(t) \/ Replied(t) \/ SessionRejected(t) \/ CardClosed(t)
        PROVE  SessionInv'
    BY <1>3, <1>4 DEF StartResume, MayStart, Replied, SessionRejected, Conclude, CardClosed, Goto
  <1>5. ASSUME UNCHANGED <<turnVars, pc, sess, arg, sessionVars, stateVars, written, activeRuns,
                           feishuInput>>
        PROVE  SessionInv'
    BY <1>5, QuietSteps
  <1>6. ASSUME NEW t \in Turns, Delta(t) \/ OrphanEnds(t) PROVE SessionInv'
    BY <1>5, <1>6 DEF Delta, OrphanEnds
  <1>7. ASSUME NEW i \in Stops, \/ \E k \in Keys, r \in Turns \cup {None} : StopRequest(i, k, r)
                                \/ StopCardClosed(i) \/ StopAbort(i) \/ StopRespond(i)
        PROVE  SessionInv'
    BY <1>5, <1>7 DEF StopRequest, StopCardClosed, StopAbort, StopRespond
  <1>8. CASE UNCHANGED vars
    BY <1>5, <1>8 DEF vars
  <1> QED
    BY <1>1, <1>2, <1>4, <1>6, <1>7, <1>8, CreationSettles, PromptStarts, PromptEnds,
       CommandSteps, PromptTakesSession, DisposedSteps
    DEF Next, TurnStep

(* The inductive invariant of all four theorems.                            *)
SessionsInOrder == TypeInv /\ ChainOK /\ TurnsInOrder /\ RegisteredIsPrompting /\ SessionInv

LEMMA SessionsStayInOrder == ASSUME ~QueueTimeouts PROVE Spec => []SessionsInOrder
  <1>1. Init => SessionsInOrder
    <2>1. Init => RegisteredIsPrompting BY DEF Init, RegisteredIsPrompting
    <2> QED BY <2>1, InitTypeInv, InitChainOK, InitSessionInv DEF SessionsInOrder
  <1>2. SessionsInOrder /\ [Next]_vars => SessionsInOrder'
    BY NextTypeInv, StepProgress, StepRegistration, NextChainOK, NextTurnsInOrder, NextRegistered,
       OneAtATime, NextSessionInv
    DEF SessionsInOrder, TypeInv, Before
  <1> QED BY <1>1, <1>2, PTL DEF Spec

(* Without queue timeouts no /new, /workspace, /resume or model change       *)
(* disposes a session under its prompt.                                     *)
THEOREM PromptsHaveTheirSession == ASSUME ~QueueTimeouts PROVE Spec => []PromptedSessionLive
  <1>1. SessionsInOrder => PromptedSessionLive
    BY DEF SessionsInOrder, SessionInv, CacheOK, PromptedSessionLive
  <1> QED BY <1>1, SessionsStayInOrder, PTL

(* Without queue timeouts a prompt runs in a session made for the workspace *)
(* and model now chosen, whoever created it and whatever failed.            *)
THEOREM PromptsFollowTheChoice == ASSUME ~QueueTimeouts PROVE Spec => []PromptUsesChoice
  <1>1. SessionsInOrder => PromptUsesChoice
    <2> SUFFICES ASSUME SessionsInOrder PROVE PromptUsesChoice
      OBVIOUS
    <2> USE DEF SessionsInOrder, SessionInv, TypeInv, TypeOK
    <2>1. ASSUME NEW t \in Turns, pc[t] = "prompting"
          PROVE  /\ sess[t] = sessions[key[t]] /\ sessions[key[t]] # None
                 /\ \A u \in Turns : key[u] = key[t] => pc[u] # "dispose"
      BY <2>1, OneAtATime, ConstantFacts DEF CacheOK, LocalsOK, Alone, Busy
    <2> QED BY <2>1 DEF PromptUsesChoice, ChoiceOK
  <1> QED BY <1>1, SessionsStayInOrder, PTL

(* Without queue timeouts the stored file is always one of the stored       *)
(* workspace, also when the creation that stores it ends after a change.    *)
THEOREM FilesFollowTheWorkspace == ASSUME ~QueueTimeouts PROVE Spec => []FileInWorkspace
  <1>1. SessionsInOrder => FileInWorkspace
    BY DEF SessionsInOrder, SessionInv
  <1> QED BY <1>1, SessionsStayInOrder, PTL

(* Without queue timeouts the registry and the bridge name exactly what is  *)
(* being prompted: endFeishuInput of one prompt never takes another's.      *)
THEOREM RegistersAreExact == ASSUME ~QueueTimeouts PROVE Spec => []RegistryExact
  <1>1. SessionsInOrder => RegistryExact
    <2> SUFFICES ASSUME SessionsInOrder PROVE RegistryExact
      OBVIOUS
    <2>1. /\ key \in [Turns -> Keys] /\ activeRuns \in [Keys -> Turns \cup {None}]
          /\ RegisterOK /\ RegisteredIsPrompting
      BY DEF SessionsInOrder, SessionInv, TypeInv, TypeOK
    <2>2. \A t \in Turns : pc[t] = "prompting" <=> activeRuns[key[t]] = t
      BY <2>1, ConstantFacts DEF RegisterOK, RegisteredIsPrompting
    <2> QED BY <2>1, <2>2 DEF RegistryExact, RegisterOK
  <1> QED BY <1>1, SessionsStayInOrder, PTL

-----------------------------------------------------------------------------
(* What keeps a card free of other turns' text: Pi works on no prompt that  *)
(* its turn has stopped waiting for.                                        *)
RunsArePrompted == \A t \in Turns : pi[t] = "running" => pc[t] = "prompting"

(* How a step changes what Pi is working on.                                *)
LEMMA StepRuns ==
    ASSUME TypeOK, [Next]_vars, NEW t \in Turns, pi'[t] = "running"
    PROVE  RunPrompt(t) \/ (pi[t] = "running" /\ ~PromptReturns(t))
  <1> USE DEF TypeOK, runVars
  <1>1. ~PromptReturns(t)
    BY DEF PromptReturns
  <1>2. ASSUME NEW k \in Keys, NEW kd \in Kinds, Enqueue(k, kd) PROVE UNCHANGED pi
    BY <1>2 DEF Enqueue
  <1>3. ASSUME NEW k \in Keys, SessionCreated(k) \/ SessionFailed(k) \/ Status(k)
        PROVE  UNCHANGED pi
    BY <1>3 DEF SessionCreated, SessionFailed, Status
  <1>4. ASSUME NEW u \in Turns, \/ StartPrompt(u) \/ StartCommand(u) \/ StartResume(u)
                                \/ LookedUp(u) \/ Dispose(u) \/ Replied(u)
        PROVE  UNCHANGED pi
    BY <1>4 DEF StartPrompt, StartCommand, StartResume, LookedUp, Dispose, Replied
  <1>5. ASSUME NEW u \in Turns, \/ SessionRejected(u) \/ CardClosed(u) \/ PromptTimeout(u)
                                \/ Delta(u)
        PROVE  UNCHANGED pi
    BY <1>5 DEF SessionRejected, CardClosed, PromptTimeout, Delta
  <1>6. ASSUME NEW u \in Turns, RunPrompt(u)
        PROVE  u = t \/ pi[t] = "running"
    BY <1>6 DEF RunPrompt
  <1>7. ASSUME NEW u \in Turns, PromptReturns(u) \/ OrphanEnds(u)
        PROVE  u # t /\ pi[t] = "running"
    BY <1>7 DEF PromptReturns, OrphanEnds
  <1>8. ASSUME NEW i \in Stops, \/ \E k \in Keys, r \in Turns \cup {None} : StopRequest(i, k, r)
                                \/ StopCardClosed(i) \/ StopAbort(i) \/ StopRespond(i)
        PROVE  pi[t] = "running"
    BY <1>8 DEF StopRequest, StopCardClosed, StopAbort, StopRespond
  <1>9. CASE UNCHANGED vars
    BY <1>1, <1>9 DEF vars
  <1> QED
    BY <1>1, <1>2, <1>3, <1>4, <1>5, <1>6, <1>7, <1>8, <1>9 DEF Next, TurnStep

(* How a step changes who holds whose text.                                 *)
LEMMA StepMixed == [Next]_vars => UNCHANGED mixed \/ \E t \in Turns : Delta(t)
  <1> SUFFICES ASSUME [Next]_vars PROVE UNCHANGED mixed \/ \E t \in Turns : Delta(t)
    OBVIOUS
  <1> USE DEF cardVars
  <1>1. ASSUME NEW k \in Keys, NEW kd \in Kinds, Enqueue(k, kd) PROVE UNCHANGED mixed
    BY <1>1 DEF Enqueue
  <1>2. ASSUME NEW k \in Keys, SessionCreated(k) \/ SessionFailed(k) \/ Status(k)
        PROVE  UNCHANGED mixed
    BY <1>2 DEF SessionCreated, SessionFailed, Status
  <1>3. ASSUME NEW u \in Turns, \/ StartPrompt(u) \/ StartCommand(u) \/ StartResume(u)
                                \/ LookedUp(u) \/ Dispose(u) \/ Replied(u)
        PROVE  UNCHANGED mixed
    BY <1>3 DEF StartPrompt, StartCommand, StartResume, LookedUp, Dispose, Replied
  <1>4. ASSUME NEW u \in Turns, \/ RunPrompt(u) \/ SessionRejected(u) \/ CardClosed(u)
                                \/ PromptReturns(u) \/ PromptTimeout(u) \/ OrphanEnds(u)
        PROVE  UNCHANGED mixed
    BY <1>4 DEF RunPrompt, SessionRejected, CardClosed, PromptReturns, PromptTimeout, OrphanEnds
  <1>5. ASSUME NEW i \in Stops, \/ \E k \in Keys, r \in Turns \cup {None} : StopRequest(i, k, r)
                                \/ StopCardClosed(i) \/ StopAbort(i) \/ StopRespond(i)
        PROVE  UNCHANGED mixed
    BY <1>5 DEF StopRequest, StopCardClosed, StopAbort, StopRespond
  <1>6. CASE UNCHANGED vars
    BY <1>6 DEF vars
  <1> QED
    BY <1>1, <1>2, <1>3, <1>4, <1>5, <1>6 DEF Next, TurnStep

(* A turn leaves its prompt when Pi has ended it, or when it times out.     *)
LEMMA StepLeaves ==
    ASSUME TypeOK, ChainOK, [Next]_vars, NEW t \in Turns, pc[t] = "prompting"
    PROVE  pc'[t] = "prompting" \/ PromptReturns(t) \/ PromptTimeout(t)
  <1> USE DEF Goto, TypeOK, stepVars
  <1>1. ASSUME NEW k \in Keys, NEW kd \in Kinds, Enqueue(k, kd) PROVE pc'[t] = "prompting"
    <2>1. t # arrived + 1
      BY ConstantFacts DEF ChainOK
    <2> QED BY <1>1, <2>1 DEF Enqueue
  <1>2. ASSUME NEW k \in Keys, SessionCreated(k) \/ SessionFailed(k) \/ Status(k)
        PROVE  pc'[t] = "prompting"
    BY <1>2 DEF SessionCreated, SessionFailed, Status
  <1>3. ASSUME NEW u \in Turns, StartPrompt(u) \/ StartCommand(u) \/ StartResume(u)
        PROVE  pc'[t] = "prompting"
    BY <1>3 DEF StartPrompt, StartCommand, StartResume, DisposeCached, RefuseCommand, MayStart
  <1>4. ASSUME NEW u \in Turns, \/ LookedUp(u) \/ Dispose(u) \/ Replied(u)
                                \/ SessionRejected(u) \/ CardClosed(u) \/ RunPrompt(u)
        PROVE  pc'[t] = "prompting"
    BY <1>4 DEF LookedUp, RefuseCommand, Dispose, Replied, SessionRejected, Conclude, CardClosed,
                RunPrompt
  <1>5. ASSUME NEW u \in Turns, PromptReturns(u) \/ PromptTimeout(u), u # t
        PROVE  pc'[t] = "prompting"
    BY <1>5 DEF PromptReturns, PromptTimeout, EndRun, Conclude
  <1>6. ASSUME NEW u \in Turns, Delta(u) \/ OrphanEnds(u) PROVE pc'[t] = "prompting"
    BY <1>6 DEF Delta, OrphanEnds
  <1>7. ASSUME NEW i \in Stops, \/ \E k \in Keys, r \in Turns \cup {None} : StopRequest(i, k, r)
                                \/ StopCardClosed(i) \/ StopAbort(i) \/ StopRespond(i)
        PROVE  pc'[t] = "prompting"
    BY <1>7 DEF StopRequest, StopCardClosed, StopAbort, StopRespond
  <1>8. CASE UNCHANGED vars
    BY <1>8 DEF vars
  <1> QED
    BY <1>1, <1>2, <1>3, <1>4, <1>5, <1>6, <1>7, <1>8 DEF Next, TurnStep

(* So Pi works on no prompt that is not waited for, if prompts do not time  *)
(* out.                                                                     *)
LEMMA NextRunsArePrompted ==
    ASSUME ~PromptTimeouts, TypeOK, ChainOK, RunsArePrompted, [Next]_vars
    PROVE  RunsArePrompted'
  <1> SUFFICES ASSUME NEW t \in Turns, pi'[t] = "running" PROVE pc'[t] = "prompting"
    BY DEF RunsArePrompted
  <1>1. CASE RunPrompt(t)
    BY <1>1 DEF RunPrompt, Goto, TypeOK
  <1>2. CASE pi[t] = "running" /\ ~PromptReturns(t)
    BY <1>2, StepLeaves DEF RunsArePrompted, PromptTimeout
  <1> QED BY <1>1, <1>2, StepRuns

(* If neither waits nor prompts time out, the text that reaches a card is   *)
(* its own turn's: a prompt that streams is one that is waited for, which   *)
(* is the registered run of its conversation.                               *)
THEOREM CardsShowOwnText ==
    ASSUME ~QueueTimeouts, ~PromptTimeouts PROVE Spec => []OwnDeltas
  <1> DEFINE IInv == RunsArePrompted /\ OwnDeltas
  <1>1. Init => IInv
    BY DEF Init, RunsArePrompted, OwnDeltas
  <1>2. SessionsInOrder /\ IInv /\ [Next]_vars => IInv'
    <2> SUFFICES ASSUME SessionsInOrder, RunsArePrompted, OwnDeltas, [Next]_vars PROVE IInv'
      OBVIOUS
    <2>1. TypeOK /\ ChainOK /\ RegisterOK
      BY DEF SessionsInOrder, TypeInv, SessionInv
    <2>2. RunsArePrompted'
      BY <2>1, NextRunsArePrompted
    <2>3. ASSUME NEW t \in Turns, Delta(t) PROVE UNCHANGED mixed
      BY <2>1, <2>3 DEF Delta, RunsArePrompted, RegisterOK
    <2>4. UNCHANGED mixed
      BY <2>3, StepMixed
    <2> QED BY <2>2, <2>4 DEF OwnDeltas
  <1> QED BY <1>1, <1>2, SessionsStayInOrder, PTL DEF Spec

=============================================================================
