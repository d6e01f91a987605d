------------------------------- MODULE Dedupe -------------------------------
(***************************************************************************)
(* The message records of dedupe-store.ts: dedupe.json, shared by the      *)
(* gateway processes, is read and rewritten as a whole under a lock        *)
(* directory, which is waited for a limited number of tries and removed    *)
(* when it looks old.                                                      *)
(*                                                                         *)
(* A call is one claimFeishuMessage or markFeishuMessage at work.  Actions *)
(* of other modules begin calls and take their results.                    *)
(***************************************************************************)
EXTENDS Naturals, FiniteSets

CONSTANTS
    Call, Msg, None,
    LockAttempts     \* LOCK_ATTEMPTS

ASSUME CallAssumption == None \notin Call
ASSUME AttemptsAssumption == LockAttempts \in Nat \ {0}

VARIABLES
    store,     \* the status in each message's record, "none" without a record
    old,       \* the messages whose record was not touched for MESSAGE_TTL_MS
    torn,      \* has the file been opened for writing and not been written?
    lockDir,   \* the call that made the lock directory, or None
    step,      \* where a call stands
    subject,   \* its message
    target,    \* the status it sets; a claim sets "processing"
    view,      \* the records it will write
    holds,     \* does it believe it holds the lock directory?
    tries,     \* how often it found the directory taken
    result,    \* its result
    faults,    \* bound: the kinds of faults that a behaviour may have
    lapses     \* history: what went wrong

fileVars == <<store, old, torn>>
callVars == <<step, subject, target, view, holds, tries, result>>
dedupeVars == <<fileVars, lockDir, callVars, faults, lapses>>

Status == {"none", "processing", "replied", "ignored", "failed"}
(* MESSAGE_TTL_MS pass; a holder of the directory stalls; a call goes on    *)
(* without the directory, or loses it; the file cannot be written; a        *)
(* process dies; the transport is stopped; a chat mode cannot be asked for; *)
(* a reply is sent but the answer to it is lost; neither a card nor a plain *)
(* reply can be sent.                                                       *)
Faults == {"day", "stall", "unlocked", "write", "crash", "stop", "mode", "lost", "unshown"}
NoRecords == [m \in Msg |-> "none"]

DedupeTypeOK ==
    /\ store \in [Msg -> Status]
    /\ old \subseteq Msg
    /\ torn \in BOOLEAN
    /\ lockDir \in Call \cup {None}
    /\ step \in [Call -> {"none", "try", "break", "read", "write", "fill", "leave"}]
    /\ subject \in [Call -> Msg \cup {None}]
    /\ target \in [Call -> Status]
    /\ view \in [Call -> [Msg -> Status]]
    /\ holds \in [Call -> BOOLEAN]
    /\ tries \in [Call -> 0 .. LockAttempts]
    /\ result \in [Call -> {"none", "claimed", "refused", "marked", "error"}]
    /\ faults \subseteq Faults
    /\ lapses \subseteq Faults \cup {"torn"}

DedupeInit ==
    /\ store = NoRecords /\ old = {} /\ torn = FALSE
    /\ lockDir = None
    /\ step = [c \in Call |-> "none"]
    /\ subject = [c \in Call |-> None]
    /\ target = [c \in Call |-> "none"]
    /\ view = [c \in Call |-> NoRecords]
    /\ holds = [c \in Call |-> FALSE]
    /\ tries = [c \in Call |-> 0]
    /\ result = [c \in Call |-> "none"]
    /\ faults \subseteq Faults
    /\ lapses = {}

-----------------------------------------------------------------------------
MayFail(fault) == fault \in faults
Slip(fault) == MayFail(fault) /\ lapses' = lapses \cup {fault}

(* The file is read, changed and written.                                   *)
InSection(c) == step[c] \in {"read", "write", "fill", "leave"}

(* withStoreLock: a call begins with its first try for the directory.       *)
BeginCall(c, m, status) ==
    /\ step' = [step EXCEPT ![c] = "try"]
    /\ subject' = [subject EXCEPT ![c] = m]
    /\ target' = [target EXCEPT ![c] = status]
    /\ tries' = [tries EXCEPT ![c] = 0]
    /\ result' = [result EXCEPT ![c] = "none"]
    /\ UNCHANGED <<fileVars, lockDir, view, holds, faults>>

(* Mutant of MoreTries: one more.                                           *)
MoreTriesByOne(c) == tries[c] <= LockAttempts

MoreTries(c) == tries[c] < LockAttempts

(* Mutant of MakeDir: a directory that exists is no failure.                *)
MakeDirRecursive(c) ==
    /\ step[c] = "try"
    /\ MoreTries(c)
    /\ lockDir' = c
    /\ holds' = [holds EXCEPT ![c] = TRUE]
    /\ step' = [step EXCEPT ![c] = "read"]
    /\ UNCHANGED <<fileVars, subject, target, view, tries, result, lapses, faults>>

MakeDir(c) ==
    /\ step[c] = "try"
    /\ MoreTries(c)
    /\ lockDir = None
    /\ lockDir' = c
    /\ holds' = [holds EXCEPT ![c] = TRUE]
    /\ step' = [step EXCEPT ![c] = "read"]
    /\ UNCHANGED <<fileVars, subject, target, view, tries, result, lapses, faults>>

(* The directory is taken.  When it looks old it is removed, in a step of   *)
(* its own, before the next try: it is that of a dead process, or of one    *)
(* that stalls for LOCK_STALE_MS.                                           *)
FindTaken(c) ==
    /\ step[c] = "try"
    /\ MoreTries(c)
    /\ lockDir # None
    /\ tries[c] + 1 = LockAttempts /\ InSection(lockDir) => MayFail("unlocked")
    /\ tries' = [tries EXCEPT ![c] = @ + 1]
    /\ \E isOld \in BOOLEAN :
          /\ isOld /\ InSection(lockDir) => MayFail("stall")
          /\ lapses' = lapses \cup {l \in {"stall"} : isOld /\ InSection(lockDir)}
          /\ step' = [step EXCEPT ![c] = IF isOld THEN "break" ELSE "try"]
    /\ UNCHANGED <<fileVars, lockDir, subject, target, view, holds, result, faults>>

(* rmSync removes whatever directory is there by now.  It is a lapse if its *)
(* maker lives and is still at the file.                                    *)
BreakDir(c) ==
    /\ step[c] = "break"
    /\ lockDir' = None
    /\ lapses' = lapses \cup {l \in {"unlocked"} : lockDir # None /\ InSection(lockDir)}
    /\ step' = [step EXCEPT ![c] = "try"]
    /\ UNCHANGED <<fileVars, subject, target, view, holds, tries, result, faults>>

(* Mutant of GiveUp: the directory is waited for without limit.             *)
GiveUpNever(c) ==
    /\ step[c] = "try"
    /\ ~MoreTries(c)
    /\ tries' = [tries EXCEPT ![c] = 0]
    /\ UNCHANGED <<fileVars, lockDir, step, subject, target, view, holds, result, lapses, faults>>

(* All tries failed: the call goes on without the lock.                     *)
GiveUp(c) ==
    /\ step[c] = "try"
    /\ ~MoreTries(c)
    /\ lapses' = lapses \cup {"unlocked"}
    /\ step' = [step EXCEPT ![c] = "read"]
    /\ UNCHANGED <<fileVars, lockDir, subject, target, view, holds, tries, result, faults>>

(* readStore and pruneExpired: a file that does not parse counts as empty.  *)
Records == [m \in Msg |-> IF torn \/ m \in old THEN "none" ELSE store[m]]

(* Mutant of Claimable: a failed message may be claimed again.              *)
ClaimableAgain(m) == Records[m] \in {"none", "failed"}

Claimable(m) == Records[m] = "none"

(* A claim finds the message unknown and enters it, or finds it known and   *)
(* only renews its record; a mark sets its status.                          *)
ReadStore(c) ==
    /\ step[c] = "read"
    /\ LET m == subject[c]
           refused == target[c] = "processing" /\ ~Claimable(m) IN
        /\ view' = [view EXCEPT ![c] =
                      IF refused THEN Records ELSE [Records EXCEPT ![m] = target[c]]]
        /\ result' = [result EXCEPT ![c] = IF refused THEN "refused"
                                          ELSE IF target[c] = "processing" THEN "claimed" ELSE "marked"]
    /\ step' = [step EXCEPT ![c] = "write"]
    /\ UNCHANGED <<fileVars, lockDir, subject, target, holds, tries, lapses, faults>>

(* writeFileSync empties the file, then writes it.                          *)
Truncate(c) ==
    /\ step[c] = "write"
    /\ torn' = TRUE
    /\ step' = [step EXCEPT ![c] = "fill"]
    /\ UNCHANGED <<store, old, lockDir, subject, target, view, holds, tries, result, lapses, faults>>

Fill(c) ==
    /\ step[c] = "fill"
    /\ store' = view[c]
    /\ torn' = FALSE
    /\ old' = {m \in old \ {subject[c]} : view[c][m] # "none"}
    /\ step' = [step EXCEPT ![c] = "leave"]
    /\ UNCHANGED <<lockDir, subject, target, view, holds, tries, result, lapses, faults>>

(* The file cannot be opened, or not be written once it is empty.           *)
WriteFails(c) ==
    /\ step[c] \in {"write", "fill"}
    /\ MayFail("write")
    /\ lapses' = lapses \cup {"write"} \cup {l \in {"torn"} : torn}
    /\ result' = [result EXCEPT ![c] = "error"]
    /\ step' = [step EXCEPT ![c] = "leave"]
    /\ UNCHANGED <<fileVars, lockDir, subject, target, view, holds, tries, faults>>

(* finally: the directory is removed by a call that thinks it holds it.     *)
Leave(c) ==
    /\ step[c] = "leave"
    /\ lockDir' = IF holds[c] THEN None ELSE lockDir
    /\ holds' = [holds EXCEPT ![c] = FALSE]
    /\ step' = [step EXCEPT ![c] = "none"]
    /\ view' = [view EXCEPT ![c] = NoRecords]
    /\ tries' = [tries EXCEPT ![c] = 0]
    /\ UNCHANGED <<fileVars, subject, target, result, lapses, faults>>

CallStep(c) ==
    \/ MakeDir(c) \/ FindTaken(c) \/ BreakDir(c) \/ GiveUp(c)
    \/ ReadStore(c) \/ Truncate(c) \/ Fill(c) \/ WriteFails(c) \/ Leave(c)

-----------------------------------------------------------------------------
(* The process of the calls dies: its directory stays, and so does a file   *)
(* it has only emptied.                                                     *)
CallsDie(dead) ==
    /\ step' = [c \in Call |-> IF c \in dead THEN "none" ELSE step[c]]
    /\ view' = [c \in Call |-> IF c \in dead THEN NoRecords ELSE view[c]]
    /\ holds' = [c \in Call |-> holds[c] /\ c \notin dead]
    /\ tries' = [c \in Call |-> IF c \in dead THEN 0 ELSE tries[c]]
    /\ lapses' = lapses \cup {"crash"} \cup {l \in {"torn"} : \E c \in dead : step[c] = "fill"}
    /\ UNCHANGED <<fileVars, lockDir, subject, target, result, faults>>

RecordsAge ==
    /\ old' = {m \in Msg : store[m] # "none"}
    /\ lapses' = lapses \cup {"day"}
    /\ UNCHANGED <<store, torn, lockDir, callVars, faults>>
=============================================================================
