----------------------------- MODULE GatewayLock -----------------------------
(***************************************************************************)
(* The gateway lock of gateway-lock.ts and the daemon's use of it in       *)
(* index.ts: one record in locks.json, kept fresh by its owner's           *)
(* heartbeat, decides which process holds the Feishu event connection; a   *)
(* lock directory, which is waited for only so long and broken when old,   *)
(* guards each read-modify-write of the file.                              *)
(*                                                                         *)
(* Time passes in Tick, in units longer than the 25 ms between two tries   *)
(* for the lock directory; timestamps are kept as ages that stop growing   *)
(* where they no longer matter.  A process is one life of one pid.         *)
(***************************************************************************)
EXTENDS Naturals

CONSTANTS
    Procs, None,
    StaleAfter,       \* LOCK_STALE_MS
    HeartbeatEvery,   \* HEARTBEAT_MS
    Patience,         \* LOCK_ATTEMPTS * LOCK_RETRY_MS
    StartWithin       \* how long transport.start takes when it is not late

ASSUME NoneAssumption == None \notin Procs
ASSUME TimesAssumption ==
    /\ StaleAfter \in Nat /\ HeartbeatEvery \in Nat /\ Patience \in Nat \ {0} /\ StartWithin \in Nat
    /\ HeartbeatEvery <= StaleAfter /\ StartWithin <= StaleAfter

VARIABLES
    owner,     \* the process named by the record, or None
    hbAge,     \* time since heartbeatAt of the record
    lockDir,   \* the process that made the lock directory, or None
    lockAge,   \* time since it was made
    mode,      \* what the process is doing
    step,      \* where its access to locks.json stands
    holds,     \* does it believe it holds the lock directory?
    ok,        \* outcome of the access
    waitAge,   \* time it has waited for the lock directory
    beatAge,   \* time since its heartbeat (or its start) began
    conn,      \* does it hold an event connection?
    lapses     \* history: in which ways processes have not kept time

fileVars == <<owner, hbAge>>
dirVars == <<lockDir, lockAge>>
procVars == <<mode, step, holds, ok, waitAge, beatAge, conn>>
vars == <<fileVars, dirVars, procVars, lapses>>

MaxOf(a, b) == IF a > b THEN a ELSE b
OldAge == StaleAfter + 1
OldBeat == MaxOf(HeartbeatEvery, StartWithin)

TypeOK ==
    /\ owner \in Procs \cup {None}
    /\ hbAge \in 0 .. OldAge
    /\ lockDir \in Procs \cup {None}
    /\ lockAge \in 0 .. OldAge
    /\ mode \in [Procs -> {"off", "acquire", "starting", "live", "closing", "stopping", "gone"}]
    /\ step \in [Procs -> {"none", "wait", "break", "read", "write", "leave"}]
    /\ holds \in [Procs -> BOOLEAN]
    /\ ok \in [Procs -> BOOLEAN]
    /\ waitAge \in [Procs -> 0 .. Patience]
    /\ beatAge \in [Procs -> 0 .. OldBeat]
    /\ conn \in [Procs -> BOOLEAN]
    /\ lapses \subseteq {"stall", "start", "crash"}

Init ==
    /\ owner = None /\ hbAge = 0
    /\ lockDir = None /\ lockAge = 0
    /\ mode = [p \in Procs |-> "off"]
    /\ step = [p \in Procs |-> "none"]
    /\ holds = [p \in Procs |-> FALSE]
    /\ ok = [p \in Procs |-> FALSE]
    /\ waitAge = [p \in Procs |-> 0]
    /\ beatAge = [p \in Procs |-> 0]
    /\ conn = [p \in Procs |-> FALSE]
    /\ lapses = {}

Alive(p) == mode[p] \notin {"off", "gone"}

(* Mutant of Stale: a missed heartbeat is enough.                           *)
StaleTooSoon == ~Alive(owner) \/ hbAge >= HeartbeatEvery

(* isStale: the owner is dead, or its heartbeat is too old.                 *)
Stale == ~Alive(owner) \/ hbAge > StaleAfter

-----------------------------------------------------------------------------
(* withLocksFileLock.  Access starts with waiting for the lock directory.   *)
Access(p, m) ==
    /\ mode' = [mode EXCEPT ![p] = m]
    /\ step' = [step EXCEPT ![p] = "wait"]
    /\ waitAge' = [waitAge EXCEPT ![p] = 0]

MakeDir(p) ==
    /\ step[p] = "wait"
    /\ lockDir = None
    /\ lockDir' = p /\ lockAge' = 0
    /\ holds' = [holds EXCEPT ![p] = TRUE]
    /\ step' = [step EXCEPT ![p] = "read"]
    /\ UNCHANGED <<fileVars, mode, ok, waitAge, beatAge, conn, lapses>>

(* The directory looks stale; it is removed in a step of its own, whoever   *)
(* has made it by then, and tried for again.                                *)
SeeStaleDir(p) ==
    /\ step[p] = "wait"
    /\ lockDir # None
    /\ lockAge > StaleAfter
    /\ step' = [step EXCEPT ![p] = "break"]
    /\ UNCHANGED <<fileVars, dirVars, mode, holds, ok, waitAge, beatAge, conn, lapses>>

BreakDir(p) ==
    /\ step[p] = "break"
    /\ lockDir' = None
    /\ step' = [step EXCEPT ![p] = "wait"]
    /\ UNCHANGED <<fileVars, lockAge, mode, holds, ok, waitAge, beatAge, conn, lapses>>

(* All attempts failed: go on without the lock.                             *)
GiveUp(p) ==
    /\ step[p] = "wait"
    /\ waitAge[p] >= Patience
    /\ lockDir # None
    /\ step' = [step EXCEPT ![p] = "read"]
    /\ UNCHANGED <<fileVars, dirVars, mode, holds, ok, waitAge, beatAge, conn, lapses>>

(* Mutant of MayTake: the record is taken whoever owns it.                  *)
MayTakeAlways == TRUE

(* acquireGatewayLock, never with force: start() is called without          *)
(* takeover.                                                                *)
MayTake == owner = None \/ Stale

(* Mutant of Mine: the token is not compared.                               *)
MineAlways(p) == TRUE

Mine(p) == owner = p

(* The file is read and the outcome decided: an access that will change the *)
(* file goes on to write it.                                                *)
Read(p) ==
    /\ step[p] = "read"
    /\ LET writes == IF mode[p] = "acquire" THEN MayTake ELSE Mine(p) IN
        /\ step' = [step EXCEPT ![p] = IF writes THEN "write" ELSE "leave"]
        /\ ok' = [ok EXCEPT ![p] = writes]
    /\ UNCHANGED <<fileVars, dirVars, mode, holds, waitAge, beatAge, conn, lapses>>

Write(p) ==
    /\ step[p] = "write"
    /\ IF mode[p] = "stopping"
       THEN owner' = None /\ UNCHANGED hbAge
       ELSE owner' = p /\ hbAge' = 0
    /\ step' = [step EXCEPT ![p] = "leave"]
    /\ UNCHANGED <<dirVars, mode, holds, ok, waitAge, beatAge, conn, lapses>>

(* The directory is removed by whoever thinks it holds it, and the caller   *)
(* goes on: a busy daemon and a stopped one exit, a process that lost the   *)
(* record runs onLost, a new owner starts its transport.                    *)
Leave(p) ==
    /\ step[p] = "leave"
    /\ step' = [step EXCEPT ![p] = "none"]
    /\ holds' = [holds EXCEPT ![p] = FALSE]
    /\ lockDir' = IF holds[p] THEN None ELSE lockDir
    /\ mode' = [mode EXCEPT ![p] =
                  CASE @ = "acquire" -> IF ok[p] THEN "starting" ELSE "gone"
                    [] @ = "live" -> IF ok[p] THEN "live" ELSE "closing"
                    [] OTHER -> "gone"]
    /\ beatAge' = [beatAge EXCEPT ![p] = IF mode[p] = "acquire" THEN 0 ELSE @]
    /\ UNCHANGED <<fileVars, lockAge, ok, waitAge, conn, lapses>>

-----------------------------------------------------------------------------
(* index.ts: the life of a daemon.                                          *)

Launch(p) ==
    /\ mode[p] = "off"
    /\ Access(p, "acquire")
    /\ UNCHANGED <<fileVars, dirVars, holds, ok, beatAge, conn, lapses>>

(* transport.start has connected; the heartbeat is started and the record   *)
(* updated at once.                                                         *)
Connected(p) ==
    /\ mode[p] = "starting"
    /\ conn' = [conn EXCEPT ![p] = TRUE]
    /\ Access(p, "live")
    /\ beatAge' = [beatAge EXCEPT ![p] = 0]
    /\ UNCHANGED <<fileVars, dirVars, holds, ok, lapses>>

StartFails(p) ==
    /\ mode[p] = "starting"
    /\ Access(p, "stopping")
    /\ UNCHANGED <<fileVars, dirVars, holds, ok, beatAge, conn, lapses>>

Beat(p) ==
    /\ mode[p] = "live"
    /\ step[p] = "none"
    /\ beatAge[p] >= HeartbeatEvery
    /\ Access(p, "live")
    /\ beatAge' = [beatAge EXCEPT ![p] = 0]
    /\ UNCHANGED <<fileVars, dirVars, holds, ok, conn, lapses>>

(* session_shutdown: the transport is stopped before the record is          *)
(* released.                                                                *)
Stop(p) ==
    /\ mode[p] = "live"
    /\ step[p] = "none"
    /\ conn' = [conn EXCEPT ![p] = FALSE]
    /\ Access(p, "stopping")
    /\ UNCHANGED <<fileVars, dirVars, holds, ok, beatAge, lapses>>

(* onLost: the transport is stopped and the daemon exits.                   *)
Lost(p) ==
    /\ mode[p] = "closing"
    /\ conn' = [conn EXCEPT ![p] = FALSE]
    /\ mode' = [mode EXCEPT ![p] = "gone"]
    /\ UNCHANGED <<fileVars, dirVars, step, holds, ok, waitAge, beatAge, lapses>>

Crash(p) ==
    /\ Alive(p)
    /\ mode' = [mode EXCEPT ![p] = "gone"]
    /\ step' = [step EXCEPT ![p] = "none"]
    /\ conn' = [conn EXCEPT ![p] = FALSE]
    /\ lapses' = IF step[p] \in {"read", "write", "leave"}
                 THEN lapses \cup {"crash"} ELSE lapses
    /\ UNCHANGED <<fileVars, dirVars, holds, ok, waitAge, beatAge>>

-----------------------------------------------------------------------------
(* A process that keeps time has nothing left to do before time passes: it  *)
(* takes a free lock directory at its next try, finishes an access, and     *)
(* begins a heartbeat that is due.                                          *)
Prompt(p) ==
    /\ step[p] \in {"none", "wait"}
    /\ step[p] = "wait" => lockDir # None /\ waitAge[p] < Patience
    /\ mode[p] = "live" /\ step[p] = "none" => beatAge[p] < HeartbeatEvery
    /\ mode[p] # "closing"

Punctual == \A p \in Procs : Prompt(p)

SlowStart == \E p \in Procs : mode[p] = "starting" /\ beatAge[p] >= StartWithin

Older(age, cap) == IF age < cap THEN age + 1 ELSE age

Tick ==
    /\ lapses' = lapses \cup {l \in {"stall"} : ~Punctual} \cup {l \in {"start"} : SlowStart}
    /\ hbAge' = Older(hbAge, OldAge)
    /\ lockAge' = Older(lockAge, OldAge)
    /\ waitAge' = [p \in Procs |-> Older(waitAge[p], Patience)]
    /\ beatAge' = [p \in Procs |-> Older(beatAge[p], OldBeat)]
    /\ UNCHANGED <<owner, lockDir, mode, step, holds, ok, conn>>

ProcStep(p) ==
    \/ MakeDir(p) \/ SeeStaleDir(p) \/ BreakDir(p) \/ GiveUp(p)
    \/ Read(p) \/ Write(p) \/ Leave(p)
    \/ Connected(p) \/ StartFails(p) \/ Beat(p) \/ Lost(p)

Next ==
    \/ \E p \in Procs : ProcStep(p) \/ Launch(p) \/ Stop(p) \/ Crash(p)
    \/ Tick

Spec == Init /\ [][Next]_vars

(* Time goes on, and so does every process, after however long a stall.     *)
FairSpec == Spec /\ WF_vars(Tick) /\ \A p \in Procs : WF_vars(ProcStep(p))

-----------------------------------------------------------------------------
AtMostOneConnection == \A p, q \in Procs : conn[p] /\ conn[q] => p = q

(* As long as every process has kept time, no two daemons are connected,    *)
(* whatever crashes between accesses, failed starts and stops there are.    *)
TimelyExclusion == lapses = {} => AtMostOneConnection

(* As long as every process has kept time, the record of a living owner is  *)
(* only removed by that owner, when it stops: neither a release nor an      *)
(* acquisition of another process takes it.                                 *)
RecordRespected ==
    [][lapses = {} /\ owner # None /\ Alive(owner) /\ owner' # owner
         => mode[owner] = "stopping"]_vars

(* Whatever stalls, crashes and slow starts have done, duplicate            *)
(* connections do not last once processes keep time again: the heartbeat of *)
(* the superseded process finds another token and gives up the connection.  *)
DuplicatesEnd ==
    <>[][Tick => Punctual]_vars => (~AtMostOneConnection ~> AtMostOneConnection)

(* "The daemon-side gateway lock still prevents duplicate live Feishu       *)
(* connections" (withDaemonSpawnLock), however long a start may take.       *)
SlowStartExclusion == lapses \subseteq {"start"} => AtMostOneConnection
=============================================================================
