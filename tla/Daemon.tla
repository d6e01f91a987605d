------------------------------- MODULE Daemon -------------------------------
(***************************************************************************)
(* The commands of /feishu in index.ts, and the daemons they start and     *)
(* stop: background Pi processes, of which the one that holds the gateway  *)
(* record is connected.                                                    *)
(*                                                                         *)
(* GatewayLock models how the record is kept; here it names its owner, and *)
(* every owner is punctual.  A daemon is one launch of the command line    *)
(* that daemonCommand builds; daemons are numbered.                        *)
(***************************************************************************)
EXTENDS Settings

VARIABLES
    dmn,         \* the state of each daemon
    owner,       \* the daemon in the record, or 0; it may be dead
    spawnLock,   \* the run that made the spawn lock's directory, or None
    result,      \* what a run has told its user
    since        \* history: what happened since a run began

daemonVars == <<dmn, owner, spawnLock, result, since>>
vars == <<settingsVars, daemonVars>>

(* Bound: a run launches one daemon.                                        *)
Daemons == 1 .. Cardinality(Run)

TypeOK ==
    /\ SettingsTypeOK
    /\ at \in [Run -> {"idle", "open", "fill", "asked", "lock", "check", "slept", "recheck", "reap",
                       "settle", "stopping", "done", "dead"}]
    /\ dmn \in [Daemons -> {"none", "shell", "boot", "idle", "starting", "connected", "dying", "dead"}]
    /\ owner \in Daemons \cup {0}
    /\ spawnLock \in Run \cup {None}
    /\ result \in [Run -> {"none", "started", "busy", "error", "stopped"}]
    /\ since \in [Run -> SUBSET (Lapses \cup {"start", "stop", "off"})]

Init ==
    /\ SettingsInit
    /\ dmn = [d \in Daemons |-> "none"] /\ owner = 0 /\ spawnLock = None
    /\ result = [r \in Run |-> "none"] /\ since = [r \in Run |-> {}]

-----------------------------------------------------------------------------
Begun(r) == at[r] # "idle"

(* Something happens that a command may suffer from; one that begins has    *)
(* the commands that are under way to deal with, and what happened to them. *)
Happens(events) ==
    since' = [r \in Run |-> IF Begun(r) THEN since[r] \cup events ELSE since[r]]

Starts(q) == at[q] \in {"lock", "check", "slept", "recheck", "reap", "settle"}
Stopping(q) ==
    \/ at[q] = "stopping"
    \/ at[q] = "dead" /\ cmd[q] \in {"stop", "restart", "reset"} /\ \E d \in Daemons : dmn[d] = "dying"

Begins(r, events) ==
    LET met == {e \in {"stop"} : \E q \in Run : Stopping(q)}
                 \cup UNION {since[q] \cup {"start"} : q \in {p \in Run : Starts(p)}} IN
    since' = [q \in Run |->
        IF q = r THEN met ELSE IF Begun(q) THEN since[q] \cup events ELSE since[q]]

Alive(d) == dmn[d] \notin {"none", "dead"}

(* Mutant of OwnerLives: a record counts whoever wrote it.                  *)
OwnerLivesAlways == owner # 0

(* readGatewayOwner: a record whose process is dead does not count.         *)
OwnerLives == owner # 0 /\ Alive(owner)

(* looksLikeFeishuDaemon finds Pi, and not the shell that will become it.   *)
Visible(d) == dmn[d] \in {"boot", "idle", "starting", "connected"}

(* SIGTERM ends a Pi that is loading; later it closes its connection first. *)
Terminate(ds) ==
    dmn' = [d \in Daemons |->
        IF d \notin ds THEN dmn[d] ELSE IF dmn[d] = "boot" THEN "dead" ELSE "dying"]

(* Mutant of Reaped: only the owner of the record is found.                 *)
ReapedOwner == {d \in Daemons : Visible(d) /\ d = owner}

(* reapDetachedDaemonProcesses.                                             *)
Reaped == {d \in Daemons : Visible(d)}

-----------------------------------------------------------------------------
(* startDaemon, for /feishu start, after setup, as part of a restart, and   *)
(* when Pi starts with autoStart on.                                        *)
Goto(r, place) == at' = [at EXCEPT ![r] = place]

BeginStart(r) ==
    /\ at[r] = "idle" /\ cmd[r] \in {"start", "boot"}
    /\ Goto(r, IF cmd[r] = "boot" /\ Loaded.there /\ ~Loaded.auto THEN "done" ELSE "lock")
    /\ Begins(r, {})
    /\ UNCHANGED <<fromEnv, fileVars, cmd, draft, wishVars, may, lapses, dmn, owner, spawnLock, result>>

(* withDaemonSpawnLock.  A lock whose run is gone is removed when it is     *)
(* 30 s old.                                                                *)
TakeSpawnLock(r) ==
    /\ at[r] = "lock"
    /\ \A q \in Run : spawnLock = q => at[q] = "dead"
    /\ spawnLock' = r
    /\ Goto(r, "check")
    /\ UNCHANGED <<fromEnv, fileVars, cmd, draft, wishVars, may, lapses, dmn, owner, result, since>>

(* After 40 tries, a second, it goes on without the lock, which a start     *)
(* keeps for longer than that.                                              *)
GiveUpSpawnLock(r) ==
    /\ at[r] = "lock"
    /\ spawnLock # None
    /\ Goto(r, "check")
    /\ UNCHANGED <<fromEnv, fileVars, cmd, draft, wishVars, may, lapses, dmn, owner, spawnLock, result, since>>

Finish(r, outcome) ==
    /\ Goto(r, "done")
    /\ result' = [result EXCEPT ![r] = outcome]
    /\ spawnLock' = IF spawnLock = r THEN None ELSE spawnLock

Takeover(r) == cmd[r] = "restart"

(* Without settings there is nothing to start; a living owner is left alone *)
(* or, for a restart, terminated.                                           *)
Check(r) ==
    /\ at[r] = "check"
    /\ \/ ~Loaded.there /\ Finish(r, "error") /\ UNCHANGED dmn
       \/ Loaded.there /\ OwnerLives /\ ~Takeover(r) /\ Finish(r, "busy") /\ UNCHANGED dmn
       \/ Loaded.there /\ OwnerLives /\ Takeover(r) /\ Terminate({owner}) /\ Goto(r, "slept")
          /\ UNCHANGED <<result, spawnLock>>
       \/ Loaded.there /\ ~OwnerLives /\ Goto(r, "recheck") /\ UNCHANGED <<dmn, result, spawnLock>>
    /\ UNCHANGED <<fromEnv, fileVars, cmd, draft, wishVars, may, lapses, owner, since>>

(* Something slow is not over when it should be.                            *)
Slow(what) == IF what THEN Note({"slow"}) ELSE UNCHANGED lapses

(* sleep(800) after a SIGTERM.                                              *)
Slept(r) ==
    /\ at[r] = "slept"
    /\ Goto(r, "recheck")
    /\ Slow(\E d \in Daemons : dmn[d] = "dying")
    /\ UNCHANGED <<fromEnv, fileVars, cmd, draft, wishVars, may, dmn, owner, spawnLock, result, since>>

Recheck(r) ==
    /\ at[r] = "recheck"
    /\ IF OwnerLives /\ ~Takeover(r) THEN Finish(r, "busy")
       ELSE Goto(r, "reap") /\ UNCHANGED <<result, spawnLock>>
    /\ UNCHANGED <<fromEnv, fileVars, cmd, draft, wishVars, may, lapses, dmn, owner, since>>

(* Every daemon that is found is terminated, and a new one launched.        *)
Launch(r) ==
    /\ at[r] = "reap"
    /\ \E n \in Daemons :
          /\ dmn[n] = "none" /\ \A d \in Daemons : dmn[d] = "none" => n <= d
          /\ dmn' = [d \in Daemons |-> IF d = n THEN "shell"
                                       ELSE IF d \notin Reaped THEN dmn[d]
                                       ELSE IF dmn[d] = "boot" THEN "dead" ELSE "dying"]
    /\ Goto(r, "settle")
    /\ Happens({"start"})
    /\ UNCHANGED <<fromEnv, fileVars, cmd, draft, wishVars, may, lapses, owner, spawnLock, result>>

(* sleep(1500), in which the shell becomes Pi and those terminated end.     *)
Settle(r) ==
    /\ at[r] = "settle"
    /\ Finish(r, "started")
    /\ Slow(\E d \in Daemons : dmn[d] \in {"shell", "dying"})
    /\ UNCHANGED <<fromEnv, fileVars, cmd, draft, wishVars, may, dmn, owner, since>>

-----------------------------------------------------------------------------
(* stopDaemon, for /feishu stop, restart and reset.                         *)
AfterStop(r) ==
    /\ Goto(r, IF cmd[r] = "restart" THEN "lock" ELSE "done")
    /\ result' = [result EXCEPT ![r] = IF cmd[r] = "restart" THEN "none" ELSE "stopped"]
    /\ IF cmd[r] = "reset"
       THEN /\ config' = NoConfig /\ torn' = torn \ {"config"} /\ draft' = Unlinked
            /\ intended' = (IF fromEnv THEN intended ELSE Defaults) /\ baked' = {}
       ELSE UNCHANGED <<config, torn, draft, intended, baked>>

(* A reset removes a file that another run may be writing.                  *)
Removes(r) == {l \in Race(r) : cmd[r] = "reset"}

BeginStop(r) ==
    /\ at[r] = "idle" /\ cmd[r] \in {"stop", "restart", "reset"}
    /\ Begins(r, {"stop"})
    /\ IF OwnerLives
       THEN /\ Terminate({owner}) /\ Goto(r, "stopping")
            /\ UNCHANGED <<config, torn, draft, intended, baked, lapses, result>>
       ELSE Terminate(Reaped) /\ AfterStop(r) /\ Note(Removes(r))
    /\ UNCHANGED <<fromEnv, overrides, cmd, want, may, owner, spawnLock>>

(* sleep(800), then the others.                                             *)
EndStop(r) ==
    /\ at[r] = "stopping"
    /\ Terminate(Reaped)
    /\ AfterStop(r)
    /\ Note({l \in {"slow"} : \E d \in Daemons : dmn[d] = "dying"} \cup Removes(r))
    /\ UNCHANGED <<fromEnv, overrides, cmd, want, may, owner, spawnLock, since>>

-----------------------------------------------------------------------------
(* A daemon.                                                                *)
Becomes(d, state) == dmn' = [dmn EXCEPT ![d] = state]

Exec(d) ==
    /\ dmn[d] = "shell" /\ Becomes(d, "boot")
    /\ UNCHANGED <<settingsVars, owner, spawnLock, result, since>>

(* A terminated daemon is gone before the next one has loaded, or is slow.  *)
Boot(d) ==
    /\ dmn[d] = "boot"
    /\ LET late == \E e \in Daemons : dmn[e] = "dying"
           off == ~Loaded.there \/ ~Loaded.auto IN
       /\ IF late THEN Note({"slow"}) ELSE UNCHANGED lapses
       /\ Happens({e \in {"off"} : off})
    /\ IF ~Loaded.there \/ (Loaded.auto /\ OwnerLives)
       THEN Becomes(d, "dead") /\ UNCHANGED owner
       ELSE IF Loaded.auto THEN Becomes(d, "starting") /\ owner' = d
       ELSE Becomes(d, "idle") /\ UNCHANGED owner
    /\ UNCHANGED <<fromEnv, fileVars, cmd, at, draft, wishVars, may, spawnLock, result>>

Connect(d) ==
    /\ dmn[d] = "starting" /\ Becomes(d, "connected")
    /\ UNCHANGED <<settingsVars, owner, spawnLock, result, since>>

Released(d) == IF owner = d THEN 0 ELSE owner

(* start() fails, releases the record, and the daemon exits.                *)
ConnectFails(d) ==
    /\ dmn[d] = "starting" /\ Becomes(d, "dead")
    /\ owner' = Released(d)
    /\ Note({"failed"}) /\ Happens({"failed"})
    /\ UNCHANGED <<fromEnv, fileVars, cmd, at, draft, wishVars, may, spawnLock, result>>

(* A terminated daemon ends, with or without releasing the record.          *)
End(d) ==
    /\ dmn[d] = "dying" /\ Becomes(d, "dead")
    /\ owner' \in {owner, Released(d)}
    /\ UNCHANGED <<settingsVars, spawnLock, result, since>>

Crash(d) ==
    /\ Visible(d) /\ Becomes(d, "dead")
    /\ Note({"crash"}) /\ Happens({"crash"})
    /\ UNCHANGED <<fromEnv, fileVars, cmd, at, draft, wishVars, may, owner, spawnLock, result>>

-----------------------------------------------------------------------------
RunStep(r) ==
    \/ SettingsStep(r) /\ UNCHANGED daemonVars
    \/ BeginStart(r) \/ TakeSpawnLock(r) \/ GiveUpSpawnLock(r) \/ Check(r) \/ Slept(r) \/ Recheck(r)
    \/ Launch(r) \/ Settle(r) \/ BeginStop(r) \/ EndStop(r)

DaemonStep(d) == Exec(d) \/ Boot(d) \/ Connect(d) \/ End(d)

UnderWay(r) == at[r] \notin {"idle", "done", "dead"}

Next ==
    \/ \E r \in Run : RunStep(r)
    \/ \E d \in Daemons : DaemonStep(d) \/ ConnectFails(d) \/ Crash(d)

Spec == Init /\ [][Next]_vars

(* Timers and processes go on; users need not give their commands.          *)
FairSpec ==
    /\ Spec
    /\ WF_vars(\E r \in Run : UnderWay(r) /\ RunStep(r))
    /\ WF_vars(\E d \in Daemons : DaemonStep(d))

-----------------------------------------------------------------------------
(* A setting is what it was last set to in Feishu or by the tool, through   *)
(* every setup, autostart and reset; once cleared it is that of setup or    *)
(* the environment, unless autostart was switched while it was set; unless  *)
(* two processes write at once or one dies while it writes.                 *)
SettingsHold ==
    Loaded.there /\ torn = {} /\ lapses \cap {"race", "dies"} = {} => \A k \in Key :
        IF want[k] # None THEN Loaded.value[k] = want[k]
        ELSE k \in baked \/ Loaded.value[k] = intended[k]

(* A stop ends every daemon that was launched before, also one that has no  *)
(* record yet, unless a start was under way, Pi was closed during one, or   *)
(* the launch was slow.                                                     *)
StopReaches ==
    \A r \in Run :
        /\ cmd[r] \in {"stop", "reset"} /\ at[r] = "done"
        /\ "start" \notin since[r] /\ lapses \cap {"slow", "dies"} = {}
        => \A d \in Daemons : ~Visible(d) /\ dmn[d] # "shell"

(* Who was told that the connection is started, or runs already, has in the *)
(* end one daemon, and that one connected, however many starts were made at *)
(* once; unless the daemon was stopped since, crashed, failed to connect,   *)
(* took too long to start or to end, or found autostart off.                *)
Excused(r) ==
    \/ since[r] \cap {"stop", "crash", "failed", "off"} # {}
    \/ "slow" \in lapses
    \/ \E q \in Run : cmd[q] = "restart" /\ at[q] = "dead"

Only(d) == dmn[d] = "connected" /\ \A e \in Daemons \ {d} : ~Alive(e)

StartConnects ==
    \A r \in Run : result[r] \in {"started", "busy"} ~> Excused(r) \/ \E d \in Daemons : Only(d)

-----------------------------------------------------------------------------
(* What texts of the repository say and the code does not do.               *)

(* "Clear one runtime override key or all overrides (reverts to env/base    *)
(* config)": the settings as they were set up, or are in the environment.   *)
ClearReverts ==
    Loaded.there /\ torn = {} /\ lapses \cap {"race", "dies"} = {} =>
        \A k \in Key : want[k] = None => Loaded.value[k] = intended[k]
=============================================================================
